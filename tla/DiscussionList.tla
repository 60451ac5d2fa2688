---------------------------- MODULE DiscussionList -----------------------------
(***************************************************************************)
(* The list of posts (discussion_thread_list_view.js, discussion.js): a    *)
(* collection that grows by pages, the one displayed, and three controls   *)
(* that start it again.  Nothing keeps two requests from crossing: the     *)
(* button for more is taken away, the controls are not.                    *)
(***************************************************************************)
EXTENDS Integers, Sequences, FiniteSets, SequencesExt

CONSTANTS Old, New,               \* the posts there are, the posts to be made
          Pinned, Rank,           \* Rank[sort][post]: the higher comes first
          Filters, Groups, In,    \* In[filter or group]: the posts in it
          PageSize,               \* the service's
          MaxRequests             \* bound: requests of a behaviour

VARIABLE list

Sorts == DOMAIN Rank
Default == [filter |-> "all", group |-> "all", sort |-> "activity"]
--------------------------------------------------------------------------------
before_IgnoresPins(sort, s, t) == Rank[sort][s] > Rank[sort][t]
\* The comparators: pinned first, then by date or by count.
before(sort, s, t) ==
    IF (s \in Pinned) # (t \in Pinned) THEN s \in Pinned ELSE Rank[sort][s] > Rank[sort][t]

\* The service's order, which the page is to show.
Ordered(sort, posts) ==
    SetToSortSeq(posts, LAMBDA s, t : \/ s \in Pinned /\ t \notin Pinned
                                      \/ /\ (s \in Pinned) = (t \in Pinned)
                                         /\ Rank[sort][s] > Rank[sort][t])
Asked(server, o) == server \cap In[o.filter] \cap In[o.group]
PageOf(server, o, page) ==
    LET all == Ordered(o.sort, Asked(server, o))
        last == IF page * PageSize < Len(all) THEN page * PageSize ELSE Len(all)
    IN  [page |-> page, pages |-> 1 + ((Len(all) - 1) \div PageSize),
         threads |-> SubSeq(all, 1 + (page - 1) * PageSize, last)]

hasMorePages(l) == l.current_page < l.pages

\* Collection "reset": the displayed one is sorted, if a sort was chosen, and rendered.
reset(l, threads) ==
    LET sorted == IF l.comparator = "none" THEN threads
                  ELSE SetToSortSeq(ToSet(threads), LAMBDA s, t : before(l.comparator, s, t))
    IN  [l EXCEPT !.collection = threads, !.displayed = sorted, !.more = hasMorePages(l)]

request(l, kind, page) ==
    [l EXCEPT !.requests = @ \cup {[nr |-> l.sent, kind |-> kind, page |-> page,
                                    options |-> IF kind = "page" THEN l.options ELSE Default]},
              !.sent = @ + 1, !.crossed = @ \/ l.requests # {}]
retrieveAnotherPage(l) == request(l, "page", l.current_page + 1)
loadMorePages(l) == retrieveAnotherPage([l EXCEPT !.more = FALSE])
retrieveFirstPage_KeepsPage(l) == loadMorePages([l EXCEPT !.collection = <<>>])
retrieveFirstPage(l) == loadMorePages([l EXCEPT !.current_page = 0, !.collection = <<>>])

chooseFilter(l, f) == retrieveFirstPage([l EXCEPT !.options.filter = f])
chooseGroup(l, g) == retrieveFirstPage([l EXCEPT !.options.group = g])
sortThreads(l, s) == retrieveFirstPage([l EXCEPT !.options.sort = s, !.comparator = s])

\* The first page of the topic is asked for, whatever the controls say.
retrieveDiscussion(l) == request(l, "discussion", 1)
addAndSelectThread(l, t) ==
    retrieveDiscussion([l EXCEPT !.collection = Append(@, t), !.crossed = @ \/ l.options # Default])

\* A page joins what the collection has now, each post once.
success(l, r, answer) ==
    LET had == IF r.kind = "page" THEN l.collection ELSE <<>>
        fresh == SelectSeq(answer.threads, LAMBDA t : t \notin ToSet(had))
    IN  reset([l EXCEPT !.pages = answer.pages, !.current_page = answer.page], had \o fresh)

\* The old list is shown again.
renderThreads(l) == [l EXCEPT !.more = hasMorePages(l)]

threadRemoved(l, t) ==
    LET others(seq) == SelectSeq(seq, LAMBDA s : s # t)
    IN  renderThreads([l EXCEPT !.collection = others(@), !.displayed = others(@)])
--------------------------------------------------------------------------------
Init ==
    LET first == PageOf(Old, Default, 1)
    IN  list = [collection |-> first.threads, displayed |-> first.threads, comparator |-> "none",
                current_page |-> 1, pages |-> first.pages, more |-> first.pages > 1,
                options |-> Default, requests |-> {}, sent |-> 0, server |-> Old,
                crossed |-> FALSE, failed |-> FALSE, removed |-> {}]

Room == list.sent < MaxRequests
LoadMore == Room /\ list.more /\ list' = loadMorePages(list)
ChooseFilter == Room /\ \E f \in Filters \ {list.options.filter} : list' = chooseFilter(list, f)
ChooseGroup == Room /\ \E g \in Groups \ {list.options.group} : list' = chooseGroup(list, g)
SortThreads == Room /\ \E s \in Sorts \ {list.options.sort} : list' = sortThreads(list, s)

\* The form's post is kept by the service before it is added here.
PostCreated ==
    /\ Room
    /\ \E t \in New \ (list.server \cup list.removed) :
           list' = addAndSelectThread([list EXCEPT !.server = @ \cup {t}], t)
\* A post that is opened from the list is deleted.
ThreadRemoved ==
    \E t \in ToSet(list.displayed) :
        /\ list.removed = {}
        /\ list' = threadRemoved([list EXCEPT !.server = @ \ {t}, !.removed = @ \cup {t}], t)

Arrives(r) ==
    list' = success([list EXCEPT !.requests = @ \ {r}, !.failed = @ /\ r.page # 1], r,
                    PageOf(list.server, r.options, r.page))
\* Only what the controls asked for says so; the other says it could not be processed.
Fails(r) ==
    LET now == [list EXCEPT !.requests = @ \ {r}, !.failed = @ \/ r.page = 1,
                             !.crossed = @ \/ r.kind = "discussion"]
    IN  list' = IF r.kind = "page" THEN renderThreads(now) ELSE now

Next ==
    \/ LoadMore \/ ChooseFilter \/ ChooseGroup \/ SortThreads \/ PostCreated \/ ThreadRemoved
    \/ \E r \in list.requests : Arrives(r)
    \/ \E r \in list.requests : Fails(r)

Spec == Init /\ [][Next]_list
--------------------------------------------------------------------------------
TypeOK == /\ list.options \in [filter : Filters, group : Groups, sort : Sorts]
          /\ Cardinality(ToSet(list.displayed)) = Len(list.displayed)

Quiet == list.requests = {} /\ ~list.crossed /\ ~list.failed

(***************************************************************************)
(* What the controls ask for is what is listed, in their order, unless two *)
(* requests crossed (a new post asks for the whole topic, and stays   *)
(* between the pages when that fails) or the last first page failed: then  *)
(* the list is the old one, under the new controls.                        *)
(***************************************************************************)
ListIsAsAsked ==
    Quiet => /\ ToSet(list.displayed) \subseteq Asked(list.server, list.options)
             /\ list.displayed = Ordered(list.options.sort, ToSet(list.displayed))

(***************************************************************************)
(* When no more pages are offered, all are listed, but for as many as were *)
(* deleted since: the pages are numbered, and a deletion moves them.       *)
(***************************************************************************)
AllAreListed ==
    Quiet /\ ~list.more
        => Cardinality(Asked(list.server, list.options) \ ToSet(list.displayed))
             <= Cardinality(list.removed)
================================================================================
