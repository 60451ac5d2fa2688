-------------------------- MODULE DiscussionResponses --------------------------
(***************************************************************************)
(* The responses under an opened post (discussion_thread_view.js,          *)
(* thread_response_view.js): loaded in pages that skip as many as the      *)
(* view's collection holds, written, commented and deleted meanwhile.      *)
(* The posts are opened one after the other in the same element, and what  *)
(* was asked for an earlier one still comes.                               *)
(***************************************************************************)
EXTENDS Integers, Sequences, FiniteSets, SequencesExt

CONSTANTS Threads, Start,        \* Start[t]: the responses it has, by number, oldest first
          InitialSize, NextSize, \* INITIAL_ and SUBSEQUENT_RESPONSE_PAGE_SIZE
          Ids, NextId,           \* bound: the responses there may be; the first to be written
          MaxViews, MaxChanges   \* bounds: posts opened; responses, comments, deletions

VARIABLE resp

NoButton == [view |-> 0, limit |-> 0]
--------------------------------------------------------------------------------
Smaller(a, b) == IF a < b THEN a ELSE b
\* What the service answers with; no limit is 0.
Page(seq, skip, limit) ==
    ToSet(SubSeq(seq, skip + 1, IF limit = 0 THEN Len(seq) ELSE Smaller(skip + limit, Len(seq))))

loadResponses_SkipsShown(r, v, limit) ==
    [r EXCEPT !.loads = @ \cup {[view |-> v, skip |-> Cardinality(r.page),
                                 limit |-> limit, status |-> "sent", ids |-> {}, total |-> 0,
                                 replies |-> r.replies]}]
\* As many are skipped as the collection holds.
loadResponses(r, v, limit) ==
    [r EXCEPT !.loads = @ \cup {[view |-> v, skip |-> Cardinality(r.views[v].loaded),
                                 limit |-> limit, status |-> "sent", ids |-> {}, total |-> 0,
                                 replies |-> r.replies]}]

\* A view is made in the one element of the page, and loads.
navigateToThread(r, t) ==
    LET v == Len(r.views) + 1
        now == [r EXCEPT !.views = Append(@, [thread |-> t, loaded |-> {}, known |-> r.replies,
                                              deleted |-> {}]),
                         !.open = v, !.page = {}, !.button = NoButton]
    IN  loadResponses(now, v, InitialSize)

\* The element is emptied; nothing that was asked is given up.
navigateToAllPosts(r) ==
    [r EXCEPT !.open = 0, !.page = {}, !.button = NoButton,
              !.left = @ \/ \E l \in r.loads : l.view = r.open]

renderResponseToList(r, v, ids, by) ==
    IF r.open = 0 THEN r
    ELSE [r EXCEPT !.page = @ \cup [id : ids, view : {v}, by : {by}]]

renderResponseCountAndPagination(r, v, total) ==
    LET remaining == total - Cardinality(r.views[v].loaded)
    IN  IF r.open = 0 THEN r
        ELSE [r EXCEPT !.button = IF total > 0 /\ remaining > 0
                                  THEN [view |-> v,
                                        limit |-> IF remaining < NextSize THEN 0 ELSE NextSize]
                                  ELSE NoButton]

\* The collection adds what it has not, and only that is drawn.
success(r, l) ==
    LET fresh == l.ids \ r.views[l.view].loaded
        now == [r EXCEPT !.views[l.view].loaded = @ \cup fresh,
                         !.views[l.view].known = [i \in DOMAIN @ |-> IF i \in fresh THEN l.replies[i]
                                                                      ELSE @[i]]]
    IN  renderResponseCountAndPagination(renderResponseToList(now, l.view, fresh, "load"),
                                         l.view, l.total)

addComment(r, t) == [r EXCEPT !.count[t] = @ + 1]
\* A response is taken from the count with the comments that came with it.
removeComment_Alone(r, t, comments) == [r EXCEPT !.count[t] = @ - 1]
removeComment(r, t, comments) == [r EXCEPT !.count[t] = @ - 1 - comments]

Opened(r) == r.views[r.open]
send(r, kind, id, t, v) ==
    [r EXCEPT !.requests = @ \cup {[kind |-> kind, id |-> id, thread |-> t, view |-> v]},
              !.changes = @ + 1]

\* The response is shown and counted before it is sent, and is not in the collection.
submitResponse(r) ==
    LET id == r.next
        shown == addComment(renderResponseToList(r, r.open, {id}, "post"), Opened(r).thread)
    IN  send([shown EXCEPT !.next = @ + 1], "post", id, Opened(r).thread, r.open)
submitReply(r, e) ==
    LET t == r.views[e.view].thread
    IN  send(addComment(r, t), "reply", e.id, t, e.view)

\* The comments its model knows of: not those written since it was drawn.
Known(r, e) == IF e.by = "load" THEN r.views[e.view].known[e.id] ELSE 0
_delete(r, e) ==
    LET t == r.views[e.view].thread
        unclear == \/ r.replies[e.id] # Known(r, e)
                   \/ \E q \in r.requests : q.id = e.id
                   \/ \E d \in r.page \ {e} : d.id = e.id
    IN  send([removeComment(r, t, Known(r, e)) EXCEPT
                !.page = @ \ {e}, !.views[e.view].deleted = @ \cup {e.id},
                !.miscounted = @ \/ unclear], "delete", e.id, t, e.view)
--------------------------------------------------------------------------------
Room == resp.changes < MaxChanges
Written == {q \in resp.requests : q.kind = "post"}
Init ==
    resp = [server |-> Start, replies |-> [i \in Ids |-> 0], next |-> NextId,
            count |-> [t \in Threads |-> Len(Start[t])], views |-> <<>>, open |-> 0, page |-> {},
            button |-> NoButton, loads |-> {}, requests |-> {},
            left |-> FALSE, failed |-> FALSE, miscounted |-> FALSE,
            changes |-> 0]

NavigateToThread ==
    /\ resp.open = 0 /\ Len(resp.views) < MaxViews
    /\ \E t \in Threads : resp' = navigateToThread(resp, t)
NavigateToAllPosts == resp.open # 0 /\ resp' = navigateToAllPosts(resp)
\* The button is disabled until what it asked for has come.
LoadMore ==
    /\ resp.button # NoButton /\ ~\E l \in resp.loads : l.view = resp.button.view
    /\ resp' = loadResponses(resp, resp.button.view, resp.button.limit)
SubmitResponse ==
    /\ Room /\ resp.open # 0 /\ resp.next \in Ids
    /\ ~\E q \in Written : q.view = resp.open
    /\ resp' = submitResponse(resp)
SubmitReply ==
    /\ Room
    /\ \E e \in resp.page :
        /\ resp.replies[e.id] = 0 /\ ~\E q \in resp.requests : q.id = e.id
        /\ resp' = submitReply(resp, e)
\* A response can be deleted when the service has said so, with what it is.
Delete ==
    /\ Room
    /\ \E e \in resp.page :
        /\ e.by = "post" => e.id \in ToSet(resp.server[resp.views[e.view].thread])
        /\ ~\E q \in resp.requests : q.id = e.id
        /\ resp' = _delete(resp, e)

\* The service reads its list; the answer comes later, or never.
LoadServed(l) ==
    /\ l.status = "sent"
    /\ LET seq == resp.server[resp.views[l.view].thread]
       IN  resp' = [resp EXCEPT
                      !.loads = (@ \ {l}) \cup {[l EXCEPT !.status = "served", !.total = Len(seq),
                                                 !.ids = Page(seq, l.skip, l.limit),
                                                 !.replies = resp.replies]}]
LoadArrives(l) ==
    l.status = "served" /\ resp' = success([resp EXCEPT !.loads = @ \ {l}], l)
LoadFails(l) == resp' = [resp EXCEPT !.loads = @ \ {l}, !.failed = TRUE]

Served(q) ==
    LET here == resp.open # 0 /\ Opened(resp).thread = q.thread
        now == [resp EXCEPT !.requests = @ \ {q}]
    IN  \/ /\ q.kind = "post"
           /\ resp' = [now EXCEPT !.server[q.thread] = Append(@, q.id)]
        \/ /\ q.kind = "reply" /\ q.id \in ToSet(resp.server[q.thread])
           /\ resp' = [now EXCEPT !.replies[q.id] = @ + 1]
        \/ /\ q.kind = "delete" /\ q.id \in ToSet(resp.server[q.thread])
           /\ resp' = [now EXCEPT
                          !.server[q.thread] = SelectSeq(@, LAMBDA i : i # q.id),
                          !.replies[q.id] = 0,
                          !.views = [v \in DOMAIN @ |->
                              IF here /\ v = resp.open THEN [@[v] EXCEPT !.deleted = @ \cup {q.id}]
                                                      ELSE @[v]]]
Refused(q) == resp' = [resp EXCEPT !.requests = @ \ {q}, !.failed = TRUE]

Next ==
    \/ NavigateToThread \/ NavigateToAllPosts \/ LoadMore
    \/ SubmitResponse \/ SubmitReply \/ Delete
    \/ \E l \in resp.loads : LoadServed(l)
    \/ \E l \in resp.loads : LoadArrives(l)
    \/ \E l \in resp.loads : LoadFails(l)
    \/ \E q \in resp.requests : Served(q)
    \/ \E q \in resp.requests : Refused(q)

Spec == Init /\ [][Next]_resp
--------------------------------------------------------------------------------
TypeOK == /\ resp.open \in 0 .. MaxViews /\ resp.count \in [Threads -> Int]
          /\ resp.page \subseteq [id : Ids, view : 1 .. MaxViews, by : {"load", "post"}]
          /\ resp.button \in [view : 0 .. MaxViews, limit : {0, NextSize}]

(***************************************************************************)
(* Nothing is skipped: of the responses before one that was loaded, only   *)
(* as many are not shown as were deleted meanwhile (a deleted response     *)
(* leaves the page and the service's list, but not the collection whose    *)
(* size the next page skips).  Unless another post was left while it was   *)
(* loading, whose responses come into this one.                            *)
(***************************************************************************)
NothingSkipped ==
    resp.open # 0 /\ ~resp.left
        => LET seq == resp.server[Opened(resp).thread]
               before == {i \in DOMAIN seq : \E j \in i .. Len(seq) : seq[j] \in Opened(resp).loaded}
               skipped == {seq[i] : i \in before} \ {e.id : e \in resp.page}
           IN  Cardinality(skipped) <= Cardinality(Opened(resp).deleted)

(***************************************************************************)
(* The count the list of posts shows is the number of responses and        *)
(* comments there are, when all was answered; unless something failed (no  *)
(* count is taken back), or a response was deleted whose comments were     *)
(* written since it was loaded, or that was there twice.                   *)
(***************************************************************************)
CountAgrees ==
    resp.requests = {} /\ ~resp.failed /\ ~resp.miscounted
        => \A t \in Threads :
               resp.count[t] = Len(resp.server[t])
                             + Cardinality({i \in ToSet(resp.server[t]) : resp.replies[i] = 1})
================================================================================
