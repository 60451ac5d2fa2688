--------------------------- MODULE DiscussionActions ---------------------------
(***************************************************************************)
(* The buttons of a question and of its responses                          *)
(* (discussion_content_view.js): follow, pin, close, report, mark as       *)
(* answer, vote.  A click changes the model at once and sends a request;   *)
(* DiscussionUtil.updateWithUndo takes the change back when it fails.  The *)
(* button is disabled meanwhile, but a response is drawn anew whenever its *)
(* model changes, with a button that is not.                               *)
(***************************************************************************)
EXTENDS Integers, FiniteSets

CONSTANTS Thread, Responses,
          MaxClicks, MaxKinds   \* bounds: clicks of a behaviour, and kinds of button clicked

VARIABLE act

Contents == {Thread} \cup Responses
ThreadKinds == {"subscribed", "pinned", "closed", "abuse_flaggers"}
Kinds == ThreadKinds \cup {"endorsed", "upvoted_ids"}
\* The buttons of a content.
KindsOf(c) ==
    {"upvoted_ids"} \cup IF c = Thread THEN ThreadKinds ELSE {"abuse_flaggers", "endorsed"}

Pending(a, c, k) == {q \in a.requests : q.kind = k /\ (q.of = c \/ k = "upvoted_ids")}
Newer(r, q) == q.of = r.of /\ q.kind = r.kind /\ q.nr > r.nr
--------------------------------------------------------------------------------
(***************************************************************************)
(* ThreadResponseShowView.render, on any change of its model: every button *)
(* is a new element, and shows what the model, or the user's list of       *)
(* votes, says now.  A post draws only what changed.                       *)
(***************************************************************************)
drawVote(a, c) == [a EXCEPT !.pressed = (@ \ {c}) \cup (a.shown["upvoted_ids"] \cap {c})]
render(a, c) ==
    [drawVote(a, c) EXCEPT
        !.requests = {IF q.of = c THEN [q EXCEPT !.live = FALSE] ELSE q : q \in @}]

\* The class the answer's button has on the page; endorseThread reads the page.
endorseThread(a, checked) == [a EXCEPT !.endorsed = checked # {}]

\* model.set: "change:endorsed" is heard before "change" draws the response.
change(a, c, k, on) ==
    LET now == [a EXCEPT !.shown[k] = on]
        told == IF k = "endorsed" THEN endorseThread(now, a.shown[k]) ELSE now
    IN  IF a.shown[k] = on \/ k = "upvoted_ids" \/ c = Thread THEN now ELSE render(told, c)

\* The answer is the browser's; while a button is disabled it is not clicked.
Enabled(a, c, k) == ~\E q \in a.requests : q.of = c /\ q.kind = k /\ q.live

updateWithUndo(a, c, k, on) ==
    LET now == change(a, c, k, on)
        crossing == {[q EXCEPT !.crossed = TRUE] : q \in Pending(now, c, k)}
    IN  [now EXCEPT
           !.requests = (@ \ Pending(now, c, k)) \cup crossing \cup
                            {[nr |-> a.sent, of |-> c, kind |-> k, on |-> c \in on,
                              undo |-> a.shown[k], live |-> k = "upvoted_ids" \/ c = Thread,
                              status |-> "sent", crossed |-> crossing # {}]},
           !.sent = @ + 1, !.used = @ \cup {k}]

Flipped(a, c, k) == IF c \in a.shown[k] THEN a.shown[k] \ {c} ELSE a.shown[k] \cup {c}

toggleFollow(a) == updateWithUndo(a, Thread, "subscribed", Flipped(a, Thread, "subscribed"))
togglePin(a) == updateWithUndo(a, Thread, "pinned", Flipped(a, Thread, "pinned"))
toggleClose(a) == updateWithUndo(a, Thread, "closed", Flipped(a, Thread, "closed"))
toggleReport(a, c) == updateWithUndo(a, c, "abuse_flaggers", Flipped(a, c, "abuse_flaggers"))
toggleVote(a, c) == updateWithUndo(a, c, "upvoted_ids", Flipped(a, c, "upvoted_ids"))
\* The view tells of it once more when the response has been drawn.
toggleEndorse(a, c) ==
    LET now == updateWithUndo(a, c, "endorsed", Flipped(a, c, "endorsed"))
    IN  endorseThread(now, now.shown["endorsed"])

incrementVote_NotDrawn(a, c, increment) == [a EXCEPT !.up_count[c] = @ + increment]
incrementVote(a, c, increment) ==
    LET now == [a EXCEPT !.up_count[c] = @ + increment]
    IN  IF c = Thread THEN drawVote(now, c) ELSE render(now, c)
--------------------------------------------------------------------------------
Init ==
    \E voted \in {{}, Responses}, answers \in {{}, Responses} :
        LET held == [k \in Kinds |-> CASE k = "upvoted_ids" -> voted [] k = "endorsed" -> answers
                                      [] OTHER -> {}]
        IN  act = [shown |-> held, held |-> held, pressed |-> held["upvoted_ids"],
                   up_count |-> [c \in Contents |-> IF c \in held["upvoted_ids"] THEN 1 ELSE 0],
                   endorsed |-> held["endorsed"] # {}, requests |-> {}, sent |-> 0, used |-> {},
                   reopened |-> FALSE, spoiled |-> {}, failed |-> {}, lost |-> {}]

Click(c, k) ==
    /\ k \in KindsOf(c) /\ Enabled(act, c, k)
    /\ act.sent < MaxClicks /\ Cardinality(act.used \cup {k}) <= MaxKinds

ToggleFollow == Click(Thread, "subscribed") /\ act' = toggleFollow(act)
TogglePin == Click(Thread, "pinned") /\ act' = togglePin(act)
ToggleClose == Click(Thread, "closed") /\ act' = toggleClose(act)
ToggleReport == \E c \in Contents : Click(c, "abuse_flaggers") /\ act' = toggleReport(act, c)
ToggleVote == \E c \in Contents : Click(c, "upvoted_ids") /\ act' = toggleVote(act, c)
ToggleEndorse == \E c \in Responses : Click(c, "endorsed") /\ act' = toggleEndorse(act, c)

\* The post was edited, or the edit given up: closeEditView makes its show view anew.
CloseEditView ==
    /\ \E q \in act.requests : q.of = Thread /\ q.live
    /\ act' = [render(act, Thread) EXCEPT !.reopened = TRUE]

Buttons(r) == {<<c, r.kind>> : c \in IF r.kind = "upvoted_ids" THEN Contents ELSE {r.of}}

\* The service may see two requests in another order than they were sent in.
Served(r) ==
    /\ r.status = "sent"
    /\ act' = [act EXCEPT
                 !.held[r.kind] = IF r.on THEN @ \cup {r.of} ELSE @ \ {r.of},
                 !.requests = (@ \ {r}) \cup {[r EXCEPT !.status = "served"]},
                 !.spoiled = @ \cup IF \E q \in act.requests : Newer(q, r) /\ q.status = "sent"
                                    THEN Buttons(r) ELSE {}]

Succeeds(r) ==
    /\ r.status = "served"
    /\ LET a == [act EXCEPT !.requests = @ \ {r}]
       IN  act' = IF r.kind = "upvoted_ids" THEN incrementVote(a, r.of, IF r.on THEN 1 ELSE -1)
                                            ELSE a

undone_Forgotten(a, r) == a
undone(a, r) ==
    change(a, r.of, r.kind,
           IF r.kind = "upvoted_ids" THEN r.undo
           ELSE (a.shown[r.kind] \ {r.of}) \cup (r.undo \cap {r.of}))

\* It is refused, or it is served and the answer is lost.
Fails(r) ==
    act' = undone([act EXCEPT
                     !.requests = @ \ {r}, !.failed = @ \cup {r.kind},
                     !.spoiled = @ \cup IF r.crossed THEN Buttons(r) ELSE {},
                     !.lost = @ \cup IF r.status = "served" THEN Buttons(r) ELSE {}], r)

Next ==
    \/ ToggleFollow \/ TogglePin \/ ToggleClose \/ ToggleReport \/ ToggleVote \/ ToggleEndorse
    \/ CloseEditView
    \/ \E r \in act.requests : Served(r)
    \/ \E r \in act.requests : Succeeds(r)
    \/ \E r \in act.requests : Fails(r)

Spec == Init /\ [][Next]_act
--------------------------------------------------------------------------------
TypeOK == /\ act.shown \in [Kinds -> SUBSET Contents] /\ act.held \in [Kinds -> SUBSET Contents]
          /\ act.pressed \subseteq Contents /\ act.up_count \in [Contents -> Int]

(***************************************************************************)
(* When a button has been answered, what the page says is what the service *)
(* keeps, whatever failed; unless a lost answer hid what the service did,  *)
(* or two requests of one button (any two votes) crossed and one of them   *)
(* failed or overtook the other.                                           *)
(***************************************************************************)
ShownIsKept ==
    \A c \in Contents : \A k \in KindsOf(c) :
        Pending(act, c, k) = {} /\ <<c, k>> \notin act.spoiled \cup act.lost
            => (c \in act.shown[k]) = (c \in act.held[k])

\* A button of the post is sent again only after the post was drawn anew.
OneAtATime ==
    \A q, r \in act.requests :
        q.of = Thread /\ Newer(q, r) => act.reopened

(***************************************************************************)
(* A question is marked as answered if and only if a response is, unless a *)
(* request failed: then the post is told before the page is corrected.     *)
(***************************************************************************)
AnsweredHasAnswer ==
    "endorsed" \notin act.failed => act.endorsed = (act.shown["endorsed"] # {})

\* The number shown counts what the service counted, and the button follows the list.
VotesAreCounted ==
    \A c \in Contents :
        /\ Pending(act, c, "upvoted_ids") = {} /\ <<c, "upvoted_ids">> \notin act.spoiled \cup act.lost
             => act.up_count[c] = IF c \in act.held["upvoted_ids"] THEN 1 ELSE 0
        /\ "upvoted_ids" \notin act.failed /\ Pending(act, c, "upvoted_ids") = {}
             => (c \in act.pressed) = (c \in act.shown["upvoted_ids"])
================================================================================
