--------------------------- MODULE DiscussionEditing ---------------------------
(***************************************************************************)
(* Editing in an opened post: the post itself, a response, its comments    *)
(* (discussion_thread_view.js, thread_response_view.js,                    *)
(* response_comment_view.js and their edit views).  An editor takes the    *)
(* place of what it edits, the form for a comment is hidden meanwhile, and *)
(* a save that was given up may still succeed.                             *)
(***************************************************************************)
EXTENDS Integers, FiniteSets

CONSTANTS Comments,
          MaxSaves              \* bound: saves sent

VARIABLE edit

Editors == {"post", "response"} \cup Comments
\* The editors that share the response with the form for a comment.
Open(e) == e.editors \ {"post"}
--------------------------------------------------------------------------------
hideCommentForm(e) == [e EXCEPT !.form = FALSE]
showCommentForm(e) == [e EXCEPT !.form = TRUE]

\* Each comment's view tells that it is cancelled, whether it was open or not.
cancelCommentEdits(e) == showCommentForm([e EXCEPT !.editors = @ \ Comments])

ThreadResponseView_cancelEdit(e) == showCommentForm([e EXCEPT !.editors = @ \ {"response"}])
ThreadResponseView_edit(e) ==
    hideCommentForm(cancelCommentEdits([e EXCEPT !.editors = @ \cup {"response"}, !.made = TRUE]))

ResponseCommentView_cancelEdit(e, c) == showCommentForm([e EXCEPT !.editors = @ \ {c}])
\* The response's editor is made once and kept: from then on it is cancelled by every such edit.
ResponseCommentView_edit(e, c) ==
    LET now == IF e.made THEN ThreadResponseView_cancelEdit(e) ELSE e
    IN  [hideCommentForm(cancelCommentEdits(now)) EXCEPT !.editors = @ \cup {c}]

createEditView_KeepsHandlers(e) == [e EXCEPT !.editors = @ \cup {"post"}]
\* The last show view of the post gives its handlers up; a new one takes them.
createEditView(e) == [e EXCEPT !.editors = @ \cup {"post"}, !.handlers = @ - 1]
closeEditView(e) == [e EXCEPT !.editors = @ \ {"post"}, !.handlers = @ + 1]

update(e, x) == [e EXCEPT !.saves = @ \cup {[of |-> x, late |-> FALSE]}, !.sent = @ + 1]
\* What is cancelled while it is being saved.
givenUp(e, closed) ==
    [e EXCEPT !.saves = {IF s.of \in closed THEN [s EXCEPT !.late = TRUE] ELSE s : s \in @}]

success(e, s) ==
    LET now == [e EXCEPT !.saves = @ \ {s}, !.overtaken = @ \/ s.late]
    IN  CASE s.of = "post" -> closeEditView(now)
          [] s.of = "response" -> ThreadResponseView_cancelEdit(now)
          [] OTHER -> ResponseCommentView_cancelEdit(now, s.of)

\* The response's model changed (a vote was counted, a change taken back): its show view
\* renders, over the editor if that is in its place.
render(e) == [e EXCEPT !.editors = @ \ {"response"}, !.wiped = @ \/ "response" \in e.editors]
--------------------------------------------------------------------------------
Init == \E closed \in BOOLEAN :
            edit = [editors |-> {}, form |-> ~closed, closed |-> closed, made |-> FALSE,
                    handlers |-> 1, saves |-> {}, sent |-> 0, overtaken |-> FALSE, wiped |-> FALSE]

\* What closed other editors closed them before they were saved.
Closing(now) == givenUp(now, edit.editors \ now.editors)

EditPost == "post" \notin edit.editors /\ edit' = createEditView(edit)
EditResponse == "response" \notin edit.editors /\ edit' = Closing(ThreadResponseView_edit(edit))
EditComment ==
    \E c \in Comments \ edit.editors : edit' = Closing(ResponseCommentView_edit(edit, c))
CancelPost == "post" \in edit.editors /\ edit' = Closing(closeEditView(edit))
CancelResponse ==
    "response" \in edit.editors /\ edit' = Closing(ThreadResponseView_cancelEdit(edit))
CancelComment ==
    \E c \in Comments \cap edit.editors : edit' = Closing(ResponseCommentView_cancelEdit(edit, c))
\* A save's button is disabled until it is answered.
Save ==
    \E x \in edit.editors :
        /\ edit.sent < MaxSaves /\ [of |-> x, late |-> FALSE] \notin edit.saves
        /\ edit' = update(edit, x)
SaveSucceeds(s) == edit' = success(edit, s)
SaveFails(s) == edit' = [edit EXCEPT !.saves = @ \ {s}]
ResponseChanges == edit' = Closing(render(edit))

Next ==
    \/ EditPost \/ EditResponse \/ EditComment \/ CancelPost \/ CancelResponse \/ CancelComment
    \/ Save \/ ResponseChanges
    \/ \E s \in edit.saves : SaveSucceeds(s)
    \/ \E s \in edit.saves : SaveFails(s)

Spec == Init /\ [][Next]_edit
--------------------------------------------------------------------------------
TypeOK == edit.editors \subseteq Editors /\ edit.handlers \in Int

\* At most one editor is open in a response and its comments.
OneEditor == Cardinality(Open(edit)) <= 1

(***************************************************************************)
(* The form for a comment is there when, and only when, nothing is edited  *)
(* in the response; unless the answer to a save that was given up opened   *)
(* it, a change of the response overwrote its editor, or the post is       *)
(* closed (then it comes back with the first editor that is closed).       *)
(***************************************************************************)
FormWaitsForEditor ==
    ~edit.overtaken /\ ~edit.wiped
        => /\ Open(edit) # {} => ~edit.form
           /\ Open(edit) = {} /\ ~edit.closed => edit.form

(***************************************************************************)
(* A click on the post is handled once: exactly one show view listens,     *)
(* none while the post is edited; unless a save that was given up made a   *)
(* second one.                                                             *)
(***************************************************************************)
HandledOnce ==
    ~edit.overtaken => edit.handlers = IF "post" \in edit.editors THEN 0 ELSE 1
================================================================================
