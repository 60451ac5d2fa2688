---------------------------- MODULE DiscussionShell ----------------------------
(***************************************************************************)
(* What an inline discussion shows (discussion_inline_view.js): the list   *)
(* of posts, an opened post, or the form for a new one (new_post_view.js), *)
(* behind a button that hides it all.  Several elements are hidden and     *)
(* shown on their own; together they are to be one panel.                  *)
(***************************************************************************)
EXTENDS Integers

CONSTANT MaxPosts               \* bound: new posts sent

VARIABLE shell

Panels == {"list", "thread", "form"}
\* What is on the page.
Visible(s) ==
    {p \in Panels :
        /\ s.retrieved /\ ~s.hidden
        /\ CASE p = "list" -> ~s.containerHidden /\ ~s.listHidden
             [] p = "thread" -> ~s.containerHidden /\ ~s.threadHidden
             [] p = "form" -> ~s.formHidden}
--------------------------------------------------------------------------------
hideDiscussion(s) == [s EXCEPT !.hidden = TRUE, !.button = FALSE, !.showed = FALSE]

\* Loading disables the element: a second request is not sent.
loadDiscussions(s) == [s EXCEPT !.loading = TRUE]
toggleDiscussion(s) ==
    IF s.showed THEN hideDiscussion(s)
    ELSE IF s.retrieved THEN [s EXCEPT !.button = TRUE, !.hidden = FALSE, !.showed = TRUE]
    ELSE IF s.loading THEN [s EXCEPT !.button = TRUE]
    ELSE loadDiscussions([s EXCEPT !.button = TRUE])

\* The answer 403 takes the place of the discussion and of its button.
forbidden(s) == [s EXCEPT !.loading = FALSE, !.showed = TRUE, !.forbidden = TRUE]

renderDiscussion(s) ==
    [s EXCEPT !.loading = FALSE, !.retrieved = TRUE, !.showed = TRUE, !.hidden = FALSE,
              !.threadHidden = TRUE]

navigateToThread(s) ==
    [s EXCEPT !.open = TRUE, !.listHidden = TRUE, !.threadHidden = FALSE, !.heard = TRUE]
navigateToAllPosts(s) ==
    [s EXCEPT !.open = FALSE, !.threadHidden = TRUE, !.listHidden = FALSE]

toggleNewPost(s) ==
    [s EXCEPT !.containerHidden = IF s.showed THEN TRUE ELSE @,
              !.formHidden = FALSE, !.button = TRUE, !.showed = TRUE]
hideNewPost_OnlyForm(s) == [s EXCEPT !.formHidden = TRUE]
hideNewPost(s) == [s EXCEPT !.containerHidden = FALSE, !.formHidden = TRUE]
onNewPostCreated(s) == hideNewPost(navigateToAllPosts(s))

resetForm(s) == [s EXCEPT !.modified = FALSE]
createPost(s) == [s EXCEPT !.posting = TRUE, !.posted = @ + 1]
\* The answer belongs to the form as it was; whatever is open now makes place for the list.
created(s) == onNewPostCreated(resetForm([s EXCEPT !.posting = FALSE, !.formHidden = TRUE]))
cancel(s) == resetForm(hideNewPost(s))

\* The edit view takes the show view's place, and a new show view its: that one is not listened to.
closeEditView(s) == [s EXCEPT !.heard = FALSE]
\* The view deletes the post if the learner confirms it; the inline view goes back either way.
_delete(s, confirmed) ==
    LET now == [s EXCEPT !.open = @ /\ ~confirmed]
    IN  IF s.heard THEN navigateToAllPosts(now) ELSE now
--------------------------------------------------------------------------------
Init ==
    shell = loadDiscussions(
        [retrieved |-> FALSE, forbidden |-> FALSE, showed |-> FALSE, loading |-> FALSE,
         hidden |-> TRUE, button |-> TRUE, listHidden |-> FALSE, threadHidden |-> FALSE,
         containerHidden |-> FALSE, formHidden |-> TRUE, open |-> FALSE, heard |-> FALSE, modified |-> FALSE,
         posting |-> FALSE, posted |-> 0])

ToggleDiscussion == ~shell.forbidden /\ shell' = toggleDiscussion(shell)
DiscussionLoaded == shell.loading /\ shell' = renderDiscussion(shell)
DiscussionFails == shell.loading /\ shell' = hideDiscussion([shell EXCEPT !.loading = FALSE])
DiscussionForbidden == shell.loading /\ shell' = forbidden(shell)
NavigateToThread == "list" \in Visible(shell) /\ shell' = navigateToThread(shell)
NavigateToAllPosts == "thread" \in Visible(shell) /\ shell' = navigateToAllPosts(shell)
\* The button of the new post is part of what is hidden.
ToggleNewPost ==
    shell.retrieved /\ ~shell.hidden /\ ~shell.containerHidden /\ shell' = toggleNewPost(shell)
Write == "form" \in Visible(shell) /\ shell' = [shell EXCEPT !.modified = TRUE]
CreatePost ==
    /\ "form" \in Visible(shell) /\ shell.modified
    /\ ~shell.posting /\ shell.posted < MaxPosts
    /\ shell' = createPost(shell)
PostCreated == shell.posting /\ shell' = created(shell)
PostFails == shell.posting /\ shell' = [shell EXCEPT !.posting = FALSE]
\* The button, or Escape anywhere in the discussion; asked first when something was written.
Cancel == shell.retrieved /\ ~shell.hidden /\ shell' = cancel(shell)
EditThread == "thread" \in Visible(shell) /\ shell.open /\ shell' = closeEditView(shell)
DeleteThread ==
    /\ "thread" \in Visible(shell) /\ shell.open
    /\ \E confirmed \in BOOLEAN : shell' = _delete(shell, confirmed)

Next ==
    \/ ToggleDiscussion \/ DiscussionLoaded \/ DiscussionFails \/ DiscussionForbidden
    \/ NavigateToThread \/ NavigateToAllPosts \/ ToggleNewPost \/ Write \/ CreatePost
    \/ PostCreated \/ PostFails \/ Cancel \/ EditThread \/ DeleteThread

Spec == Init /\ [][Next]_shell
--------------------------------------------------------------------------------
TypeOK == shell.posted \in 0 .. MaxPosts /\ (shell.posting => shell.retrieved)

\* In whatever order the answers come, one panel is on the page, and only one.
OnePanel == shell.retrieved /\ ~shell.hidden => \E p \in Panels : Visible(shell) = {p}

\* The button says "Hide" when there is something to hide, or it is being fetched.
ButtonTells ==
    ~shell.forbidden => shell.button = (shell.loading \/ (shell.retrieved /\ ~shell.hidden))

\* The panel of a post holds one, unless it was deleted after an edit was given up:
\* the inline view listens to the first show view only.
ThreadPanelHasThread == "thread" \in Visible(shell) => shell.open \/ ~shell.heard
================================================================================
