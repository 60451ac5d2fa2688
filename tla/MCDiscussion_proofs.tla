--------------------------- MODULE MCDiscussion_proofs ---------------------------
(***************************************************************************)
(* What the views of a discussion, and the polls beside it, keep however   *)
(* the clicks of a learner and the answers of the service fall.            *)
(***************************************************************************)
EXTENDS MCDiscussion, FiniteSetTheorems, TLAPS
--------------------------------------------------------------------------------
(***************************************************************************)
(* The elements of an inline discussion, which are shown and hidden apart: *)
(* the form hides the list and the post together, one of these two is      *)
(* hidden, and nothing is shown before the discussion has come.            *)
(***************************************************************************)
PanelsTakeTurns ==
    /\ shell.containerHidden = ~shell.formHidden
    /\ shell.retrieved => shell.listHidden = ~shell.threadHidden
    /\ ~shell.retrieved => shell.hidden /\ ~shell.listHidden /\ shell.formHidden
\* A discussion that was refused is not asked for again, and one that came neither.
AskedOnce ==
    /\ shell.loading \/ shell.forbidden => ~shell.retrieved
    /\ ~(shell.loading /\ shell.forbidden)
    /\ ~shell.forbidden => shell.showed = (shell.retrieved /\ ~shell.hidden)

ShellInv ==
    /\ shell \in [retrieved : BOOLEAN, forbidden : BOOLEAN, showed : BOOLEAN, loading : BOOLEAN,
                  hidden : BOOLEAN, button : BOOLEAN, listHidden : BOOLEAN, threadHidden : BOOLEAN,
                  containerHidden : BOOLEAN, formHidden : BOOLEAN, open : BOOLEAN, heard : BOOLEAN,
                  modified : BOOLEAN, posting : BOOLEAN, posted : 0 .. MaxPosts]
    /\ shell.posting => shell.retrieved
    /\ PanelsTakeTurns /\ AskedOnce /\ Shell!ButtonTells
    /\ shell.retrieved /\ ~shell.threadHidden => shell.open \/ ~shell.heard

\* What the proofs use of the constants' assumption.
LEMMA Bounds ==
    /\ MaxPosts \in Nat /\ Comments \cap {"post", "response"} = {} /\ "none" \notin Answers
    /\ Thread \notin Responses
BY DiscussionAssumption

\* The block has asked for its discussion.
LEMMA ShellStarts ==
    ASSUME Shell!Init
    PROVE  ShellInv
<1>1. 0 \in 0 .. MaxPosts
  BY Bounds
<1>2. shell = [retrieved |-> FALSE, forbidden |-> FALSE, showed |-> FALSE, loading |-> TRUE,
               hidden |-> TRUE, button |-> TRUE, listHidden |-> FALSE, threadHidden |-> FALSE,
               containerHidden |-> FALSE, formHidden |-> TRUE, open |-> FALSE, heard |-> FALSE,
               modified |-> FALSE, posting |-> FALSE, posted |-> 0]
  BY DEF Shell!Init, Shell!loadDiscussions
<1> QED
  BY <1>1, <1>2 DEF ShellInv, PanelsTakeTurns, AskedOnce, Shell!ButtonTells

\* Every step of the shell keeps its panels apart.
LEMMA ShellKeeps ==
    ASSUME ShellInv, [Shell!Next]_shell
    PROVE  ShellInv'
<1> USE DEF ShellInv, PanelsTakeTurns, AskedOnce, Shell!ButtonTells
<1>1. CASE Shell!ToggleDiscussion
  BY <1>1 DEF Shell!ToggleDiscussion, Shell!toggleDiscussion, Shell!hideDiscussion, Shell!loadDiscussions
<1>2. CASE Shell!DiscussionLoaded
  BY <1>2 DEF Shell!DiscussionLoaded, Shell!renderDiscussion
<1>3. CASE Shell!DiscussionFails
  BY <1>3 DEF Shell!DiscussionFails, Shell!hideDiscussion
<1>4. CASE Shell!DiscussionForbidden
  BY <1>4 DEF Shell!DiscussionForbidden, Shell!forbidden
<1>5. CASE Shell!NavigateToThread
  BY <1>5 DEF Shell!NavigateToThread, Shell!navigateToThread, Shell!Visible
<1>6. CASE Shell!NavigateToAllPosts
  BY <1>6 DEF Shell!NavigateToAllPosts, Shell!navigateToAllPosts, Shell!Visible
<1>7. CASE Shell!ToggleNewPost
  BY <1>7 DEF Shell!ToggleNewPost, Shell!toggleNewPost
<1>8. CASE Shell!Write
  BY <1>8 DEF Shell!Write
<1>9. CASE Shell!CreatePost
  <2>1. shell.posted + 1 \in 0 .. MaxPosts
    BY <1>9, Bounds DEF Shell!CreatePost
  <2>2. shell' = [shell EXCEPT !.posting = TRUE, !.posted = shell.posted + 1]
    BY <1>9 DEF Shell!CreatePost, Shell!createPost
  <2>3. shell.retrieved
    BY <1>9 DEF Shell!CreatePost, Shell!Visible
  <2> QED
    BY <2>1, <2>2, <2>3
<1>10. CASE Shell!PostCreated
  BY <1>10, ZenonT(60) DEF Shell!PostCreated, Shell!created, Shell!onNewPostCreated, Shell!hideNewPost,
               Shell!navigateToAllPosts, Shell!resetForm
<1>11. CASE Shell!PostFails
  BY <1>11 DEF Shell!PostFails
<1>12. CASE Shell!Cancel
  BY <1>12 DEF Shell!Cancel, Shell!cancel, Shell!resetForm, Shell!hideNewPost
<1>13. CASE Shell!EditThread
  BY <1>13 DEF Shell!EditThread, Shell!closeEditView
<1>14. CASE Shell!DeleteThread
  BY <1>14, ZenonT(60) DEF Shell!DeleteThread, Shell!_delete, Shell!navigateToAllPosts, Shell!Visible
<1>15. CASE UNCHANGED shell
  BY <1>15
<1> QED
  BY <1>1, <1>2, <1>3, <1>4, <1>5, <1>6, <1>7, <1>8, <1>9, <1>10, <1>11, <1>12, <1>13, <1>14,
     <1>15 DEF Shell!Next

\* The invariant is what the checks ask of the shell.
LEMMA ShellIsSound ==
    ASSUME ShellInv
    PROVE  /\ Shell!TypeOK /\ Shell!OnePanel /\ Shell!ThreadPanelHasThread /\ Shell!ButtonTells
<1>1. shell.retrieved /\ ~shell.hidden =>
        Shell!Visible(shell) = {IF ~shell.formHidden THEN "form"
                                ELSE IF shell.threadHidden THEN "list" ELSE "thread"}
  BY DEF ShellInv, PanelsTakeTurns, Shell!Visible, Shell!Panels
<1>2. Shell!OnePanel
  BY <1>1 DEF Shell!OnePanel, Shell!Panels
<1> QED
  BY <1>2 DEF ShellInv, Shell!TypeOK, Shell!ThreadPanelHasThread, Shell!Visible
--------------------------------------------------------------------------------
EditState ==
    [editors : SUBSET Editing!Editors, form : BOOLEAN, closed : BOOLEAN, made : BOOLEAN,
     handlers : Int, saves : SUBSET [of : Editing!Editors, late : BOOLEAN], sent : Int,
     overtaken : BOOLEAN, wiped : BOOLEAN]

\* An editor whose save was not given up is open, and that of the response has been made.
SavesAreOfEditors(e) ==
    /\ "response" \in e.editors => e.made
    /\ ~e.overtaken => \A s \in e.saves : ~s.late => s.of \in e.editors
Alone(e) == \A x, y \in Editing!Open(e) : x = y
FormWaits(e) ==
    ~e.overtaken /\ ~e.wiped
        => /\ Editing!Open(e) # {} => ~e.form
           /\ Editing!Open(e) = {} /\ ~e.closed => e.form
Handled(e) == ~e.overtaken => e.handlers = IF "post" \in e.editors THEN 0 ELSE 1
EditInv(e) == e \in EditState /\ SavesAreOfEditors(e) /\ Alone(e) /\ FormWaits(e) /\ Handled(e)

\* To give saves up changes nothing else.
LEMMA GivenUp ==
    ASSUME NEW e \in EditState, NEW closed
    PROVE  LET g == Editing!givenUp(e, closed)
           IN  /\ g \in EditState
               /\ g.editors = e.editors /\ g.form = e.form /\ g.closed = e.closed
               /\ g.made = e.made /\ g.handlers = e.handlers
               /\ g.overtaken = e.overtaken /\ g.wiped = e.wiped
               /\ \A s \in g.saves : ~s.late => s \in e.saves /\ s.of \notin closed
<1> DEFINE up(s) == IF s.of \in closed THEN [s EXCEPT !.late = TRUE] ELSE s
           saves == {up(s) : s \in e.saves}
           g == Editing!givenUp(e, closed)
<1>1. \A s \in e.saves : up(s) \in [of : Editing!Editors, late : BOOLEAN]
  BY DEF EditState
<1>2. \A s \in saves : ~s.late => s \in e.saves /\ s.of \notin closed
  BY DEF EditState
<1>3. saves \in SUBSET [of : Editing!Editors, late : BOOLEAN]
  <2> HIDE DEF up
  <2> QED
    BY <1>1
<1>4. g = [e EXCEPT !.saves = saves]
  BY DEF Editing!givenUp
<1> HIDE DEF saves, up, g
<1>5. /\ g.editors = e.editors /\ g.form = e.form /\ g.closed = e.closed
      /\ g.made = e.made /\ g.handlers = e.handlers
      /\ g.overtaken = e.overtaken /\ g.wiped = e.wiped /\ g.saves = saves
  BY <1>4 DEF EditState
<1>6. g \in EditState
  BY <1>3, <1>4 DEF EditState
<1> QED
  BY <1>2, <1>5, <1>6 DEF g

\* An edit that closes editors keeps the invariant when all of them are given up.
LEMMA ClosingKeeps ==
    ASSUME EditInv(edit), NEW now \in EditState,
           now.saves = edit.saves, now.overtaken = edit.overtaken,
           "response" \in now.editors => now.made,
           Alone(now), FormWaits(now), Handled(now)
    PROVE  EditInv(Editing!Closing(now))
<1> DEFINE g == Editing!givenUp(now, edit.editors \ now.editors)
<1>1. Editing!Closing(now) = g
  BY DEF Editing!Closing
<1>2. /\ g \in EditState /\ g.editors = now.editors /\ g.form = now.form /\ g.closed = now.closed
      /\ g.made = now.made /\ g.handlers = now.handlers
      /\ g.overtaken = now.overtaken /\ g.wiped = now.wiped
      /\ \A s \in g.saves : ~s.late => s \in now.saves /\ s.of \notin edit.editors \ now.editors
  BY GivenUp
<1> HIDE DEF g
<1>3. SavesAreOfEditors(g)
  BY <1>2 DEF EditInv, SavesAreOfEditors
<1> QED
  BY <1>1, <1>2, <1>3 DEF EditInv, Alone, FormWaits, Handled, Editing!Open

\* No form is open.
LEMMA EditStarts ==
    ASSUME Editing!Init
    PROVE  EditInv(edit)
<1>1. PICK closed \in BOOLEAN :
          edit = [editors |-> {}, form |-> ~closed, closed |-> closed, made |-> FALSE,
                  handlers |-> 1, saves |-> {}, sent |-> 0, overtaken |-> FALSE, wiped |-> FALSE]
  BY DEF Editing!Init
<1>2. edit \in EditState
  BY <1>1 DEF EditState
<1>3. /\ edit.editors = {} /\ edit.form = ~closed /\ edit.closed = closed /\ edit.saves = {}
  BY <1>1
<1>4. edit.handlers = 1
  BY <1>1
<1>5. SavesAreOfEditors(edit) /\ Alone(edit) /\ FormWaits(edit)
  BY <1>3 DEF SavesAreOfEditors, Alone, FormWaits, Editing!Open
<1> QED
  BY <1>2, <1>3, <1>4, <1>5 DEF EditInv, Handled

\* Every step of the forms keeps them apart.
LEMMA EditKeeps ==
    ASSUME EditInv(edit), [Editing!Next]_edit
    PROVE  EditInv(edit)'
<1> USE Bounds
<1>1. CASE Editing!EditPost
  <2>1. "post" \notin edit.editors /\ edit' = Editing!createEditView(edit)
    BY <1>1 DEF Editing!EditPost
  <2>2. /\ edit'.editors = edit.editors \cup {"post"} /\ edit'.handlers = edit.handlers - 1
        /\ edit'.form = edit.form /\ edit'.closed = edit.closed /\ edit'.made = edit.made
        /\ edit'.saves = edit.saves /\ edit'.overtaken = edit.overtaken /\ edit'.wiped = edit.wiped
    BY <2>1 DEF EditInv, EditState, Editing!createEditView
  <2>3. edit' \in EditState
    <3>1. edit.handlers - 1 \in Int
      BY DEF EditInv, EditState
    <3> QED
      BY <2>1, <3>1 DEF EditInv, EditState, Editing!createEditView, Editing!Editors
  <2>4. SavesAreOfEditors(edit') /\ Alone(edit') /\ FormWaits(edit')
    BY <2>2 DEF EditInv, SavesAreOfEditors, Alone, FormWaits, Editing!Open
  <2>5. Handled(edit')
    BY <2>1, <2>2 DEF EditInv, Handled
  <2> QED
    BY <2>3, <2>4, <2>5 DEF EditInv
<1>2. CASE Editing!EditResponse
  <2> DEFINE now == Editing!ThreadResponseView_edit(edit)
  <2>1. edit' = Editing!Closing(now)
    BY <1>2 DEF Editing!EditResponse
  <2>2. /\ now.editors = (edit.editors \cup {"response"}) \ Comments
        /\ now.form = FALSE /\ now.made = TRUE /\ now.handlers = edit.handlers
        /\ now.wiped = edit.wiped /\ now.closed = edit.closed
        /\ now.saves = edit.saves /\ now.overtaken = edit.overtaken
    BY DEF EditInv, EditState, Editing!ThreadResponseView_edit,
           Editing!hideCommentForm, Editing!cancelCommentEdits, Editing!showCommentForm
  <2>3. now \in EditState
    <3>1. edit.handlers + 1 \in Int
      BY DEF EditInv, EditState
    <3> QED
      BY <3>1 DEF EditInv, EditState, Editing!Editors, Editing!ThreadResponseView_edit,
           Editing!hideCommentForm, Editing!cancelCommentEdits, Editing!showCommentForm
  <2> HIDE DEF now
  <2>5. "response" \in now.editors => now.made
    BY <2>2 DEF EditInv, SavesAreOfEditors
  <2>6. Alone(now)
    BY <2>2 DEF EditInv, SavesAreOfEditors, Alone, Editing!Open, Editing!Editors, EditState
  <2>7. FormWaits(now)
    BY <2>1, <2>2 DEF EditInv, Alone, FormWaits, Editing!Open
  <2>8. Handled(now)
    BY <2>1, <2>2 DEF EditInv, Handled, EditState
  <2> QED
    BY <2>1, <2>2, <2>3, <2>5, <2>6, <2>7, <2>8, ClosingKeeps
<1>3. CASE Editing!EditComment
  <2>1. PICK c \in Comments \ edit.editors :
             edit' = Editing!Closing(Editing!ResponseCommentView_edit(edit, c))
    BY <1>3 DEF Editing!EditComment
  <2> DEFINE now == Editing!ResponseCommentView_edit(edit, c)
  <2>2. /\ now.editors =
              ((IF edit.made THEN edit.editors \ {"response"} ELSE edit.editors) \ Comments) \cup {c}
        /\ now.form = FALSE /\ now.made = edit.made /\ now.handlers = edit.handlers
        /\ now.wiped = edit.wiped /\ now.closed = edit.closed
        /\ now.saves = edit.saves /\ now.overtaken = edit.overtaken
    BY DEF EditInv, EditState, Editing!ResponseCommentView_edit,
           Editing!hideCommentForm, Editing!cancelCommentEdits, Editing!showCommentForm,
           Editing!ThreadResponseView_cancelEdit
  <2>3. now \in EditState
    <3>1. edit.handlers + 1 \in Int
      BY DEF EditInv, EditState
    <3> QED
      BY <3>1, ZenonT(60) DEF EditInv, EditState, Editing!Editors, Editing!ResponseCommentView_edit,
           Editing!hideCommentForm, Editing!cancelCommentEdits, Editing!showCommentForm,
           Editing!ThreadResponseView_cancelEdit
  <2>4. edit' = Editing!Closing(now)
    BY <2>1
  <2> HIDE DEF now
  <2>5. "response" \in now.editors => now.made
    BY <2>2 DEF EditInv, SavesAreOfEditors
  <2>6. Alone(now)
    BY <2>2 DEF EditInv, SavesAreOfEditors, Alone, Editing!Open, Editing!Editors, EditState
  <2>7. FormWaits(now)
    BY <2>1, <2>2 DEF EditInv, Alone, FormWaits, Editing!Open
  <2>8. Handled(now)
    BY <2>1, <2>2 DEF EditInv, Handled, EditState
  <2> QED
    BY <2>4, <2>2, <2>3, <2>5, <2>6, <2>7, <2>8, ClosingKeeps
<1>4. CASE Editing!CancelPost
  <2> DEFINE now == Editing!closeEditView(edit)
  <2>1. edit' = Editing!Closing(now) /\ "post" \in edit.editors
    BY <1>4 DEF Editing!CancelPost
  <2>2. /\ now.editors = edit.editors \ {"post"}
        /\ now.form = edit.form /\ now.made = edit.made /\ now.handlers = edit.handlers + 1
        /\ now.wiped = edit.wiped /\ now.closed = edit.closed
        /\ now.saves = edit.saves /\ now.overtaken = edit.overtaken
    BY DEF EditInv, EditState, Editing!closeEditView
  <2>3. now \in EditState
    <3>1. edit.handlers + 1 \in Int
      BY DEF EditInv, EditState
    <3> QED
      BY <3>1 DEF EditInv, EditState, Editing!Editors, Editing!closeEditView
  <2> HIDE DEF now
  <2>5. "response" \in now.editors => now.made
    BY <2>2 DEF EditInv, SavesAreOfEditors
  <2>6. Alone(now)
    BY <2>2 DEF EditInv, SavesAreOfEditors, Alone, Editing!Open, Editing!Editors, EditState
  <2>7. FormWaits(now)
    BY <2>1, <2>2 DEF EditInv, Alone, FormWaits, Editing!Open
  <2>8. Handled(now)
    BY <2>1, <2>2 DEF EditInv, Handled, EditState
  <2> QED
    BY <2>1, <2>2, <2>3, <2>5, <2>6, <2>7, <2>8, ClosingKeeps
<1>5. CASE Editing!CancelResponse
  <2> DEFINE now == Editing!ThreadResponseView_cancelEdit(edit)
  <2>1. edit' = Editing!Closing(now) /\ "response" \in edit.editors
    BY <1>5 DEF Editing!CancelResponse
  <2>2. /\ now.editors = edit.editors \ {"response"}
        /\ now.form = TRUE /\ now.made = edit.made /\ now.handlers = edit.handlers
        /\ now.wiped = edit.wiped /\ now.closed = edit.closed
        /\ now.saves = edit.saves /\ now.overtaken = edit.overtaken
    BY DEF EditInv, EditState, Editing!ThreadResponseView_cancelEdit,
                    Editing!showCommentForm
  <2>3. now \in EditState
    <3>1. edit.handlers + 1 \in Int
      BY DEF EditInv, EditState
    <3> QED
      BY <3>1 DEF EditInv, EditState, Editing!Editors, Editing!ThreadResponseView_cancelEdit,
                    Editing!showCommentForm
  <2> HIDE DEF now
  <2>5. "response" \in now.editors => now.made
    BY <2>2 DEF EditInv, SavesAreOfEditors
  <2>6. Alone(now)
    BY <2>2 DEF EditInv, SavesAreOfEditors, Alone, Editing!Open, Editing!Editors, EditState
  <2>7. FormWaits(now)
    BY <2>1, <2>2 DEF EditInv, Alone, FormWaits, Editing!Open
  <2>8. Handled(now)
    BY <2>1, <2>2 DEF EditInv, Handled, EditState
  <2> QED
    BY <2>1, <2>2, <2>3, <2>5, <2>6, <2>7, <2>8, ClosingKeeps
<1>6. CASE Editing!CancelComment
  <2>1. PICK c \in Comments \cap edit.editors :
             edit' = Editing!Closing(Editing!ResponseCommentView_cancelEdit(edit, c))
    BY <1>6 DEF Editing!CancelComment
  <2> DEFINE now == Editing!ResponseCommentView_cancelEdit(edit, c)
  <2>2. /\ now.editors = edit.editors \ {c}
        /\ now.form = TRUE /\ now.made = edit.made /\ now.handlers = edit.handlers
        /\ now.wiped = edit.wiped /\ now.closed = edit.closed
        /\ now.saves = edit.saves /\ now.overtaken = edit.overtaken
    BY DEF EditInv, EditState, Editing!ResponseCommentView_cancelEdit,
                    Editing!showCommentForm
  <2>3. now \in EditState
    <3>1. edit.handlers + 1 \in Int
      BY DEF EditInv, EditState
    <3> QED
      BY <3>1 DEF EditInv, EditState, Editing!Editors, Editing!ResponseCommentView_cancelEdit,
                    Editing!showCommentForm
  <2>4. edit' = Editing!Closing(now)
    BY <2>1
  <2> HIDE DEF now
  <2>5. "response" \in now.editors => now.made
    BY <2>2 DEF EditInv, SavesAreOfEditors
  <2>6. Alone(now)
    BY <2>2 DEF EditInv, SavesAreOfEditors, Alone, Editing!Open, Editing!Editors, EditState
  <2>7. FormWaits(now)
    BY <2>1, <2>2 DEF EditInv, Alone, FormWaits, Editing!Open
  <2>8. Handled(now)
    BY <2>1, <2>2 DEF EditInv, Handled, EditState
  <2> QED
    BY <2>4, <2>2, <2>3, <2>5, <2>6, <2>7, <2>8, ClosingKeeps
<1>7. CASE Editing!Save
  <2>1. PICK x \in edit.editors : edit' = Editing!update(edit, x)
    BY <1>7 DEF Editing!Save
  <2>2. /\ edit'.editors = edit.editors /\ edit'.handlers = edit.handlers
        /\ edit'.form = edit.form /\ edit'.closed = edit.closed /\ edit'.made = edit.made
        /\ edit'.saves = edit.saves \cup {[of |-> x, late |-> FALSE]}
        /\ edit'.overtaken = edit.overtaken /\ edit'.wiped = edit.wiped
    BY <2>1 DEF EditInv, EditState, Editing!update
  <2>3. edit' \in EditState
    <3>1. edit.sent + 1 \in Int /\ [of |-> x, late |-> FALSE] \in [of : Editing!Editors, late : BOOLEAN]
      BY DEF EditInv, EditState
    <3> QED
      BY <2>1, <3>1 DEF EditInv, EditState, Editing!update
  <2>4. SavesAreOfEditors(edit') /\ Alone(edit') /\ FormWaits(edit')
    BY <2>2 DEF EditInv, SavesAreOfEditors, Alone, FormWaits, Editing!Open
  <2>5. Handled(edit')
    BY <2>2 DEF EditInv, Handled
  <2> QED
    BY <2>3, <2>4, <2>5 DEF EditInv
<1>8. CASE Editing!ResponseChanges
  <2> DEFINE now == Editing!render(edit)
  <2>1. edit' = Editing!Closing(now)
    BY <1>8 DEF Editing!ResponseChanges
  <2>2. /\ now.editors = edit.editors \ {"response"}
        /\ now.form = edit.form /\ now.made = edit.made /\ now.handlers = edit.handlers
        /\ now.wiped = (edit.wiped \/ "response" \in edit.editors) /\ now.closed = edit.closed
        /\ now.saves = edit.saves /\ now.overtaken = edit.overtaken
    BY DEF EditInv, EditState, Editing!render
  <2>3. now \in EditState
    <3>1. edit.handlers + 1 \in Int
      BY DEF EditInv, EditState
    <3> QED
      BY <3>1 DEF EditInv, EditState, Editing!Editors, Editing!render
  <2> HIDE DEF now
  <2>5. "response" \in now.editors => now.made
    BY <2>2 DEF EditInv, SavesAreOfEditors
  <2>6. Alone(now)
    BY <2>2 DEF EditInv, SavesAreOfEditors, Alone, Editing!Open, Editing!Editors, EditState
  <2>7. FormWaits(now)
    BY <2>1, <2>2 DEF EditInv, Alone, FormWaits, Editing!Open
  <2>8. Handled(now)
    BY <2>1, <2>2 DEF EditInv, Handled, EditState
  <2> QED
    BY <2>1, <2>2, <2>3, <2>5, <2>6, <2>7, <2>8, ClosingKeeps
<1>9. ASSUME NEW s \in edit.saves, Editing!SaveSucceeds(s)
      PROVE  EditInv(edit)'
  <2> DEFINE now == [edit EXCEPT !.saves = @ \ {s}, !.overtaken = @ \/ s.late]
  <2>1. now \in EditState
    BY DEF EditInv, EditState
  <2>2. /\ now.editors = edit.editors /\ now.form = edit.form
        /\ now.closed = edit.closed /\ now.made = edit.made /\ now.handlers = edit.handlers
        /\ now.wiped = edit.wiped /\ now.saves = edit.saves \ {s}
        /\ now.overtaken = (edit.overtaken \/ s.late)
    BY DEF EditInv, EditState
  <2>3. edit' = CASE s.of = "post" -> Editing!closeEditView(now)
                  [] s.of = "response" -> Editing!ThreadResponseView_cancelEdit(now)
                  [] OTHER -> Editing!ResponseCommentView_cancelEdit(now, s.of)
    BY <1>9 DEF Editing!SaveSucceeds, Editing!success
  <2> HIDE DEF now
  <2>4. /\ s.of \in Editing!Editors /\ s.late \in BOOLEAN
        /\ \A q \in edit.saves : ~q.late /\ ~s.late /\ q.of = s.of => q = s
    BY DEF EditInv, EditState
  <2>5. CASE s.of = "post"
    <3>1. /\ edit'.editors = edit.editors \ {"post"} /\ edit'.form = edit.form
          /\ edit'.handlers = edit.handlers + 1 /\ edit'.made = edit.made /\ edit'.closed = edit.closed
          /\ edit'.wiped = edit.wiped /\ edit'.saves = edit.saves \ {s}
          /\ edit'.overtaken = (edit.overtaken \/ s.late)
      BY <2>1, <2>2, <2>3, <2>5 DEF EditState, Editing!closeEditView
    <3>2. edit' \in EditState
      <4>1. now.handlers + 1 \in Int
        BY <2>1 DEF EditState
      <4> QED
        BY <4>1, <2>1, <2>2, <2>3, <2>5 DEF EditState, Editing!closeEditView
    <3>3. SavesAreOfEditors(edit') /\ Alone(edit')
      <4>1. SavesAreOfEditors(edit')
        BY <2>4, <2>5, <3>1 DEF EditInv, SavesAreOfEditors
      <4> QED
        BY <3>1, <4>1 DEF EditInv, Alone, Editing!Open
    <3>4. FormWaits(edit')
      BY <2>4, <2>5, <3>1 DEF EditInv, SavesAreOfEditors, Alone, FormWaits, Editing!Open
    <3>5. Handled(edit')
      BY <2>4, <2>5, <3>1 DEF EditInv, EditState, Handled, SavesAreOfEditors
    <3> QED
      BY <3>2, <3>3, <3>4, <3>5 DEF EditInv
  <2>6. CASE s.of = "response"
    <3>1. /\ edit'.editors = edit.editors \ {"response"} /\ edit'.form = TRUE
          /\ edit'.handlers = edit.handlers /\ edit'.made = edit.made /\ edit'.closed = edit.closed
          /\ edit'.wiped = edit.wiped /\ edit'.saves = edit.saves \ {s}
          /\ edit'.overtaken = (edit.overtaken \/ s.late)
      BY <2>1, <2>2, <2>3, <2>6 DEF EditState, Editing!ThreadResponseView_cancelEdit,
                            Editing!showCommentForm
    <3>2. edit' \in EditState
      <4>1. now.handlers + 1 \in Int
        BY <2>1 DEF EditState
      <4> QED
        BY <4>1, <2>1, <2>2, <2>3, <2>6 DEF EditState, Editing!ThreadResponseView_cancelEdit,
                            Editing!showCommentForm
    <3>3. SavesAreOfEditors(edit') /\ Alone(edit')
      <4>1. SavesAreOfEditors(edit')
        BY <2>4, <2>6, <3>1 DEF EditInv, SavesAreOfEditors
      <4> QED
        BY <3>1, <4>1 DEF EditInv, Alone, Editing!Open
    <3>4. FormWaits(edit')
      BY <2>4, <2>6, <3>1 DEF EditInv, SavesAreOfEditors, Alone, FormWaits, Editing!Open
    <3>5. Handled(edit')
      BY <2>4, <2>6, <3>1 DEF EditInv, EditState, Handled, SavesAreOfEditors
    <3> QED
      BY <3>2, <3>3, <3>4, <3>5 DEF EditInv
  <2>7. CASE s.of \in Comments
    <3>1. /\ edit'.editors = edit.editors \ {s.of} /\ edit'.form = TRUE
          /\ edit'.handlers = edit.handlers /\ edit'.made = edit.made /\ edit'.closed = edit.closed
          /\ edit'.wiped = edit.wiped /\ edit'.saves = edit.saves \ {s}
          /\ edit'.overtaken = (edit.overtaken \/ s.late)
      BY <2>1, <2>2, <2>3, <2>7 DEF EditState, Editing!ResponseCommentView_cancelEdit,
                            Editing!showCommentForm
    <3>2. edit' \in EditState
      <4>1. now.handlers + 1 \in Int
        BY <2>1 DEF EditState
      <4> QED
        BY <4>1, <2>1, <2>2, <2>3, <2>7 DEF EditState, Editing!ResponseCommentView_cancelEdit,
                            Editing!showCommentForm
    <3>3. SavesAreOfEditors(edit') /\ Alone(edit')
      <4>1. SavesAreOfEditors(edit')
        BY <2>4, <2>7, <3>1 DEF EditInv, SavesAreOfEditors
      <4> QED
        BY <3>1, <4>1 DEF EditInv, Alone, Editing!Open
    <3>4. FormWaits(edit')
      <4>1. ~edit'.overtaken => s.of \in Editing!Open(edit)
        BY <2>4, <2>7, <3>1 DEF EditInv, SavesAreOfEditors, Editing!Open
      <4>2. ~edit'.overtaken => Editing!Open(edit') = {}
        BY <3>1, <4>1 DEF EditInv, Alone, Editing!Open
      <4> QED
        BY <3>1, <4>2 DEF FormWaits
    <3>5. Handled(edit')
      BY <2>4, <2>7, <3>1 DEF EditInv, EditState, Handled, SavesAreOfEditors
    <3> QED
      BY <3>2, <3>3, <3>4, <3>5 DEF EditInv
  <2> QED
    BY <2>4, <2>5, <2>6, <2>7 DEF Editing!Editors
<1>10. ASSUME NEW s \in edit.saves, Editing!SaveFails(s)
       PROVE  EditInv(edit)'
  <2>1. edit' \in EditState
    BY <1>10 DEF Editing!SaveFails, EditInv, EditState
  <2>2. /\ edit'.editors = edit.editors /\ edit'.handlers = edit.handlers
        /\ edit'.form = edit.form /\ edit'.closed = edit.closed /\ edit'.made = edit.made
        /\ edit'.saves = edit.saves \ {s}
        /\ edit'.overtaken = edit.overtaken /\ edit'.wiped = edit.wiped
    BY <1>10 DEF Editing!SaveFails, EditInv, EditState
  <2>3. SavesAreOfEditors(edit') /\ Alone(edit') /\ FormWaits(edit')
    BY <2>2 DEF EditInv, SavesAreOfEditors, Alone, FormWaits, Editing!Open
  <2>4. Handled(edit')
    BY <2>2 DEF EditInv, Handled
  <2> QED
    BY <2>1, <2>3, <2>4 DEF EditInv
<1>11. CASE UNCHANGED edit
  BY <1>11 DEF EditInv
<1> QED
  BY <1>1, <1>2, <1>3, <1>4, <1>5, <1>6, <1>7, <1>8, <1>9, <1>10, <1>11 DEF Editing!Next

\* The parts count with the same operator.
LEMMA SameCardinality ==
    ASSUME NEW S
    PROVE  Editing!Cardinality(S) = Cardinality(S)
BY DEF Editing!Cardinality, Cardinality

\* The invariant is what the checks ask of the forms.
LEMMA EditIsSound ==
    ASSUME EditInv(edit)
    PROVE  Editing!TypeOK /\ Editing!OneEditor /\ Editing!FormWaitsForEditor /\ Editing!HandledOnce
<1>1. Cardinality(Editing!Open(edit)) \in {0, 1}
  <2>1. CASE Editing!Open(edit) = {}
    BY <2>1, FS_EmptySet
  <2>2. CASE Editing!Open(edit) # {}
    <3>1. PICK x : Editing!Open(edit) = {x}
      BY <2>2 DEF EditInv, Alone
    <3> QED
      BY <3>1, FS_Singleton
  <2> QED
    BY <2>1, <2>2
<1>2. Editing!Cardinality(Editing!Open(edit)) \in {0, 1}
  BY <1>1, SameCardinality
<1>3. Editing!OneEditor
  BY <1>2 DEF Editing!OneEditor
<1> QED
  BY <1>3 DEF EditInv, EditState, FormWaits, Handled, Editing!TypeOK, Editing!FormWaitsForEditor,
              Editing!HandledOnce

(***************************************************************************)
(* However the clicks and the answers fall, one panel of a discussion is   *)
(* seen and the button tells of it, and one editor is open in a response,  *)
(* without the form for comments.                                          *)
(***************************************************************************)
THEOREM ViewsAlwaysTakeTurns == Spec => []ViewsTakeTurns
<1> DEFINE Inv == ShellInv /\ EditInv(edit)
<1>1. Init => Inv
  BY ShellStarts, EditStarts DEF Init
<1>2. Inv /\ [Next]_vars => Inv'
  <2> SUFFICES ASSUME Inv, [Next]_vars
               PROVE  Inv'
    OBVIOUS
  <2>1. [Shell!Next]_shell /\ [Editing!Next]_edit
    BY DEF Next, vars
  <2> QED
    BY <2>1, ShellKeeps, EditKeeps
<1>3. Inv => ViewsTakeTurns
  BY ShellIsSound, EditIsSound DEF ViewsTakeTurns
<1> QED
  BY <1>1, <1>2, <1>3, PTL DEF Spec
--------------------------------------------------------------------------------
\* The fields of a poll: what the learners have answered, and their pages.
PollPage ==
    [open : BOOLEAN, rendered : BOOLEAN, questionAnswered : BOOLEAN, answered : SUBSET Answers,
     stats : BOOLEAN, resetButton : BOOLEAN]
PollNames ==
    {"reset", "voted", "poll_answer", "poll_answers", "pages", "requests", "made", "overlapped",
     "lost", "doubled", "elsewhere"}
PollTyped ==
    /\ DOMAIN poll = PollNames /\ poll.reset \in BOOLEAN
    /\ poll.voted \in [Votes!Learners -> BOOLEAN]
    /\ poll.poll_answer \in [Votes!Learners -> Answers \cup {Votes!None}]
    /\ poll.pages \in [Votes!Pages -> PollPage]

(***************************************************************************)
(* What a running request has read tells the same story as the fields it   *)
(* will save to, and only a vote brings an answer, one of the poll's.      *)
(***************************************************************************)
RequestAgrees(r) ==
    /\ DOMAIN r = {"nr", "page", "op", "arg", "status", "read", "answer", "voted"}
    /\ r.page \in Votes!Pages /\ r.answer \in Answers \cup {Votes!None} /\ r.voted \in BOOLEAN
    /\ r.op = "submit" => r.arg \in Answers
    /\ r.op \in {"submit", "reset", "view", "get"}
    /\ r.status \in {"sent", "running", "answered", "raised"}
    /\ r.status = "running" => /\ DOMAIN r.read = {"voted", "poll_answer", "poll_answers"}
                               /\ r.read.voted \in BOOLEAN
                               /\ r.read.poll_answer \in Answers \cup {Votes!None}
                               /\ r.read.voted <=> r.read.poll_answer # Votes!None
PollInv ==
    /\ PollTyped /\ Votes!VotedHasAnswer
    /\ \A r \in poll.requests : RequestAgrees(r)
--------------------------------------------------------------------------------
\* What a handler saves agrees if what it read does.
LEMMA PollSavesAgree ==
    ASSUME NEW r, RequestAgrees(r), r.status = "running",
           ~(r.op = "reset" /\ r.read.poll_answer = Votes!None)
    PROVE  /\ Votes!Saves(r).voted \in BOOLEAN /\ Votes!Saves(r).poll_answer \in Answers \cup {Votes!None}
           /\ (Votes!Saves(r).voted <=> Votes!Saves(r).poll_answer # Votes!None)
<1>1. CASE r.op = "submit"
  <2>1. Votes!Saves(r) = Votes!submit_answer(r.read, r.arg)
    BY <1>1 DEF Votes!Saves
  <2>2. CASE r.read.voted
    <3>1. Votes!Saves(r) = r.read
      BY <2>1, <2>2 DEF Votes!submit_answer
    <3> QED
      BY <3>1 DEF RequestAgrees
  <2>3. CASE ~r.read.voted
    <3>1. Votes!Saves(r).voted = TRUE /\ Votes!Saves(r).poll_answer = r.arg
      BY <2>1, <2>3 DEF Votes!submit_answer
    <3> QED
      BY <1>1, <3>1, Bounds DEF RequestAgrees, Votes!None
  <2> QED
    BY <2>2, <2>3
<1>2. CASE r.op = "reset"
  BY <1>2 DEF Votes!Saves, Votes!handle_reset_state
<1>3. CASE r.op = "view"
  <2>1. Votes!Saves(r) = Votes!dump_poll(r.read)
    BY <1>3 DEF Votes!Saves
  <2> QED
    BY <2>1 DEF Votes!dump_poll, RequestAgrees
<1>4. CASE r.op = "get"
  BY <1>4 DEF Votes!Saves, RequestAgrees
<1> QED
  BY <1>1, <1>2, <1>3, <1>4 DEF RequestAgrees

\* A request when it is sent.
PollNew(n, p, op, arg) == [Votes!Request(p, op, arg) EXCEPT !.nr = n]
(***************************************************************************)
(* The four shapes of a step: a page sends a request, after those in gone  *)
(* have come; the server starts one, ends one; and a page is left with the *)
(* answer of one, or without.                                              *)
(***************************************************************************)
PollSends(p, op, arg, page, gone) ==
    /\ DOMAIN poll' = PollNames
    /\ poll'.reset = poll.reset /\ poll'.voted = poll.voted /\ poll'.poll_answer = poll.poll_answer
    /\ poll'.poll_answers = poll.poll_answers /\ poll'.overlapped = poll.overlapped
    /\ poll'.lost = poll.lost
    /\ poll'.pages = [poll.pages EXCEPT ![p] = page]
    /\ poll'.requests = (poll.requests \ gone) \cup {PollNew(poll.made, p, op, arg)}
    /\ poll.doubled \subseteq poll'.doubled /\ poll.elsewhere \subseteq poll'.elsewhere
    /\ (\E r \in poll.requests \ gone : r.page = p) => Owner[p] \in poll'.doubled
    /\ (\E q \in Votes!Pages \ {p} : poll.pages[q].open /\ Owner[q] = Owner[p])
          => Owner[p] \in poll'.elsewhere
PollRuns(r, running) ==
    /\ DOMAIN poll' = PollNames
    /\ poll'.reset = poll.reset /\ poll'.voted = poll.voted /\ poll'.poll_answer = poll.poll_answer
    /\ poll'.poll_answers = poll.poll_answers /\ poll'.pages = poll.pages
    /\ poll'.lost = poll.lost /\ poll'.doubled = poll.doubled /\ poll'.elsewhere = poll.elsewhere
    /\ poll'.requests = (poll.requests \ {r}) \cup {running}
    /\ ~poll'.overlapped => ~poll.overlapped /\ \A q \in poll.requests : q.status # "running"
PollSaves(r, now, reply, lost) ==
    /\ DOMAIN poll' = PollNames
    /\ poll'.reset = poll.reset /\ poll'.pages = poll.pages /\ poll'.overlapped = poll.overlapped
    /\ poll'.doubled = poll.doubled /\ poll'.elsewhere = poll.elsewhere
    /\ poll'.requests = (poll.requests \ {r}) \cup {reply} /\ poll'.lost = lost
    /\ \/ /\ now = r.read /\ poll'.voted = poll.voted /\ poll'.poll_answer = poll.poll_answer
          /\ poll'.poll_answers = poll.poll_answers
       \/ /\ now # r.read /\ r.op = "view" /\ poll'.poll_answers = now.poll_answers
          /\ poll'.voted = poll.voted /\ poll'.poll_answer = poll.poll_answer
       \/ /\ now # r.read /\ r.op # "view" /\ poll'.poll_answers = now.poll_answers
          /\ poll'.voted = [poll.voted EXCEPT ![Owner[r.page]] = now.voted]
          /\ poll'.poll_answer = [poll.poll_answer EXCEPT ![Owner[r.page]] = now.poll_answer]
PollReceives(r, page, lost) ==
    /\ DOMAIN poll' = PollNames
    /\ poll'.reset = poll.reset /\ poll'.voted = poll.voted /\ poll'.poll_answer = poll.poll_answer
    /\ poll'.poll_answers = poll.poll_answers /\ poll'.overlapped = poll.overlapped
    /\ poll'.doubled = poll.doubled /\ poll'.elsewhere = poll.elsewhere /\ poll'.lost = lost
    /\ poll'.pages = [poll.pages EXCEPT ![r.page] = page]
    /\ poll'.requests = poll.requests \ {r}

\* What sending changes.
PollAfter(s, t, p, op, arg) ==
    /\ DOMAIN t = PollNames
    /\ t.reset = s.reset /\ t.voted = s.voted /\ t.poll_answer = s.poll_answer
    /\ t.poll_answers = s.poll_answers /\ t.overlapped = s.overlapped
    /\ t.lost = s.lost /\ t.pages = s.pages
    /\ t.requests = s.requests \cup {PollNew(s.made, p, op, arg)}
    /\ t.doubled = s.doubled \cup (IF \E r \in s.requests : r.page = p THEN {Owner[p]} ELSE {})
    /\ t.elsewhere = s.elsewhere \cup
          (IF \E q \in Votes!Pages \ {p} : s.pages[q].open /\ Owner[q] = Owner[p] THEN {Owner[p]} ELSE {})
LEMMA PollSent ==
    ASSUME NEW s, DOMAIN s = PollNames, NEW p, NEW op, NEW arg
    PROVE  PollAfter(s, Votes!Sent(s, p, op, arg), p, op, arg)
<1> DEFINE new == PollNew(s.made, p, op, arg)
           doubled == IF \E r \in s.requests : r.page = p THEN {Owner[p]} ELSE {}
           elsewhere == IF \E q \in Votes!Pages \ {p} : s.pages[q].open /\ Owner[q] = Owner[p]
                        THEN {Owner[p]} ELSE {}
<1>1. Votes!Sent(s, p, op, arg)
        = [s EXCEPT !.made = @ + 1, !.requests = @ \cup {new}, !.doubled = @ \cup doubled,
                    !.elsewhere = @ \cup elsewhere]
  BY DEF Votes!Sent, PollNew
<1> HIDE DEF new, doubled, elsewhere
<1>2. LET t == Votes!Sent(s, p, op, arg)
      IN  /\ DOMAIN t = PollNames
          /\ t.reset = s.reset /\ t.voted = s.voted /\ t.poll_answer = s.poll_answer
          /\ t.poll_answers = s.poll_answers /\ t.overlapped = s.overlapped
          /\ t.lost = s.lost /\ t.pages = s.pages
          /\ t.requests = s.requests \cup {new}
          /\ t.doubled = s.doubled \cup doubled /\ t.elsewhere = s.elsewhere \cup elsewhere
  BY <1>1 DEF PollNames
<1> QED
  BY <1>2 DEF PollAfter, new, doubled, elsewhere

\* A page sends: when it is opened, voted on or reset, and for the state once its view has come.
LEMMA OpenSends ==
    ASSUME PollTyped, NEW p \in Votes!Pages, Votes!Open(p)
    PROVE  /\ ~poll.pages[p].open
           /\ PollSends(p, "view", Votes!None, [poll.pages[p] EXCEPT !.open = TRUE], {})
<1> DEFINE s == [poll EXCEPT !.pages[p].open = TRUE]
<1>1. /\ DOMAIN s = PollNames /\ s.pages = [poll.pages EXCEPT ![p] = [@ EXCEPT !.open = TRUE]]
      /\ s.reset = poll.reset /\ s.voted = poll.voted /\ s.poll_answer = poll.poll_answer
      /\ s.poll_answers = poll.poll_answers /\ s.overlapped = poll.overlapped /\ s.made = poll.made
      /\ s.lost = poll.lost /\ s.requests = poll.requests
      /\ s.doubled = poll.doubled /\ s.elsewhere = poll.elsewhere
  BY DEF PollTyped, PollNames
<1>2. poll' = Votes!Sent(s, p, "view", Votes!None) /\ ~poll.pages[p].open
  BY DEF Votes!Open
<1>3. \A q \in Votes!Pages \ {p} : s.pages[q].open = poll.pages[q].open
  BY <1>1 DEF PollTyped
<1> HIDE DEF s
<1>4. PollAfter(s, poll', p, "view", Votes!None)
  BY <1>1, <1>2, PollSent
<1> QED
  BY <1>1, <1>2, <1>3, <1>4 DEF PollAfter, PollSends

LEMMA VoteSends ==
    ASSUME PollTyped, NEW p \in Votes!Pages, NEW a \in Answers, Votes!Vote(p, a)
    PROVE  /\ poll.pages[p].rendered /\ ~poll.pages[p].questionAnswered
           /\ PollSends(p, "submit", a, [poll.pages[p] EXCEPT !.questionAnswered = TRUE,
                                                              !.answered = @ \cup {a}], {})
<1> DEFINE s == [poll EXCEPT !.pages[p].questionAnswered = TRUE, !.pages[p].answered = @ \cup {a}]
<1>1. /\ DOMAIN s = PollNames
      /\ s.pages = [poll.pages EXCEPT ![p] = [poll.pages[p] EXCEPT !.questionAnswered = TRUE,
                                                                  !.answered = @ \cup {a}]]
      /\ s.reset = poll.reset /\ s.voted = poll.voted /\ s.poll_answer = poll.poll_answer
      /\ s.poll_answers = poll.poll_answers /\ s.overlapped = poll.overlapped /\ s.made = poll.made
      /\ s.lost = poll.lost /\ s.requests = poll.requests
      /\ s.doubled = poll.doubled /\ s.elsewhere = poll.elsewhere
  BY DEF PollTyped, PollNames, PollPage
<1>2. /\ poll' = Votes!Sent(s, p, "submit", a)
      /\ poll.pages[p].rendered /\ ~poll.pages[p].questionAnswered
  BY DEF Votes!Vote, Votes!submitAnswer
<1>3. \A q \in Votes!Pages \ {p} : s.pages[q].open = poll.pages[q].open
  BY <1>1 DEF PollTyped
<1> HIDE DEF s
<1>4. PollAfter(s, poll', p, "submit", a)
  BY <1>1, <1>2, PollSent
<1> QED
  BY <1>1, <1>2, <1>3, <1>4 DEF PollAfter, PollSends

LEMMA ResetSends ==
    ASSUME PollTyped, NEW p \in Votes!Pages, Votes!Reset(p)
    PROVE  /\ poll.pages[p].resetButton
           /\ PollSends(p, "reset", Votes!None, poll.pages[p], {})
<1>1. poll.pages = [poll.pages EXCEPT ![p] = poll.pages[p]]
  BY DEF PollTyped
<1>2. poll' = Votes!Sent(poll, p, "reset", Votes!None) /\ poll.pages[p].resetButton
  BY DEF Votes!Reset
<1> QED
  BY <1>1, <1>2, PollSent DEF PollAfter, PollSends, PollTyped

\* What a request has read when it runs.
LEMMA StartRuns ==
    ASSUME PollTyped, NEW r \in poll.requests, Votes!Starts(r)
    PROVE  /\ r.status = "sent"
           /\ PollRuns(r, [r EXCEPT !.status = "running", !.read = Votes!Fields(Owner[r.page])])
<1> DEFINE running == [r EXCEPT !.status = "running", !.read = Votes!Fields(Owner[r.page])]
           overlapped == poll.overlapped \/ \E q \in poll.requests : q.status = "running"
<1>1. /\ poll' = [poll EXCEPT !.requests = (@ \ {r}) \cup {running}, !.overlapped = overlapped]
      /\ r.status = "sent"
  BY DEF Votes!Starts
<1> HIDE DEF running, overlapped
<1>2. /\ DOMAIN poll' = PollNames /\ poll'.overlapped = overlapped
      /\ poll'.requests = (poll.requests \ {r}) \cup {running}
      /\ poll'.reset = poll.reset /\ poll'.voted = poll.voted /\ poll'.poll_answer = poll.poll_answer
      /\ poll'.poll_answers = poll.poll_answers /\ poll'.pages = poll.pages
      /\ poll'.lost = poll.lost /\ poll'.doubled = poll.doubled /\ poll'.elsewhere = poll.elsewhere
  BY <1>1 DEF PollTyped, PollNames
<1>3. ~overlapped => ~poll.overlapped /\ \A q \in poll.requests : q.status # "running"
  BY DEF overlapped
<1> QED
  BY <1>1, <1>2, <1>3 DEF PollRuns, running

\* What a request saves when it ends, and what it answers.
PollNow(r) ==
    IF r.op = "reset" /\ r.read.poll_answer = Votes!None THEN r.read ELSE Votes!Saves(r)
PollReply(r) ==
    [r EXCEPT !.status = IF r.op = "reset" /\ r.read.poll_answer = Votes!None THEN "raised" ELSE "answered",
              !.read = <<>>, !.answer = PollNow(r).poll_answer,
              !.voted = r.op = "submit" /\ ~(r.op = "submit" /\ r.read.voted)]
PollLost(r) ==
    IF (r.op = "reset" /\ r.read.poll_answer = Votes!None) \/ (r.op = "submit" /\ r.read.voted)
    THEN poll.lost \cup {Owner[r.page]} ELSE poll.lost

LEMMA EndSaves ==
    ASSUME PollTyped, NEW r \in poll.requests, Votes!Ends(r)
    PROVE  r.status = "running" /\ PollSaves(r, PollNow(r), PollReply(r), PollLost(r))
<1> DEFINE rest == [poll EXCEPT !.requests = (@ \ {r}) \cup {PollReply(r)}, !.lost = PollLost(r)]
<1>1. /\ r.status = "running"
      /\ poll' = IF PollNow(r) = r.read THEN rest
                 ELSE IF r.op = "view" THEN [rest EXCEPT !.poll_answers = PollNow(r).poll_answers]
                 ELSE [rest EXCEPT !.poll_answers = PollNow(r).poll_answers,
                                   !.voted[Owner[r.page]] = PollNow(r).voted,
                                   !.poll_answer[Owner[r.page]] = PollNow(r).poll_answer]
  BY DEF Votes!Ends, PollNow, PollReply, PollLost, PollTyped, PollNames
<1>2. /\ DOMAIN rest = PollNames
      /\ rest.reset = poll.reset /\ rest.pages = poll.pages /\ rest.overlapped = poll.overlapped
      /\ rest.doubled = poll.doubled /\ rest.elsewhere = poll.elsewhere
      /\ rest.requests = (poll.requests \ {r}) \cup {PollReply(r)} /\ rest.lost = PollLost(r)
      /\ rest.voted = poll.voted /\ rest.poll_answer = poll.poll_answer
      /\ rest.poll_answers = poll.poll_answers
  BY DEF PollTyped, PollNames
<1> HIDE DEF rest
<1>3. CASE PollNow(r) = r.read
  BY <1>1, <1>2, <1>3 DEF PollSaves
<1>4. CASE PollNow(r) # r.read /\ r.op = "view"
  BY <1>1, <1>2, <1>4 DEF PollSaves, PollNames
<1>5. CASE PollNow(r) # r.read /\ r.op # "view"
  BY <1>1, <1>2, <1>5 DEF PollSaves, PollNames
<1> QED
  BY <1>1, <1>3, <1>4, <1>5

\* What a page becomes by an answer that is not of its view.
PollShown(r) ==
    LET page == poll.pages[r.page]
    IN  CASE r.op = "get" ->
                [page EXCEPT !.rendered = TRUE, !.questionAnswered = r.answer # Votes!None,
                             !.answered = {r.answer} \ {Votes!None}, !.stats = r.answer # Votes!None,
                             !.resetButton = poll.reset /\ r.answer # Votes!None]
          [] r.op = "submit" ->
                [page EXCEPT !.stats = @ \/ r.voted, !.resetButton = @ \/ poll.reset]
          [] r.op = "reset" ->
                [page EXCEPT !.questionAnswered = FALSE, !.answered = {}, !.stats = FALSE,
                             !.resetButton = FALSE]

LEMMA ArriveReceives ==
    ASSUME PollTyped, NEW r \in poll.requests, RequestAgrees(r), Votes!Arrives(r)
    PROVE  /\ r.status = "answered"
           /\ r.op = "view" => PollSends(r.page, "get", Votes!None, poll.pages[r.page], {r})
           /\ r.op # "view" => PollReceives(r, PollShown(r), poll.lost)
<1> DEFINE s == [poll EXCEPT !.requests = @ \ {r}]
<1>1. /\ r.status = "answered"
      /\ poll' = CASE r.op = "view" -> Votes!Sent(s, r.page, "get", Votes!None)
                   [] r.op = "get" -> Votes!renderQuestion(s, r.page, r)
                   [] r.op = "submit" -> Votes!answerShown(s, r.page, r)
                   [] r.op = "reset" -> Votes!resetShown(s, r.page)
  BY DEF Votes!Arrives
<1>2. /\ DOMAIN s = PollNames /\ s.pages = poll.pages
      /\ s.reset = poll.reset /\ s.voted = poll.voted /\ s.poll_answer = poll.poll_answer
      /\ s.poll_answers = poll.poll_answers /\ s.overlapped = poll.overlapped /\ s.made = poll.made
      /\ s.lost = poll.lost /\ s.requests = poll.requests \ {r}
      /\ s.doubled = poll.doubled /\ s.elsewhere = poll.elsewhere
  BY DEF PollTyped, PollNames
<1> HIDE DEF s
<1>3. r.page \in Votes!Pages /\ poll.pages \in [Votes!Pages -> PollPage]
  BY DEF RequestAgrees, PollTyped
<1>4. CASE r.op = "view"
  <2>1. PollAfter(s, poll', r.page, "get", Votes!None)
    BY <1>1, <1>2, <1>4, PollSent
  <2>2. poll.pages = [poll.pages EXCEPT ![r.page] = poll.pages[r.page]]
    BY <1>3
  <2> QED
    BY <1>1, <1>2, <1>4, <2>1, <2>2 DEF PollAfter, PollSends
<1>5. CASE r.op = "get"
  <2>1. poll' = Votes!renderQuestion(s, r.page, r)
    BY <1>1, <1>5
  <2>2. PollShown(r) = [poll.pages[r.page] EXCEPT
            !.rendered = TRUE, !.questionAnswered = r.answer # Votes!None,
            !.answered = {r.answer} \ {Votes!None}, !.stats = r.answer # Votes!None,
            !.resetButton = poll.reset /\ r.answer # Votes!None]
    BY <1>5 DEF PollShown
  <2>3. poll'.pages = [s.pages EXCEPT ![r.page] = PollShown(r)]
    BY <1>2, <1>3, <2>1, <2>2 DEF Votes!renderQuestion, PollNames
  <2> QED
    BY <1>1, <1>2, <1>5, <2>1, <2>3 DEF Votes!renderQuestion, PollReceives, PollNames
<1>6. CASE r.op = "submit"
  <2>1. poll' = Votes!answerShown(s, r.page, r)
    BY <1>1, <1>6
  <2>2. PollShown(r) = [poll.pages[r.page] EXCEPT !.stats = @ \/ r.voted, !.resetButton = @ \/ poll.reset]
    BY <1>6 DEF PollShown
  <2>3. poll'.pages = [s.pages EXCEPT ![r.page] =
                          [s.pages[r.page] EXCEPT !.stats = @ \/ r.voted, !.resetButton = @ \/ s.reset]]
    BY Zenon, <1>2, <1>3, <2>1 DEF Votes!answerShown, PollNames, PollPage
  <2>4. poll'.pages = [s.pages EXCEPT ![r.page] = PollShown(r)]
    BY <1>2, <2>2, <2>3
  <2> QED
    BY Zenon, <1>1, <1>2, <1>6, <2>1, <2>4 DEF Votes!answerShown, PollReceives, PollNames
<1>7. CASE r.op = "reset"
  <2>1. poll' = Votes!resetShown(s, r.page)
    BY <1>1, <1>7
  <2>2. PollShown(r) = [poll.pages[r.page] EXCEPT !.questionAnswered = FALSE, !.answered = {},
                                                   !.stats = FALSE, !.resetButton = FALSE]
    BY <1>7 DEF PollShown
  <2>3. poll'.pages = [s.pages EXCEPT ![r.page] =
                          [s.pages[r.page] EXCEPT !.questionAnswered = FALSE, !.answered = {},
                                                !.stats = FALSE, !.resetButton = FALSE]]
    BY <1>2, <1>3, <2>1 DEF Votes!resetShown, PollNames, PollPage
  <2>4. poll'.pages = [s.pages EXCEPT ![r.page] = PollShown(r)]
    BY <1>2, <2>2, <2>3
  <2> QED
    BY Zenon, <1>1, <1>2, <1>7, <2>1, <2>4 DEF Votes!resetShown, PollReceives, PollNames
<1> QED
  BY <1>4, <1>5, <1>6, <1>7 DEF RequestAgrees

\* A request without answer leaves the page as it is.
LEMMA FailReceives ==
    ASSUME PollTyped, NEW r \in poll.requests, RequestAgrees(r), Votes!Fails(r)
    PROVE  PollReceives(r, poll.pages[r.page], poll.lost \cup {Owner[r.page]})
<1>1. poll.pages = [poll.pages EXCEPT ![r.page] = poll.pages[r.page]]
  BY DEF PollTyped
<1>2. poll' = [poll EXCEPT !.requests = @ \ {r}, !.lost = @ \cup {Owner[r.page]}]
  BY DEF Votes!Fails
<1> QED
  BY <1>1, <1>2 DEF PollReceives, PollTyped, PollNames
--------------------------------------------------------------------------------
\* A page stays one of the poll's when it is told of an answer.
LEMMA PollShownTyped ==
    ASSUME PollTyped, NEW r, RequestAgrees(r), r.op # "view"
    PROVE  PollShown(r) \in PollPage
<1>1. poll.pages[r.page] \in PollPage /\ poll.reset \in BOOLEAN
  BY DEF PollTyped, RequestAgrees
<1>2. CASE r.op = "get"
  BY <1>1, <1>2 DEF PollShown, PollPage, RequestAgrees
<1>3. CASE r.op = "submit"
  BY <1>1, <1>3 DEF PollShown, PollPage, RequestAgrees
<1>4. CASE r.op = "reset"
  BY <1>1, <1>4 DEF PollShown, PollPage, RequestAgrees
<1> QED
  BY <1>2, <1>3, <1>4 DEF RequestAgrees

\* To send, to start, to end and to receive leave the fields of every learner together.
LEMMA PollSendsKeeps ==
    ASSUME PollInv, NEW p \in Votes!Pages, NEW op \in {"submit", "reset", "view", "get"}, NEW arg,
           op = "submit" => arg \in Answers, NEW page \in PollPage, NEW gone,
           PollSends(p, op, arg, page, gone)
    PROVE  PollInv'
<1> DEFINE new == PollNew(poll.made, p, op, arg)
<1>1. /\ DOMAIN new = {"nr", "page", "op", "arg", "status", "read", "answer", "voted"}
      /\ new.page = p /\ new.op = op /\ new.arg = arg /\ new.status = "sent"
      /\ new.answer = Votes!None /\ new.voted = FALSE
  BY DEF PollNew, Votes!Request
<1>2. poll'.requests = (poll.requests \ gone) \cup {new}
  BY DEF PollSends
<1> HIDE DEF new
<1>3. RequestAgrees(new)
  BY <1>1 DEF RequestAgrees
<1> QED
  BY <1>2, <1>3 DEF PollSends, PollInv, PollTyped, Votes!VotedHasAnswer

LEMMA PollRunsKeeps ==
    ASSUME PollInv, NEW r \in poll.requests,
           PollRuns(r, [r EXCEPT !.status = "running", !.read = Votes!Fields(Owner[r.page])])
    PROVE  PollInv'
<1>1. Owner[r.page] \in Votes!Learners
  BY DEF PollInv, RequestAgrees, Votes!Learners
<1>2. RequestAgrees([r EXCEPT !.status = "running", !.read = Votes!Fields(Owner[r.page])])
  BY <1>1 DEF PollInv, PollTyped, RequestAgrees, Votes!Fields, Votes!VotedHasAnswer
<1> QED
  BY <1>2 DEF PollRuns, PollInv, PollTyped, Votes!VotedHasAnswer

LEMMA PollSavesKeeps ==
    ASSUME PollInv, NEW r \in poll.requests, r.status = "running",
           PollSaves(r, PollNow(r), PollReply(r), PollLost(r))
    PROVE  PollInv'
<1> DEFINE l == Owner[r.page]
<1>1. RequestAgrees(r) /\ l \in Votes!Learners
  BY DEF PollInv, RequestAgrees, Votes!Learners
<1>2. /\ PollNow(r).voted \in BOOLEAN /\ PollNow(r).poll_answer \in Answers \cup {Votes!None}
      /\ PollNow(r).voted <=> PollNow(r).poll_answer # Votes!None
  BY <1>1, PollSavesAgree DEF PollNow, RequestAgrees
<1>3. RequestAgrees(PollReply(r))
  BY <1>1, <1>2 DEF RequestAgrees, PollReply
<1>4. \A q \in poll'.requests : RequestAgrees(q)
  BY <1>3 DEF PollSaves, PollInv
<1>5. PollTyped'
  BY <1>1, <1>2 DEF PollSaves, PollInv, PollTyped
<1>6. ASSUME NEW m \in Votes!Learners
      PROVE  poll'.voted[m] <=> poll'.poll_answer[m] # Votes!None
  BY <1>1, <1>2 DEF PollSaves, PollInv, PollTyped, Votes!VotedHasAnswer
<1> QED
  BY <1>4, <1>5, <1>6 DEF PollInv, Votes!VotedHasAnswer

LEMMA PollReceivesKeeps ==
    ASSUME PollInv, NEW r \in poll.requests, NEW page \in PollPage, NEW lost,
           PollReceives(r, page, lost)
    PROVE  PollInv'
BY DEF PollReceives, PollInv, PollTyped, Votes!VotedHasAnswer

\* Every step keeps the fields of every learner together.
LEMMA PollInductive ==
    /\ Votes!Init => PollInv
    /\ PollInv /\ [Votes!Next]_poll => PollInv'
<1>1. Votes!Init => PollInv
  <2> SUFFICES ASSUME Votes!Init
               PROVE  PollInv
    OBVIOUS
  <2> DEFINE nobody == [l \in Votes!Learners |-> FALSE]
             nothing == [l \in Votes!Learners |-> Votes!None]
             pages == [p \in Votes!Pages |-> Votes!Page]
  <2>1. PICK reset \in BOOLEAN :
            poll = [reset |-> reset, voted |-> nobody, poll_answer |-> nothing,
                    poll_answers |-> <<>>, pages |-> pages, requests |-> {}, made |-> 0,
                    overlapped |-> FALSE, lost |-> {}, doubled |-> {}, elsewhere |-> {}]
    BY DEF Votes!Init
  <2> HIDE DEF nobody, nothing, pages
  <2>2. /\ poll.voted = nobody /\ poll.poll_answer = nothing /\ poll.requests = {}
        /\ poll.reset \in BOOLEAN /\ poll.pages = pages /\ DOMAIN poll = PollNames
    BY <2>1 DEF PollNames
  <2> USE DEF nobody, nothing, pages
  <2>3. Votes!Page \in PollPage
    BY DEF Votes!Page, PollPage
  <2> QED
    BY <2>2, <2>3 DEF PollInv, PollTyped, Votes!VotedHasAnswer
<1>2. ASSUME PollInv, [Votes!Next]_poll
      PROVE  PollInv'
  <2>1. PollTyped /\ \A p \in Votes!Pages : poll.pages[p] \in PollPage
    BY <1>2 DEF PollInv, PollTyped
  <2>2. ASSUME NEW p \in Votes!Pages, Votes!Open(p)
        PROVE  PollInv'
    <3>1. [poll.pages[p] EXCEPT !.open = TRUE] \in PollPage
      BY <2>1 DEF PollPage
    <3> QED
      BY <1>2, <2>1, <2>2, <3>1, OpenSends, PollSendsKeeps
  <2>3. ASSUME NEW p \in Votes!Pages, Votes!Reset(p)
        PROVE  PollInv'
    BY <1>2, <2>1, <2>3, ResetSends, PollSendsKeeps
  <2>4. ASSUME NEW p \in Votes!Pages, NEW a \in Answers, Votes!Vote(p, a)
        PROVE  PollInv'
    <3>1. [poll.pages[p] EXCEPT !.questionAnswered = TRUE, !.answered = @ \cup {a}] \in PollPage
      BY <2>1 DEF PollPage
    <3> QED
      BY <1>2, <2>1, <2>4, <3>1, VoteSends, PollSendsKeeps
  <2>5. ASSUME NEW r \in poll.requests, Votes!Starts(r)
        PROVE  PollInv'
    BY <1>2, <2>1, <2>5, StartRuns, PollRunsKeeps
  <2>6. ASSUME NEW r \in poll.requests, Votes!Ends(r)
        PROVE  PollInv'
    BY <1>2, <2>1, <2>6, EndSaves, PollSavesKeeps
  <2>7. ASSUME NEW r \in poll.requests, Votes!Arrives(r) \/ Votes!Fails(r)
        PROVE  PollInv'
    <3>1. RequestAgrees(r) /\ poll.pages[r.page] \in PollPage /\ r.page \in Votes!Pages
      BY <1>2, <2>1 DEF PollInv, RequestAgrees
    <3>2. CASE Votes!Arrives(r) /\ r.op = "view"
      BY <1>2, <2>1, <3>1, <3>2, ArriveReceives, PollSendsKeeps
    <3>3. CASE Votes!Arrives(r) /\ r.op # "view"
      BY <1>2, <2>1, <3>1, <3>3, ArriveReceives, PollShownTyped, PollReceivesKeeps
    <3>4. CASE Votes!Fails(r)
      BY <1>2, <2>1, <3>1, <3>4, FailReceives, PollReceivesKeeps
    <3> QED
      BY <2>7, <3>2, <3>3, <3>4
  <2>8. CASE UNCHANGED poll
    BY <1>2, <2>8 DEF PollInv, PollTyped, Votes!VotedHasAnswer
  <2> QED
    BY <1>2, <2>2, <2>3, <2>4, <2>5, <2>6, <2>7, <2>8 DEF Votes!Next
<1> QED
  BY <1>1, <1>2

--------------------------------------------------------------------------------
\* Where nothing was lost, refused, made twice or from another page.
Quietly(p) == Owner[p] \notin poll.lost \cup poll.doubled \cup poll.elsewhere
PollTells(p) ==
    /\ poll.pages[p].answered = {poll.poll_answer[Owner[p]]} \ {Votes!None}
    /\ poll.pages[p].stats <=> poll.voted[Owner[p]]
    /\ poll.pages[p].questionAnswered <=> poll.voted[Owner[p]]

(***************************************************************************)
(* The request of a page on its way: what it has read is still so, what it *)
(* saved too, and the page has been told of all that was before.           *)
(***************************************************************************)
Reports(r) ==
    LET page == poll.pages[r.page]
        l == Owner[r.page]
    IN  /\ page.rendered <=> r.op \in {"submit", "reset"}
        /\ r.status = "running" => /\ r.read.voted = poll.voted[l]
                                   /\ r.read.poll_answer = poll.poll_answer[l]
        /\ r.op = "get" /\ r.status = "answered" => r.answer = poll.poll_answer[l]
        /\ r.op = "reset" /\ r.status = "answered" => ~poll.voted[l]
        /\ r.op = "submit" =>
              /\ page.questionAnswered /\ page.answered = {r.arg}
              /\ r.status # "answered" => ~poll.voted[l] /\ ~page.stats
              /\ r.status = "answered" => r.voted /\ poll.poll_answer[l] = r.arg
PageIsSound(p) ==
    Quietly(p) =>
        /\ \A q \in Votes!Pages :
              Owner[q] = Owner[p] /\ poll.pages[p].open /\ poll.pages[q].open => q = p
        /\ \A r, q \in poll.requests : r.page = p /\ q.page = p => r = q
        /\ \A r \in poll.requests : r.page = p => Reports(r)
        /\ poll.pages[p].rendered /\ (\A r \in poll.requests : r.page # p) => PollTells(p)
PollPagesInv ==
    /\ \A p \in Votes!Pages : /\ PageIsSound(p) /\ (poll.pages[p].rendered => poll.pages[p].open)
                              /\ poll.pages[p].resetButton => poll.pages[p].rendered
    /\ \A r \in poll.requests : /\ poll.pages[r.page].open
                                /\ r.op \in {"submit", "reset"} => poll.pages[r.page].rendered

\* The zeros are saved before a page shows the poll.
Zeroed == poll.poll_answers \in [Answers -> Int]
Fresh ==
    /\ poll.poll_answers = <<>> /\ \A p \in Votes!Pages : ~poll.pages[p].rendered
    /\ \A r \in poll.requests : r.op = "view" /\ r.status \in {"sent", "running"}

\* Until requests overlap, the one that is running has read what there is.
PollCountsInv ==
    ~poll.overlapped =>
        /\ Votes!CountsAreVotes /\ (Zeroed \/ Fresh)
        /\ \A r, q \in poll.requests : r.status = "running" /\ q.status = "running" => r = q
        /\ \A r \in poll.requests : r.status = "running" => r.read = Votes!Fields(Owner[r.page])
--------------------------------------------------------------------------------
\* Those who gave an answer, one more or one fewer.
Voters(answers, a) == {l \in Votes!Learners : answers[l] = a}

LEMMA VotersFinite ==
    ASSUME NEW f, NEW a
    PROVE  IsFiniteSet(Voters(f, a)) /\ Cardinality(Voters(f, a)) \in Nat
<1>1. Votes!Learners = {"l1", "l2"}
  BY DEF Votes!Learners, Votes!Pages, Owner
<1>2. IsFiniteSet(Votes!Learners)
  <2>1. IsFiniteSet({"l1"})
    BY FS_Singleton
  <2> QED
    BY <1>1, <2>1, FS_AddElement, {"l1"} \cup {"l2"} = {"l1", "l2"}
<1>3. Voters(f, a) \subseteq Votes!Learners
  BY DEF Voters
<1> QED
  BY <1>2, <1>3, FS_Subset, FS_CardinalityType

LEMMA VoterJoins ==
    ASSUME NEW f \in [Votes!Learners -> Answers \cup {Votes!None}], NEW l \in Votes!Learners,
           f[l] = Votes!None, NEW a \in Answers, NEW b \in Answers
    PROVE  Cardinality(Voters([f EXCEPT ![l] = a], b))
              = Cardinality(Voters(f, b)) + (IF b = a THEN 1 ELSE 0)
<1>1. Votes!None \notin Answers
  BY Bounds DEF Votes!None
<1>2. CASE b = a
  <2>1. Voters([f EXCEPT ![l] = a], b) = Voters(f, b) \cup {l} /\ l \notin Voters(f, b)
    BY <1>1, <1>2 DEF Voters
  <2> QED
    BY <1>2, <2>1, VotersFinite, FS_AddElement
<1>3. CASE b # a
  <2>1. Voters([f EXCEPT ![l] = a], b) = Voters(f, b)
    BY <1>1, <1>3 DEF Voters
  <2> QED
    BY <1>3, <2>1, VotersFinite
<1> QED
  BY <1>2, <1>3

LEMMA VoterLeaves ==
    ASSUME NEW f \in [Votes!Learners -> Answers \cup {Votes!None}], NEW l \in Votes!Learners,
           f[l] \in Answers, NEW b \in Answers
    PROVE  Cardinality(Voters([f EXCEPT ![l] = Votes!None], b))
              = Cardinality(Voters(f, b)) - (IF b = f[l] THEN 1 ELSE 0)
<1>1. Votes!None \notin Answers
  BY Bounds DEF Votes!None
<1>2. CASE b = f[l]
  <2>1. Voters([f EXCEPT ![l] = Votes!None], b) = Voters(f, b) \ {l} /\ l \in Voters(f, b)
    BY <1>1, <1>2 DEF Voters
  <2> QED
    BY <1>2, <2>1, VotersFinite, FS_RemoveElement
<1>3. CASE b # f[l]
  <2>1. Voters([f EXCEPT ![l] = Votes!None], b) = Voters(f, b)
    BY <1>1, <1>3 DEF Voters
  <2> QED
    BY <1>3, <2>1, VotersFinite
<1> QED
  BY <1>2, <1>3
\* The counts are of those who voted.
LEMMA SameCount ==
    ASSUME NEW S
    PROVE  Votes!Cardinality(S) = Cardinality(S)
BY DEF Votes!Cardinality, Cardinality

LEMMA CountsOf ==
    Votes!CountsAreVotes <=>
        (~poll.overlapped => \A a \in Answers :
            (IF a \in DOMAIN poll.poll_answers THEN poll.poll_answers[a] ELSE 0)
                = Cardinality(Voters(poll.poll_answer, a)))
BY SameCount DEF Votes!CountsAreVotes, Voters

\* To send, to start and to receive count nothing.
LEMMA SendsCounts ==
    ASSUME PollCountsInv, NEW p \in Votes!Pages, NEW op, NEW arg, NEW page, NEW gone,
           PollSends(p, op, arg, page, gone), PollTyped,
           ~poll.overlapped =>
               Zeroed \/ (op = "view" /\ (page.rendered <=> poll.pages[p].rendered))
    PROVE  PollCountsInv'
<1> DEFINE new == PollNew(poll.made, p, op, arg)
<1>1. new.op = op /\ new.status = "sent"
  BY DEF PollNew, Votes!Request
<1>2. poll'.requests = (poll.requests \ gone) \cup {new}
  BY DEF PollSends
<1> HIDE DEF new
<1> SUFFICES ASSUME ~poll'.overlapped
             PROVE  /\ Votes!CountsAreVotes' /\ (Zeroed \/ Fresh)'
                    /\ \A r, q \in poll'.requests : r.status = "running" /\ q.status = "running" => r = q
                    /\ \A r \in poll'.requests :
                          r.status = "running" => r.read = Votes!Fields(Owner[r.page])'
  BY DEF PollCountsInv
<1>3. /\ Votes!CountsAreVotes /\ (Zeroed \/ Fresh)
      /\ \A r, q \in poll.requests : r.status = "running" /\ q.status = "running" => r = q
      /\ \A r \in poll.requests : r.status = "running" => r.read = Votes!Fields(Owner[r.page])
  BY DEF PollSends, PollCountsInv
<1>4. Votes!CountsAreVotes'
  BY <1>3 DEF PollSends, Votes!CountsAreVotes
<1>5. (Zeroed \/ Fresh)'
  BY <1>1, <1>2, <1>3 DEF PollSends, PollTyped, Zeroed, Fresh
<1>6. \A r \in poll'.requests : r.status = "running" => r \in poll.requests
  BY <1>1, <1>2
<1>7. ASSUME NEW l PROVE Votes!Fields(l)' = Votes!Fields(l)
  BY DEF PollSends, Votes!Fields
<1> QED
  BY <1>3, <1>4, <1>5, <1>6, <1>7

LEMMA RunsCounts ==
    ASSUME PollCountsInv, NEW r \in poll.requests, r.status = "sent", RequestAgrees(r),
           PollRuns(r, [r EXCEPT !.status = "running", !.read = Votes!Fields(Owner[r.page])])
    PROVE  PollCountsInv'
<1> DEFINE running == [r EXCEPT !.status = "running", !.read = Votes!Fields(Owner[r.page])]
<1>1. /\ running.op = r.op /\ running.status = "running" /\ running.page = r.page
      /\ running.read = Votes!Fields(Owner[r.page])
  BY DEF RequestAgrees
<1>2. poll'.requests = (poll.requests \ {r}) \cup {running}
  BY DEF PollRuns
<1> HIDE DEF running
<1> SUFFICES ASSUME ~poll'.overlapped
             PROVE  /\ Votes!CountsAreVotes' /\ (Zeroed \/ Fresh)'
                    /\ \A q, u \in poll'.requests : q.status = "running" /\ u.status = "running" => q = u
                    /\ \A q \in poll'.requests :
                          q.status = "running" => q.read = Votes!Fields(Owner[q.page])'
  BY DEF PollCountsInv
<1>3. /\ Votes!CountsAreVotes /\ (Zeroed \/ Fresh) /\ ~poll.overlapped
      /\ \A q \in poll.requests : q.status # "running"
  BY DEF PollRuns, PollCountsInv
<1>4. Votes!CountsAreVotes'
  BY <1>3 DEF PollRuns, Votes!CountsAreVotes
<1>5. (Zeroed \/ Fresh)'
  BY <1>1, <1>2, <1>3 DEF PollRuns, Zeroed, Fresh
<1>6. ASSUME NEW l PROVE Votes!Fields(l)' = Votes!Fields(l)
  BY DEF PollRuns, Votes!Fields
<1> QED
  BY <1>1, <1>2, <1>3, <1>4, <1>5, <1>6

LEMMA ReceivesCounts ==
    ASSUME PollCountsInv, NEW r \in poll.requests, r.status # "running",
           r.status = "sent" => r.op # "view", NEW page, NEW lost, PollReceives(r, page, lost)
    PROVE  PollCountsInv'
<1> SUFFICES ASSUME ~poll'.overlapped
             PROVE  /\ Votes!CountsAreVotes' /\ (Zeroed \/ Fresh)'
                    /\ \A q, u \in poll'.requests : q.status = "running" /\ u.status = "running" => q = u
                    /\ \A q \in poll'.requests :
                          q.status = "running" => q.read = Votes!Fields(Owner[q.page])'
  BY DEF PollCountsInv
<1>1. /\ Votes!CountsAreVotes /\ (Zeroed \/ Fresh)
      /\ \A q, u \in poll.requests : q.status = "running" /\ u.status = "running" => q = u
      /\ \A q \in poll.requests : q.status = "running" => q.read = Votes!Fields(Owner[q.page])
  BY DEF PollReceives, PollCountsInv
<1>2. Votes!CountsAreVotes'
  BY <1>1 DEF PollReceives, Votes!CountsAreVotes
<1>3. Zeroed'
  BY <1>1 DEF PollReceives, Zeroed, Fresh
<1>4. ASSUME NEW l PROVE Votes!Fields(l)' = Votes!Fields(l)
  BY DEF PollReceives, Votes!Fields
<1>5. poll'.requests \subseteq poll.requests
  BY DEF PollReceives
<1> QED
  BY <1>1, <1>2, <1>3, <1>4, <1>5

\* The request that ends has read what there is: it counts the vote it saves, or takes it back.
LEMMA SavesCounts ==
    ASSUME PollInv, PollCountsInv, NEW r \in poll.requests, r.status = "running",
           PollSaves(r, PollNow(r), PollReply(r), PollLost(r))
    PROVE  PollCountsInv'
<1> DEFINE l == Owner[r.page]
<1> SUFFICES ASSUME ~poll'.overlapped
             PROVE  /\ Votes!CountsAreVotes' /\ (Zeroed \/ Fresh)'
                    /\ \A q, u \in poll'.requests : q.status = "running" /\ u.status = "running" => q = u
                    /\ \A q \in poll'.requests :
                          q.status = "running" => q.read = Votes!Fields(Owner[q.page])'
  BY DEF PollCountsInv
<1>1. /\ Votes!CountsAreVotes /\ (Zeroed \/ Fresh) /\ ~poll.overlapped
      /\ \A q \in poll.requests : q.status = "running" => q = r
      /\ r.read = Votes!Fields(l)
  BY DEF PollSaves, PollCountsInv
<1>2. RequestAgrees(r) /\ l \in Votes!Learners
  BY DEF PollInv, RequestAgrees, Votes!Learners
<1>3. /\ r.read.voted = poll.voted[l] /\ r.read.poll_answer = poll.poll_answer[l]
      /\ r.read.poll_answers = poll.poll_answers
      /\ DOMAIN r.read = {"voted", "poll_answer", "poll_answers"}
  BY <1>1, <1>2 DEF Votes!Fields, RequestAgrees
<1>4. /\ poll.poll_answer \in [Votes!Learners -> Answers \cup {Votes!None}]
      /\ poll.voted \in [Votes!Learners -> BOOLEAN]
      /\ poll.voted[l] <=> poll.poll_answer[l] # Votes!None
  BY <1>2 DEF PollInv, PollTyped, Votes!VotedHasAnswer
<1>5. PollReply(r).status # "running" /\ PollReply(r).op = r.op
  BY <1>2 DEF PollReply, RequestAgrees
<1>6. \A q \in poll'.requests : q.status # "running"
  BY <1>1, <1>5 DEF PollSaves
<1>7. \A a \in Answers : (IF a \in DOMAIN poll.poll_answers THEN poll.poll_answers[a] ELSE 0)
                            = Cardinality(Voters(poll.poll_answer, a))
  BY <1>1, CountsOf
<1>8. (\A a \in Answers : (IF a \in DOMAIN poll'.poll_answers THEN poll'.poll_answers[a] ELSE 0)
                            = Cardinality(Voters(poll'.poll_answer, a)))
      => Votes!CountsAreVotes'
  BY SameCount DEF Votes!CountsAreVotes, Voters
<1>9. CASE r.op = "view"
  <2> DEFINE counts == [a \in Answers |-> IF a \in DOMAIN poll.poll_answers THEN poll.poll_answers[a] ELSE 0]
  <2>1. counts \in [Answers -> Int]
    BY <1>7, VotersFinite
  <2>2. PollNow(r) = [r.read EXCEPT !.poll_answers = counts]
    BY <1>3, <1>9 DEF PollNow, Votes!Saves, Votes!dump_poll
  <2>3. poll'.poll_answers = counts /\ poll'.poll_answer = poll.poll_answer
    <3> HIDE DEF counts
    <3>1. /\ PollNow(r).poll_answers = counts
          /\ PollNow(r).poll_answer = poll.poll_answer[l]
      BY <1>3, <2>2
    <3> QED
      BY <1>3, <1>4, <1>9, <2>2, <3>1 DEF PollSaves
  <2>4. Zeroed'
    BY <2>1, <2>3 DEF Zeroed
  <2>5. Votes!CountsAreVotes'
    BY <1>7, <1>8, <2>3
  <2> QED
    BY <1>6, <2>4, <2>5
<1>10. CASE r.op # "view"
  <2>1. Zeroed
    BY <1>1, <1>10 DEF Fresh
  <2>2. \A a \in Answers : poll.poll_answers[a] = Cardinality(Voters(poll.poll_answer, a))
    BY <1>7, <2>1 DEF Zeroed
  <2>3. CASE PollNow(r) = r.read
    <3>1. poll'.poll_answers = poll.poll_answers /\ poll'.poll_answer = poll.poll_answer
      BY <2>3 DEF PollSaves
    <3> QED
      BY <1>6, <1>7, <1>8, <2>1, <3>1 DEF Zeroed
  <2>4. CASE r.op = "submit" /\ PollNow(r) # r.read
    <3>1. /\ ~r.read.voted /\ r.arg \in Answers
          /\ PollNow(r).poll_answer = r.arg
          /\ PollNow(r).poll_answers = [poll.poll_answers EXCEPT ![r.arg] = @ + 1]
      BY <1>2, <1>3, <2>4 DEF PollNow, Votes!Saves, Votes!submit_answer, RequestAgrees
    <3>2. /\ poll'.poll_answers = [poll.poll_answers EXCEPT ![r.arg] = @ + 1]
          /\ poll'.poll_answer = [poll.poll_answer EXCEPT ![l] = r.arg]
      BY <2>4, <3>1 DEF PollSaves
    <3>3. Zeroed'
      BY <2>1, <3>1, <3>2 DEF Zeroed
    <3>4. \A a \in Answers : poll'.poll_answers[a] = Cardinality(Voters(poll'.poll_answer, a))
      BY <1>2, <1>3, <1>4, <2>1, <2>2, <3>1, <3>2, VoterJoins DEF Zeroed
    <3> QED
      BY <1>6, <1>8, <3>3, <3>4 DEF Zeroed
  <2>5. CASE r.op = "reset" /\ PollNow(r) # r.read
    <3>1. /\ r.read.poll_answer # Votes!None
          /\ PollNow(r).poll_answer = Votes!None
          /\ PollNow(r).poll_answers = [poll.poll_answers EXCEPT ![poll.poll_answer[l]] = @ - 1]
      BY <1>3, <2>5 DEF PollNow, Votes!Saves, Votes!handle_reset_state
    <3>2. /\ poll'.poll_answers = [poll.poll_answers EXCEPT ![poll.poll_answer[l]] = @ - 1]
          /\ poll'.poll_answer = [poll.poll_answer EXCEPT ![l] = Votes!None]
      BY <2>5, <3>1 DEF PollSaves
    <3>3. poll.poll_answer[l] \in Answers
      BY <1>2, <1>3, <1>4, <3>1
    <3>4. Zeroed'
      BY <2>1, <3>2, <3>3 DEF Zeroed
    <3>5. \A a \in Answers : poll'.poll_answers[a] = Cardinality(Voters(poll'.poll_answer, a))
      BY <1>2, <1>4, <2>1, <2>2, <3>2, <3>3, VoterLeaves DEF Zeroed
    <3> QED
      BY <1>6, <1>8, <3>4, <3>5 DEF Zeroed
  <2>6. CASE r.op = "get" /\ PollNow(r) # r.read
    BY <2>6 DEF PollNow, Votes!Saves
  <2> QED
    BY <1>2, <1>10, <2>3, <2>4, <2>5, <2>6 DEF RequestAgrees
<1> QED
  BY <1>9, <1>10
--------------------------------------------------------------------------------
\* What is the same on the pages but p: their requests, and what their learners have voted.
PollOnPage(p) ==
    /\ \A m \in Votes!Pages \ {p} :
          /\ poll'.pages[m] = poll.pages[m]
          /\ Owner[m] # Owner[p] => /\ poll'.voted[Owner[m]] = poll.voted[Owner[m]]
                                    /\ poll'.poll_answer[Owner[m]] = poll.poll_answer[Owner[m]]
          /\ Owner[m] = Owner[p] /\ poll.pages[m].open =>
                poll.pages[p].open \/ Owner[p] \in poll'.elsewhere
    /\ \A r : r.page # p => (r \in poll'.requests <=> r \in poll.requests)
    /\ poll.lost \subseteq poll'.lost /\ poll.doubled \subseteq poll'.doubled
    /\ poll.elsewhere \subseteq poll'.elsewhere

\* The other pages stay sound.
LEMMA OtherPagesKeep ==
    ASSUME PollPagesInv, NEW p \in Votes!Pages, PollOnPage(p), NEW m \in Votes!Pages, m # p
    PROVE  PageIsSound(m)'
<1> SUFFICES ASSUME Quietly(m)'
             PROVE  /\ \A q \in Votes!Pages :
                          Owner[q] = Owner[m] /\ poll'.pages[m].open /\ poll'.pages[q].open => q = m
                    /\ \A r, q \in poll'.requests : r.page = m /\ q.page = m => r = q
                    /\ \A r \in poll'.requests : r.page = m => Reports(r)'
                    /\ poll'.pages[m].rendered /\ (\A r \in poll'.requests : r.page # m) => PollTells(m)'
  BY DEF PageIsSound
<1>1. Quietly(m)
  BY DEF Quietly, PollOnPage
<1>2. /\ \A q \in Votes!Pages :
            Owner[q] = Owner[m] /\ poll.pages[m].open /\ poll.pages[q].open => q = m
      /\ \A r, q \in poll.requests : r.page = m /\ q.page = m => r = q
      /\ \A r \in poll.requests : r.page = m => Reports(r)
      /\ poll.pages[m].rendered /\ (\A r \in poll.requests : r.page # m) => PollTells(m)
  BY <1>1 DEF PollPagesInv, PageIsSound
<1>3. /\ poll'.pages[m] = poll.pages[m]
      /\ \A r : r.page = m => (r \in poll'.requests <=> r \in poll.requests)
  BY DEF PollOnPage
<1>4. CASE Owner[m] # Owner[p]
  <2>1. /\ poll'.voted[Owner[m]] = poll.voted[Owner[m]]
        /\ poll'.poll_answer[Owner[m]] = poll.poll_answer[Owner[m]]
        /\ \A q \in Votes!Pages : Owner[q] = Owner[m] => poll'.pages[q] = poll.pages[q]
    BY <1>4 DEF PollOnPage
  <2>2. \A r : r.page = m => (Reports(r)' <=> Reports(r))
    BY <1>3, <2>1 DEF Reports
  <2>3. PollTells(m)' <=> PollTells(m)
    BY <1>3, <2>1 DEF PollTells
  <2> QED
    BY <1>2, <1>3, <2>1, <2>2, <2>3
<1>5. CASE Owner[m] = Owner[p]
  <2>1. ~poll.pages[m].open
    BY <1>2, <1>5 DEF PollOnPage, Quietly
  <2>2. ~poll.pages[m].rendered /\ \A r \in poll.requests : r.page # m
    BY <2>1 DEF PollPagesInv
  <2> QED
    BY <1>3, <2>1, <2>2
<1> QED
  BY <1>4, <1>5

\* A page that sends has asked for nothing else.
LEMMA SendsPages ==
    ASSUME PollInv, PollPagesInv, NEW p \in Votes!Pages,
           NEW op \in {"submit", "reset", "view", "get"}, NEW arg, NEW page \in PollPage, NEW gone,
           \A r \in gone : r.page = p,
           PollSends(p, op, arg, page, gone),
           page.open, page.resetButton => page.rendered, poll.pages[p].rendered => page.rendered,
           op \in {"submit", "reset"} => page.rendered,
           Quietly(p) /\ (\A r \in poll.requests \ gone : r.page # p) =>
               /\ page.rendered <=> op \in {"submit", "reset"}
               /\ op = "submit" => /\ page.questionAnswered /\ page.answered = {arg}
                                   /\ ~poll.voted[Owner[p]] /\ ~page.stats
    PROVE  PollPagesInv'
<1> PICK new : new = PollNew(poll.made, p, op, arg)
  OBVIOUS
<1>1. new.op = op /\ new.status = "sent" /\ new.page = p /\ new.arg = arg
  BY DEF PollNew, Votes!Request
<1>2. poll'.requests = (poll.requests \ gone) \cup {new}
  BY DEF PollSends
<1>3. /\ poll'.pages \in [Votes!Pages -> PollPage] /\ poll'.pages[p] = page
      /\ \A m \in Votes!Pages \ {p} : poll'.pages[m] = poll.pages[m]
  BY DEF PollSends, PollInv, PollTyped
<1>4. PollOnPage(p)
  BY <1>1, <1>2, <1>3 DEF PollSends, PollOnPage
<1>5. PageIsSound(p)'
  <2> SUFFICES ASSUME Quietly(p)'
               PROVE  /\ \A q \in Votes!Pages :
                            Owner[q] = Owner[p] /\ poll'.pages[p].open /\ poll'.pages[q].open => q = p
                      /\ \A r, q \in poll'.requests : r.page = p /\ q.page = p => r = q
                      /\ \A r \in poll'.requests : r.page = p => Reports(r)'
                      /\ poll'.pages[p].rendered /\ (\A r \in poll'.requests : r.page # p) => PollTells(p)'
    BY DEF PageIsSound
  <2>1. /\ Quietly(p) /\ \A r \in poll.requests \ gone : r.page # p
        /\ \A q \in Votes!Pages \ {p} : ~(poll.pages[q].open /\ Owner[q] = Owner[p])
    BY DEF Quietly, PollSends
  <2>2. \A r \in poll'.requests : r.page = p => r = new
    BY <1>2, <2>1
  <2>3. /\ page.rendered <=> op \in {"submit", "reset"}
        /\ op = "submit" => /\ page.questionAnswered /\ page.answered = {arg}
                            /\ ~poll.voted[Owner[p]] /\ ~page.stats
    BY <2>1
  <2>4. poll'.voted = poll.voted
    BY DEF PollSends
  <2>5. Reports(new)'
    BY <1>1, <1>3, <2>3, <2>4 DEF Reports
  <2>6. \A q \in Votes!Pages : Owner[q] = Owner[p] /\ poll'.pages[q].open => q = p
    BY <1>3, <2>1
  <2>7. new \in poll'.requests
    BY <1>2
  <2> QED
    BY <1>1, <2>2, <2>5, <2>6, <2>7
<1>6. \A m \in Votes!Pages : PageIsSound(m)'
  BY <1>4, <1>5, OtherPagesKeep
<1>7. \A m \in Votes!Pages : /\ poll'.pages[m].rendered => poll'.pages[m].open
                             /\ poll'.pages[m].resetButton => poll'.pages[m].rendered
  BY <1>3 DEF PollPagesInv
<1>8. \A r \in poll'.requests : /\ poll'.pages[r.page].open
                                /\ r.op \in {"submit", "reset"} => poll'.pages[r.page].rendered
  <2> SUFFICES ASSUME NEW r \in poll'.requests
               PROVE  /\ poll'.pages[r.page].open
                      /\ r.op \in {"submit", "reset"} => poll'.pages[r.page].rendered
    OBVIOUS
  <2>1. CASE r = new
    BY <1>1, <1>3, <2>1
  <2>2. CASE r \in poll.requests
    BY <1>3, <2>2 DEF PollInv, RequestAgrees, PollPagesInv
  <2> QED
    BY <1>2, <2>1, <2>2
<1> QED
  BY <1>6, <1>7, <1>8 DEF PollPagesInv

\* A page whose request is served waits for nothing else.
LEMMA PageWaits ==
    ASSUME PollPagesInv, NEW r \in poll.requests, r.page \in Votes!Pages, Quietly(r.page)
    PROVE  /\ \A q \in poll.requests : q.page = r.page => q = r
           /\ Reports(r)
           /\ \A q \in Votes!Pages : Owner[q] = Owner[r.page] /\ poll.pages[q].open => q = r.page
BY DEF PollPagesInv, PageIsSound

LEMMA RunsPages ==
    ASSUME PollInv, PollPagesInv, NEW r \in poll.requests, r.status = "sent",
           PollRuns(r, [r EXCEPT !.status = "running", !.read = Votes!Fields(Owner[r.page])])
    PROVE  PollPagesInv'
<1>1. r.page \in Votes!Pages /\ RequestAgrees(r) /\ Owner[r.page] \in Votes!Learners
  BY DEF PollInv, RequestAgrees, Votes!Learners
<1> PICK running : running = [r EXCEPT !.status = "running", !.read = Votes!Fields(Owner[r.page])]
  OBVIOUS
<1>2. /\ running.page = r.page /\ running.op = r.op /\ running.arg = r.arg
      /\ running.status = "running"
      /\ running.read.voted = poll.voted[Owner[r.page]]
      /\ running.read.poll_answer = poll.poll_answer[Owner[r.page]]
  BY <1>1 DEF RequestAgrees, Votes!Fields
<1>3. /\ poll'.requests = (poll.requests \ {r}) \cup {running} /\ poll'.pages = poll.pages
      /\ poll'.voted = poll.voted /\ poll'.poll_answer = poll.poll_answer
  BY DEF PollRuns
<1>4. PollOnPage(r.page)
  BY <1>1, <1>2, <1>3 DEF PollOnPage, PollRuns, PollPagesInv
<1>5. PageIsSound(r.page)'
  <2> SUFFICES ASSUME Quietly(r.page)'
               PROVE  /\ \A q \in Votes!Pages :
                            Owner[q] = Owner[r.page] /\ poll'.pages[r.page].open /\ poll'.pages[q].open => q = r.page
                      /\ \A u, q \in poll'.requests : u.page = r.page /\ q.page = r.page => u = q
                      /\ \A q \in poll'.requests : q.page = r.page => Reports(q)'
                      /\ poll'.pages[r.page].rendered /\ (\A q \in poll'.requests : q.page # r.page) => PollTells(r.page)'
    BY DEF PageIsSound
  <2>1. Quietly(r.page)
    BY DEF Quietly, PollRuns
  <2>2. \A q \in poll'.requests : q.page = r.page => q = running
    BY <1>1, <1>3, <2>1, PageWaits
  <2>3. Reports(running)'
    <3>1. Reports(r)
      BY <1>1, <2>1, PageWaits
    <3> QED
      BY <1>2, <1>3, <3>1 DEF Reports
  <2>4. running \in poll'.requests
    BY <1>3
  <2> QED
    BY <1>1, <1>2, <1>3, <2>1, <2>2, <2>3, <2>4, PageWaits
<1>6. \A m \in Votes!Pages : PageIsSound(m)'
  BY <1>1, <1>4, <1>5, OtherPagesKeep
<1> QED
  BY <1>2, <1>3, <1>6 DEF PollPagesInv

LEMMA SavesPages ==
    ASSUME PollInv, PollPagesInv, NEW r \in poll.requests, r.status = "running",
           PollSaves(r, PollNow(r), PollReply(r), PollLost(r))
    PROVE  PollPagesInv'
<1>1. r.page \in Votes!Pages /\ RequestAgrees(r) /\ Owner[r.page] \in Votes!Learners
  BY DEF PollInv, RequestAgrees, Votes!Learners
<1> PICK reply, now : reply = PollReply(r) /\ now = PollNow(r)
  OBVIOUS
<1>2. /\ reply.page = r.page /\ reply.op = r.op /\ reply.arg = r.arg
      /\ reply.answer = now.poll_answer
      /\ reply.status = IF r.op = "reset" /\ r.read.poll_answer = Votes!None THEN "raised" ELSE "answered"
      /\ reply.voted <=> r.op = "submit" /\ ~r.read.voted
  BY <1>1 DEF RequestAgrees, PollReply
<1>3. /\ poll'.requests = (poll.requests \ {r}) \cup {reply} /\ poll'.pages = poll.pages
      /\ poll.lost \subseteq poll'.lost /\ poll'.doubled = poll.doubled
      /\ poll'.elsewhere = poll.elsewhere
      /\ (r.op = "reset" /\ r.read.poll_answer = Votes!None) \/ (r.op = "submit" /\ r.read.voted)
            => Owner[r.page] \in poll'.lost
  BY DEF PollSaves, PollLost
<1>4. /\ \A m \in Votes!Pages : Owner[m] # Owner[r.page] =>
            /\ poll'.voted[Owner[m]] = poll.voted[Owner[m]]
            /\ poll'.poll_answer[Owner[m]] = poll.poll_answer[Owner[m]]
      /\ r.read.voted = poll.voted[Owner[r.page]] => poll'.voted[Owner[r.page]] = now.voted
      /\ r.read.poll_answer = poll.poll_answer[Owner[r.page]]
            => poll'.poll_answer[Owner[r.page]] = now.poll_answer
  <2>1. /\ poll.voted \in [Votes!Learners -> BOOLEAN]
        /\ poll.poll_answer \in [Votes!Learners -> Answers \cup {Votes!None}]
        /\ \A m \in Votes!Pages : Owner[m] \in Votes!Learners
    BY DEF PollInv, PollTyped, Votes!Learners
  <2>2. CASE now = r.read
    BY <2>2 DEF PollSaves
  <2>3. CASE r.op = "view"
    <3>1. now.voted = r.read.voted /\ now.poll_answer = r.read.poll_answer
      BY <1>1, <2>3 DEF PollNow, Votes!Saves, Votes!dump_poll, RequestAgrees
    <3> QED
      BY <2>3, <3>1 DEF PollSaves
  <2>4. CASE now # r.read /\ r.op # "view"
    <3>1. /\ poll'.voted = [poll.voted EXCEPT ![Owner[r.page]] = now.voted]
          /\ poll'.poll_answer = [poll.poll_answer EXCEPT ![Owner[r.page]] = now.poll_answer]
      BY <2>4 DEF PollSaves
    <3> QED
      BY <1>1, <2>1, <3>1
  <2> QED
    BY <2>2, <2>3, <2>4
<1>5. PollOnPage(r.page)
  BY <1>1, <1>2, <1>3, <1>4 DEF PollOnPage, PollPagesInv
<1>6. PageIsSound(r.page)'
  <2> SUFFICES ASSUME Quietly(r.page)'
               PROVE  /\ \A q \in Votes!Pages :
                            Owner[q] = Owner[r.page] /\ poll'.pages[r.page].open /\ poll'.pages[q].open => q = r.page
                      /\ \A u, q \in poll'.requests : u.page = r.page /\ q.page = r.page => u = q
                      /\ \A q \in poll'.requests : q.page = r.page => Reports(q)'
                      /\ poll'.pages[r.page].rendered /\ (\A q \in poll'.requests : q.page # r.page) => PollTells(r.page)'
    BY DEF PageIsSound
  <2>1. /\ Quietly(r.page)
        /\ ~((r.op = "reset" /\ r.read.poll_answer = Votes!None) \/ (r.op = "submit" /\ r.read.voted))
    BY <1>3 DEF Quietly
  <2>2. \A q \in poll'.requests : q.page = r.page => q = reply
    BY <1>1, <1>3, <2>1, PageWaits
  <2>3. Reports(r)
    BY <1>1, <2>1, PageWaits
  <2>4. /\ poll'.voted[Owner[r.page]] = now.voted
        /\ poll'.poll_answer[Owner[r.page]] = now.poll_answer
    BY <1>4, <2>3 DEF Reports
  <2>5. now = Votes!Saves(r)
    BY <2>1 DEF PollNow
  <2>6. /\ r.op = "submit" => now.poll_answer = r.arg
        /\ r.op = "reset" => ~now.voted
    BY <2>1, <2>5 DEF Votes!Saves, Votes!submit_answer, Votes!handle_reset_state
  <2>7. Reports(reply)'
    BY <1>2, <1>3, <2>1, <2>3, <2>4, <2>6 DEF Reports
  <2>8. reply \in poll'.requests
    BY <1>3
  <2> QED
    BY <1>1, <1>2, <1>3, <2>1, <2>2, <2>7, <2>8, PageWaits
<1>7. \A m \in Votes!Pages : PageIsSound(m)'
  BY <1>1, <1>5, <1>6, OtherPagesKeep
<1> QED
  BY <1>2, <1>3, <1>7 DEF PollPagesInv

\* An answer tells the page what it has to know; without it the learner has lost something.
LEMMA ReceivesPages ==
    ASSUME PollInv, PollPagesInv, NEW r \in poll.requests, NEW page \in PollPage, NEW lost,
           PollReceives(r, page, lost), poll.lost \subseteq lost,
           page.open = poll.pages[r.page].open, poll.pages[r.page].rendered => page.rendered,
           page.resetButton => page.rendered,
           \/ Owner[r.page] \in lost
           \/ Reports(r) =>
                 /\ page.answered = {poll.poll_answer[Owner[r.page]]} \ {Votes!None}
                 /\ page.stats <=> poll.voted[Owner[r.page]]
                 /\ page.questionAnswered <=> poll.voted[Owner[r.page]]
    PROVE  PollPagesInv'
<1>1. r.page \in Votes!Pages /\ RequestAgrees(r) /\ Owner[r.page] \in Votes!Learners
  BY DEF PollInv, RequestAgrees, Votes!Learners
<1>2. /\ poll'.requests = poll.requests \ {r} /\ poll'.pages[r.page] = page
      /\ \A m \in Votes!Pages \ {r.page} : poll'.pages[m] = poll.pages[m]
      /\ poll'.voted = poll.voted /\ poll'.poll_answer = poll.poll_answer
      /\ poll'.lost = lost /\ poll'.doubled = poll.doubled /\ poll'.elsewhere = poll.elsewhere
  BY <1>1 DEF PollReceives, PollInv, PollTyped
<1>3. page.open
  BY DEF PollPagesInv
<1>4. PollOnPage(r.page)
  BY <1>1, <1>2, <1>3 DEF PollOnPage, PollPagesInv
<1>5. PageIsSound(r.page)'
  <2> SUFFICES ASSUME Quietly(r.page)'
               PROVE  /\ \A q \in Votes!Pages :
                            Owner[q] = Owner[r.page] /\ poll'.pages[r.page].open /\ poll'.pages[q].open => q = r.page
                      /\ \A u, q \in poll'.requests : u.page = r.page /\ q.page = r.page => u = q
                      /\ \A q \in poll'.requests : q.page = r.page => Reports(q)'
                      /\ poll'.pages[r.page].rendered /\ (\A q \in poll'.requests : q.page # r.page) => PollTells(r.page)'
    BY DEF PageIsSound
  <2>1. Quietly(r.page) /\ Owner[r.page] \notin lost
    BY <1>2 DEF Quietly
  <2>2. \A q \in poll'.requests : q.page # r.page
    BY <1>1, <1>2, <2>1, PageWaits
  <2>3. Reports(r)
    BY <1>1, <2>1, PageWaits
  <2>4. PollTells(r.page)'
    BY <1>2, <2>1, <2>3 DEF PollTells
  <2>5. \A q \in Votes!Pages : Owner[q] = Owner[r.page] /\ poll'.pages[q].open => q = r.page
    BY <1>1, <1>2, <2>1, PageWaits
  <2> QED
    BY <2>2, <2>4, <2>5
<1>6. \A m \in Votes!Pages : PageIsSound(m)'
  BY <1>1, <1>4, <1>5, OtherPagesKeep
<1>7. \A m \in Votes!Pages : /\ poll'.pages[m].rendered => poll'.pages[m].open
                             /\ poll'.pages[m].resetButton => poll'.pages[m].rendered
                             /\ poll.pages[m].open => poll'.pages[m].open
                             /\ poll.pages[m].rendered => poll'.pages[m].rendered
  BY <1>2, <1>3 DEF PollPagesInv
<1>8. \A q \in poll'.requests : /\ poll'.pages[q.page].open
                                /\ q.op \in {"submit", "reset"} => poll'.pages[q.page].rendered
  BY <1>2, <1>7 DEF PollInv, RequestAgrees, PollPagesInv
<1> QED
  BY <1>6, <1>7, <1>8 DEF PollPagesInv
--------------------------------------------------------------------------------
\* What a page is told by an answer it waited for is what the learner has voted.
LEMMA ShownTells ==
    ASSUME PollInv, NEW r \in poll.requests, r.op # "view", r.status = "answered", Reports(r)
    PROVE  /\ PollShown(r).answered = {poll.poll_answer[Owner[r.page]]} \ {Votes!None}
           /\ PollShown(r).stats <=> poll.voted[Owner[r.page]]
           /\ PollShown(r).questionAnswered <=> poll.voted[Owner[r.page]]
<1> DEFINE page == poll.pages[r.page]
           l == Owner[r.page]
<1>1. /\ RequestAgrees(r) /\ page \in PollPage /\ poll.voted[l] \in BOOLEAN
      /\ poll.voted[l] <=> poll.poll_answer[l] # Votes!None
  BY DEF PollInv, PollTyped, RequestAgrees, Votes!Learners, Votes!VotedHasAnswer
<1>2. CASE r.op = "get"
  <2>1. r.answer = poll.poll_answer[l]
    BY <1>2 DEF Reports
  <2> QED
    BY <1>1, <1>2, <2>1 DEF PollShown, PollPage
<1>3. CASE r.op = "submit"
  <2>1. page.questionAnswered /\ page.answered = {r.arg} /\ r.voted /\ poll.poll_answer[l] = r.arg
    BY <1>3 DEF Reports
  <2>2. r.arg # Votes!None
    BY <1>1, <1>3, Bounds DEF RequestAgrees, Votes!None
  <2> QED
    BY <1>1, <1>3, <2>1, <2>2 DEF PollShown, PollPage
<1>4. CASE r.op = "reset"
  <2>1. ~poll.voted[l]
    BY <1>4 DEF Reports
  <2> QED
    BY <1>1, <1>4, <2>1 DEF PollShown, PollPage
<1> QED
  BY <1>1, <1>2, <1>3, <1>4 DEF RequestAgrees

\* What stays of a page that is told of an answer.
LEMMA ShownStays ==
    ASSUME PollInv, PollPagesInv, NEW r \in poll.requests, r.op # "view"
    PROVE  /\ PollShown(r).open = poll.pages[r.page].open /\ PollShown(r).rendered
<1>1. /\ RequestAgrees(r) /\ poll.pages[r.page] \in PollPage
      /\ r.op \in {"submit", "reset"} => poll.pages[r.page].rendered
  BY DEF PollInv, PollTyped, RequestAgrees, PollPagesInv
<1>2. CASE r.op = "get"
  BY <1>1, <1>2 DEF PollShown, PollPage
<1>3. CASE r.op = "submit"
  BY <1>1, <1>3 DEF PollShown, PollPage
<1>4. CASE r.op = "reset"
  BY <1>1, <1>4 DEF PollShown, PollPage
<1> QED
  BY <1>1, <1>2, <1>3, <1>4 DEF RequestAgrees

\* The page shows the poll only once the zeros are saved.
LEMMA ZeroedWhen ==
    ASSUME PollCountsInv, ~poll.overlapped,
           \/ \E p \in Votes!Pages : poll.pages[p].rendered
           \/ \E r \in poll.requests : ~(r.op = "view" /\ r.status \in {"sent", "running"})
    PROVE  Zeroed
BY DEF PollCountsInv, Fresh

\* Every step keeps the counts, and what the pages tell.
LEMMA PollKeeps ==
    ASSUME PollInv, PollPagesInv, PollCountsInv, [Votes!Next]_poll
    PROVE  PollPagesInv' /\ PollCountsInv'
<1>1. PollTyped /\ \A p \in Votes!Pages : poll.pages[p] \in PollPage
  BY DEF PollInv, PollTyped
<1>2. ASSUME NEW p \in Votes!Pages, Votes!Open(p)
      PROVE  PollPagesInv' /\ PollCountsInv'
  <2> DEFINE page == [poll.pages[p] EXCEPT !.open = TRUE]
  <2>1. /\ page \in PollPage /\ page.open /\ page.rendered = poll.pages[p].rendered
        /\ page.resetButton = poll.pages[p].resetButton
    BY <1>1 DEF PollPage
  <2>2. ~poll.pages[p].open /\ PollSends(p, "view", Votes!None, page, {})
    BY <1>1, <1>2, OpenSends
  <2>3. ~poll.pages[p].rendered /\ ~poll.pages[p].resetButton
    BY <2>2 DEF PollPagesInv
  <2> HIDE DEF page
  <2>4. PollPagesInv'
    BY <2>1, <2>2, <2>3, SendsPages
  <2>5. PollCountsInv'
    BY <1>1, <2>1, <2>2, SendsCounts
  <2> QED
    BY <2>4, <2>5
<1>3. ASSUME NEW p \in Votes!Pages, Votes!Reset(p)
      PROVE  PollPagesInv' /\ PollCountsInv'
  <2>1. poll.pages[p].resetButton /\ PollSends(p, "reset", Votes!None, poll.pages[p], {})
    BY <1>1, <1>3, ResetSends
  <2>2. poll.pages[p].rendered /\ poll.pages[p].open
    BY <2>1 DEF PollPagesInv
  <2>3. PollPagesInv'
    BY <1>1, <2>1, <2>2, SendsPages
  <2>4. PollCountsInv'
    BY <1>1, <2>1, <2>2, SendsCounts, ZeroedWhen
  <2> QED
    BY <2>3, <2>4
<1>4. ASSUME NEW p \in Votes!Pages, NEW a \in Answers, Votes!Vote(p, a)
      PROVE  PollPagesInv' /\ PollCountsInv'
  <2> DEFINE page == [poll.pages[p] EXCEPT !.questionAnswered = TRUE, !.answered = @ \cup {a}]
  <2>1. /\ page \in PollPage /\ page.open = poll.pages[p].open
        /\ page.rendered = poll.pages[p].rendered /\ page.resetButton = poll.pages[p].resetButton
        /\ page.stats = poll.pages[p].stats
        /\ page.questionAnswered /\ page.answered = poll.pages[p].answered \cup {a}
    BY <1>1 DEF PollPage
  <2>2. /\ poll.pages[p].rendered /\ ~poll.pages[p].questionAnswered
        /\ PollSends(p, "submit", a, page, {})
    BY <1>1, <1>4, VoteSends
  <2>3. poll.pages[p].open
    BY <2>2 DEF PollPagesInv
  <2>4. ASSUME Quietly(p), \A r \in poll.requests \ {} : r.page # p
        PROVE  page.answered = {a} /\ ~poll.voted[Owner[p]] /\ ~page.stats
    <3>1. PollTells(p)
      BY <2>2, <2>4 DEF PollPagesInv, PageIsSound
    <3>2. ~poll.voted[Owner[p]] /\ poll.poll_answer[Owner[p]] = Votes!None
      BY <2>2, <3>1 DEF PollTells, PollInv, Votes!VotedHasAnswer, Votes!Learners
    <3> QED
      BY <2>1, <3>1, <3>2 DEF PollTells
  <2>5. PollPagesInv'
    <3> HIDE DEF page
    <3>1. page.rendered /\ page.open /\ page \in PollPage
      BY <2>1, <2>2, <2>3
    <3>2. PollSends(p, "submit", a, page, {})
      BY <2>2
    <3>3. Quietly(p) /\ (\A r \in poll.requests \ {} : r.page # p) =>
             page.questionAnswered /\ page.answered = {a} /\ ~poll.voted[Owner[p]] /\ ~page.stats
      BY <2>1, <2>4
    <3> QED
      BY <3>1, <3>2, <3>3, SendsPages, SMTT(30)
  <2> HIDE DEF page
  <2>6. PollCountsInv'
    BY <1>1, <2>1, <2>2, SendsCounts, ZeroedWhen
  <2> QED
    BY <2>5, <2>6
<1>5. ASSUME NEW r \in poll.requests, Votes!Starts(r)
      PROVE  PollPagesInv' /\ PollCountsInv'
  <2>1. RequestAgrees(r)
    BY DEF PollInv
  <2> QED
    BY <1>1, <1>5, <2>1, StartRuns, RunsPages, RunsCounts
<1>6. ASSUME NEW r \in poll.requests, Votes!Ends(r)
      PROVE  PollPagesInv' /\ PollCountsInv'
  BY <1>1, <1>6, EndSaves, SavesPages, SavesCounts
<1>7. ASSUME NEW r \in poll.requests, Votes!Arrives(r), r.op = "view"
      PROVE  PollPagesInv' /\ PollCountsInv'
  <2>1. /\ r.status = "answered" /\ r.page \in Votes!Pages /\ poll.pages[r.page] \in PollPage
        /\ PollSends(r.page, "get", Votes!None, poll.pages[r.page], {r})
    BY <1>1, <1>7, ArriveReceives DEF PollInv, RequestAgrees
  <2>2. /\ poll.pages[r.page].open
        /\ poll.pages[r.page].resetButton => poll.pages[r.page].rendered
    BY <2>1 DEF PollPagesInv
  <2>3. Quietly(r.page) => ~poll.pages[r.page].rendered
    BY <1>7, <2>1, PageWaits DEF Reports
  <2>4. PollPagesInv'
    BY <2>1, <2>2, <2>3, SendsPages
  <2>5. PollCountsInv'
    BY <1>1, <2>1, SendsCounts, ZeroedWhen
  <2> QED
    BY <2>4, <2>5
<1>8. ASSUME NEW r \in poll.requests, Votes!Arrives(r), r.op # "view"
      PROVE  PollPagesInv' /\ PollCountsInv'
  <2>1. RequestAgrees(r)
    BY DEF PollInv
  <2>2. r.status = "answered" /\ PollReceives(r, PollShown(r), poll.lost)
    BY <1>1, <1>8, <2>1, ArriveReceives
  <2>3. PollShown(r) \in PollPage
    BY <1>1, <1>8, <2>1, PollShownTyped
  <2>4. PollPagesInv'
    BY <1>8, <2>2, <2>3, ShownStays, ShownTells, ReceivesPages
  <2>5. PollCountsInv'
    BY <2>2, ReceivesCounts
  <2> QED
    BY <2>4, <2>5
<1>9. ASSUME NEW r \in poll.requests, Votes!Fails(r)
      PROVE  PollPagesInv' /\ PollCountsInv'
  <2>1. RequestAgrees(r) /\ poll.pages[r.page] \in PollPage /\ r.page \in Votes!Pages
    BY <1>1 DEF PollInv, RequestAgrees
  <2>2. /\ PollReceives(r, poll.pages[r.page], poll.lost \cup {Owner[r.page]})
        /\ r.status # "running" /\ (r.status = "sent" => r.op # "view")
    BY <1>1, <1>9, <2>1, FailReceives DEF Votes!Fails
  <2>3. poll.pages[r.page].resetButton => poll.pages[r.page].rendered
    BY <2>1 DEF PollPagesInv
  <2>4. PollPagesInv'
    BY <2>1, <2>2, <2>3, ReceivesPages
  <2>5. PollCountsInv'
    BY <2>2, ReceivesCounts
  <2> QED
    BY <2>4, <2>5
<1>10. CASE UNCHANGED poll
  <2>1. PollPagesInv'
    BY <1>10 DEF PollPagesInv, PageIsSound, Quietly, Reports, PollTells
  <2>2. PollCountsInv'
    BY <1>10 DEF PollCountsInv, Votes!CountsAreVotes, Zeroed, Fresh, Votes!Fields
  <2> QED
    BY <2>1, <2>2
<1> QED
  BY <1>2, <1>3, <1>4, <1>5, <1>6, <1>7, <1>8, <1>9, <1>10 DEF Votes!Next

\* Nobody has voted, and no page is open.
LEMMA PollStarts ==
    ASSUME Votes!Init
    PROVE  PollPagesInv /\ PollCountsInv
<1>1. /\ poll.voted = [l \in Votes!Learners |-> FALSE]
      /\ poll.poll_answer = [l \in Votes!Learners |-> Votes!None]
      /\ poll.poll_answers = <<>> /\ poll.pages = [p \in Votes!Pages |-> Votes!Page]
      /\ poll.requests = {}
  <2> DEFINE nobody == [l \in Votes!Learners |-> FALSE]
             nothing == [l \in Votes!Learners |-> Votes!None]
             pages == [p \in Votes!Pages |-> Votes!Page]
  <2>1. PICK reset \in BOOLEAN :
            poll = [reset |-> reset, voted |-> nobody, poll_answer |-> nothing,
                    poll_answers |-> <<>>, pages |-> pages, requests |-> {}, made |-> 0,
                    overlapped |-> FALSE, lost |-> {}, doubled |-> {}, elsewhere |-> {}]
    BY DEF Votes!Init
  <2> HIDE DEF nobody, nothing, pages
  <2>2. /\ poll.voted = nobody /\ poll.poll_answer = nothing /\ poll.requests = {}
        /\ poll.poll_answers = <<>> /\ poll.pages = pages
    BY <2>1
  <2> QED
    BY <2>2 DEF nobody, nothing, pages
<1>2. \A p \in Votes!Pages : /\ ~poll.pages[p].rendered /\ ~poll.pages[p].open
                             /\ ~poll.pages[p].resetButton
  BY <1>1 DEF Votes!Page
<1>3. PollPagesInv
  BY <1>1, <1>2 DEF PollPagesInv, PageIsSound
<1>4. \A a \in Answers : Cardinality(Voters(poll.poll_answer, a)) = 0 /\ a \notin DOMAIN poll.poll_answers
  <2> TAKE a \in Answers
  <2>1. Voters(poll.poll_answer, a) = {}
    BY <1>1, Bounds DEF Voters, Votes!None
  <2>2. DOMAIN poll.poll_answers = {}
    BY <1>1
  <2> QED
    BY <2>1, <2>2, FS_EmptySet
<1>5. Votes!CountsAreVotes
  BY <1>4, CountsOf
<1> QED
  BY <1>1, <1>2, <1>3, <1>5 DEF PollCountsInv, Fresh

\* The invariants say of a poll what the checks ask.
LEMMA PollIsSound ==
    ASSUME PollInv, PollPagesInv, PollCountsInv
    PROVE  Votes!TypeOK /\ Votes!CountsAreVotes /\ Votes!VotedHasAnswer /\ Votes!PageTellsVote
<1>1. Votes!TypeOK
  BY DEF PollInv, PollTyped, PollPage, Votes!TypeOK
<1>2. Votes!CountsAreVotes
  BY DEF PollCountsInv, Votes!CountsAreVotes
<1>3. Votes!PageTellsVote
  BY DEF PollPagesInv, PageIsSound, Quietly, PollTells, Votes!PageTellsVote
<1> QED
  BY <1>1, <1>2, <1>3 DEF PollInv

(***************************************************************************)
(* A learner has voted for an answer, or has not voted, however requests   *)
(* overlap, fail or are repeated.                                          *)
(***************************************************************************)
THEOREM VotedAlwaysHasAnswer == Spec => []Votes!VotedHasAnswer
<1>1. Init => PollInv
  BY PollInductive DEF Init
<1>2. PollInv /\ [Next]_vars => PollInv'
  <2> SUFFICES ASSUME PollInv, [Next]_vars
               PROVE  PollInv'
    OBVIOUS
  <2>1. [Votes!Next]_poll
    BY DEF Next, vars
  <2> QED
    BY <2>1, PollInductive
<1>3. PollInv => Votes!VotedHasAnswer
  BY DEF PollInv
<1> QED
  BY <1>1, <1>2, <1>3, PTL DEF Spec
--------------------------------------------------------------------------------
\* The words there are, those a learner has given, and how often each was.
Good == {good_word[e] : e \in DOMAIN good_word} \ {""}
Given == UNION {[d -> Good] : d \in SUBSET (1 .. num_inputs)}
WordCounts == UNION {[d -> Nat \ {0}] : d \in SUBSET Good}
IsTop(top, all) == /\ DOMAIN top \in Words!top_dict(all)
                   /\ \A w \in DOMAIN top : top[w] = all[w]

\* The fields of a word cloud, its pages, and the requests on their way.
CloudPage == [open : BOOLEAN, submitted : BOOLEAN, inputs : BOOLEAN, drawn : Nat, your_words : SUBSET Good]
CloudNames ==
    {"submitted", "student_words", "all_words", "top_words", "pages", "requests", "made",
     "overlapped", "lost", "elsewhere", "late"}
CloudTyped ==
    /\ DOMAIN cloud = CloudNames
    /\ cloud.submitted \in [Words!Learners -> BOOLEAN]
    /\ cloud.student_words \in [Words!Learners -> Given]
    /\ cloud.all_words \in WordCounts /\ IsTop(cloud.top_words, cloud.all_words)
    /\ cloud.pages \in [Words!Pages -> CloudPage]
    /\ \A l \in Words!Learners : ~cloud.submitted[l] => DOMAIN cloud.student_words[l] = {}

(***************************************************************************)
(* A request: an answer with words is drawn, and only that of the state    *)
(* asked for at first can fail.                                            *)
(***************************************************************************)
CloudRequest(r) ==
    /\ DOMAIN r = {"nr", "page", "op", "status", "entries", "read", "reply"}
    /\ r.page \in Words!Pages /\ r.op \in {"get", "submit"}
    /\ r.status \in {"sent", "running", "answered", "raised"}
    /\ r.reply \in [submitted : BOOLEAN, drawable : BOOLEAN, your_words : SUBSET Good]
    /\ r.reply.submitted => r.status = "answered"
    /\ r.status = "raised" => r.op = "get"
    /\ r.status = "answered" => (r.reply.drawable <=> r.op = "get" \/ r.reply.submitted)
    /\ r.op = "submit" /\ r.status \in {"sent", "running"} => r.entries \in Words!Entries
    /\ r.status = "running" =>
          /\ r.op = "submit" /\ DOMAIN r.read = {"submitted", "student_words", "all_words", "top_words"}
          /\ r.read.submitted \in BOOLEAN /\ r.read.student_words \in Given
          /\ r.read.all_words \in WordCounts
CloudInv == CloudTyped /\ \A r \in cloud.requests : CloudRequest(r)
--------------------------------------------------------------------------------
\* Until submissions overlap, the one that is running has read what there is.
CloudCountsInv ==
    ~cloud.overlapped =>
        /\ Words!CountsAreWords
        /\ \A l \in Words!Learners : Words!Range(cloud.student_words[l]) \subseteq DOMAIN cloud.all_words
        /\ \A r, q \in cloud.requests : r.status = "running" /\ q.status = "running" => r = q
        /\ \A r \in cloud.requests : r.status = "running" => r.read = Words!Fields(Owner[r.page])
        /\ \A r \in cloud.requests : r.status # "raised"
--------------------------------------------------------------------------------
\* The answers that will draw a cloud, and those that will tell of one.
WillDraw(r) ==
    \/ r.status = "answered" /\ r.reply.submitted
    \/ r.op = "get" /\ r.status = "sent" /\ cloud.pages[r.page].submitted
WillTell(r) == WillDraw(r) \/ (r.op = "get" /\ r.status = "sent")
\* Where nothing was lost or made from another page.
Undisturbed(p) == Owner[p] \notin cloud.lost \cup cloud.elsewhere

\* A page shows a cloud, of the learner's words, only to who has submitted.
CloudShown(p) ==
    LET page == cloud.pages[p]
    IN  /\ page.submitted \/ page.drawn > 0 \/ ~page.inputs => cloud.submitted[Owner[p]]
        /\ page.drawn > 0 => page.your_words = Words!Range(cloud.student_words[Owner[p]]) /\ ~page.inputs
        /\ page.drawn = 0 => page.your_words = {}
        /\ p \notin cloud.late => page.drawn <= 1
\* And it waits for a cloud only if the learner has submitted, and has none.
CloudWaits(r) ==
    /\ cloud.pages[r.page].open
    /\ WillDraw(r) \/ (r.op = "submit" /\ r.status = "answered") => cloud.submitted[Owner[r.page]]
    /\ r.reply.submitted => r.reply.your_words = Words!Range(cloud.student_words[Owner[r.page]])
    /\ r.page \notin cloud.late /\ WillDraw(r) => cloud.pages[r.page].drawn = 0
CloudOnce(r, q) ==
    r.page = q.page =>
        /\ r.op = "get" /\ q.op = "get" => r = q
        /\ r.page \notin cloud.late /\ WillDraw(r) /\ WillDraw(q) => r = q
\* Who has submitted from a page alone sees the cloud, or will be told.
CloudAlone(p) ==
    Undisturbed(p) /\ cloud.pages[p].open =>
        /\ \A q \in Words!Pages : Owner[q] = Owner[p] /\ cloud.pages[q].open => q = p
        /\ cloud.submitted[Owner[p]] /\ cloud.pages[p].drawn = 0
              => \E r \in cloud.requests : r.page = p /\ WillTell(r)
CloudPagesInv ==
    ~cloud.overlapped =>
        /\ \A p \in Words!Pages : CloudShown(p) /\ (~cloud.pages[p].open => cloud.pages[p].drawn = 0)
        /\ \A r \in cloud.requests : CloudWaits(r)
        /\ \A r, q \in cloud.requests : CloudOnce(r, q)
        /\ \A p \in Words!Pages : CloudAlone(p)
--------------------------------------------------------------------------------
\* What the proofs use of the constants.
LEMMA CloudBounds ==
    /\ num_inputs \in Nat /\ num_top_words \in Nat \ {0}
    /\ Words!Learners = {"l1", "l2"} /\ \A p \in Words!Pages : Owner[p] \in Words!Learners
<1>1. num_inputs \in Nat /\ num_top_words \in Nat \ {0}
  BY DiscussionAssumption
<1>2. Words!Learners = {"l1", "l2"}
  BY DEF Words!Learners, Words!Pages, Owner
<1>3. \A p \in Words!Pages : Owner[p] \in Words!Learners
  BY DEF Words!Learners
<1> QED
  BY <1>1, <1>2, <1>3

LEMMA SameWordCount ==
    ASSUME NEW S
    PROVE  Words!Cardinality(S) = Cardinality(S)
BY DEF Words!Cardinality, Cardinality

\* How often a word occurs in those given.
LEMMA OccursIs ==
    ASSUME NEW words \in Given, NEW w
    PROVE  /\ Words!Occurs(words, w) \in Nat
           /\ Words!Occurs(words, w) = Cardinality({i \in DOMAIN words : words[i] = w})
           /\ IsFiniteSet({i \in DOMAIN words : words[i] = w})
           /\ Words!Occurs(words, w) = 0 <=> w \notin Words!Range(words)
<1> DEFINE at == {i \in DOMAIN words : words[i] = w}
<1>1. at \subseteq 1 .. num_inputs
  BY DEF Given
<1>2. IsFiniteSet(1 .. num_inputs)
  BY CloudBounds, FS_Interval
<1>3. IsFiniteSet(at) /\ Cardinality(at) \in Nat
  BY <1>1, <1>2, FS_Subset, FS_CardinalityType
<1>4. Words!Occurs(words, w) = Cardinality(at)
  BY SameWordCount DEF Words!Occurs
<1>5. at = {} <=> w \notin Words!Range(words)
  BY DEF Words!Range
<1>6. Cardinality(at) = 0 <=> at = {}
  BY <1>3, FS_EmptySet
<1> QED
  BY <1>3, <1>4, <1>5, <1>6

\* The words of a submission are among those there are, no more than the inputs.
LEMMA WordsOf ==
    ASSUME NEW entries \in Words!Entries, NEW words \in Words!words_of(entries)
    PROVE  words \in Given
<1> DEFINE filled == Words!filled(entries)
           n == Cardinality(filled)
<1>1. filled \subseteq 1 .. num_inputs /\ \A i \in filled : good_word[entries[i]] \in Good
  BY DEF Words!filled, Words!Entries, Good
<1>2. PICK s \in [1 .. n -> filled] : words = [k \in DOMAIN s |-> good_word[entries[s[k]]]]
  BY SameWordCount DEF Words!words_of
<1>3. n \in Nat /\ n <= num_inputs
  <2>1. IsFiniteSet(1 .. num_inputs) /\ Cardinality(1 .. num_inputs) = num_inputs
    BY CloudBounds, FS_Interval
  <2>2. IsFiniteSet(filled) /\ n <= Cardinality(1 .. num_inputs)
    BY <1>1, <2>1, FS_Subset
  <2> QED
    BY <2>1, <2>2, FS_CardinalityType
<1> HIDE DEF filled, n
<1>4. words \in [1 .. n -> Good]
  BY <1>1, <1>2
<1>5. 1 .. n \in SUBSET (1 .. num_inputs)
  BY <1>3, CloudBounds
<1> QED
  BY <1>4, <1>5 DEF Given

\* To add words counts them.
LEMMA AddedIs ==
    ASSUME NEW all \in WordCounts, NEW words \in Given
    PROVE  /\ Words!Added(all, words) \in WordCounts
           /\ DOMAIN Words!Added(all, words) = DOMAIN all \cup Words!Range(words)
           /\ \A w : Words!Count(Words!Added(all, words), w)
                        = Words!Count(all, w) + Words!Occurs(words, w)
<1> DEFINE added == Words!Added(all, words)
           d == DOMAIN all \cup Words!Range(words)
<1>1. /\ DOMAIN all \subseteq Good /\ \A w \in DOMAIN all : all[w] \in Nat \ {0}
  BY DEF WordCounts
<1>2. Words!Range(words) \subseteq Good
  BY DEF Words!Range, Given
<1>3. \A w : Words!Count(all, w) \in Nat /\ (Words!Count(all, w) = 0 <=> w \notin DOMAIN all)
  BY <1>1 DEF Words!Count
<1>4. added = [w \in d |-> Words!Count(all, w) + Words!Occurs(words, w)]
  BY DEF Words!Added
<1>5. \A w \in d : Words!Count(all, w) + Words!Occurs(words, w) \in Nat \ {0}
  <2> TAKE w \in d
  <2>1. Words!Count(all, w) \in Nat /\ Words!Occurs(words, w) \in Nat
    BY <1>3, OccursIs
  <2>2. ~(Words!Count(all, w) = 0 /\ Words!Occurs(words, w) = 0)
    BY <1>3, OccursIs
  <2> QED
    BY <2>1, <2>2
<1>6. added \in [d -> Nat \ {0}] /\ d \in SUBSET Good
  BY <1>1, <1>2, <1>4, <1>5
<1>7. added \in WordCounts
  BY <1>6 DEF WordCounts
<1>8. ASSUME NEW w
      PROVE  Words!Count(added, w) = Words!Count(all, w) + Words!Occurs(words, w)
  <2>1. CASE w \in d
    BY <1>4, <2>1 DEF Words!Count
  <2>2. CASE w \notin d
    <3>1. Words!Count(all, w) = 0 /\ Words!Occurs(words, w) = 0
      BY <1>3, <2>2, OccursIs
    <3>2. Words!Count(added, w) = 0
      BY <1>4, <2>2 DEF Words!Count
    <3> QED
      BY <3>1, <3>2
  <2> QED
    BY <2>1, <2>2
<1> QED
  BY <1>4, <1>7, <1>8

\* What a submission saves.
LEMMA SavedIs ==
    ASSUME NEW read, read.all_words \in WordCounts, NEW entries \in Words!Entries,
           NEW f \in Words!saved(read, entries)
    PROVE  /\ f.submitted /\ f.submitted \in BOOLEAN
           /\ f.student_words \in Given
           /\ f.all_words = Words!Added(read.all_words, f.student_words)
           /\ IsTop(f.top_words, f.all_words)
<1>1. PICK words \in Words!words_of(entries) :
          f \in Words!keeping(words, Words!Added(read.all_words, words))
  BY DEF Words!saved
<1> DEFINE all == Words!Added(read.all_words, words)
<1>2. PICK t \in Words!top_dict(all) :
          f = [submitted |-> TRUE, student_words |-> words, all_words |-> all,
               top_words |-> [w \in t |-> Words!Count(all, w)]]
  BY <1>1 DEF Words!keeping
<1>3. words \in Given
  BY WordsOf
<1> HIDE DEF all
<1>4. /\ f.submitted = TRUE /\ f.student_words = words /\ f.all_words = all
      /\ f.top_words = [w \in t |-> Words!Count(all, w)]
  BY <1>2
<1>5. t \subseteq DOMAIN all
  BY DEF Words!top_dict
<1>6. IsTop(f.top_words, f.all_words)
  BY <1>4, <1>5 DEF IsTop, Words!Count
<1> QED
  BY <1>3, <1>4, <1>6 DEF all
--------------------------------------------------------------------------------
(***************************************************************************)
(* The shapes of a step: a page sends a request; the server tells the      *)
(* state, or starts and ends a submission; and a page is left with the     *)
(* answer of one, or without.                                              *)
(***************************************************************************)
CloudNew(n, p, op, entries) ==
    [nr |-> n, page |-> p, op |-> op, status |-> "sent", entries |-> entries, read |-> <<>>,
     reply |-> Words!Refused]
CloudStays ==
    /\ cloud'.submitted = cloud.submitted /\ cloud'.student_words = cloud.student_words
    /\ cloud'.all_words = cloud.all_words /\ cloud'.top_words = cloud.top_words
CloudSends(p, op, entries, page) ==
    /\ DOMAIN cloud' = CloudNames /\ CloudStays
    /\ cloud'.overlapped = cloud.overlapped /\ cloud'.lost = cloud.lost /\ cloud'.late = cloud.late
    /\ cloud'.pages = [cloud.pages EXCEPT ![p] = page]
    /\ cloud'.requests = cloud.requests \cup {CloudNew(cloud.made, p, op, entries)}
    /\ cloud.elsewhere \subseteq cloud'.elsewhere
    /\ (\E q \in Words!Pages \ {p} : cloud.pages[q].open /\ Owner[q] = Owner[p])
          => Owner[p] \in cloud'.elsewhere
CloudTurns(r, into) ==
    /\ DOMAIN cloud' = CloudNames
    /\ cloud'.pages = cloud.pages /\ cloud'.lost = cloud.lost /\ cloud'.elsewhere = cloud.elsewhere
    /\ cloud'.requests = (cloud.requests \ {r}) \cup {into}
CloudGets(r, reply) ==
    /\ CloudTurns(r, reply) /\ CloudStays /\ cloud'.overlapped = cloud.overlapped
    /\ cloud.late \subseteq cloud'.late
    /\ cloud.submitted[Owner[r.page]] /\ ~cloud.pages[r.page].submitted => r.page \in cloud'.late
CloudRuns(r, running) ==
    /\ CloudTurns(r, running) /\ CloudStays /\ cloud'.late = cloud.late
    /\ ~cloud'.overlapped => ~cloud.overlapped /\ \A q \in cloud.requests : q.status # "running"
CloudSaves(r, f, reply) ==
    /\ CloudTurns(r, reply) /\ cloud'.overlapped = cloud.overlapped /\ cloud'.late = cloud.late
    /\ \/ f = r.read /\ CloudStays
       \/ /\ f # r.read /\ cloud'.all_words = f.all_words /\ cloud'.top_words = f.top_words
          /\ cloud'.submitted = [cloud.submitted EXCEPT ![Owner[r.page]] = f.submitted]
          /\ cloud'.student_words = [cloud.student_words EXCEPT ![Owner[r.page]] = f.student_words]
CloudReceives(r, page, lost) ==
    /\ DOMAIN cloud' = CloudNames /\ CloudStays
    /\ cloud'.overlapped = cloud.overlapped /\ cloud'.late = cloud.late
    /\ cloud'.elsewhere = cloud.elsewhere /\ cloud'.lost = lost
    /\ cloud'.pages = [cloud.pages EXCEPT ![r.page] = page]
    /\ cloud'.requests = cloud.requests \ {r}

\* What sending changes.
CloudAfter(s, t, p, op, entries) ==
    /\ DOMAIN t = CloudNames
    /\ t.submitted = s.submitted /\ t.student_words = s.student_words
    /\ t.all_words = s.all_words /\ t.top_words = s.top_words /\ t.pages = s.pages
    /\ t.overlapped = s.overlapped /\ t.lost = s.lost /\ t.late = s.late
    /\ t.requests = s.requests \cup {CloudNew(s.made, p, op, entries)}
    /\ t.elsewhere = s.elsewhere \cup
          (IF \E q \in Words!Pages \ {p} : s.pages[q].open /\ Owner[q] = Owner[p] THEN {Owner[p]} ELSE {})
LEMMA CloudSent ==
    ASSUME NEW s, DOMAIN s = CloudNames, NEW p, NEW op, NEW entries
    PROVE  CloudAfter(s, Words!Sent(s, p, op, entries), p, op, entries)
<1> DEFINE new == CloudNew(s.made, p, op, entries)
           elsewhere == IF \E q \in Words!Pages \ {p} : s.pages[q].open /\ Owner[q] = Owner[p]
                        THEN {Owner[p]} ELSE {}
<1>1. Words!Sent(s, p, op, entries)
        = [s EXCEPT !.made = @ + 1, !.requests = @ \cup {new}, !.elsewhere = @ \cup elsewhere]
  BY DEF Words!Sent, CloudNew
<1> HIDE DEF new, elsewhere
<1>2. LET t == Words!Sent(s, p, op, entries)
      IN  /\ DOMAIN t = CloudNames
          /\ t.submitted = s.submitted /\ t.student_words = s.student_words
          /\ t.all_words = s.all_words /\ t.top_words = s.top_words /\ t.pages = s.pages
          /\ t.overlapped = s.overlapped /\ t.lost = s.lost /\ t.late = s.late
          /\ t.requests = s.requests \cup {new} /\ t.elsewhere = s.elsewhere \cup elsewhere
  BY <1>1 DEF CloudNames
<1> QED
  BY <1>2 DEF CloudAfter, new, elsewhere

LEMMA OpenAsks ==
    ASSUME CloudTyped, NEW p \in Words!Pages, Words!Open(p)
    PROVE  /\ ~cloud.pages[p].open
           /\ CloudSends(p, "get", <<>>, [cloud.pages[p] EXCEPT !.open = TRUE,
                                                                !.submitted = cloud.submitted[Owner[p]]])
<1> DEFINE s == [cloud EXCEPT !.pages[p].open = TRUE, !.pages[p].submitted = cloud.submitted[Owner[p]]]
<1>1. /\ DOMAIN s = CloudNames
      /\ s.pages = [cloud.pages EXCEPT ![p] = [cloud.pages[p] EXCEPT !.open = TRUE,
                                                   !.submitted = cloud.submitted[Owner[p]]]]
      /\ s.submitted = cloud.submitted /\ s.student_words = cloud.student_words
      /\ s.all_words = cloud.all_words /\ s.top_words = cloud.top_words /\ s.made = cloud.made
      /\ s.overlapped = cloud.overlapped /\ s.lost = cloud.lost /\ s.late = cloud.late
      /\ s.requests = cloud.requests /\ s.elsewhere = cloud.elsewhere
  BY DEF CloudTyped, CloudNames, CloudPage
<1>2. cloud' = Words!Sent(s, p, "get", <<>>) /\ ~cloud.pages[p].open
  BY DEF Words!Open
<1>3. \A q \in Words!Pages \ {p} : s.pages[q].open = cloud.pages[q].open
  BY <1>1 DEF CloudTyped
<1> HIDE DEF s
<1>4. CloudAfter(s, cloud', p, "get", <<>>)
  BY <1>1, <1>2, CloudSent
<1> QED
  BY <1>1, <1>2, <1>3, <1>4 DEF CloudAfter, CloudSends, CloudStays

LEMMA SaveSends ==
    ASSUME CloudTyped, NEW p \in Words!Pages, Words!Save(p)
    PROVE  /\ cloud.pages[p].open
           /\ \E entries \in Words!Entries : CloudSends(p, "submit", entries, cloud.pages[p])
<1>1. PICK entries \in Words!Entries : cloud' = Words!Sent(cloud, p, "submit", entries)
  BY DEF Words!Save, Words!submitAnswer
<1>2. cloud.pages[p].open /\ cloud.pages = [cloud.pages EXCEPT ![p] = cloud.pages[p]]
  BY DEF Words!Save, CloudTyped
<1>3. CloudAfter(cloud, cloud', p, "submit", entries)
  BY <1>1, CloudSent DEF CloudTyped
<1>4. CloudSends(p, "submit", entries, cloud.pages[p])
  BY <1>2, <1>3 DEF CloudAfter, CloudSends, CloudStays
<1> QED
  BY <1>2, <1>4

\* What the state asked for at first says, unless words of the learner are not counted.
Raises(l) == cloud.submitted[l] /\ ~(Words!Range(cloud.student_words[l]) \subseteq DOMAIN cloud.all_words)
StateOf(r) ==
    [r EXCEPT !.status = IF Raises(Owner[r.page]) THEN "raised" ELSE "answered",
              !.reply = IF Raises(Owner[r.page]) THEN Words!Refused
                        ELSE Words!get_state(Words!Fields(Owner[r.page]))]
LEMMA GetTells ==
    ASSUME CloudTyped, NEW r \in cloud.requests, Words!Get(r)
    PROVE  r.op = "get" /\ r.status = "sent" /\ CloudGets(r, StateOf(r))
<1> DEFINE late == IF cloud.submitted[Owner[r.page]] /\ ~cloud.pages[r.page].submitted
                   THEN cloud.late \cup {r.page} ELSE cloud.late
<1>1. /\ r.op = "get" /\ r.status = "sent"
      /\ cloud' = [cloud EXCEPT !.requests = (@ \ {r}) \cup {StateOf(r)}, !.late = late]
  BY DEF Words!Get, Words!Fields, StateOf, Raises
<1> HIDE DEF late
<1>2. CloudTurns(r, StateOf(r)) /\ CloudStays /\ cloud'.overlapped = cloud.overlapped /\ cloud'.late = late
  BY <1>1 DEF CloudTyped, CloudNames, CloudTurns, CloudStays
<1>3. /\ cloud.late \subseteq late
      /\ cloud.submitted[Owner[r.page]] /\ ~cloud.pages[r.page].submitted => r.page \in late
  BY DEF late
<1> QED
  BY <1>1, <1>2, <1>3 DEF CloudGets

Running(r) == [r EXCEPT !.status = "running", !.read = Words!Fields(Owner[r.page])]
LEMMA StartReads ==
    ASSUME CloudTyped, NEW r \in cloud.requests, Words!Starts(r)
    PROVE  r.op = "submit" /\ r.status = "sent" /\ CloudRuns(r, Running(r))
<1> DEFINE overlapped == cloud.overlapped \/ \E q \in cloud.requests : q.status = "running"
<1>1. /\ r.op = "submit" /\ r.status = "sent"
      /\ cloud' = [cloud EXCEPT !.requests = (@ \ {r}) \cup {Running(r)}, !.overlapped = overlapped]
  BY DEF Words!Starts, Running
<1> HIDE DEF overlapped
<1>2. /\ CloudTurns(r, Running(r)) /\ CloudStays /\ cloud'.late = cloud.late
      /\ cloud'.overlapped = overlapped
  BY <1>1 DEF CloudTyped, CloudNames, CloudTurns, CloudStays
<1>3. ~overlapped => ~cloud.overlapped /\ \A q \in cloud.requests : q.status # "running"
  BY DEF overlapped
<1> QED
  BY <1>1, <1>2, <1>3 DEF CloudRuns

\* What a submission answers when it ends.
Answer(r, f) ==
    [r EXCEPT !.status = "answered", !.read = <<>>, !.entries = <<>>,
              !.reply = IF f = r.read THEN Words!Refused ELSE Words!get_state(f)]
LEMMA EndWrites ==
    ASSUME CloudTyped, NEW r \in cloud.requests, Words!Ends(r)
    PROVE  /\ r.status = "running"
           /\ \E f \in Words!submit_state(r.read, r.entries) : CloudSaves(r, f, Answer(r, f))
<1>1. r.status = "running"
  BY DEF Words!Ends
<1>2. PICK f \in Words!submit_state(r.read, r.entries) :
          cloud' = [cloud EXCEPT
                 !.requests = (@ \ {r}) \cup {Answer(r, f)},
                 !.submitted[Owner[r.page]] = IF f = r.read THEN @ ELSE f.submitted,
                 !.student_words[Owner[r.page]] = IF f = r.read THEN @ ELSE f.student_words,
                 !.all_words = IF f = r.read THEN @ ELSE f.all_words,
                 !.top_words = IF f = r.read THEN @ ELSE f.top_words]
  BY DEF Words!Ends, Answer
<1>3. CloudTurns(r, Answer(r, f)) /\ cloud'.overlapped = cloud.overlapped /\ cloud'.late = cloud.late
  BY <1>2 DEF CloudTyped, CloudNames, CloudTurns
<1>4. CASE f = r.read
  <2>1. CloudStays
    BY <1>2, <1>4 DEF CloudStays, CloudTyped, CloudNames
  <2> QED
    BY <1>1, <1>3, <1>4, <2>1 DEF CloudSaves
<1>5. CASE f # r.read
  <2>1. /\ cloud'.all_words = f.all_words /\ cloud'.top_words = f.top_words
        /\ cloud'.submitted = [cloud.submitted EXCEPT ![Owner[r.page]] = f.submitted]
        /\ cloud'.student_words = [cloud.student_words EXCEPT ![Owner[r.page]] = f.student_words]
    BY <1>2, <1>5 DEF CloudTyped, CloudNames
  <2> QED
    BY <1>1, <1>3, <1>5, <2>1 DEF CloudSaves
<1> QED
  BY <1>4, <1>5

\* What a page becomes by an answer: the inputs go, and a cloud is drawn if there are words.
CloudDrawn(r) ==
    LET page == cloud.pages[r.page]
    IN  IF r.reply.submitted
        THEN [page EXCEPT !.inputs = FALSE, !.drawn = @ + 1, !.your_words = r.reply.your_words]
        ELSE IF r.op = "submit" THEN [page EXCEPT !.inputs = FALSE] ELSE page
LEMMA ArriveDraws ==
    ASSUME CloudTyped, NEW r \in cloud.requests, CloudRequest(r), Words!Arrives(r)
    PROVE  r.status = "answered" /\ CloudReceives(r, CloudDrawn(r), cloud.lost)
<1> DEFINE s == [cloud EXCEPT !.requests = @ \ {r}]
<1>1. /\ r.status = "answered"
      /\ cloud' = IF r.op = "get" THEN Words!got(s, r.page, r.reply)
                  ELSE Words!showWordCloud(s, r.page, r.reply)
  BY DEF Words!Arrives
<1>2. /\ DOMAIN s = CloudNames /\ s.pages = cloud.pages
      /\ s.submitted = cloud.submitted /\ s.student_words = cloud.student_words
      /\ s.all_words = cloud.all_words /\ s.top_words = cloud.top_words
      /\ s.overlapped = cloud.overlapped /\ s.lost = cloud.lost /\ s.late = cloud.late
      /\ s.requests = cloud.requests \ {r} /\ s.elsewhere = cloud.elsewhere
  BY DEF CloudTyped, CloudNames
<1> HIDE DEF s
<1>3. /\ r.page \in Words!Pages /\ cloud.pages \in [Words!Pages -> CloudPage]
      /\ r.reply.drawable <=> r.op = "get" \/ r.reply.submitted
      /\ r.op \in {"get", "submit"}
  BY <1>1 DEF CloudRequest, CloudTyped
<1>4. CASE r.reply.submitted
  <2>1. cloud' = Words!drawWordCloud([s EXCEPT !.pages[r.page].inputs = FALSE], r.page, r.reply)
    BY <1>1, <1>3, <1>4 DEF Words!got, Words!showWordCloud
  <2>2. cloud'.pages = [s.pages EXCEPT ![r.page] =
            [s.pages[r.page] EXCEPT !.inputs = FALSE, !.drawn = @ + 1, !.your_words = r.reply.your_words]]
    BY <1>2, <1>3, <2>1 DEF Words!drawWordCloud, CloudNames, CloudPage
  <2>3. cloud'.pages = [cloud.pages EXCEPT ![r.page] = CloudDrawn(r)]
    BY <1>2, <1>4, <2>2 DEF CloudDrawn
  <2> QED
    BY <1>1, <1>2, <2>1, <2>3 DEF Words!drawWordCloud, CloudReceives, CloudStays, CloudNames
<1>5. CASE ~r.reply.submitted /\ r.op = "submit"
  <2>1. cloud' = [s EXCEPT !.pages[r.page].inputs = FALSE]
    BY <1>1, <1>3, <1>5 DEF Words!showWordCloud
  <2>2. cloud'.pages = [s.pages EXCEPT ![r.page] = [s.pages[r.page] EXCEPT !.inputs = FALSE]]
    BY <1>2, <1>3, <2>1 DEF CloudNames, CloudPage
  <2>3. cloud'.pages = [cloud.pages EXCEPT ![r.page] = CloudDrawn(r)]
    BY <1>2, <1>5, <2>2 DEF CloudDrawn
  <2> QED
    BY <1>1, <1>2, <2>1, <2>3 DEF CloudReceives, CloudStays, CloudNames
<1>6. CASE ~r.reply.submitted /\ r.op = "get"
  <2>1. cloud' = s
    BY <1>1, <1>6 DEF Words!got
  <2>2. s.pages = [cloud.pages EXCEPT ![r.page] = CloudDrawn(r)]
    BY <1>2, <1>3, <1>6 DEF CloudDrawn
  <2> QED
    BY <1>1, <1>2, <2>1, <2>2 DEF CloudReceives, CloudStays
<1> QED
  BY <1>3, <1>4, <1>5, <1>6

\* A request without answer leaves the page as it is.
LEMMA FailLeaves ==
    ASSUME CloudTyped, NEW r \in cloud.requests, CloudRequest(r), Words!Fails(r)
    PROVE  CloudReceives(r, cloud.pages[r.page], cloud.lost \cup {Owner[r.page]})
<1>1. cloud.pages = [cloud.pages EXCEPT ![r.page] = cloud.pages[r.page]]
  BY DEF CloudTyped
<1>2. cloud' = [cloud EXCEPT !.requests = @ \ {r}, !.lost = @ \cup {Owner[r.page]}]
  BY DEF Words!Fails
<1> QED
  BY <1>1, <1>2 DEF CloudReceives, CloudStays, CloudTyped, CloudNames
--------------------------------------------------------------------------------
\* The words a learner has given, and a page that draws them, are of those there are.
LEMMA RangeIsGood ==
    ASSUME NEW words \in Given
    PROVE  Words!Range(words) \in SUBSET Good
BY DEF Given, Words!Range

LEMMA DrawnTyped ==
    ASSUME CloudTyped, NEW r, CloudRequest(r)
    PROVE  CloudDrawn(r) \in CloudPage
<1>1. /\ cloud.pages[r.page] \in CloudPage /\ r.reply.your_words \in SUBSET Good
      /\ r.op \in {"get", "submit"}
  BY DEF CloudTyped, CloudRequest
<1>2. CASE r.reply.submitted
  <2>1. cloud.pages[r.page].drawn + 1 \in Nat
    BY <1>1 DEF CloudPage
  <2> QED
    BY <1>1, <1>2, <2>1 DEF CloudDrawn, CloudPage
<1>3. CASE ~r.reply.submitted /\ r.op = "submit"
  BY <1>1, <1>3 DEF CloudDrawn, CloudPage
<1>4. CASE ~r.reply.submitted /\ r.op = "get"
  BY <1>1, <1>4 DEF CloudDrawn
<1> QED
  BY <1>1, <1>2, <1>3, <1>4

\* What the answers say.
Reply == [submitted : BOOLEAN, drawable : BOOLEAN, your_words : SUBSET Good]
LEMMA StateIs ==
    ASSUME CloudTyped, NEW r, CloudRequest(r), r.op = "get", r.status = "sent"
    PROVE  /\ CloudRequest(StateOf(r)) /\ StateOf(r).page = r.page /\ StateOf(r).op = "get"
           /\ StateOf(r).status \in {"raised", "answered"}
           /\ StateOf(r).status = "raised" <=> Raises(Owner[r.page])
           /\ StateOf(r).reply.submitted <=> cloud.submitted[Owner[r.page]] /\ ~Raises(Owner[r.page])
           /\ StateOf(r).reply.submitted =>
                 StateOf(r).reply.your_words = Words!Range(cloud.student_words[Owner[r.page]])
<1> DEFINE l == Owner[r.page]
           words == Words!Range(cloud.student_words[l])
<1>1. /\ l \in Words!Learners /\ cloud.submitted[l] \in BOOLEAN /\ cloud.student_words[l] \in Given
  BY CloudBounds DEF CloudTyped, CloudRequest
<1>2. words \in SUBSET Good
  BY <1>1, RangeIsGood
<1>3. Words!get_state(Words!Fields(l))
        = [submitted |-> cloud.submitted[l], drawable |-> TRUE,
           your_words |-> IF cloud.submitted[l] THEN words ELSE {}]
  BY DEF Words!get_state, Words!Fields
<1> DEFINE reply == IF Raises(l) THEN Words!Refused ELSE Words!get_state(Words!Fields(l))
<1>4. /\ reply \in Reply
      /\ reply.submitted <=> cloud.submitted[l] /\ ~Raises(l)
      /\ ~Raises(l) => reply.drawable
      /\ reply.submitted => reply.your_words = words
  <2> HIDE DEF words
  <2>1. CASE Raises(l)
    BY <2>1 DEF Words!Refused, Reply
  <2>2. CASE ~Raises(l)
    BY <1>1, <1>2, <1>3, <2>2 DEF Reply
  <2> QED
    BY <2>1, <2>2
<1>5. /\ StateOf(r).page = r.page /\ StateOf(r).op = "get" /\ StateOf(r).reply = reply
      /\ StateOf(r).status = IF Raises(l) THEN "raised" ELSE "answered"
      /\ DOMAIN StateOf(r) = {"nr", "page", "op", "status", "entries", "read", "reply"}
  BY DEF StateOf, CloudRequest
<1> HIDE DEF reply, words, l
<1>6. CloudRequest(StateOf(r))
  BY <1>4, <1>5 DEF CloudRequest, Reply
<1> QED
  BY <1>4, <1>5, <1>6 DEF l, words

LEMMA RunningIs ==
    ASSUME CloudTyped, NEW r, CloudRequest(r), r.op = "submit", r.status = "sent"
    PROVE  /\ CloudRequest(Running(r)) /\ Running(r).page = r.page /\ Running(r).op = "submit"
           /\ Running(r).status = "running" /\ ~Running(r).reply.submitted
           /\ Running(r).read = Words!Fields(Owner[r.page])
<1>1. Owner[r.page] \in Words!Learners
  BY CloudBounds DEF CloudRequest
<1>2. /\ DOMAIN Words!Fields(Owner[r.page]) = {"submitted", "student_words", "all_words", "top_words"}
      /\ Words!Fields(Owner[r.page]).submitted \in BOOLEAN
      /\ Words!Fields(Owner[r.page]).student_words \in Given
      /\ Words!Fields(Owner[r.page]).all_words \in WordCounts
  BY <1>1 DEF Words!Fields, CloudTyped
<1>3. /\ DOMAIN Running(r) = {"nr", "page", "op", "status", "entries", "read", "reply"}
      /\ Running(r).page = r.page /\ Running(r).op = "submit" /\ Running(r).status = "running"
      /\ Running(r).read = Words!Fields(Owner[r.page]) /\ Running(r).reply = r.reply
      /\ Running(r).entries = r.entries
  BY DEF Running, CloudRequest
<1> QED
  BY <1>2, <1>3 DEF CloudRequest

\* A submission is refused by who has read one, and saved by who has not.
LEMMA AnswerIs ==
    ASSUME NEW r, CloudRequest(r), r.status = "running",
           NEW f \in Words!submit_state(r.read, r.entries)
    PROVE  /\ CloudRequest(Answer(r, f)) /\ Answer(r, f).page = r.page /\ Answer(r, f).op = "submit"
           /\ Answer(r, f).status = "answered"
           /\ Answer(r, f).reply.submitted <=> ~r.read.submitted
           /\ f = r.read <=> r.read.submitted
           /\ ~r.read.submitted =>
                 /\ Answer(r, f).reply.your_words = Words!Range(f.student_words)
                 /\ f.submitted /\ f.submitted \in BOOLEAN
                 /\ f.student_words \in Given
                 /\ f.all_words = Words!Added(r.read.all_words, f.student_words)
                 /\ IsTop(f.top_words, f.all_words)
<1> DEFINE reply == IF f = r.read THEN Words!Refused ELSE Words!get_state(f)
<1>1. /\ r.op = "submit" /\ r.entries \in Words!Entries /\ r.read.all_words \in WordCounts
      /\ r.read.submitted \in BOOLEAN
  BY DEF CloudRequest
<1>2. ~r.read.submitted => f \in Words!saved(r.read, r.entries)
  BY DEF Words!submit_state
<1>3. ~r.read.submitted =>
         /\ f.submitted /\ f.submitted \in BOOLEAN /\ f.student_words \in Given
         /\ f.all_words = Words!Added(r.read.all_words, f.student_words)
         /\ IsTop(f.top_words, f.all_words)
  BY <1>1, <1>2, SavedIs
<1>4. f = r.read <=> r.read.submitted
  BY <1>1, <1>3 DEF Words!submit_state
<1>5. /\ reply \in Reply
      /\ reply.submitted <=> ~r.read.submitted
      /\ reply.drawable <=> ~r.read.submitted
      /\ ~r.read.submitted => reply.your_words = Words!Range(f.student_words)
  <2>1. CASE r.read.submitted
    BY <1>4, <2>1 DEF Words!Refused, Reply
  <2>2. CASE ~r.read.submitted
    <3>1. Words!Range(f.student_words) \in SUBSET Good
      BY <1>3, <2>2, RangeIsGood
    <3>2. reply = [submitted |-> TRUE, drawable |-> TRUE, your_words |-> Words!Range(f.student_words)]
      BY <1>3, <1>4, <2>2 DEF Words!get_state
    <3> HIDE DEF reply
    <3>3. reply.submitted = TRUE /\ reply.drawable = TRUE /\ reply.your_words = Words!Range(f.student_words)
      BY <3>2
    <3>4. reply \in Reply
      BY <3>1, <3>2 DEF Reply
    <3> QED
      BY <2>2, <3>3, <3>4
  <2> QED
    BY <2>1, <2>2
<1> HIDE DEF reply
<1>6. /\ DOMAIN Answer(r, f) = {"nr", "page", "op", "status", "entries", "read", "reply"}
      /\ Answer(r, f).page = r.page /\ Answer(r, f).op = "submit"
      /\ Answer(r, f).status = "answered" /\ Answer(r, f).reply = reply
  BY <1>1 DEF Answer, CloudRequest, reply
<1>7. CloudRequest(Answer(r, f))
  <2>1. /\ r.page \in Words!Pages
        /\ reply.drawable <=> reply.submitted
        /\ reply \in [submitted : BOOLEAN, drawable : BOOLEAN, your_words : SUBSET Good]
    BY <1>5 DEF CloudRequest, Reply
  <2> QED
    BY <1>6, <2>1 DEF CloudRequest
<1> QED
  BY <1>3, <1>4, <1>5, <1>6, <1>7
--------------------------------------------------------------------------------
\* The shapes of a step keep the fields typed.
LEMMA CloudStaysTyped ==
    ASSUME CloudTyped, DOMAIN cloud' = CloudNames, CloudStays,
           cloud'.pages \in [Words!Pages -> CloudPage]
    PROVE  CloudTyped'
BY DEF CloudTyped, CloudStays

LEMMA CloudSendsKeeps ==
    ASSUME CloudInv, NEW p \in Words!Pages, NEW op \in {"get", "submit"}, NEW entries,
           op = "submit" => entries \in Words!Entries, NEW page \in CloudPage,
           CloudSends(p, op, entries, page)
    PROVE  CloudInv'
<1> PICK new : new = CloudNew(cloud.made, p, op, entries)
  OBVIOUS
<1>1. CloudRequest(new)
  BY DEF CloudNew, CloudRequest, Words!Refused
<1>2. CloudTyped'
  BY CloudStaysTyped DEF CloudSends, CloudInv, CloudTyped
<1> QED
  BY <1>1, <1>2 DEF CloudInv, CloudSends

LEMMA CloudTurnsKeeps ==
    ASSUME CloudInv, NEW r, NEW into, CloudRequest(into), CloudTurns(r, into), CloudStays
    PROVE  CloudInv'
<1>1. CloudTyped'
  BY CloudStaysTyped DEF CloudTurns, CloudInv, CloudTyped
<1> QED
  BY <1>1 DEF CloudInv, CloudTurns

LEMMA CloudReceivesKeeps ==
    ASSUME CloudInv, NEW r \in cloud.requests, NEW page \in CloudPage, NEW lost,
           CloudReceives(r, page, lost)
    PROVE  CloudInv'
<1>1. CloudTyped'
  BY CloudStaysTyped DEF CloudReceives, CloudInv, CloudTyped
<1> QED
  BY <1>1 DEF CloudInv, CloudReceives

LEMMA CloudSavesKeeps ==
    ASSUME CloudInv, NEW r \in cloud.requests, r.status = "running",
           NEW f \in Words!submit_state(r.read, r.entries), CloudSaves(r, f, Answer(r, f))
    PROVE  CloudInv'
<1>1. CloudRequest(r) /\ Owner[r.page] \in Words!Learners
  BY CloudBounds DEF CloudInv, CloudRequest
<1>2. CASE r.read.submitted
  BY <1>1, <1>2, AnswerIs, CloudTurnsKeeps DEF CloudSaves
<1>3. CASE ~r.read.submitted
  <2>1. /\ CloudRequest(Answer(r, f)) /\ f # r.read
        /\ f.submitted /\ f.submitted \in BOOLEAN /\ f.student_words \in Given
        /\ f.all_words = Words!Added(r.read.all_words, f.student_words)
        /\ IsTop(f.top_words, f.all_words)
    BY <1>1, <1>3, AnswerIs
  <2>2. f.all_words \in WordCounts
    <3>1. r.read.all_words \in WordCounts
      BY <1>1 DEF CloudRequest
    <3>2. Words!Added(r.read.all_words, f.student_words) \in WordCounts
      BY <2>1, <3>1, AddedIs
    <3> QED
      BY <2>1, <3>2
  <2>3. /\ DOMAIN cloud' = CloudNames /\ cloud'.pages = cloud.pages
        /\ cloud'.requests = (cloud.requests \ {r}) \cup {Answer(r, f)}
        /\ cloud'.all_words = f.all_words /\ cloud'.top_words = f.top_words
        /\ cloud'.submitted = [cloud.submitted EXCEPT ![Owner[r.page]] = f.submitted]
        /\ cloud'.student_words = [cloud.student_words EXCEPT ![Owner[r.page]] = f.student_words]
    BY <2>1 DEF CloudSaves, CloudTurns
  <2>4. CloudTyped'
    BY <1>1, <2>1, <2>2, <2>3 DEF CloudInv, CloudTyped
  <2> QED
    BY <2>1, <2>3, <2>4 DEF CloudInv
<1> QED
  BY <1>2, <1>3
--------------------------------------------------------------------------------
\* The inputs, of all learners, that gave a word.
GivenAs(words, w) ==
    {given \in Words!Learners \X (1 .. num_inputs) :
        given[2] \in DOMAIN words[given[1]] /\ words[given[1]][given[2]] = w}

LEMMA CountsAreWordsIs ==
    Words!CountsAreWords <=>
        (~cloud.overlapped => \A w \in Good : Words!Count(cloud.all_words, w)
                                                = Cardinality(GivenAs(cloud.student_words, w)))
BY SameWordCount DEF Words!CountsAreWords, GivenAs, Good

LEMMA GivenFinite ==
    ASSUME NEW words, NEW w
    PROVE  IsFiniteSet(GivenAs(words, w)) /\ Cardinality(GivenAs(words, w)) \in Nat
<1>1. IsFiniteSet(Words!Learners)
  <2>1. IsFiniteSet({"l1"})
    BY FS_Singleton
  <2> QED
    BY <2>1, CloudBounds, FS_AddElement, {"l1"} \cup {"l2"} = {"l1", "l2"}
<1>2. IsFiniteSet(1 .. num_inputs)
  BY CloudBounds, FS_Interval
<1>3. IsFiniteSet(Words!Learners \X (1 .. num_inputs))
  BY <1>1, <1>2, FS_Product
<1>4. GivenAs(words, w) \subseteq Words!Learners \X (1 .. num_inputs)
  BY DEF GivenAs
<1> QED
  BY <1>3, <1>4, FS_Subset, FS_CardinalityType

\* The words of one more learner are as many more as they have inputs.
LEMMA GivenMore ==
    ASSUME NEW words \in [Words!Learners -> Given], NEW l \in Words!Learners, DOMAIN words[l] = {},
           NEW own \in Given, NEW w
    PROVE  Cardinality(GivenAs([words EXCEPT ![l] = own], w))
              = Cardinality(GivenAs(words, w)) + Words!Occurs(own, w)
<1> DEFINE at == {i \in DOMAIN own : own[i] = w}
           more == {l} \X at
<1>1. IsFiniteSet(at) /\ Cardinality(at) = Words!Occurs(own, w) /\ Words!Occurs(own, w) \in Nat
  BY OccursIs
<1>2. IsFiniteSet({l}) /\ Cardinality({l}) = 1
  BY FS_Singleton
<1>3. IsFiniteSet(more) /\ Cardinality(more) = Cardinality({l}) * Cardinality(at)
  <2> HIDE DEF at
  <2> QED
    BY <1>1, <1>2, FS_Product
<1>4. Cardinality(more) = Words!Occurs(own, w)
  BY <1>1, <1>2, <1>3
<1>5. DOMAIN own \subseteq 1 .. num_inputs
  BY DEF Given
<1>6. GivenAs([words EXCEPT ![l] = own], w) = GivenAs(words, w) \cup more
  BY <1>5 DEF GivenAs
<1>7. GivenAs(words, w) \cap more = {}
  BY DEF GivenAs
<1> HIDE DEF more
<1>8. Cardinality(GivenAs(words, w) \cup more)
        = Cardinality(GivenAs(words, w)) + Cardinality(more) - Cardinality(GivenAs(words, w) \cap more)
  BY <1>3, GivenFinite, FS_Union
<1>9. Cardinality(GivenAs(words, w) \cap more) = 0
  BY <1>7, FS_EmptySet
<1>10. Cardinality(GivenAs(words, w)) \in Nat
  BY GivenFinite
<1> HIDE DEF at
<1> PICK n \in Nat : n = Cardinality(GivenAs(words, w))
  BY <1>10
<1>11. Cardinality(GivenAs(words, w) \cup more) = n + Words!Occurs(own, w) - 0
  BY <1>4, <1>8, <1>9
<1>12. Cardinality(GivenAs(words, w) \cup more) = n + Words!Occurs(own, w)
  BY <1>1, <1>11
<1> QED
  BY <1>6, <1>12
--------------------------------------------------------------------------------
\* What stays of the counts where a submission does not end.
LEMMA CloudCountsStay ==
    ASSUME CloudCountsInv, CloudStays, ~cloud'.overlapped => ~cloud.overlapped,
           ~cloud'.overlapped =>
              /\ \A r \in cloud'.requests : r.status # "raised"
              /\ \A r, q \in cloud'.requests : r.status = "running" /\ q.status = "running" => r = q
              /\ \A r \in cloud'.requests : r.status = "running" => r.read = Words!Fields(Owner[r.page])
    PROVE  CloudCountsInv'
<1>1. ASSUME NEW l PROVE Words!Fields(l)' = Words!Fields(l)
  BY DEF CloudStays, Words!Fields
<1>2. (\A w \in Good : Words!Count(cloud'.all_words, w) = Cardinality(GivenAs(cloud'.student_words, w)))
      => Words!CountsAreWords'
  BY SameWordCount DEF Words!CountsAreWords, GivenAs, Good
<1>3. Words!CountsAreWords /\ ~cloud.overlapped => Words!CountsAreWords'
  BY <1>2, CountsAreWordsIs DEF CloudStays
<1> SUFFICES ASSUME ~cloud'.overlapped
             PROVE  /\ Words!CountsAreWords'
                    /\ \A l \in Words!Learners :
                          Words!Range(cloud'.student_words[l]) \subseteq DOMAIN cloud'.all_words
                    /\ \A r, q \in cloud'.requests : r.status = "running" /\ q.status = "running" => r = q
                    /\ \A r \in cloud'.requests :
                          r.status = "running" => r.read = Words!Fields(Owner[r.page])'
                    /\ \A r \in cloud'.requests : r.status # "raised"
  BY DEF CloudCountsInv
<1> QED
  BY <1>1, <1>3 DEF CloudCountsInv, CloudStays

LEMMA SendsCountsWords ==
    ASSUME CloudCountsInv, NEW p, NEW op, NEW entries, NEW page, CloudSends(p, op, entries, page)
    PROVE  CloudCountsInv'
<1> PICK new : new = CloudNew(cloud.made, p, op, entries)
  OBVIOUS
<1>1. new.status = "sent"
  BY DEF CloudNew
<1> QED
  BY <1>1, CloudCountsStay DEF CloudSends, CloudCountsInv

LEMMA GetsCountsWords ==
    ASSUME CloudInv, CloudCountsInv, NEW r \in cloud.requests, r.op = "get", r.status = "sent",
           CloudGets(r, StateOf(r))
    PROVE  CloudCountsInv'
<1> PICK state : state = StateOf(r)
  OBVIOUS
<1>1. /\ state.status \in {"raised", "answered"}
      /\ state.status = "raised" <=> Raises(Owner[r.page])
  BY StateIs DEF CloudInv
<1>2. ~cloud.overlapped => ~Raises(Owner[r.page])
  BY CloudBounds DEF CloudCountsInv, Raises, CloudInv, CloudRequest
<1>3. cloud'.requests = (cloud.requests \ {r}) \cup {state} /\ cloud'.overlapped = cloud.overlapped
  BY DEF CloudGets, CloudTurns
<1> QED
  BY <1>1, <1>2, <1>3, CloudCountsStay DEF CloudGets, CloudCountsInv

LEMMA RunsCountsWords ==
    ASSUME CloudInv, CloudCountsInv, NEW r \in cloud.requests, r.op = "submit", r.status = "sent",
           CloudRuns(r, Running(r))
    PROVE  CloudCountsInv'
<1> PICK running : running = Running(r)
  OBVIOUS
<1>1. /\ running.page = r.page /\ running.status = "running"
      /\ running.read = Words!Fields(Owner[r.page])
  BY RunningIs DEF CloudInv
<1>2. /\ cloud'.requests = (cloud.requests \ {r}) \cup {running}
      /\ ~cloud'.overlapped => ~cloud.overlapped /\ \A q \in cloud.requests : q.status # "running"
  BY DEF CloudRuns, CloudTurns
<1> QED
  BY <1>1, <1>2, CloudCountsStay DEF CloudRuns, CloudCountsInv

LEMMA ReceivesCountsWords ==
    ASSUME CloudCountsInv, NEW r, NEW page, NEW lost, CloudReceives(r, page, lost)
    PROVE  CloudCountsInv'
BY CloudCountsStay DEF CloudReceives, CloudCountsInv

\* A submission that ends has read what there is, and adds the words it saves.
LEMMA SavesCountsWords ==
    ASSUME CloudInv, CloudCountsInv, NEW r \in cloud.requests, r.status = "running",
           NEW f \in Words!submit_state(r.read, r.entries), CloudSaves(r, f, Answer(r, f))
    PROVE  CloudCountsInv'
<1> PICK answer : answer = Answer(r, f)
  OBVIOUS
<1>1. CloudRequest(r) /\ Owner[r.page] \in Words!Learners
  BY CloudBounds DEF CloudInv, CloudRequest
<1>2. answer.status = "answered" /\ (f = r.read <=> r.read.submitted)
  BY <1>1, AnswerIs
<1>3. cloud'.requests = (cloud.requests \ {r}) \cup {answer} /\ cloud'.overlapped = cloud.overlapped
  BY DEF CloudSaves, CloudTurns
<1>4. CASE f = r.read
  BY <1>2, <1>3, <1>4, CloudCountsStay DEF CloudSaves, CloudCountsInv
<1>5. CASE f # r.read
  <2> DEFINE l == Owner[r.page]
  <2> SUFFICES ASSUME ~cloud'.overlapped
               PROVE  /\ Words!CountsAreWords'
                      /\ \A m \in Words!Learners :
                            Words!Range(cloud'.student_words[m]) \subseteq DOMAIN cloud'.all_words
                      /\ \A q, u \in cloud'.requests : q.status = "running" /\ u.status = "running" => q = u
                      /\ \A q \in cloud'.requests :
                            q.status = "running" => q.read = Words!Fields(Owner[q.page])'
                      /\ \A q \in cloud'.requests : q.status # "raised"
    BY DEF CloudCountsInv
  <2>1. /\ \A w \in Good : Words!Count(cloud.all_words, w) = Cardinality(GivenAs(cloud.student_words, w))
        /\ \A m \in Words!Learners : Words!Range(cloud.student_words[m]) \subseteq DOMAIN cloud.all_words
        /\ \A q \in cloud.requests : q.status = "running" => q = r
        /\ r.read = Words!Fields(l)
        /\ \A q \in cloud.requests : q.status # "raised"
    BY <1>3, CountsAreWordsIs DEF CloudCountsInv
  <2>2. /\ ~r.read.submitted /\ f.student_words \in Given
        /\ f.all_words = Words!Added(r.read.all_words, f.student_words)
    BY <1>1, <1>2, <1>5, AnswerIs
  <2>3. r.read.submitted = cloud.submitted[l] /\ r.read.all_words = cloud.all_words
    BY <2>1 DEF Words!Fields
  <2>4. /\ cloud.student_words \in [Words!Learners -> Given] /\ DOMAIN cloud.student_words[l] = {}
        /\ cloud.all_words \in WordCounts
    BY <1>1, <2>2, <2>3 DEF CloudInv, CloudTyped
  <2>5. /\ cloud'.all_words = Words!Added(cloud.all_words, f.student_words)
        /\ cloud'.student_words = [cloud.student_words EXCEPT ![l] = f.student_words]
    BY <1>5, <2>2, <2>3 DEF CloudSaves
  <2>6. \A w \in Good : Words!Count(cloud'.all_words, w) = Cardinality(GivenAs(cloud'.student_words, w))
    <3> TAKE w \in Good
    <3>1. Words!Count(cloud'.all_words, w)
            = Words!Count(cloud.all_words, w) + Words!Occurs(f.student_words, w)
      <4>1. Words!Count(Words!Added(cloud.all_words, f.student_words), w)
              = Words!Count(cloud.all_words, w) + Words!Occurs(f.student_words, w)
        BY <2>2, <2>4, AddedIs
      <4> QED
        BY <2>5, <4>1
    <3>2. Cardinality(GivenAs(cloud'.student_words, w))
            = Cardinality(GivenAs(cloud.student_words, w)) + Words!Occurs(f.student_words, w)
      BY <1>1, <2>2, <2>4, <2>5, GivenMore
    <3> QED
      BY <2>1, <3>1, <3>2
  <2>7. Words!CountsAreWords'
    BY <2>6, SameWordCount DEF Words!CountsAreWords, GivenAs, Good
  <2>8. DOMAIN cloud'.all_words = DOMAIN cloud.all_words \cup Words!Range(f.student_words)
    BY <2>2, <2>4, <2>5, AddedIs
  <2>9. \A m \in Words!Learners : Words!Range(cloud'.student_words[m]) \subseteq DOMAIN cloud'.all_words
    BY <1>1, <2>1, <2>4, <2>5, <2>8
  <2>10. \A q \in cloud'.requests : q.status \notin {"running", "raised"}
    BY <1>2, <1>3, <2>1
  <2> QED
    BY <2>7, <2>9, <2>10
<1> QED
  BY <1>4, <1>5
--------------------------------------------------------------------------------
\* A page that asks for its state had asked for nothing; one that submits waits for it.
LEMMA OpenShowsWords ==
    ASSUME CloudInv, CloudPagesInv, NEW p \in Words!Pages, ~cloud.pages[p].open,
           CloudSends(p, "get", <<>>, [cloud.pages[p] EXCEPT !.open = TRUE,
                                                             !.submitted = cloud.submitted[Owner[p]]])
    PROVE  CloudPagesInv'
<1> PICK page : page = [cloud.pages[p] EXCEPT !.open = TRUE, !.submitted = cloud.submitted[Owner[p]]]
  OBVIOUS
<1> PICK new : new = CloudNew(cloud.made, p, "get", <<>>)
  OBVIOUS
<1> SUFFICES ASSUME ~cloud'.overlapped
             PROVE  /\ \A m \in Words!Pages : CloudShown(m)' /\ (~cloud'.pages[m].open => cloud'.pages[m].drawn = 0)
                    /\ \A r \in cloud'.requests : CloudWaits(r)'
                    /\ \A r, q \in cloud'.requests : CloudOnce(r, q)'
                    /\ \A m \in Words!Pages : CloudAlone(m)'
  BY DEF CloudPagesInv
<1>1. /\ \A m \in Words!Pages : CloudShown(m) /\ (~cloud.pages[m].open => cloud.pages[m].drawn = 0)
      /\ \A r \in cloud.requests : CloudWaits(r)
      /\ \A r, q \in cloud.requests : CloudOnce(r, q)
      /\ \A m \in Words!Pages : CloudAlone(m)
  BY DEF CloudPagesInv, CloudSends
<1>2. /\ page.open /\ page.submitted = cloud.submitted[Owner[p]]
      /\ page.inputs = cloud.pages[p].inputs /\ page.drawn = 0 /\ cloud.pages[p].drawn = 0
      /\ page.your_words = cloud.pages[p].your_words
  BY <1>1 DEF CloudInv, CloudTyped, CloudPage
<1>3. /\ cloud'.pages[p] = page /\ \A m \in Words!Pages \ {p} : cloud'.pages[m] = cloud.pages[m]
  BY DEF CloudSends, CloudInv, CloudTyped
<1>4. /\ cloud'.submitted = cloud.submitted /\ cloud'.student_words = cloud.student_words
      /\ cloud'.late = cloud.late /\ cloud'.lost = cloud.lost /\ cloud.elsewhere \subseteq cloud'.elsewhere
      /\ cloud'.requests = cloud.requests \cup {new}
      /\ (\E q \in Words!Pages \ {p} : cloud.pages[q].open /\ Owner[q] = Owner[p])
            => Owner[p] \in cloud'.elsewhere
  BY DEF CloudSends, CloudStays
<1>5. /\ new.page = p /\ new.op = "get" /\ new.status = "sent" /\ ~new.reply.submitted
  BY DEF CloudNew, Words!Refused
<1>6. \A r \in cloud.requests : r.page \in Words!Pages \ {p}
  BY <1>1 DEF CloudWaits, CloudInv, CloudRequest
<1>7. \A r \in cloud.requests : (WillDraw(r)' <=> WillDraw(r)) /\ (WillTell(r)' <=> WillTell(r))
  BY <1>3, <1>6 DEF WillDraw, WillTell
<1>8. WillDraw(new)' => cloud.submitted[Owner[p]]
  BY <1>2, <1>3, <1>5 DEF WillDraw
<1>9. WillTell(new)'
  BY <1>5 DEF WillTell
<1>10. \A m \in Words!Pages : CloudShown(m)' /\ (~cloud'.pages[m].open => cloud'.pages[m].drawn = 0)
  <2> TAKE m \in Words!Pages
  <2>1. CloudShown(m) /\ (~cloud.pages[m].open => cloud.pages[m].drawn = 0)
    BY <1>1
  <2>2. CASE m = p
    <3>1. /\ cloud'.pages[p].open /\ cloud'.pages[p].submitted = cloud.submitted[Owner[p]]
          /\ cloud'.pages[p].inputs = cloud.pages[p].inputs /\ cloud'.pages[p].drawn = 0
          /\ cloud'.pages[p].your_words = cloud.pages[p].your_words
      BY <1>2, <1>3
    <3> QED
      BY <1>2, <1>4, <2>1, <2>2, <3>1 DEF CloudShown
  <2>3. CASE m # p
    <3>1. cloud'.pages[m] = cloud.pages[m]
      BY <1>3, <2>3
    <3> QED
      BY <1>4, <2>1, <3>1 DEF CloudShown
  <2> QED
    BY <2>2, <2>3
<1>11. \A r \in cloud'.requests : CloudWaits(r)'
  <2> TAKE r \in cloud'.requests
  <2>1. CASE r = new
    <3>1. cloud'.pages[p].open /\ cloud'.pages[p].drawn = 0
      BY <1>2, <1>3
    <3>2. ~(new.op = "submit" /\ new.status = "answered") /\ ~new.reply.submitted
      BY <1>5
    <3> QED
      BY <1>4, <1>5, <1>8, <2>1, <3>1, <3>2 DEF CloudWaits
  <2>2. CASE r \in cloud.requests
    <3>1. CloudWaits(r) /\ (WillDraw(r)' <=> WillDraw(r)) /\ cloud'.pages[r.page] = cloud.pages[r.page]
      BY <1>1, <1>3, <1>6, <1>7, <2>2
    <3> QED
      BY <1>4, <3>1 DEF CloudWaits
  <2> QED
    BY <1>4, <2>1, <2>2
<1>12. \A r, q \in cloud'.requests : CloudOnce(r, q)'
  BY <1>1, <1>4, <1>5, <1>6, <1>7 DEF CloudOnce
<1>13. \A m \in Words!Pages : CloudAlone(m)'
  <2> SUFFICES ASSUME NEW m \in Words!Pages, Undisturbed(m)', cloud'.pages[m].open
               PROVE  /\ \A q \in Words!Pages : Owner[q] = Owner[m] /\ cloud'.pages[q].open => q = m
                      /\ cloud'.submitted[Owner[m]] /\ cloud'.pages[m].drawn = 0
                            => \E r \in cloud'.requests : r.page = m /\ WillTell(r)'
    BY DEF CloudAlone
  <2>1. Undisturbed(m)
    BY <1>4 DEF Undisturbed
  <2>2. CASE m = p
    BY <1>3, <1>4, <1>5, <1>9, <2>2 DEF Undisturbed
  <2>3. CASE m # p
    <3>1. Owner[m] # Owner[p]
      BY <1>3, <1>4, <2>3 DEF Undisturbed
    <3> QED
      BY <1>1, <1>3, <1>4, <1>7, <2>1, <2>3, <3>1 DEF CloudAlone
  <2> QED
    BY <2>2, <2>3
<1> QED
  BY <1>10, <1>11, <1>12, <1>13

LEMMA SaveShowsWords ==
    ASSUME CloudInv, CloudPagesInv, NEW p \in Words!Pages, cloud.pages[p].open, NEW entries,
           CloudSends(p, "submit", entries, cloud.pages[p])
    PROVE  CloudPagesInv'
<1> PICK new : new = CloudNew(cloud.made, p, "submit", entries)
  OBVIOUS
<1> SUFFICES ASSUME ~cloud'.overlapped
             PROVE  /\ \A m \in Words!Pages : CloudShown(m)' /\ (~cloud'.pages[m].open => cloud'.pages[m].drawn = 0)
                    /\ \A r \in cloud'.requests : CloudWaits(r)'
                    /\ \A r, q \in cloud'.requests : CloudOnce(r, q)'
                    /\ \A m \in Words!Pages : CloudAlone(m)'
  BY DEF CloudPagesInv
<1>1. /\ \A m \in Words!Pages : CloudShown(m) /\ (~cloud.pages[m].open => cloud.pages[m].drawn = 0)
      /\ \A r \in cloud.requests : CloudWaits(r)
      /\ \A r, q \in cloud.requests : CloudOnce(r, q)
      /\ \A m \in Words!Pages : CloudAlone(m)
  BY DEF CloudPagesInv, CloudSends
<1>2. cloud'.pages = cloud.pages
  BY DEF CloudSends, CloudInv, CloudTyped
<1>3. /\ cloud'.submitted = cloud.submitted /\ cloud'.student_words = cloud.student_words
      /\ cloud'.late = cloud.late /\ cloud'.lost = cloud.lost /\ cloud.elsewhere \subseteq cloud'.elsewhere
      /\ cloud'.requests = cloud.requests \cup {new}
  BY DEF CloudSends, CloudStays
<1>4. /\ new.page = p /\ new.op = "submit" /\ new.status = "sent" /\ ~new.reply.submitted
  BY DEF CloudNew, Words!Refused
<1>5. \A r : (WillDraw(r)' <=> WillDraw(r)) /\ (WillTell(r)' <=> WillTell(r))
  BY <1>2 DEF WillDraw, WillTell
<1>6. ~WillDraw(new)
  BY <1>4 DEF WillDraw
<1>7. \A m \in Words!Pages : CloudShown(m)' /\ (~cloud'.pages[m].open => cloud'.pages[m].drawn = 0)
  BY <1>1, <1>2, <1>3 DEF CloudShown
<1>8. \A r \in cloud'.requests : CloudWaits(r)'
  BY <1>1, <1>2, <1>3, <1>4, <1>5, <1>6 DEF CloudWaits
<1>9. \A r, q \in cloud'.requests : CloudOnce(r, q)'
  BY <1>1, <1>3, <1>4, <1>5, <1>6 DEF CloudOnce
<1>10. \A m \in Words!Pages : CloudAlone(m)'
  BY <1>1, <1>2, <1>3, <1>5 DEF CloudAlone, Undisturbed
<1> QED
  BY <1>7, <1>8, <1>9, <1>10

\* A page that is told its state has asked once, and draws what it is told.
LEMMA GetsShowsWords ==
    ASSUME CloudInv, CloudCountsInv, CloudPagesInv, NEW r \in cloud.requests,
           r.op = "get", r.status = "sent", CloudGets(r, StateOf(r))
    PROVE  CloudPagesInv'
<1> PICK state : state = StateOf(r)
  OBVIOUS
<1> SUFFICES ASSUME ~cloud'.overlapped
             PROVE  /\ \A m \in Words!Pages : CloudShown(m)' /\ (~cloud'.pages[m].open => cloud'.pages[m].drawn = 0)
                    /\ \A q \in cloud'.requests : CloudWaits(q)'
                    /\ \A q, u \in cloud'.requests : CloudOnce(q, u)'
                    /\ \A m \in Words!Pages : CloudAlone(m)'
  BY DEF CloudPagesInv
<1>1. /\ \A m \in Words!Pages : CloudShown(m) /\ (~cloud.pages[m].open => cloud.pages[m].drawn = 0)
      /\ \A q \in cloud.requests : CloudWaits(q)
      /\ \A q, u \in cloud.requests : CloudOnce(q, u)
      /\ \A m \in Words!Pages : CloudAlone(m)
  BY DEF CloudPagesInv, CloudGets
<1>2. /\ cloud'.pages = cloud.pages /\ cloud'.requests = (cloud.requests \ {r}) \cup {state}
      /\ cloud'.submitted = cloud.submitted /\ cloud'.student_words = cloud.student_words
      /\ cloud'.lost = cloud.lost /\ cloud'.elsewhere = cloud.elsewhere /\ cloud.late \subseteq cloud'.late
      /\ cloud.submitted[Owner[r.page]] /\ ~cloud.pages[r.page].submitted => r.page \in cloud'.late
  BY DEF CloudGets, CloudTurns, CloudStays
<1>3. ~Raises(Owner[r.page])
  BY CloudBounds DEF CloudGets, CloudCountsInv, Raises, CloudInv, CloudRequest
<1>4. /\ state.page = r.page /\ state.op = "get" /\ state.status = "answered"
      /\ state.reply.submitted <=> cloud.submitted[Owner[r.page]]
      /\ state.reply.submitted =>
            state.reply.your_words = Words!Range(cloud.student_words[Owner[r.page]])
  BY <1>3, StateIs DEF CloudInv
<1>5. \A q : (WillDraw(q)' <=> WillDraw(q)) /\ (WillTell(q)' <=> WillTell(q))
  BY <1>2 DEF WillDraw, WillTell
<1>6. WillDraw(state) <=> cloud.submitted[Owner[r.page]]
  BY <1>4 DEF WillDraw
<1>7. r.page \notin cloud'.late /\ WillDraw(state) => WillDraw(r)
  BY <1>2, <1>6 DEF WillDraw
<1>8. \A m \in Words!Pages : CloudShown(m)' /\ (~cloud'.pages[m].open => cloud'.pages[m].drawn = 0)
  BY <1>1, <1>2 DEF CloudShown
<1>9. \A q \in cloud'.requests : CloudWaits(q)'
  <2> TAKE q \in cloud'.requests
  <2>1. CASE q = state
    <3>1. /\ cloud.pages[r.page].open
          /\ r.page \notin cloud'.late /\ WillDraw(state) => cloud.pages[r.page].drawn = 0
      BY <1>1, <1>2, <1>7 DEF CloudWaits
    <3> QED
      BY <1>2, <1>4, <1>5, <1>6, <2>1, <3>1 DEF CloudWaits
  <2>2. CASE q \in cloud.requests
    BY <1>1, <1>2, <1>5, <2>2 DEF CloudWaits
  <2> QED
    BY <1>2, <2>1, <2>2
<1>10. \A q, u \in cloud'.requests : CloudOnce(q, u)'
  <2>1. ASSUME NEW q \in cloud.requests \ {r}
        PROVE  q.page = r.page => q.op # "get" /\ (r.page \notin cloud'.late => ~(WillDraw(q) /\ WillDraw(state)))
    <3>1. CloudOnce(q, r)
      BY <1>1
    <3> QED
      BY <1>2, <1>7, <3>1 DEF CloudOnce
  <2>2. ASSUME NEW q \in cloud.requests, NEW u \in cloud.requests PROVE CloudOnce(q, u)'
    BY <1>1, <1>2, <1>5 DEF CloudOnce
  <2>3. ASSUME NEW q \in cloud.requests \ {r} PROVE CloudOnce(q, state)' /\ CloudOnce(state, q)'
    BY <1>4, <1>5, <2>1 DEF CloudOnce
  <2>4. CloudOnce(state, state)'
    BY DEF CloudOnce
  <2> QED
    BY <1>2, <2>2, <2>3, <2>4
<1>11. \A m \in Words!Pages : CloudAlone(m)'
  <2> SUFFICES ASSUME NEW m \in Words!Pages, Undisturbed(m)', cloud'.pages[m].open
               PROVE  /\ \A q \in Words!Pages : Owner[q] = Owner[m] /\ cloud'.pages[q].open => q = m
                      /\ cloud'.submitted[Owner[m]] /\ cloud'.pages[m].drawn = 0
                            => \E q \in cloud'.requests : q.page = m /\ WillTell(q)'
    BY DEF CloudAlone
  <2>1. /\ \A q \in Words!Pages : Owner[q] = Owner[m] /\ cloud.pages[q].open => q = m
        /\ cloud.submitted[Owner[m]] /\ cloud.pages[m].drawn = 0
              => \E q \in cloud.requests : q.page = m /\ WillTell(q)
    BY <1>1, <1>2 DEF CloudAlone, Undisturbed
  <2>2. cloud.submitted[Owner[r.page]] => WillTell(state)
    BY <1>6 DEF WillTell
  <2> QED
    BY <1>2, <1>4, <1>5, <2>1, <2>2
<1> QED
  BY <1>8, <1>9, <1>10, <1>11

\* A submission that starts changes nothing of the pages.
LEMMA RunsShowsWords ==
    ASSUME CloudInv, CloudPagesInv, NEW r \in cloud.requests,
           r.op = "submit", r.status = "sent", CloudRuns(r, Running(r))
    PROVE  CloudPagesInv'
<1> PICK running : running = Running(r)
  OBVIOUS
<1> SUFFICES ASSUME ~cloud'.overlapped
             PROVE  /\ \A m \in Words!Pages : CloudShown(m)' /\ (~cloud'.pages[m].open => cloud'.pages[m].drawn = 0)
                    /\ \A q \in cloud'.requests : CloudWaits(q)'
                    /\ \A q, u \in cloud'.requests : CloudOnce(q, u)'
                    /\ \A m \in Words!Pages : CloudAlone(m)'
  BY DEF CloudPagesInv
<1>1. /\ \A m \in Words!Pages : CloudShown(m) /\ (~cloud.pages[m].open => cloud.pages[m].drawn = 0)
      /\ \A q \in cloud.requests : CloudWaits(q)
      /\ \A q, u \in cloud.requests : CloudOnce(q, u)
      /\ \A m \in Words!Pages : CloudAlone(m)
  BY DEF CloudPagesInv, CloudRuns
<1>2. /\ cloud'.pages = cloud.pages /\ cloud'.requests = (cloud.requests \ {r}) \cup {running}
      /\ cloud'.submitted = cloud.submitted /\ cloud'.student_words = cloud.student_words
      /\ cloud'.lost = cloud.lost /\ cloud'.elsewhere = cloud.elsewhere /\ cloud'.late = cloud.late
  BY DEF CloudRuns, CloudTurns, CloudStays
<1>3. /\ running.page = r.page /\ running.op = "submit" /\ running.status = "running"
      /\ ~running.reply.submitted
  BY RunningIs DEF CloudInv
<1>4. \A q : (WillDraw(q)' <=> WillDraw(q)) /\ (WillTell(q)' <=> WillTell(q))
  BY <1>2 DEF WillDraw, WillTell
<1>5. ~WillDraw(running) /\ ~WillTell(r)
  BY <1>3 DEF WillDraw, WillTell
<1>6. \A m \in Words!Pages : CloudShown(m)' /\ (~cloud'.pages[m].open => cloud'.pages[m].drawn = 0)
  BY <1>1, <1>2 DEF CloudShown
<1>7. \A q \in cloud'.requests : CloudWaits(q)'
  BY <1>1, <1>2, <1>3, <1>4, <1>5 DEF CloudWaits
<1>8. \A q, u \in cloud'.requests : CloudOnce(q, u)'
  BY <1>1, <1>2, <1>3, <1>4, <1>5 DEF CloudOnce
<1>9. \A m \in Words!Pages : CloudAlone(m)'
  BY <1>1, <1>2, <1>4, <1>5 DEF CloudAlone, Undisturbed
<1> QED
  BY <1>6, <1>7, <1>8, <1>9

\* A submission that is saved is the first of its learner, whose pages had drawn nothing.
LEMMA SavesShowsWords ==
    ASSUME CloudInv, CloudCountsInv, CloudPagesInv, NEW r \in cloud.requests, r.status = "running",
           NEW f \in Words!submit_state(r.read, r.entries), CloudSaves(r, f, Answer(r, f))
    PROVE  CloudPagesInv'
<1> PICK answer : answer = Answer(r, f)
  OBVIOUS
<1> SUFFICES ASSUME ~cloud'.overlapped
             PROVE  /\ \A m \in Words!Pages : CloudShown(m)' /\ (~cloud'.pages[m].open => cloud'.pages[m].drawn = 0)
                    /\ \A q \in cloud'.requests : CloudWaits(q)'
                    /\ \A q, u \in cloud'.requests : CloudOnce(q, u)'
                    /\ \A m \in Words!Pages : CloudAlone(m)'
  BY DEF CloudPagesInv
<1>1. /\ \A m \in Words!Pages : CloudShown(m) /\ (~cloud.pages[m].open => cloud.pages[m].drawn = 0)
      /\ \A q \in cloud.requests : CloudWaits(q)
      /\ \A q, u \in cloud.requests : CloudOnce(q, u)
      /\ \A m \in Words!Pages : CloudAlone(m)
  BY DEF CloudPagesInv, CloudSaves
<1>2. /\ cloud'.pages = cloud.pages /\ cloud'.requests = (cloud.requests \ {r}) \cup {answer}
      /\ cloud'.lost = cloud.lost /\ cloud'.elsewhere = cloud.elsewhere /\ cloud'.late = cloud.late
  BY DEF CloudSaves, CloudTurns
<1>3. CloudRequest(r) /\ r.page \in Words!Pages /\ Owner[r.page] \in Words!Learners
  BY CloudBounds DEF CloudInv, CloudRequest
<1>4. r.read.submitted = cloud.submitted[Owner[r.page]]
  <2>1. r.read = Words!Fields(Owner[r.page])
    BY DEF CloudSaves, CloudCountsInv
  <2> QED
    BY <2>1 DEF Words!Fields
<1>5. /\ answer.page = r.page /\ answer.op = "submit" /\ answer.status = "answered"
      /\ answer.reply.submitted <=> ~r.read.submitted
      /\ f = r.read <=> r.read.submitted
      /\ ~r.read.submitted =>
            /\ answer.reply.your_words = Words!Range(f.student_words) /\ f.submitted /\ f.submitted \in BOOLEAN
  BY <1>3, AnswerIs
<1>6. \A q : (WillDraw(q)' <=> WillDraw(q)) /\ (WillTell(q)' <=> WillTell(q))
  BY <1>2 DEF WillDraw, WillTell
<1>7. /\ WillDraw(answer) <=> ~r.read.submitted
      /\ WillTell(answer) <=> ~r.read.submitted
      /\ ~WillTell(r)
  BY <1>3, <1>5 DEF WillDraw, WillTell, CloudRequest
<1>8. CASE r.read.submitted
  <2>1. cloud'.submitted = cloud.submitted /\ cloud'.student_words = cloud.student_words
    BY <1>5, <1>8 DEF CloudSaves, CloudStays
  <2>2. \A m \in Words!Pages : CloudShown(m)' /\ (~cloud'.pages[m].open => cloud'.pages[m].drawn = 0)
    BY <1>1, <1>2, <2>1 DEF CloudShown
  <2>3. \A q \in cloud'.requests : CloudWaits(q)'
    <3> TAKE q \in cloud'.requests
    <3>1. CASE q = answer
      <4>1. CloudWaits(r)
        BY <1>1
      <4> QED
        BY <1>2, <1>4, <1>5, <1>6, <1>7, <1>8, <2>1, <3>1, <4>1 DEF CloudWaits
    <3>2. CASE q \in cloud.requests
      BY <1>1, <1>2, <1>6, <2>1, <3>2 DEF CloudWaits
    <3> QED
      BY <1>2, <3>1, <3>2
  <2>4. \A q, u \in cloud'.requests : CloudOnce(q, u)'
    BY <1>1, <1>2, <1>5, <1>6, <1>7, <1>8 DEF CloudOnce
  <2>5. \A m \in Words!Pages : CloudAlone(m)'
    BY <1>1, <1>2, <1>6, <1>7, <2>1 DEF CloudAlone, Undisturbed
  <2> QED
    BY <2>2, <2>3, <2>4, <2>5
<1>9. CASE ~r.read.submitted
  <2> DEFINE l == Owner[r.page]
  <2>1. /\ \A k \in Words!Learners \ {l} : /\ cloud'.submitted[k] = cloud.submitted[k]
                                           /\ cloud'.student_words[k] = cloud.student_words[k]
        /\ cloud'.submitted[l] /\ ~cloud.submitted[l]
        /\ cloud'.student_words[l] = f.student_words
    BY <1>3, <1>4, <1>5, <1>9 DEF CloudSaves, CloudInv, CloudTyped
  <2>2. \A m \in Words!Pages : Owner[m] = l =>
            cloud.pages[m].drawn = 0 /\ cloud.pages[m].inputs /\ ~cloud.pages[m].submitted
    BY <1>1, <2>1 DEF CloudShown, CloudInv, CloudTyped, CloudPage
  <2>3. \A q \in cloud.requests : Owner[q.page] = l =>
            ~WillDraw(q) /\ ~q.reply.submitted /\ ~(q.op = "submit" /\ q.status = "answered")
    <3> TAKE q \in cloud.requests
    <3>1. CloudWaits(q) /\ CloudRequest(q)
      BY <1>1 DEF CloudInv
    <3>2. q.reply.submitted => WillDraw(q)
      BY <3>1 DEF CloudRequest, WillDraw
    <3> QED
      BY <2>1, <3>1, <3>2 DEF CloudWaits
  <2>4. \A m \in Words!Pages : CloudShown(m)' /\ (~cloud'.pages[m].open => cloud'.pages[m].drawn = 0)
    <3> TAKE m \in Words!Pages
    <3>1. CloudShown(m) /\ Owner[m] \in Words!Learners
      BY <1>1, CloudBounds
    <3>2. CASE Owner[m] = l
      BY <1>1, <1>2, <2>1, <2>2, <3>1, <3>2 DEF CloudShown
    <3>3. CASE Owner[m] # l
      BY <1>1, <1>2, <2>1, <3>1, <3>3 DEF CloudShown
    <3> QED
      BY <3>2, <3>3
  <2>5. \A q \in cloud'.requests : CloudWaits(q)'
    <3> TAKE q \in cloud'.requests
    <3>1. CASE q = answer
      <4>1. cloud.pages[r.page].open /\ cloud.pages[r.page].drawn = 0
        BY <1>1, <1>3, <2>2 DEF CloudWaits
      <4> QED
        BY <1>2, <1>5, <1>9, <2>1, <3>1, <4>1 DEF CloudWaits
    <3>2. CASE q \in cloud.requests
      <4>1. CloudWaits(q) /\ Owner[q.page] \in Words!Learners
        BY <1>1, <3>2, CloudBounds DEF CloudInv, CloudRequest
      <4> QED
        BY <1>2, <1>6, <2>1, <2>3, <3>2, <4>1 DEF CloudWaits
    <3> QED
      BY <1>2, <3>1, <3>2
  <2>6. \A q, u \in cloud'.requests : CloudOnce(q, u)'
    BY <1>1, <1>2, <1>5, <1>6, <2>3 DEF CloudOnce
  <2>7. \A m \in Words!Pages : CloudAlone(m)'
    <3> SUFFICES ASSUME NEW m \in Words!Pages, Undisturbed(m)', cloud'.pages[m].open
                 PROVE  /\ \A q \in Words!Pages : Owner[q] = Owner[m] /\ cloud'.pages[q].open => q = m
                        /\ cloud'.submitted[Owner[m]] /\ cloud'.pages[m].drawn = 0
                              => \E q \in cloud'.requests : q.page = m /\ WillTell(q)'
      BY DEF CloudAlone
    <3>1. /\ \A q \in Words!Pages : Owner[q] = Owner[m] /\ cloud.pages[q].open => q = m
          /\ cloud.submitted[Owner[m]] /\ cloud.pages[m].drawn = 0
                => \E q \in cloud.requests : q.page = m /\ WillTell(q)
      BY <1>1, <1>2 DEF CloudAlone, Undisturbed
    <3>2. CASE Owner[m] = l
      <4>1. r.page = m
        BY <1>1, <1>3, <3>1, <3>2 DEF CloudWaits
      <4> QED
        BY <1>2, <1>5, <1>6, <1>7, <1>9, <3>1, <4>1
    <3>3. CASE Owner[m] # l
      <4>1. cloud'.submitted[Owner[m]] = cloud.submitted[Owner[m]] /\ r.page # m
        BY <2>1, <3>3, CloudBounds
      <4> QED
        BY <1>2, <1>6, <3>1, <4>1
    <3> QED
      BY <3>2, <3>3
  <2> QED
    BY <2>4, <2>5, <2>6, <2>7
<1> QED
  BY <1>3, <1>8, <1>9 DEF CloudRequest

\* An answer that arrives draws what was waited for.
LEMMA ArriveShowsWords ==
    ASSUME CloudInv, CloudPagesInv, NEW r \in cloud.requests, r.status = "answered",
           CloudReceives(r, CloudDrawn(r), cloud.lost)
    PROVE  CloudPagesInv'
<1> PICK page : page = CloudDrawn(r)
  OBVIOUS
<1> DEFINE p == r.page
<1> SUFFICES ASSUME ~cloud'.overlapped
             PROVE  /\ \A m \in Words!Pages : CloudShown(m)' /\ (~cloud'.pages[m].open => cloud'.pages[m].drawn = 0)
                    /\ \A q \in cloud'.requests : CloudWaits(q)'
                    /\ \A q, u \in cloud'.requests : CloudOnce(q, u)'
                    /\ \A m \in Words!Pages : CloudAlone(m)'
  BY DEF CloudPagesInv
<1>1. /\ \A m \in Words!Pages : CloudShown(m) /\ (~cloud.pages[m].open => cloud.pages[m].drawn = 0)
      /\ \A q \in cloud.requests : CloudWaits(q)
      /\ \A q, u \in cloud.requests : CloudOnce(q, u)
      /\ \A m \in Words!Pages : CloudAlone(m)
  BY DEF CloudPagesInv, CloudReceives
<1>2. /\ p \in Words!Pages /\ r.op \in {"get", "submit"} /\ cloud.pages[p].drawn \in Nat
      /\ cloud.pages \in [Words!Pages -> CloudPage] /\ cloud.pages[p] \in CloudPage
  BY DEF CloudInv, CloudTyped, CloudRequest, CloudPage
<1>3. /\ cloud'.pages[p] = page /\ \A m \in Words!Pages \ {p} : cloud'.pages[m] = cloud.pages[m]
      /\ cloud'.requests = cloud.requests \ {r}
      /\ cloud'.submitted = cloud.submitted /\ cloud'.student_words = cloud.student_words
      /\ cloud'.late = cloud.late /\ cloud'.lost = cloud.lost /\ cloud'.elsewhere = cloud.elsewhere
  BY <1>2 DEF CloudReceives, CloudStays
<1>4. CloudWaits(r) /\ (WillDraw(r) <=> r.reply.submitted) /\ (WillTell(r) <=> r.reply.submitted)
  BY <1>1 DEF WillDraw, WillTell
<1>5. /\ page.open = cloud.pages[p].open /\ page.submitted = cloud.pages[p].submitted
      /\ r.reply.submitted => /\ ~page.inputs /\ page.drawn = cloud.pages[p].drawn + 1
                              /\ page.your_words = r.reply.your_words
      /\ ~r.reply.submitted => /\ page.drawn = cloud.pages[p].drawn
                               /\ page.your_words = cloud.pages[p].your_words
                               /\ page.inputs = cloud.pages[p].inputs \/ (r.op = "submit" /\ ~page.inputs)
  <2>1. CASE r.reply.submitted
    BY <1>2, <2>1 DEF CloudDrawn, CloudPage
  <2>2. CASE ~r.reply.submitted /\ r.op = "submit"
    BY <1>2, <2>2 DEF CloudDrawn, CloudPage
  <2>3. CASE ~r.reply.submitted /\ r.op # "submit"
    BY <1>2, <2>3 DEF CloudDrawn, CloudPage
  <2> QED
    BY <2>1, <2>2, <2>3
<1>6. \A q \in cloud.requests : (WillDraw(q)' <=> WillDraw(q)) /\ (WillTell(q)' <=> WillTell(q))
  <2> TAKE q \in cloud.requests
  <2>1. q.page \in Words!Pages
    BY DEF CloudInv, CloudRequest
  <2>2. cloud'.pages[q.page].submitted = cloud.pages[q.page].submitted
    BY <1>3, <1>5, <2>1
  <2> QED
    BY <2>2 DEF WillDraw, WillTell
<1>7. \A m \in Words!Pages : CloudShown(m)' /\ (~cloud'.pages[m].open => cloud'.pages[m].drawn = 0)
  <2> TAKE m \in Words!Pages
  <2>1. CASE m # p
    <3>1. cloud'.pages[m] = cloud.pages[m] /\ CloudShown(m)
      BY <1>1, <1>3, <2>1
    <3> QED
      BY <1>1, <1>3, <3>1 DEF CloudShown
  <2>2. CASE m = p
    <3>1. /\ CloudShown(p) /\ cloud.pages[p].open /\ cloud'.pages[p].open
      BY <1>1, <1>2, <1>3, <1>4, <1>5 DEF CloudWaits
    <3>2. CASE r.reply.submitted
      <4>1. /\ cloud.submitted[Owner[p]] /\ page.your_words = Words!Range(cloud.student_words[Owner[p]])
            /\ p \notin cloud.late => cloud.pages[p].drawn = 0
            /\ page.drawn > 0 /\ page.drawn = cloud.pages[p].drawn + 1 /\ ~page.inputs
        BY <1>2, <1>4, <1>5, <3>2 DEF CloudWaits
      <4> QED
        BY <1>3, <2>2, <3>1, <4>1 DEF CloudShown
    <3>3. CASE ~r.reply.submitted
      <4>1. page.inputs = cloud.pages[p].inputs \/ (cloud.submitted[Owner[p]] /\ ~page.inputs)
        BY <1>4, <1>5, <3>3 DEF CloudWaits
      <4> QED
        BY <1>3, <1>5, <2>2, <3>1, <3>3, <4>1 DEF CloudShown
    <3> QED
      BY <3>2, <3>3
  <2> QED
    BY <2>1, <2>2
<1>8. \A q \in cloud'.requests : CloudWaits(q)'
  <2> TAKE q \in cloud'.requests
  <2>1. q \in cloud.requests /\ q # r /\ q.page \in Words!Pages /\ CloudWaits(q) /\ CloudOnce(q, r)
    BY <1>1, <1>3 DEF CloudInv, CloudRequest
  <2>2. CASE q.page # p
    <3>1. cloud'.pages[q.page] = cloud.pages[q.page]
      BY <1>3, <2>1, <2>2
    <3> QED
      BY <1>3, <1>6, <2>1, <3>1 DEF CloudWaits
  <2>3. CASE q.page = p
    <3>1. q.page \notin cloud.late /\ WillDraw(q) => ~r.reply.submitted
      BY <1>4, <2>1, <2>3 DEF CloudOnce
    <3> QED
      BY <1>3, <1>5, <1>6, <2>1, <2>3, <3>1 DEF CloudWaits
  <2> QED
    BY <2>2, <2>3
<1>9. \A q, u \in cloud'.requests : CloudOnce(q, u)'
  BY <1>1, <1>3, <1>6 DEF CloudOnce
<1>10. \A m \in Words!Pages : CloudAlone(m)'
  <2> SUFFICES ASSUME NEW m \in Words!Pages, Undisturbed(m)', cloud'.pages[m].open
               PROVE  /\ \A q \in Words!Pages : Owner[q] = Owner[m] /\ cloud'.pages[q].open => q = m
                      /\ cloud'.submitted[Owner[m]] /\ cloud'.pages[m].drawn = 0
                            => \E q \in cloud'.requests : q.page = m /\ WillTell(q)'
    BY DEF CloudAlone
  <2>1. \A q \in Words!Pages : cloud'.pages[q].open = cloud.pages[q].open
    BY <1>3, <1>5
  <2>2. /\ \A q \in Words!Pages : Owner[q] = Owner[m] /\ cloud.pages[q].open => q = m
        /\ cloud.submitted[Owner[m]] /\ cloud.pages[m].drawn = 0
              => \E q \in cloud.requests : q.page = m /\ WillTell(q)
    BY <1>1, <1>3, <2>1 DEF CloudAlone, Undisturbed
  <2>3. cloud'.pages[m].drawn = 0 => cloud.pages[m].drawn = 0 /\ ~(m = p /\ r.reply.submitted)
    BY <1>2, <1>3, <1>5
  <2> QED
    BY <1>3, <1>4, <1>6, <2>1, <2>2, <2>3
<1> QED
  BY <1>7, <1>8, <1>9, <1>10

\* A request that fails is counted as lost.
LEMMA FailShowsWords ==
    ASSUME CloudInv, CloudPagesInv, NEW r \in cloud.requests,
           CloudReceives(r, cloud.pages[r.page], cloud.lost \cup {Owner[r.page]})
    PROVE  CloudPagesInv'
<1> SUFFICES ASSUME ~cloud'.overlapped
             PROVE  /\ \A m \in Words!Pages : CloudShown(m)' /\ (~cloud'.pages[m].open => cloud'.pages[m].drawn = 0)
                    /\ \A q \in cloud'.requests : CloudWaits(q)'
                    /\ \A q, u \in cloud'.requests : CloudOnce(q, u)'
                    /\ \A m \in Words!Pages : CloudAlone(m)'
  BY DEF CloudPagesInv
<1>1. /\ \A m \in Words!Pages : CloudShown(m) /\ (~cloud.pages[m].open => cloud.pages[m].drawn = 0)
      /\ \A q \in cloud.requests : CloudWaits(q)
      /\ \A q, u \in cloud.requests : CloudOnce(q, u)
      /\ \A m \in Words!Pages : CloudAlone(m)
  BY DEF CloudPagesInv, CloudReceives
<1>2. /\ cloud'.pages = cloud.pages /\ cloud'.requests = cloud.requests \ {r}
      /\ cloud'.submitted = cloud.submitted /\ cloud'.student_words = cloud.student_words
      /\ cloud'.lost = cloud.lost \cup {Owner[r.page]} /\ cloud'.elsewhere = cloud.elsewhere
      /\ cloud'.late = cloud.late
  BY DEF CloudReceives, CloudStays, CloudInv, CloudTyped
<1>3. \A q : (WillDraw(q)' <=> WillDraw(q)) /\ (WillTell(q)' <=> WillTell(q))
  BY <1>2 DEF WillDraw, WillTell
<1>4. \A m \in Words!Pages : CloudShown(m)' /\ (~cloud'.pages[m].open => cloud'.pages[m].drawn = 0)
  BY <1>1, <1>2 DEF CloudShown
<1>5. \A q \in cloud'.requests : CloudWaits(q)'
  BY <1>1, <1>2, <1>3 DEF CloudWaits
<1>6. \A q, u \in cloud'.requests : CloudOnce(q, u)'
  BY <1>1, <1>2, <1>3 DEF CloudOnce
<1>7. \A m \in Words!Pages : CloudAlone(m)'
  BY <1>1, <1>2, <1>3 DEF CloudAlone, Undisturbed
<1> QED
  BY <1>4, <1>5, <1>6, <1>7
--------------------------------------------------------------------------------
(***************************************************************************)
(* Every step of the word cloud keeps what is said of its fields, of the   *)
(* counts, and of the pages.                                               *)
(***************************************************************************)
CloudSound == CloudInv /\ CloudCountsInv /\ CloudPagesInv
LEMMA CloudStarts ==
    Words!Init => CloudSound
<1> SUFFICES ASSUME Words!Init
             PROVE  CloudSound
  OBVIOUS
<1>1. /\ DOMAIN cloud = CloudNames
      /\ cloud.submitted = [l \in Words!Learners |-> FALSE]
      /\ cloud.student_words = [l \in Words!Learners |-> <<>>]
      /\ cloud.all_words = <<>> /\ cloud.top_words = <<>>
      /\ cloud.pages = [p \in Words!Pages |-> Words!Page] /\ cloud.requests = {}
  BY DEF Words!Init, CloudNames
<1>2. DOMAIN <<>> = {}
  OBVIOUS
<1>3. <<>> \in Given /\ <<>> \in WordCounts
  <2>1. <<>> \in [{} -> Good] /\ <<>> \in [{} -> Nat \ {0}]
    BY <1>2
  <2> QED
    BY <2>1 DEF Given, WordCounts
<1>4. Words!Page \in CloudPage
  BY DEF Words!Page, CloudPage
<1>5. IsTop(<<>>, <<>>)
  <2>1. Cardinality({}) = 0
    BY FS_EmptySet
  <2>2. 0 < num_top_words
    BY CloudBounds
  <2>3. {} \in Words!top_dict(<<>>)
    BY <1>2, <2>1, <2>2, SameWordCount DEF Words!top_dict
  <2> QED
    BY <1>2, <2>3 DEF IsTop
<1>6. CloudInv
  BY <1>1, <1>2, <1>3, <1>4, <1>5 DEF CloudInv, CloudTyped
<1>7. \A w : Words!Count(cloud.all_words, w) = 0 /\ GivenAs(cloud.student_words, w) = {}
  BY <1>1, <1>2 DEF Words!Count, GivenAs
<1>8. Words!CountsAreWords
  BY <1>7, CountsAreWordsIs, FS_EmptySet
<1>9. CloudCountsInv
  BY <1>1, <1>2, <1>8 DEF CloudCountsInv, Words!Range
<1>10. CloudPagesInv
  BY <1>1 DEF CloudPagesInv, CloudShown, CloudAlone, Words!Page
<1> QED
  BY <1>6, <1>9, <1>10 DEF CloudSound

LEMMA CloudKeeps ==
    ASSUME CloudSound, [Words!Next]_cloud
    PROVE  CloudSound'
<1>1. CloudInv /\ CloudCountsInv /\ CloudPagesInv /\ CloudTyped /\ \A r \in cloud.requests : CloudRequest(r)
  BY DEF CloudSound, CloudInv
<1>2. ASSUME NEW p \in Words!Pages, Words!Open(p)
      PROVE  CloudSound'
  <2> PICK page : page = [cloud.pages[p] EXCEPT !.open = TRUE, !.submitted = cloud.submitted[Owner[p]]]
    OBVIOUS
  <2>1. ~cloud.pages[p].open /\ CloudSends(p, "get", <<>>, page)
    BY <1>1, <1>2, OpenAsks
  <2>2. page \in CloudPage
    <3>1. cloud.pages[p] \in CloudPage /\ cloud.submitted[Owner[p]] \in BOOLEAN
      BY <1>1, CloudBounds DEF CloudTyped
    <3> QED
      BY <3>1 DEF CloudPage
  <2>3. CloudInv'
    BY <1>1, <2>1, <2>2, CloudSendsKeeps
  <2>4. CloudCountsInv'
    BY <1>1, <2>1, SendsCountsWords
  <2>5. CloudPagesInv'
    BY <1>1, <2>1, OpenShowsWords
  <2> QED
    BY <2>3, <2>4, <2>5 DEF CloudSound
<1>3. ASSUME NEW p \in Words!Pages, Words!Save(p)
      PROVE  CloudSound'
  <2>1. PICK entries \in Words!Entries : CloudSends(p, "submit", entries, cloud.pages[p])
    BY <1>1, <1>3, SaveSends
  <2>2. cloud.pages[p].open /\ cloud.pages[p] \in CloudPage
    BY <1>1, <1>3, SaveSends DEF CloudTyped
  <2>3. CloudInv'
    BY <1>1, <2>1, <2>2, CloudSendsKeeps
  <2>4. CloudCountsInv'
    BY <1>1, <2>1, SendsCountsWords
  <2>5. CloudPagesInv'
    BY <1>1, <2>1, <2>2, SaveShowsWords
  <2> QED
    BY <2>3, <2>4, <2>5 DEF CloudSound
<1>4. ASSUME NEW r \in cloud.requests, Words!Get(r)
      PROVE  CloudSound'
  <2>1. r.op = "get" /\ r.status = "sent" /\ CloudGets(r, StateOf(r)) /\ CloudRequest(r)
    BY <1>1, <1>4, GetTells
  <2>2. CloudRequest(StateOf(r))
    BY <1>1, <2>1, StateIs
  <2>3. CloudInv'
    BY <1>1, <2>1, <2>2, CloudTurnsKeeps DEF CloudGets
  <2>4. CloudCountsInv'
    BY <1>1, <2>1, GetsCountsWords
  <2>5. CloudPagesInv'
    BY <1>1, <2>1, GetsShowsWords
  <2> QED
    BY <2>3, <2>4, <2>5 DEF CloudSound
<1>5. ASSUME NEW r \in cloud.requests, Words!Starts(r)
      PROVE  CloudSound'
  <2>1. r.op = "submit" /\ r.status = "sent" /\ CloudRuns(r, Running(r)) /\ CloudRequest(r)
    BY <1>1, <1>5, StartReads
  <2>2. CloudRequest(Running(r))
    BY <1>1, <2>1, RunningIs
  <2>3. CloudInv'
    BY <1>1, <2>1, <2>2, CloudTurnsKeeps DEF CloudRuns
  <2>4. CloudCountsInv'
    BY <1>1, <2>1, RunsCountsWords
  <2>5. CloudPagesInv'
    BY <1>1, <2>1, RunsShowsWords
  <2> QED
    BY <2>3, <2>4, <2>5 DEF CloudSound
<1>6. ASSUME NEW r \in cloud.requests, Words!Ends(r)
      PROVE  CloudSound'
  <2>1. r.status = "running"
    BY <1>1, <1>6, EndWrites
  <2>2. PICK f \in Words!submit_state(r.read, r.entries) : CloudSaves(r, f, Answer(r, f))
    BY <1>1, <1>6, EndWrites
  <2>3. CloudInv'
    BY <1>1, <2>1, <2>2, CloudSavesKeeps
  <2>4. CloudCountsInv'
    BY <1>1, <2>1, <2>2, SavesCountsWords
  <2>5. CloudPagesInv'
    BY <1>1, <2>1, <2>2, SavesShowsWords
  <2> QED
    BY <2>3, <2>4, <2>5 DEF CloudSound
<1>7. ASSUME NEW r \in cloud.requests, Words!Arrives(r)
      PROVE  CloudSound'
  <2>1. r.status = "answered" /\ CloudReceives(r, CloudDrawn(r), cloud.lost) /\ CloudRequest(r)
    BY <1>1, <1>7, ArriveDraws
  <2>2. CloudDrawn(r) \in CloudPage
    BY <1>1, DrawnTyped
  <2>3. CloudInv'
    BY <1>1, <2>1, <2>2, CloudReceivesKeeps
  <2>4. CloudCountsInv'
    BY <1>1, <2>1, ReceivesCountsWords
  <2>5. CloudPagesInv'
    BY <1>1, <2>1, ArriveShowsWords
  <2> QED
    BY <2>3, <2>4, <2>5 DEF CloudSound
<1>8. ASSUME NEW r \in cloud.requests, Words!Fails(r)
      PROVE  CloudSound'
  <2>1. CloudReceives(r, cloud.pages[r.page], cloud.lost \cup {Owner[r.page]})
    BY <1>1, <1>8, FailLeaves
  <2>2. cloud.pages[r.page] \in CloudPage
    BY <1>1 DEF CloudTyped, CloudRequest
  <2>3. CloudInv'
    BY <1>1, <2>1, <2>2, CloudReceivesKeeps
  <2>4. CloudCountsInv'
    BY <1>1, <2>1, ReceivesCountsWords
  <2>5. CloudPagesInv'
    BY <1>1, <2>1, FailShowsWords
  <2> QED
    BY <2>3, <2>4, <2>5 DEF CloudSound
<1>9. CASE UNCHANGED cloud
  <2>1. CloudInv'
    BY <1>1, <1>9 DEF CloudInv, CloudTyped
  <2>2. CloudCountsInv'
    BY <1>1, <1>9 DEF CloudCountsInv, Words!CountsAreWords, Words!Fields
  <2>3. CloudPagesInv'
    BY <1>1, <1>9 DEF CloudPagesInv, CloudShown, CloudWaits, CloudOnce, CloudAlone, WillDraw, WillTell, Undisturbed
  <2> QED
    BY <2>1, <2>2, <2>3 DEF CloudSound
<1> QED
  BY <1>2, <1>3, <1>4, <1>5, <1>6, <1>7, <1>8, <1>9 DEF Words!Next

\* What is said of the word cloud by its properties.
LEMMA CloudIsSound ==
    ASSUME CloudSound
    PROVE  /\ Words!TypeOK /\ Words!CountsAreWords /\ Words!TopIsTop /\ Words!GetIsAnswered
           /\ Words!SubmittedIsShown /\ Words!OneCloud
<1>1. CloudTyped /\ CloudCountsInv /\ CloudPagesInv
  BY DEF CloudSound, CloudInv
<1>2. Words!TypeOK
  BY <1>1 DEF CloudTyped, WordCounts, Given, Words!TypeOK
<1>3. Words!TopIsTop
  BY <1>1 DEF CloudTyped, IsTop, Words!TopIsTop
<1>4. Words!CountsAreWords /\ Words!GetIsAnswered
  BY <1>1 DEF CloudCountsInv, Words!CountsAreWords, Words!GetIsAnswered
<1>5. Words!SubmittedIsShown
  <2> SUFFICES ASSUME NEW p \in Words!Pages, cloud.pages[p].open, ~cloud.overlapped,
                      Owner[p] \notin cloud.lost \cup cloud.elsewhere,
                      \A r \in cloud.requests : r.page # p
               PROVE  /\ cloud.pages[p].drawn > 0 <=> cloud.submitted[Owner[p]]
                      /\ cloud.pages[p].inputs <=> ~cloud.submitted[Owner[p]]
                      /\ cloud.pages[p].your_words = Words!Range(cloud.student_words[Owner[p]])
    BY DEF Words!SubmittedIsShown
  <2>1. CloudShown(p) /\ CloudAlone(p)
    BY <1>1 DEF CloudPagesInv
  <2>2. cloud.submitted[Owner[p]] => cloud.pages[p].drawn # 0
    BY <2>1 DEF CloudAlone, Undisturbed
  <2>3. cloud.pages[p].drawn \in Nat /\ Owner[p] \in Words!Learners
    BY <1>1, CloudBounds DEF CloudTyped, CloudPage
  <2>4. ~cloud.submitted[Owner[p]] => Words!Range(cloud.student_words[Owner[p]]) = {}
    BY <1>1, <2>3 DEF CloudTyped, Words!Range
  <2>5. /\ cloud.pages[p].drawn > 0 <=> cloud.submitted[Owner[p]]
        /\ cloud.pages[p].inputs <=> ~cloud.submitted[Owner[p]]
    <3>1. cloud.pages[p].inputs \in BOOLEAN /\ cloud.submitted[Owner[p]] \in BOOLEAN
      BY <1>1, <2>3 DEF CloudTyped, CloudPage
    <3> QED
      BY <2>1, <2>2, <2>3, <3>1 DEF CloudShown
  <2>6. cloud.pages[p].your_words = Words!Range(cloud.student_words[Owner[p]])
    <3>1. CASE cloud.pages[p].drawn > 0
      BY <2>1, <3>1 DEF CloudShown
    <3>2. CASE cloud.pages[p].drawn = 0
      <4>1. ~cloud.submitted[Owner[p]]
        BY <2>5, <3>2
      <4>2. cloud.pages[p].your_words = {}
        BY <2>1, <3>2 DEF CloudShown
      <4> QED
        BY <2>4, <4>1, <4>2
    <3> QED
      BY <2>3, <3>1, <3>2
  <2> QED
    BY <2>5, <2>6
<1>6. Words!OneCloud
  <2> SUFFICES ASSUME NEW p \in Words!Pages, cloud.pages[p].drawn > 1, ~cloud.overlapped, p \notin cloud.late
               PROVE  FALSE
    BY DEF Words!OneCloud
  <2>1. CloudShown(p) /\ cloud.pages[p].drawn \in Nat
    BY <1>1 DEF CloudPagesInv, CloudTyped, CloudPage
  <2> QED
    BY <2>1 DEF CloudShown
<1> QED
  BY <1>2, <1>3, <1>4, <1>5, <1>6

(***************************************************************************)
(* The counts that all learners share are of what each of them gave, and   *)
(* their pages show it, after any steps of a poll and of a word cloud.     *)
(***************************************************************************)
THEOREM CountsAlwaysOfTheLearners == Spec => []CountsAreOfTheLearners
<1> DEFINE Inv == PollInv /\ PollPagesInv /\ PollCountsInv /\ CloudSound
<1>1. Init => Inv
  BY PollInductive, PollStarts, CloudStarts DEF Init
<1>2. Inv /\ [Next]_vars => Inv'
  <2> SUFFICES ASSUME Inv, [Next]_vars
               PROVE  Inv'
    OBVIOUS
  <2>1. [Votes!Next]_poll /\ [Words!Next]_cloud
    BY DEF Next, vars
  <2>2. PollInv' /\ PollPagesInv' /\ PollCountsInv'
    BY <2>1, PollInductive, PollKeeps
  <2>3. CloudSound'
    BY <2>1, CloudKeeps
  <2> QED
    BY <2>2, <2>3
<1>3. Inv => CountsAreOfTheLearners
  BY PollIsSound, CloudIsSound DEF CountsAreOfTheLearners
<1> QED
  BY <1>1, <1>2, <1>3, PTL DEF Spec
--------------------------------------------------------------------------------
\* A request of a button, and the state of the buttons.
Request ==
    [nr : Nat, of : Actions!Contents, kind : Actions!Kinds, on : BOOLEAN,
     undo : SUBSET Actions!Contents, live : BOOLEAN, status : {"sent", "served"}, crossed : BOOLEAN]
ActState ==
    [shown : [Actions!Kinds -> SUBSET Actions!Contents],
     held : [Actions!Kinds -> SUBSET Actions!Contents],
     pressed : SUBSET Actions!Contents, up_count : [Actions!Contents -> Int], endorsed : BOOLEAN,
     requests : SUBSET Request, sent : Nat, used : SUBSET Actions!Kinds, reopened : BOOLEAN,
     spoiled : SUBSET (Actions!Contents \X Actions!Kinds), failed : SUBSET Actions!Kinds,
     lost : SUBSET (Actions!Contents \X Actions!Kinds)]

\* What the service has not seen yet of a button, and the votes it counted but has not answered.
Waiting(R, c, k) ==
    {[nr |-> q.nr, on |-> q.on] : q \in {r \in R : r.of = c /\ r.kind = k /\ r.status = "sent"}}
Vote(q) == IF q.on THEN 1 ELSE -1
Counted(R, c, vote) ==
    {q.nr : q \in {r \in R : r.of = c /\ r.kind = "upvoted_ids" /\ r.status = "served" /\ Vote(r) = vote}}
Reliable(a, c, k) == <<c, k>> \notin a.spoiled \cup a.lost

(***************************************************************************)
(* The requests that wait lead from what the service keeps to what the     *)
(* page shows, each turning the one before it around.                      *)
(***************************************************************************)
Story(W, shown, held) ==
    /\ \A q, r \in W : q.nr = r.nr => q = r
    /\ W = {} => shown = held
    /\ \A q \in W : (\A r \in W : r.nr <= q.nr) => q.on = shown
    /\ \A q \in W : (\A r \in W : q.nr <= r.nr) => q.on # held
    /\ \A q, r \in W :
          q.nr < r.nr /\ (\A s \in W : s.nr <= q.nr \/ r.nr <= s.nr) => q.on # r.on
Stories(a) ==
    \A c \in Actions!Contents : \A k \in Actions!KindsOf(c) :
        Reliable(a, c, k) => Story(Waiting(a.requests, c, k), c \in a.shown[k], c \in a.held[k])

\* The buttons a request is about: a vote is undone with the whole list of votes.
Together(q, r) == q.kind = r.kind /\ (q.of = r.of \/ q.kind = "upvoted_ids")
Numbered(a) ==
    /\ \A q \in a.requests : q.nr < a.sent /\ q.kind \in Actions!KindsOf(q.of)
    /\ \A q, r \in a.requests : q.nr = r.nr => q = r
Crossings(a) == \A q, r \in a.requests : q # r /\ Together(q, r) => q.crossed
\* What a request on its own would take back to is what the service keeps.
Undoes(a) ==
    \A q \in a.requests : q.status = "sent" /\ ~q.crossed =>
        \A c \in Actions!Contents :
            (c = q.of \/ q.kind = "upvoted_ids") /\ Reliable(a, c, q.kind)
                => (c \in q.undo) = (c \in a.held[q.kind])
\* The post's buttons are disabled until they are answered, if it is not drawn anew.
OneEach(a) ==
    ~a.reopened => \A q \in a.requests : q.of = Thread =>
        q.live /\ \A r \in a.requests : r.of = Thread /\ r.kind = q.kind => r = q
VotesAdd(a) ==
    \A c \in Actions!Contents : Reliable(a, c, "upvoted_ids") =>
        a.up_count[c] + Cardinality(Counted(a.requests, c, 1))
                      - Cardinality(Counted(a.requests, c, -1))
            = IF c \in a.held["upvoted_ids"] THEN 1 ELSE 0
PressedTells(a) ==
    "upvoted_ids" \notin a.failed => \A c \in Actions!Contents :
        (\A q \in a.requests : ~(q.of = c /\ q.kind = "upvoted_ids"))
            => (c \in a.pressed) = (c \in a.shown["upvoted_ids"])
AnsweredTells(a) == "endorsed" \notin a.failed => a.endorsed = (a.shown["endorsed"] # {})
ActInv(a) ==
    /\ a \in ActState /\ Numbered(a) /\ Crossings(a) /\ Undoes(a) /\ OneEach(a)
    /\ Stories(a) /\ VotesAdd(a) /\ PressedTells(a) /\ AnsweredTells(a)
--------------------------------------------------------------------------------
\* A click turns around what the page shows.
LEMMA StorySends ==
    ASSUME NEW W, NEW shown \in BOOLEAN, NEW held \in BOOLEAN, Story(W, shown, held),
           NEW n \in Nat, \A q \in W : q.nr \in Nat /\ q.nr < n /\ q.on \in BOOLEAN
    PROVE  Story(W \cup {[nr |-> n, on |-> ~shown]}, ~shown, held)
<1> DEFINE x == [nr |-> n, on |-> ~shown]
           V == W \cup {x}
<1>1. x.nr = n /\ x.on = ~shown
  OBVIOUS
<1> HIDE DEF x
<1>2. \A q, r \in V : q.nr = r.nr => q = r
  BY <1>1 DEF Story
<1>3. V # {}
  OBVIOUS
<1>4. \A q \in V : (\A r \in V : r.nr <= q.nr) => q.on = ~shown
  BY <1>1
<1>5. ASSUME NEW q \in V, \A r \in V : q.nr <= r.nr
      PROVE  q.on # held
  <2>1. CASE W = {}
    BY <1>1, <1>5, <2>1 DEF Story
  <2>2. CASE W # {}
    BY <1>1, <1>5, <2>2 DEF Story
  <2> QED
    BY <2>1, <2>2
<1>6. ASSUME NEW q \in V, NEW r \in V, q.nr < r.nr, \A s \in V : s.nr <= q.nr \/ r.nr <= s.nr
      PROVE  q.on # r.on
  <2>1. q \in W
    BY <1>1, <1>6
  <2>2. CASE r \in W
    BY <1>6, <2>1, <2>2 DEF Story
  <2>3. CASE r = x
    <3>1. \A s \in W : s.nr <= q.nr
      BY <1>1, <1>6, <2>3
    <3>2. q.on = shown
      BY <2>1, <3>1 DEF Story
    <3> QED
      BY <1>1, <2>3, <3>2
  <2> QED
    BY <2>2, <2>3
<1> QED
  BY <1>2, <1>3, <1>4, <1>5, <1>6 DEF Story, x

\* The service keeps what the oldest request says, and the others go on from there.
LEMMA StoryServes ==
    ASSUME NEW W, NEW shown \in BOOLEAN, NEW held \in BOOLEAN, Story(W, shown, held),
           \A q \in W : q.nr \in Nat /\ q.on \in BOOLEAN,
           NEW x \in W, \A q \in W : x.nr <= q.nr
    PROVE  Story(W \ {x}, shown, x.on) /\ x.on # held
<1> DEFINE V == W \ {x}
<1>1. \A q, r \in V : q.nr = r.nr => q = r
  BY DEF Story
<1>2. V = {} => shown = x.on
  <2>1. V = {} => \A r \in W : r.nr <= x.nr
    OBVIOUS
  <2>2. \A q \in W : (\A r \in W : r.nr <= q.nr) => q.on = shown
    BY DEF Story
  <2>3. (\A r \in W : r.nr <= x.nr) => x.on = shown
    BY <2>2
  <2> QED
    BY <2>1, <2>3
<1>3. \A q \in V : x.nr < q.nr
  <2>1. \A q \in W : q.nr = x.nr => q = x
    BY DEF Story
  <2> QED
    BY <2>1
<1>4. ASSUME NEW q \in V, \A r \in V : r.nr <= q.nr
      PROVE  q.on = shown
  <2>1. \A r \in W : r.nr <= q.nr
    BY <1>3, <1>4
  <2> QED
    BY <2>1 DEF Story
<1>5. ASSUME NEW q \in V, \A r \in V : q.nr <= r.nr
      PROVE  q.on # x.on
  <2>1. \A s \in W : s.nr <= x.nr \/ q.nr <= s.nr
    BY <1>5
  <2> QED
    BY <1>3, <2>1 DEF Story
<1>6. ASSUME NEW q \in V, NEW r \in V, q.nr < r.nr, \A s \in V : s.nr <= q.nr \/ r.nr <= s.nr
      PROVE  q.on # r.on
  <2>1. \A s \in W : s.nr <= q.nr \/ r.nr <= s.nr
    BY <1>3, <1>6
  <2> QED
    BY <1>6, <2>1 DEF Story
<1>7. x.on # held
  BY DEF Story
<1> QED
  BY <1>1, <1>2, <1>4, <1>5, <1>6, <1>7 DEF Story
--------------------------------------------------------------------------------
(***************************************************************************)
(* Requests that were redrawn: a button that was drawn anew is enabled,    *)
(* and a request may now cross another; the rest is as it was.  keeps: the *)
(* buttons of the post are not drawn.                                      *)
(***************************************************************************)
Redraws(f, R, C) ==
    /\ f \in [R -> Request]
    /\ \A q \in R :
        /\ f[q].nr = q.nr /\ f[q].of = q.of /\ f[q].kind = q.kind /\ f[q].on = q.on
        /\ f[q].undo = q.undo /\ f[q].status = q.status /\ (q.crossed => f[q].crossed)
        /\ q.of \notin C => f[q].live = q.live
Redrawn(R, S, C) == \E f : Redraws(f, R, C) /\ S = {f[q] : q \in R}

\* Nothing was redrawn.
LEMMA RedrawnSame ==
    ASSUME NEW R \in SUBSET Request, NEW C
    PROVE  Redrawn(R, R, C)
<1> DEFINE f == [q \in R |-> q]
<1>1. f \in [R -> Request] /\ \A q \in R : f[q] = q
  OBVIOUS
<1> HIDE DEF f
<1>2. R = {f[q] : q \in R}
  BY <1>1
<1>3. Redraws(f, R, C)
  BY <1>1 DEF Redraws
<1> QED
  BY <1>2, <1>3 DEF Redrawn

\* The buttons of one content are drawn anew.
LEMMA RedrawnLive ==
    ASSUME NEW R \in SUBSET Request, NEW C, NEW c \in C
    PROVE  LET S == {IF q.of = c THEN [q EXCEPT !.live = FALSE] ELSE q : q \in R}
           IN  Redrawn(R, S, C)
<1> DEFINE g(q) == IF q.of = c THEN [q EXCEPT !.live = FALSE] ELSE q
           f == [q \in R |-> g(q)]
           S == {g(q) : q \in R}
<1>1. \A q \in R :
        /\ g(q) \in Request
        /\ g(q).nr = q.nr /\ g(q).of = q.of /\ g(q).kind = q.kind /\ g(q).on = q.on
        /\ g(q).undo = q.undo /\ g(q).status = q.status /\ g(q).crossed = q.crossed
        /\ q.of # c => g(q).live = q.live
  BY DEF Request
<1> HIDE DEF g
<1>2. f \in [R -> Request] /\ \A q \in R : f[q] = g(q)
  BY <1>1
<1> HIDE DEF f
<1>3. S = {f[q] : q \in R}
  BY <1>2
<1>4. Redraws(f, R, C)
  BY <1>1, <1>2 DEF Redraws
<1>5. Redrawn(R, S, C)
  BY <1>3, <1>4 DEF Redrawn
<1> QED
  BY <1>5 DEF g

\* Some requests cross a new one.
LEMMA RedrawnCrossed ==
    ASSUME NEW R \in SUBSET Request, NEW P \in SUBSET R, NEW C
    PROVE  Redrawn(R, (R \ P) \cup {[q EXCEPT !.crossed = TRUE] : q \in P}, C)
<1> DEFINE g(q) == IF q \in P THEN [q EXCEPT !.crossed = TRUE] ELSE q
           f == [q \in R |-> g(q)]
           S == (R \ P) \cup {[q EXCEPT !.crossed = TRUE] : q \in P}
<1>1. \A q \in R :
        /\ g(q) \in Request
        /\ g(q).nr = q.nr /\ g(q).of = q.of /\ g(q).kind = q.kind /\ g(q).on = q.on
        /\ g(q).undo = q.undo /\ g(q).status = q.status /\ (q.crossed => g(q).crossed)
        /\ g(q).live = q.live
  BY DEF Request
<1>2. S = {g(q) : q \in R}
  OBVIOUS
<1> HIDE DEF g, S
<1>3. f \in [R -> Request] /\ \A q \in R : f[q] = g(q)
  BY <1>1
<1> HIDE DEF f
<1>4. S = {f[q] : q \in R}
  BY <1>2, <1>3
<1>5. Redraws(f, R, C)
  BY <1>1, <1>3 DEF Redraws
<1>6. Redrawn(R, S, C)
  BY <1>4, <1>5 DEF Redrawn
<1> QED
  BY <1>6 DEF S

\* Redrawn again is redrawn.
LEMMA RedrawnTwice ==
    ASSUME NEW R, NEW S, NEW T, NEW C, Redrawn(R, S, C), Redrawn(S, T, C)
    PROVE  Redrawn(R, T, C)
<1>1. PICK f : Redraws(f, R, C) /\ S = {f[q] : q \in R}
  BY DEF Redrawn
<1>2. PICK g : Redraws(g, S, C) /\ T = {g[q] : q \in S}
  BY DEF Redrawn
<1> DEFINE h == [q \in R |-> g[f[q]]]
<1>3. \A q \in R : f[q] \in S
  BY <1>1
<1>4. h \in [R -> Request] /\ \A q \in R : h[q] = g[f[q]]
  BY <1>2, <1>3 DEF Redraws
<1> HIDE DEF h
<1>5. T = {h[q] : q \in R}
  BY <1>1, <1>2, <1>4
<1>6. Redraws(h, R, C)
  BY <1>1, <1>2, <1>3, <1>4 DEF Redraws
<1> QED
  BY <1>5, <1>6 DEF Redrawn

\* What redrawing leaves of the requests.
LEMMA RedrawnCounts ==
    ASSUME NEW R, NEW S, NEW C, Redrawn(R, S, C)
    PROVE  /\ S \subseteq Request
           /\ \A c, k : Waiting(S, c, k) = Waiting(R, c, k)
           /\ \A c, vote : Counted(S, c, vote) = Counted(R, c, vote)
<1>1. PICK f : Redraws(f, R, C) /\ S = {f[q] : q \in R}
  BY DEF Redrawn
<1>2. S \subseteq Request
  BY <1>1 DEF Redraws
<1>3. \A s \in S : \E q \in R : s = f[q]
  BY <1>1
<1>4. \A q \in R : f[q] \in S
  BY <1>1
<1>5. ASSUME NEW c, NEW k
      PROVE  Waiting(S, c, k) = Waiting(R, c, k)
  BY <1>1, <1>3, <1>4 DEF Redraws, Waiting
<1>6. ASSUME NEW c, NEW vote
      PROVE  Counted(S, c, vote) = Counted(R, c, vote)
  BY <1>1, <1>3, <1>4 DEF Redraws, Counted, Vote
<1> QED
  BY <1>2, <1>5, <1>6

\* One request, before and after.
Redraw(q, s, C) ==
    /\ s.nr = q.nr /\ s.of = q.of /\ s.kind = q.kind /\ s.on = q.on
    /\ s.undo = q.undo /\ s.status = q.status /\ (q.crossed => s.crossed)
    /\ q.of \notin C => s.live = q.live
\* Every request is one that was redrawn, and the other way round.
LEMMA RedrawnMatches ==
    ASSUME NEW R, NEW S, NEW C, Redrawn(R, S, C)
    PROVE  /\ \A s \in S : \E q \in R : Redraw(q, s, C)
           /\ \A q \in R : \E s \in S : Redraw(q, s, C)
<1>1. PICK f : Redraws(f, R, C) /\ S = {f[q] : q \in R}
  BY DEF Redrawn
<1>2. \A q \in R : Redraw(q, f[q], C)
  BY <1>1 DEF Redraws, Redraw
<1> QED
  BY <1>1, <1>2
\* Redrawn requests keep their numbers apart.
LEMMA RedrawnOnce ==
    ASSUME NEW R, NEW S, NEW C, Redrawn(R, S, C), \A q, r \in R : q.nr = r.nr => q = r
    PROVE  \A q, r \in S : q.nr = r.nr => q = r
<1>1. PICK f : Redraws(f, R, C) /\ S = {f[q] : q \in R}
  BY DEF Redrawn
<1>2. \A q \in R : f[q].nr = q.nr
  BY <1>1 DEF Redraws
<1> QED
  BY <1>1, <1>2
--------------------------------------------------------------------------------
\* What a button or the drawing of a content leaves alone.
Rest(a, b) ==
    /\ b.held = a.held /\ b.up_count = a.up_count /\ b.sent = a.sent /\ b.used = a.used
    /\ b.reopened = a.reopened /\ b.spoiled = a.spoiled /\ b.failed = a.failed /\ b.lost = a.lost
\* What the page says of one kind of button is new.
Shows(a, b, k, on) ==
    b.shown[k] = on /\ \A j \in Actions!Kinds \ {k} : b.shown[j] = a.shown[j]
\* Whose votes are shown as pressed follows the list of votes, where it is drawn.
Drawn(a, b, c) == b.pressed = (a.pressed \ {c}) \cup (a.shown["upvoted_ids"] \cap {c})

\* A button that was clicked draws its response, but for a vote, and only an answer's tells the post.
Presses(a, b, c, k) == b.pressed = a.pressed \/ (k # "upvoted_ids" /\ Drawn(a, b, c))
Tells(a, b, k) == k # "endorsed" => b.endorsed = a.endorsed

\* To draw a content changes only what its buttons look like.
LEMMA Renders ==
    ASSUME NEW a \in ActState, NEW c \in Actions!Contents, NEW C, c \in C,
           NEW b, b = Actions!render(a, c)
    PROVE  /\ b \in ActState /\ Rest(a, b) /\ b.shown = a.shown /\ b.endorsed = a.endorsed
           /\ Redrawn(a.requests, b.requests, C) /\ Drawn(a, b, c)
<1> DEFINE pressed == (a.pressed \ {c}) \cup (a.shown["upvoted_ids"] \cap {c})
           S == {IF q.of = c THEN [q EXCEPT !.live = FALSE] ELSE q : q \in a.requests}
<1>1. b = [a EXCEPT !.pressed = pressed, !.requests = S]
  BY DEF Actions!render, Actions!drawVote, ActState
<1>2. a.requests \in SUBSET Request
  BY DEF ActState
<1>3. Redrawn(a.requests, S, C)
  BY <1>2, RedrawnLive
<1>4. S \in SUBSET Request
  BY <1>3, RedrawnCounts
<1>5. pressed \in SUBSET Actions!Contents
  BY DEF ActState
<1> HIDE DEF pressed, S
<1>6. b \in ActState
  BY <1>1, <1>4, <1>5 DEF ActState
<1>7. b.pressed = pressed /\ b.requests = S /\ Rest(a, b) /\ b.shown = a.shown /\ b.endorsed = a.endorsed
  BY <1>1 DEF ActState, Rest
<1> QED
  BY <1>3, <1>6, <1>7 DEF Drawn, pressed

\* To set one kind of button changes what the page says of it.
LEMMA Changes ==
    ASSUME NEW a \in ActState, NEW c \in Actions!Contents, NEW k \in Actions!Kinds,
           NEW on \in SUBSET Actions!Contents, NEW b, b = Actions!change(a, c, k, on)
    PROVE  /\ b \in ActState /\ Rest(a, b) /\ Shows(a, b, k, on)
           /\ Redrawn(a.requests, b.requests, Responses)
           /\ Presses(a, b, c, k)
           /\ Tells(a, b, k)
<1> DEFINE now == [a EXCEPT !.shown[k] = on]
           told == IF k = "endorsed" THEN Actions!endorseThread(now, a.shown[k]) ELSE now
<1>1. /\ now \in ActState /\ Shows(a, now, k, on) /\ Rest(a, now)
      /\ now.requests = a.requests /\ now.pressed = a.pressed /\ now.endorsed = a.endorsed
  BY DEF ActState, Rest, Shows
<1>2. b = IF a.shown[k] = on \/ k = "upvoted_ids" \/ c = Thread THEN now ELSE Actions!render(told, c)
  BY DEF Actions!change
<1> HIDE DEF now
<1>3. /\ told \in ActState /\ told.shown = now.shown /\ Rest(now, told)
      /\ told.requests = now.requests /\ told.pressed = now.pressed
      /\ k # "endorsed" => told.endorsed = now.endorsed
  <2>1. CASE k = "endorsed"
    <3>1. told = [now EXCEPT !.endorsed = a.shown[k] # {}]
      BY <2>1 DEF Actions!endorseThread
    <3> QED
      BY <1>1, <2>1, <3>1 DEF ActState, Rest
  <2>2. CASE k # "endorsed"
    BY <1>1, <2>2 DEF Rest
  <2> QED
    BY <2>1, <2>2
<1> HIDE DEF told
<1>4. CASE a.shown[k] = on \/ k = "upvoted_ids" \/ c = Thread
  <2>1. b = now
    BY <1>2, <1>4
  <2>2. Redrawn(a.requests, a.requests, Responses)
    BY RedrawnSame DEF ActState
  <2> QED
    BY <1>1, <2>1, <2>2 DEF Presses, Tells
<1>5. CASE ~(a.shown[k] = on \/ k = "upvoted_ids" \/ c = Thread)
  <2>1. b = Actions!render(told, c)
    BY <1>2, <1>5
  <2>2. /\ b \in ActState /\ Rest(told, b) /\ b.shown = told.shown /\ b.endorsed = told.endorsed
        /\ Redrawn(told.requests, b.requests, Responses) /\ Drawn(told, b, c)
    BY <1>3, <1>5, <2>1, Renders DEF Actions!Contents
  <2>3. told.shown["upvoted_ids"] = a.shown["upvoted_ids"]
    BY <1>1, <1>3, <1>5 DEF Shows, Actions!Kinds
  <2>4. k # "upvoted_ids" /\ Drawn(a, b, c)
    BY <1>1, <1>3, <1>5, <2>2, <2>3 DEF Drawn
  <2>5. Rest(a, b)
    BY <1>1, <1>3, <2>2 DEF Rest
  <2>6. Redrawn(a.requests, b.requests, Responses) /\ Shows(a, b, k, on)
    BY <1>1, <1>3, <2>2 DEF Shows
  <2>7. k # "endorsed" => b.endorsed = a.endorsed
    BY <1>1, <1>3, <2>2
  <2> QED
    BY <2>2, <2>4, <2>5, <2>6, <2>7 DEF Presses, Tells
<1> QED
  BY <1>4, <1>5
--------------------------------------------------------------------------------
\* A click is about its own content.
LEMMA FlippedIs ==
    ASSUME NEW a \in ActState, NEW c \in Actions!Contents, NEW k \in Actions!Kinds
    PROVE  /\ Actions!Flipped(a, c, k) \in SUBSET Actions!Contents
           /\ (c \in Actions!Flipped(a, c, k)) = (c \notin a.shown[k])
           /\ \A d \in Actions!Contents \ {c} : (d \in Actions!Flipped(a, c, k)) = (d \in a.shown[k])
<1>1. a.shown[k] \in SUBSET Actions!Contents
  BY DEF ActState
<1> QED
  BY <1>1 DEF Actions!Flipped

\* A request joins those there are, and crosses the ones it belongs together with.
Joins(a, b, c, k, x) ==
    /\ x \in Request /\ x.nr = a.sent /\ x.of = c /\ x.kind = k /\ x.status = "sent"
    /\ x.on = (c \notin a.shown[k]) /\ x.undo = a.shown[k] /\ (c = Thread => x.live)
    /\ \E S : /\ Redrawn(a.requests, S, Responses) /\ b.requests = S \cup {x}
              /\ \A s \in S : Together(s, x) => s.crossed /\ x.crossed

\* A click turns its button around, and its request joins the others.
LEMMA Sends ==
    ASSUME NEW a \in ActState, NEW c \in Actions!Contents, NEW k \in Actions!Kinds
    PROVE  LET b == Actions!updateWithUndo(a, c, k, Actions!Flipped(a, c, k))
           IN  /\ b \in ActState /\ Shows(a, b, k, Actions!Flipped(a, c, k))
               /\ b.held = a.held /\ b.up_count = a.up_count /\ b.sent = a.sent + 1
               /\ b.reopened = a.reopened /\ b.spoiled = a.spoiled /\ b.failed = a.failed
               /\ b.lost = a.lost
               /\ Presses(a, b, c, k)
               /\ Tells(a, b, k)
               /\ \E x : Joins(a, b, c, k, x)
<1> DEFINE on == Actions!Flipped(a, c, k)
           now == Actions!change(a, c, k, on)
           P == Actions!Pending(now, c, k)
           crossing == {[q EXCEPT !.crossed = TRUE] : q \in P}
           x == [nr |-> a.sent, of |-> c, kind |-> k, on |-> c \in on,
                 undo |-> a.shown[k], live |-> k = "upvoted_ids" \/ c = Thread,
                 status |-> "sent", crossed |-> crossing # {}]
           S == (now.requests \ P) \cup crossing
           b == Actions!updateWithUndo(a, c, k, on)
<1>1. b = [now EXCEPT !.requests = S \cup {x}, !.sent = @ + 1, !.used = @ \cup {k}]
  BY DEF Actions!updateWithUndo
<1> HIDE DEF b
<1>2. on \in SUBSET Actions!Contents /\ (c \in on) = (c \notin a.shown[k])
  BY FlippedIs
<1> HIDE DEF on
<1>3. /\ now \in ActState /\ Rest(a, now) /\ Shows(a, now, k, on)
      /\ Redrawn(a.requests, now.requests, Responses)
      /\ Presses(a, now, c, k)
      /\ Tells(a, now, k)
  <2>1. now = Actions!change(a, c, k, on)
    OBVIOUS
  <2> HIDE DEF now
  <2> HIDE DEF P, crossing, x, S
  <2>2. on \in SUBSET Actions!Contents
    BY <1>2
  <2>3. now \in ActState
    BY <2>2, <2>1, Changes
  <2>4. Rest(a, now)
    BY <2>2, <2>1, Changes
  <2>5. Shows(a, now, k, on)
    BY <2>2, <2>1, Changes
  <2>6. Redrawn(a.requests, now.requests, Responses)
    BY <2>2, <2>1, Changes
  <2>7. Tells(a, now, k)
    BY <2>2, <2>1, Changes
  <2>8. Presses(a, now, c, k)
    BY <2>2, <2>1, Changes
  <2> QED
    BY <2>3, <2>4, <2>5, <2>6, <2>7, <2>8
<1> HIDE DEF now
<1>4. P \subseteq now.requests /\ now.requests \subseteq Request
  BY <1>3 DEF Actions!Pending, ActState
<1>5. Redrawn(now.requests, S, Responses)
  <2> HIDE DEF P
  <2> QED
    BY <1>4, RedrawnCrossed
<1>6. Redrawn(a.requests, S, Responses) /\ S \subseteq Request
  <2> HIDE DEF S
  <2>1. Redrawn(a.requests, S, Responses)
    BY <1>3, <1>5, RedrawnTwice
  <2> QED
    BY <1>5, <2>1, RedrawnCounts
<1>7. \A s \in S : Together(s, x) => s.crossed /\ x.crossed
  <2>1. ASSUME NEW s \in S, Together(s, x)
        PROVE  s \in crossing
    BY <2>1 DEF Together, Actions!Pending
  <2>2. \A s \in crossing : s.crossed
    BY <1>4 DEF Request
  <2> QED
    BY <2>1, <2>2
<1>8. x \in Request
  <2>1. a.sent \in Nat /\ a.shown[k] \in SUBSET Actions!Contents
    BY DEF ActState
  <2> HIDE DEF crossing
  <2> QED
    BY <2>1 DEF Request
<1>9. /\ x.nr = a.sent /\ x.of = c /\ x.kind = k /\ x.status = "sent"
      /\ x.on = (c \notin a.shown[k]) /\ x.undo = a.shown[k] /\ (c = Thread => x.live)
  <2> HIDE DEF crossing
  <2> QED
    BY <1>2
<1> HIDE DEF x, S, P, crossing
<1>10. /\ b.shown = now.shown /\ b.held = now.held /\ b.up_count = now.up_count
       /\ b.sent = a.sent + 1 /\ b.reopened = now.reopened /\ b.spoiled = now.spoiled
       /\ b.failed = now.failed /\ b.lost = now.lost /\ b.pressed = now.pressed
       /\ b.endorsed = now.endorsed /\ b.requests = S \cup {x}
  BY <1>1, <1>3 DEF ActState, Rest
<1>11. b \in ActState
  <2>1. now.sent + 1 \in Nat /\ now.used \cup {k} \in SUBSET Actions!Kinds
    BY <1>3 DEF ActState
  <2>2. S \cup {x} \in SUBSET Request
    BY <1>6, <1>8
  <2> QED
    BY <1>1, <1>3, <2>1, <2>2 DEF ActState
<1>12. Joins(a, b, c, k, x)
  BY <1>6, <1>7, <1>8, <1>9, <1>10 DEF Joins
<1>13. /\ Shows(a, b, k, on) /\ b.held = a.held /\ b.up_count = a.up_count
       /\ b.reopened = a.reopened /\ b.spoiled = a.spoiled /\ b.failed = a.failed /\ b.lost = a.lost
       /\ Presses(a, b, c, k)
       /\ Tells(a, b, k)
  BY <1>3, <1>10 DEF Rest, Drawn, Shows, Presses, Tells
<1> QED
  BY <1>10, <1>11, <1>12, <1>13 DEF b, on
--------------------------------------------------------------------------------
\* All but what the post is told of its answers.
ActCore(a) ==
    /\ a \in ActState /\ Numbered(a) /\ Crossings(a) /\ Undoes(a) /\ OneEach(a)
    /\ Stories(a) /\ VotesAdd(a) /\ PressedTells(a)

\* Every button is of a kind.
LEMMA KindsAre ==
    /\ \A c \in Actions!Contents : Actions!KindsOf(c) \subseteq Actions!Kinds
    /\ \A c \in Actions!Contents : "upvoted_ids" \in Actions!KindsOf(c)
    /\ "endorsed" \in Actions!Kinds /\ "upvoted_ids" \in Actions!Kinds
BY DEF Actions!KindsOf, Actions!Kinds, Actions!ThreadKinds

\* What waits and what was counted when a request was sent.
LEMMA WaitingJoined ==
    ASSUME NEW S, NEW x, x.status = "sent"
    PROVE  Waiting(S \cup {x}, x.of, x.kind)
              = Waiting(S, x.of, x.kind) \cup {[nr |-> x.nr, on |-> x.on]}
BY DEF Waiting
\* ... for the button it is of, and for the others.
LEMMA WaitingElsewhere ==
    ASSUME NEW S, NEW x, NEW c, NEW k, ~(x.of = c /\ x.kind = k)
    PROVE  Waiting(S \cup {x}, c, k) = Waiting(S, c, k)
BY DEF Waiting
\* ... and it is not counted yet.
LEMMA CountedJoined ==
    ASSUME NEW S, NEW x, x.status = "sent", NEW c, NEW vote
    PROVE  Counted(S \cup {x}, c, vote) = Counted(S, c, vote)
BY DEF Counted

\* A click keeps the invariant, but for what the post is told of an answer.
LEMMA SendKeeps ==
    ASSUME NEW a, ActCore(a), NEW c \in Actions!Contents, NEW k \in Actions!KindsOf(c),
           Actions!Enabled(a, c, k),
           NEW b, b = Actions!updateWithUndo(a, c, k, Actions!Flipped(a, c, k))
    PROVE  ActCore(b) /\ (k # "endorsed" /\ AnsweredTells(a) => AnsweredTells(b))
<1> DEFINE R == a.requests
<1>1. a \in ActState /\ k \in Actions!Kinds
  BY KindsAre DEF ActCore
<1>2. /\ b \in ActState /\ Shows(a, b, k, Actions!Flipped(a, c, k))
      /\ b.held = a.held /\ b.up_count = a.up_count /\ b.sent = a.sent + 1
      /\ b.reopened = a.reopened /\ b.spoiled = a.spoiled /\ b.failed = a.failed
      /\ b.lost = a.lost /\ Presses(a, b, c, k) /\ Tells(a, b, k)
  BY <1>1, Sends
<1>3. PICK x : Joins(a, b, c, k, x)
  BY <1>1, Sends
<1>4. PICK S : /\ Redrawn(R, S, Responses) /\ b.requests = S \cup {x}
               /\ \A s \in S : Together(s, x) => s.crossed /\ x.crossed
  BY <1>3 DEF Joins
<1>5. /\ x \in Request /\ x.nr = a.sent /\ x.of = c /\ x.kind = k /\ x.status = "sent"
      /\ x.on = (c \notin a.shown[k]) /\ x.undo = a.shown[k] /\ (c = Thread => x.live)
  BY <1>3 DEF Joins
<1>0. Thread \notin Responses
  BY Bounds
<1>6. \A s \in S : \E q \in R : Redraw(q, s, Responses)
  BY <1>4, RedrawnMatches
<1>7. \A q \in R : \E s \in S : s.of = q.of /\ s.kind = q.kind
  BY <1>4, RedrawnMatches DEF Redraw
<1>8. \A q, r \in S : q.nr = r.nr => q = r
  <2>1. \A q, r \in R : q.nr = r.nr => q = r
    BY DEF ActCore, Numbered
  <2> QED
    BY <1>4, <2>1, RedrawnOnce
<1>9. /\ \A d, j : Waiting(S, d, j) = Waiting(R, d, j)
      /\ \A d, vote : Counted(S, d, vote) = Counted(R, d, vote)
  BY <1>4, RedrawnCounts
<1>10. /\ a.sent \in Nat /\ \A s \in S : s.nr \in Nat /\ s.nr < a.sent
  <2>1. \A q \in R : q.nr \in Nat /\ q.nr < a.sent
    BY <1>1 DEF ActCore, Numbered, ActState, Request
  <2> QED
    BY <1>1, <1>6, <2>1 DEF ActState, Redraw
<1>11. Numbered(b)
  <2>1. \A q \in b.requests : q.nr < b.sent
    BY <1>2, <1>4, <1>5, <1>10
  <2>2. \A q \in b.requests : q.kind \in Actions!KindsOf(q.of)
    BY <1>4, <1>5, <1>6 DEF ActCore, Numbered, Redraw
  <2>3. \A q, r \in b.requests : q.nr = r.nr => q = r
    BY <1>4, <1>5, <1>8, <1>10
  <2> QED
    BY <2>1, <2>2, <2>3 DEF Numbered
<1>12. Crossings(b)
  <2>1. ASSUME NEW q \in S, NEW r \in S, q # r, Together(q, r)
        PROVE  q.crossed
    <3>1. PICK q0 \in R : q.nr = q0.nr /\ q.of = q0.of /\ q.kind = q0.kind /\ (q0.crossed => q.crossed)
      BY <1>6 DEF Redraw
    <3>2. PICK r0 \in R : r.nr = r0.nr /\ r.of = r0.of /\ r.kind = r0.kind
      BY <1>6 DEF Redraw
    <3>3. q0 # r0 /\ Together(q0, r0)
      BY <1>8, <2>1, <3>1, <3>2 DEF Together
    <3> QED
      BY <3>1, <3>3 DEF ActCore, Crossings
  <2>2. \A s \in S : Together(x, s) => x.crossed
    BY <1>4 DEF Together
  <2> QED
    BY <1>4, <2>1, <2>2 DEF Crossings
<1>13. Undoes(b)
  <2>1. ASSUME NEW q \in S, q.status = "sent", ~q.crossed, NEW d \in Actions!Contents,
               d = q.of \/ q.kind = "upvoted_ids", Reliable(b, d, q.kind)
        PROVE  (d \in q.undo) = (d \in b.held[q.kind])
    <3>1. PICK p \in R : /\ q.of = p.of /\ q.kind = p.kind /\ q.undo = p.undo
                         /\ q.status = p.status /\ ~p.crossed
      BY <1>0, <1>6, <2>1 DEF Redraw
    <3> QED
      BY <1>2, <2>1, <3>1 DEF ActCore, Undoes, Reliable
  <2>2. ASSUME ~x.crossed, NEW d \in Actions!Contents,
               d = c \/ k = "upvoted_ids", Reliable(b, d, k)
        PROVE  (d \in a.shown[k]) = (d \in a.held[k])
    <3>1. \A q \in R : ~(q.of = d /\ q.kind = k)
      BY <1>4, <1>5, <1>7, <2>2 DEF Together
    <3>2. Waiting(R, d, k) = {}
      BY <3>1 DEF Waiting
    <3>3. k \in Actions!KindsOf(d) /\ Reliable(a, d, k)
      BY <1>2, <2>2, KindsAre DEF Reliable
    <3> QED
      BY <3>2, <3>3 DEF ActCore, Stories, Story
  <2> QED
    BY <1>2, <1>4, <1>5, <2>1, <2>2 DEF Undoes
<1>14. OneEach(b)
  <2> SUFFICES ASSUME ~b.reopened, NEW q \in b.requests, q.of = Thread
               PROVE  q.live /\ \A r \in b.requests : r.of = Thread /\ r.kind = q.kind => r = q
    BY DEF OneEach
  <2>1. \A p \in R : p.of = Thread =>
            p.live /\ \A r \in R : r.of = Thread /\ r.kind = p.kind => r = p
    BY <1>2 DEF ActCore, OneEach
  <2>2. \A s \in S : s.of = Thread => s.live
    BY <1>0, <1>6, <2>1 DEF Redraw
  <2>3. \A s, r \in S : s.of = Thread /\ r.of = Thread /\ r.kind = s.kind => r = s
    BY <1>6, <1>8, <2>1 DEF Redraw
  <2>4. c = Thread => \A s \in S : ~(s.of = Thread /\ s.kind = k)
    BY <1>0, <1>6, <2>1 DEF Actions!Enabled, Redraw
  <2> QED
    BY <1>4, <1>5, <2>2, <2>3, <2>4
<1>15. Stories(b)
  <2> SUFFICES ASSUME NEW d \in Actions!Contents, NEW j \in Actions!KindsOf(d), Reliable(b, d, j)
               PROVE  Story(Waiting(b.requests, d, j), d \in b.shown[j], d \in b.held[j])
    BY DEF Stories
  <2>1. Story(Waiting(R, d, j), d \in a.shown[j], d \in a.held[j])
    BY <1>2 DEF ActCore, Stories, Reliable
  <2>2. j \in Actions!Kinds
    BY KindsAre
  <2>3. CASE d = c /\ j = k
    <3>1. Waiting(b.requests, d, j) = Waiting(R, c, k) \cup {[nr |-> a.sent, on |-> x.on]}
      <4>1. Waiting(S \cup {x}, d, j) = Waiting(S, d, j) \cup {[nr |-> x.nr, on |-> x.on]}
        BY <1>5, <2>3, WaitingJoined
      <4> QED
        BY <1>4, <1>5, <1>9, <2>3, <4>1
    <3>2. \A q \in Waiting(R, c, k) : q.nr \in Nat /\ q.nr < a.sent /\ q.on \in BOOLEAN
      BY <1>1 DEF Waiting, ActCore, Numbered, ActState, Request
    <3>3. x.on = ~(c \in a.shown[k]) /\ (c \in b.shown[k]) = ~(c \in a.shown[k])
      BY <1>1, <1>2, <1>5, FlippedIs DEF Shows
    <3> DEFINE shown == c \in a.shown[k]
               held == c \in a.held[k]
    <3>4. shown \in BOOLEAN /\ held \in BOOLEAN
      OBVIOUS
    <3>5. shown = (c \in a.shown[k]) /\ held = (c \in a.held[k])
      OBVIOUS
    <3> HIDE DEF shown, held
    <3>6. Story(Waiting(R, c, k), shown, held)
      BY <2>1, <2>3, <3>5
    <3>7. Story(Waiting(R, c, k) \cup {[nr |-> a.sent, on |-> ~shown]}, ~shown, held)
      BY <1>10, <3>2, <3>4, <3>6, StorySends
    <3> QED
      BY <1>2, <2>3, <3>1, <3>3, <3>5, <3>7
  <2>4. CASE ~(d = c /\ j = k)
    <3>1. Waiting(b.requests, d, j) = Waiting(R, d, j)
      <4>1. Waiting(S \cup {x}, d, j) = Waiting(S, d, j)
        BY <1>5, <2>4, WaitingElsewhere
      <4> QED
        BY <1>4, <1>9, <4>1
    <3>2. (d \in b.shown[j]) = (d \in a.shown[j])
      BY <1>1, <1>2, <2>2, <2>4, FlippedIs DEF Shows
    <3> QED
      BY <1>2, <2>1, <3>1, <3>2
  <2> QED
    BY <2>3, <2>4
<1>16. VotesAdd(b)
  <2>1. \A d, vote : Counted(b.requests, d, vote) = Counted(R, d, vote)
    BY <1>4, <1>5, <1>9, CountedJoined
  <2> QED
    BY <1>2, <2>1 DEF ActCore, VotesAdd, Reliable
<1>17. PressedTells(b)
  <2> SUFFICES ASSUME "upvoted_ids" \notin b.failed, NEW d \in Actions!Contents,
                      \A q \in b.requests : ~(q.of = d /\ q.kind = "upvoted_ids")
               PROVE  (d \in b.pressed) = (d \in b.shown["upvoted_ids"])
    BY DEF PressedTells
  <2>1. \A q \in R : ~(q.of = d /\ q.kind = "upvoted_ids")
    BY <1>4, <1>7
  <2>2. (d \in a.pressed) = (d \in a.shown["upvoted_ids"])
    BY <1>2, <2>1 DEF ActCore, PressedTells
  <2>3. ~(d = c /\ k = "upvoted_ids")
    BY <1>4, <1>5
  <2>4. (d \in b.shown["upvoted_ids"]) = (d \in a.shown["upvoted_ids"])
    BY <1>1, <1>2, <2>3, FlippedIs, KindsAre DEF Shows
  <2> QED
    BY <1>2, <2>2, <2>4 DEF Presses, Drawn
<1>18. k # "endorsed" /\ AnsweredTells(a) => AnsweredTells(b)
  BY <1>2, KindsAre DEF AnsweredTells, Shows, Tells
<1> QED
  BY <1>2, <1>11, <1>12, <1>13, <1>14, <1>15, <1>16, <1>17, <1>18 DEF ActCore
--------------------------------------------------------------------------------
\* What every step leaves of a redrawn set of requests that was smaller before.
LEMMA RedrawnParts ==
    ASSUME NEW a, a \in ActState, Numbered(a), Crossings(a), NEW b, NEW R \in SUBSET a.requests,
           NEW C, Redrawn(R, b.requests, C), b.sent = a.sent
    PROVE  Numbered(b) /\ Crossings(b)
<1>1. \A s \in b.requests : \E q \in R : Redraw(q, s, C)
  BY RedrawnMatches
<1>2. \A q, r \in b.requests : q.nr = r.nr => q = r
  <2>1. \A q, r \in R : q.nr = r.nr => q = r
    BY DEF Numbered
  <2> QED
    BY <2>1, RedrawnOnce
<1>3. Numbered(b)
  BY <1>1, <1>2 DEF Numbered, Redraw
<1>4. ASSUME NEW q \in b.requests, NEW r \in b.requests, q # r, Together(q, r)
      PROVE  q.crossed
  <2>1. PICK q0 \in R : q.nr = q0.nr /\ q.of = q0.of /\ q.kind = q0.kind /\ (q0.crossed => q.crossed)
    BY <1>1 DEF Redraw
  <2>2. PICK r0 \in R : r.nr = r0.nr /\ r.of = r0.of /\ r.kind = r0.kind
    BY <1>1 DEF Redraw
  <2>3. q0 # r0 /\ Together(q0, r0)
    BY <1>2, <1>4, <2>1, <2>2 DEF Together
  <2> QED
    BY <2>1, <2>3 DEF Crossings
<1> QED
  BY <1>3, <1>4 DEF Crossings

\* Nor does what the service keeps change.
LEMMA RedrawnUndoes ==
    ASSUME NEW a, Undoes(a), NEW b, NEW R \in SUBSET a.requests, NEW C, Redrawn(R, b.requests, C),
           b.held = a.held, a.spoiled \subseteq b.spoiled, a.lost \subseteq b.lost
    PROVE  Undoes(b)
<1>1. \A s \in b.requests : \E q \in R : Redraw(q, s, C)
  BY RedrawnMatches
<1> SUFFICES ASSUME NEW q \in b.requests, q.status = "sent", ~q.crossed, NEW d \in Actions!Contents,
                    d = q.of \/ q.kind = "upvoted_ids", Reliable(b, d, q.kind)
             PROVE  (d \in q.undo) = (d \in b.held[q.kind])
  BY DEF Undoes
<1>2. PICK p \in R : /\ q.of = p.of /\ q.kind = p.kind /\ q.undo = p.undo
                     /\ q.status = p.status /\ ~p.crossed
  BY <1>1 DEF Redraw
<1> QED
  BY <1>2 DEF Undoes, Reliable

\* Nor are buttons of the post enabled.
LEMMA RedrawnEach ==
    ASSUME NEW a, OneEach(a), Numbered(a), NEW b, NEW R \in SUBSET a.requests,
           Redrawn(R, b.requests, Responses), b.reopened = a.reopened
    PROVE  OneEach(b)
<1>1. \A s \in b.requests : \E q \in R : Redraw(q, s, Responses)
  BY RedrawnMatches
<1>2. \A q, r \in b.requests : q.nr = r.nr => q = r
  <2>1. \A q, r \in R : q.nr = r.nr => q = r
    BY DEF Numbered
  <2> QED
    BY <2>1, RedrawnOnce
<1> SUFFICES ASSUME ~b.reopened, NEW q \in b.requests, q.of = Thread
             PROVE  q.live /\ \A r \in b.requests : r.of = Thread /\ r.kind = q.kind => r = q
  BY DEF OneEach
<1>3. \A p \in R : p.of = Thread =>
          p.live /\ \A r \in R : r.of = Thread /\ r.kind = p.kind => r = p
  BY DEF OneEach
<1> QED
  BY <1>1, <1>2, <1>3, Bounds DEF Redraw

\* A part of the requests that were not seen is all of them.
LEMMA WaitingLeft ==
    ASSUME NEW R, NEW r, NEW c, NEW k, ~(r.of = c /\ r.kind = k /\ r.status = "sent")
    PROVE  Waiting(R \ {r}, c, k) = Waiting(R, c, k)
BY DEF Waiting
\* The votes that were counted without a request, and with it.
LEMMA CountedLeft ==
    ASSUME NEW R, NEW r, NEW c, NEW vote,
           ~(r.of = c /\ r.kind = "upvoted_ids" /\ r.status = "served" /\ Vote(r) = vote)
    PROVE  Counted(R \ {r}, c, vote) = Counted(R, c, vote)
BY DEF Counted
\* A vote that was answered is counted no more.
LEMMA CountedWithout ==
    ASSUME NEW R, NEW r \in R, \A q \in R : q.nr = r.nr => q = r, r.kind = "upvoted_ids",
           r.status = "served"
    PROVE  /\ r.nr \in Counted(R, r.of, Vote(r))
           /\ Counted(R \ {r}, r.of, Vote(r)) = Counted(R, r.of, Vote(r)) \ {r.nr}
BY DEF Counted
\* They are finitely many.
LEMMA CountedFinite ==
    ASSUME NEW a \in ActState, Numbered(a), NEW c, NEW vote
    PROVE  IsFiniteSet(Counted(a.requests, c, vote))
<1>1. a.sent \in Nat /\ \A q \in a.requests : q.nr \in 0 .. a.sent
  BY DEF ActState, Request, Numbered
<1>2. Counted(a.requests, c, vote) \in SUBSET (0 .. a.sent)
  BY <1>1 DEF Counted
<1> QED
  <2>1. IsFiniteSet(0 .. a.sent)
    BY <1>1, FS_Interval
  <2> QED
    BY <1>2, <2>1, FS_Subset

\* To draw a content anew disturbs nothing.
LEMMA RedrawKeeps ==
    ASSUME NEW a, ActCore(a), NEW b \in ActState, NEW C, Redrawn(a.requests, b.requests, C),
           b.shown = a.shown, b.held = a.held, b.up_count = a.up_count, b.sent = a.sent,
           b.spoiled = a.spoiled, b.lost = a.lost, OneEach(b), PressedTells(b)
    PROVE  ActCore(b)
<1>1. Numbered(b) /\ Crossings(b)
  BY RedrawnParts DEF ActCore
<1>2. Undoes(b)
  BY RedrawnUndoes DEF ActCore
<1>3. Stories(b)
  BY RedrawnCounts DEF ActCore, Stories, Reliable
<1>4. VotesAdd(b)
  <2>1. \A c, vote : Counted(b.requests, c, vote) = Counted(a.requests, c, vote)
    BY RedrawnCounts
  <2> QED
    BY <2>1 DEF ActCore, VotesAdd, Reliable
<1> QED
  BY <1>1, <1>2, <1>3, <1>4 DEF ActCore
--------------------------------------------------------------------------------
\* The post was drawn anew.
LEMMA CloseEditKeeps ==
    ASSUME ActInv(act), Actions!CloseEditView
    PROVE  ActInv(act)'
<1> DEFINE now == Actions!render(act, Thread)
<1>1. act' = [now EXCEPT !.reopened = TRUE]
  BY DEF Actions!CloseEditView
<1>2. act \in ActState /\ Thread \in Actions!Contents
  BY DEF ActInv, Actions!Contents
<1>3. /\ now \in ActState /\ Rest(act, now) /\ now.shown = act.shown /\ now.endorsed = act.endorsed
      /\ Redrawn(act.requests, now.requests, {Thread}) /\ Drawn(act, now, Thread)
  BY <1>2, Renders
<1> HIDE DEF now
<1>4. /\ act' \in ActState /\ act'.shown = act.shown /\ act'.endorsed = act.endorsed
      /\ act'.held = act.held /\ act'.up_count = act.up_count /\ act'.sent = act.sent
      /\ act'.spoiled = act.spoiled /\ act'.lost = act.lost /\ act'.failed = act.failed
      /\ Redrawn(act.requests, act'.requests, {Thread}) /\ Drawn(act, act', Thread) /\ act'.reopened
  BY <1>1, <1>3 DEF ActState, Rest, Drawn
<1>5. PressedTells(act')
  <2>1. \A q \in act.requests : \E s \in act'.requests : s.of = q.of /\ s.kind = q.kind
    BY <1>4, RedrawnMatches DEF Redraw
  <2> QED
    BY <1>4, <2>1 DEF ActInv, PressedTells, Drawn
<1>6. OneEach(act')
  BY <1>4 DEF OneEach
<1>7. ActCore(act')
  BY <1>4, <1>5, <1>6, RedrawKeeps DEF ActInv, ActCore
<1>8. AnsweredTells(act')
  BY <1>4 DEF ActInv, AnsweredTells
<1> QED
  BY <1>7, <1>8 DEF ActInv, ActCore

\* A vote that was answered is counted on the page.
LEMMA SucceedsAdds ==
    ASSUME NEW a, a \in ActState, Numbered(a), VotesAdd(a), NEW r \in a.requests, r.status = "served",
           r.kind = "upvoted_ids", NEW b, b.requests = a.requests \ {r}, b.held = a.held,
           b.up_count = [a.up_count EXCEPT ![r.of] = @ + Vote(r)],
           b.spoiled = a.spoiled, b.lost = a.lost
    PROVE  VotesAdd(b)
<1> SUFFICES ASSUME NEW c \in Actions!Contents, Reliable(b, c, "upvoted_ids")
             PROVE  b.up_count[c] + Cardinality(Counted(b.requests, c, 1))
                                  - Cardinality(Counted(b.requests, c, -1))
                        = IF c \in b.held["upvoted_ids"] THEN 1 ELSE 0
  BY DEF VotesAdd
<1> DEFINE n(vote) == Cardinality(Counted(a.requests, c, vote))
           m(vote) == Cardinality(Counted(b.requests, c, vote))
<1>1. a.up_count[c] + n(1) - n(-1) = IF c \in b.held["upvoted_ids"] THEN 1 ELSE 0
  BY DEF VotesAdd, Reliable
<1>2. n(1) \in Nat /\ n(-1) \in Nat /\ a.up_count[c] \in Int /\ Vote(r) \in {1, -1}
  BY CountedFinite, FS_CardinalityType DEF ActState, Vote
<1>3. CASE c # r.of
  <2>1. m(1) = n(1) /\ m(-1) = n(-1)
    BY <1>3, CountedLeft
  <2>2. b.up_count[c] = a.up_count[c]
    BY <1>3 DEF ActState
  <2> QED
    BY <1>1, <2>1, <2>2
<1>4. CASE c = r.of
  <2>1. /\ r.nr \in Counted(a.requests, c, Vote(r))
        /\ Counted(b.requests, c, Vote(r)) = Counted(a.requests, c, Vote(r)) \ {r.nr}
    <3>1. \A q \in a.requests : q.nr = r.nr => q = r
      BY DEF Numbered
    <3> QED
      BY <1>4, <3>1, CountedWithout, ZenonT(60)
  <2>2. m(Vote(r)) = n(Vote(r)) - 1
    BY <2>1, CountedFinite, FS_RemoveElement, ZenonT(60)
  <2>3. \A v \in {1, -1} \ {Vote(r)} : m(v) = n(v)
    BY <1>4, CountedLeft
  <2>4. b.up_count[c] = a.up_count[c] + Vote(r)
    BY <1>4 DEF ActState
  <2>5. CASE Vote(r) = 1
    <3>1. m(1) = n(1) - 1 /\ m(-1) = n(-1)
      BY <2>2, <2>3, <2>5
    <3> HIDE DEF n, m
    <3>2. b.up_count[c] + m(1) - m(-1) = a.up_count[c] + n(1) - n(-1)
      BY <1>2, <2>4, <2>5, <3>1
    <3> QED
      BY <1>1, <3>2 DEF m
  <2>6. CASE Vote(r) = -1
    <3>1. m(1) = n(1) /\ m(-1) = n(-1) - 1
      BY <2>2, <2>3, <2>6
    <3> HIDE DEF n, m
    <3>2. b.up_count[c] + m(1) - m(-1) = a.up_count[c] + n(1) - n(-1)
      BY <1>2, <2>4, <2>6, <3>1
    <3> QED
      BY <1>1, <3>2 DEF m
  <2> QED
    BY <1>2, <2>5, <2>6
<1> QED
  BY <1>3, <1>4
\* A request was answered.
LEMMA SucceedsKeeps ==
    ASSUME ActInv(act), NEW r \in act.requests, Actions!Succeeds(r)
    PROVE  ActInv(act)'
<1> DEFINE a == [act EXCEPT !.requests = @ \ {r}]
           R == act.requests \ {r}
<1>1. /\ r.status = "served"
      /\ act' = IF r.kind = "upvoted_ids"
                THEN Actions!incrementVote(a, r.of, IF r.on THEN 1 ELSE -1) ELSE a
  BY DEF Actions!Succeeds
<1>2. /\ a \in ActState /\ a.requests = R /\ Rest(act, a) /\ a.shown = act.shown
      /\ a.pressed = act.pressed /\ a.endorsed = act.endorsed
  BY DEF ActInv, ActState, Rest
<1> HIDE DEF a
<1>3. R \in SUBSET act.requests /\ \A C : Redrawn(R, a.requests, C)
  <2>1. R \in SUBSET Request
    BY DEF ActInv, ActState
  <2> QED
    BY <1>2, <2>1, RedrawnSame
<1>4. Numbered(a) /\ Crossings(a)
  BY <1>2, <1>3, RedrawnParts DEF ActInv, Rest
<1>5. Undoes(a)
  BY <1>2, <1>3, RedrawnUndoes DEF ActInv, Rest
<1>6. OneEach(a)
  BY <1>2, <1>3, RedrawnEach DEF ActInv, Rest
<1>7. Stories(a)
  <2>1. \A c, k : Waiting(R, c, k) = Waiting(act.requests, c, k)
    BY <1>1, WaitingLeft
  <2> QED
    BY <1>2, <2>1 DEF ActInv, Stories, Reliable, Rest
<1>8. AnsweredTells(a)
  BY <1>2 DEF ActInv, AnsweredTells, Rest
<1>9. CASE r.kind # "upvoted_ids"
  <2>1. VotesAdd(a)
    <3>1. \A c, vote : Counted(R, c, vote) = Counted(act.requests, c, vote)
      BY <1>9, CountedLeft
    <3> QED
      BY <1>2, <3>1 DEF ActInv, VotesAdd, Reliable, Rest
  <2>2. PressedTells(a)
    BY <1>2, <1>9 DEF ActInv, PressedTells, Rest
  <2>3. act' = a
    BY <1>1, <1>9
  <2> QED
    BY <1>2, <1>4, <1>5, <1>6, <1>7, <1>8, <2>1, <2>2, <2>3 DEF ActInv
<1>10. CASE r.kind = "upvoted_ids"
  <2>1. r.of \in Actions!Contents /\ r.nr \in Nat
    BY DEF ActInv, ActState, Request
  <2> DEFINE now == [a EXCEPT !.up_count[r.of] = @ + Vote(r)]
  <2>2. act' = IF r.of = Thread THEN Actions!drawVote(now, r.of) ELSE Actions!render(now, r.of)
    BY <1>1, <1>10 DEF Actions!incrementVote, Vote
  <2>3. now \in ActState
    <3>1. a.up_count[r.of] + Vote(r) \in Int
      BY <1>2, <2>1 DEF ActState, Vote
    <3> QED
      BY <1>2, <3>1 DEF ActState
  <2>4. /\ now.shown = act.shown /\ now.held = act.held /\ now.pressed = act.pressed
        /\ now.up_count = [act.up_count EXCEPT ![r.of] = @ + Vote(r)]
        /\ now.endorsed = act.endorsed /\ now.requests = R /\ now.sent = act.sent
        /\ now.reopened = act.reopened /\ now.spoiled = act.spoiled
        /\ now.failed = act.failed /\ now.lost = act.lost
    BY <1>2 DEF ActState, Rest
  <2> HIDE DEF now
  <2>5. VotesAdd(now)
    BY <1>1, <1>10, <2>4, SucceedsAdds DEF ActInv
  <2>6. /\ act' \in ActState /\ Rest(now, act') /\ act'.shown = now.shown
        /\ act'.endorsed = now.endorsed /\ Drawn(now, act', r.of)
        /\ Redrawn(R, act'.requests, Responses)
    <3>1. CASE r.of = Thread
      <4>1. act' = [now EXCEPT
                          !.pressed = (now.pressed \ {r.of}) \cup (now.shown["upvoted_ids"] \cap {r.of})]
        BY <2>2, <3>1 DEF Actions!drawVote
      <4>2. (now.pressed \ {r.of}) \cup (now.shown["upvoted_ids"] \cap {r.of}) \in SUBSET Actions!Contents
        BY <2>1, <2>3 DEF ActState
      <4>3. act' \in ActState /\ act'.requests = R
        BY <2>3, <2>4, <4>1, <4>2 DEF ActState
      <4>4. Redrawn(R, act'.requests, Responses)
        BY <1>2, <1>3, <4>3
      <4>5. /\ Rest(now, act') /\ act'.shown = now.shown
            /\ act'.endorsed = now.endorsed /\ Drawn(now, act', r.of)
        BY <2>3, <4>1 DEF ActState, Rest, Drawn
      <4> QED
        BY <4>3, <4>4, <4>5
    <3>2. CASE r.of # Thread
      <4>1. r.of \in Responses
        BY <2>1, <3>2 DEF Actions!Contents
      <4>2. act' = Actions!render(now, r.of)
        BY <2>2, <3>2
      <4>3. /\ act' \in ActState /\ Rest(now, act') /\ act'.shown = now.shown
            /\ act'.endorsed = now.endorsed /\ Drawn(now, act', r.of)
            /\ Redrawn(now.requests, act'.requests, Responses)
        BY <2>1, <2>3, <4>1, <4>2, Renders
      <4> QED
        BY <2>4, <4>3
    <3> QED
      BY <3>1, <3>2
  <2>7. Numbered(now) /\ Crossings(now) /\ Undoes(now) /\ Stories(now)
    BY <1>2, <1>4, <1>5, <1>7, <2>4 DEF Numbered, Crossings, Undoes, Stories, Reliable, Rest
  <2>8. Numbered(act') /\ Crossings(act')
    BY <2>3, <2>4, <2>6, <2>7, RedrawnParts DEF Rest
  <2>9. Undoes(act')
    BY <2>4, <2>6, <2>7, RedrawnUndoes DEF Rest
  <2>10. OneEach(act')
    BY <1>3, <2>4, <2>6, RedrawnEach DEF ActInv, Rest
  <2>11. Stories(act')
    <3>1. \A c, k : Waiting(act'.requests, c, k) = Waiting(now.requests, c, k)
      BY <2>4, <2>6, RedrawnCounts
    <3> QED
      BY <2>6, <2>7, <3>1 DEF Stories, Reliable, Rest
  <2>12. VotesAdd(act')
    <3>1. \A c, vote : Counted(act'.requests, c, vote) = Counted(now.requests, c, vote)
      BY <2>4, <2>6, RedrawnCounts
    <3> QED
      BY <2>5, <2>6, <3>1 DEF VotesAdd, Reliable, Rest
  <2>13. PressedTells(act')
    <3> SUFFICES ASSUME "upvoted_ids" \notin act'.failed, NEW d \in Actions!Contents,
                        \A q \in act'.requests : ~(q.of = d /\ q.kind = "upvoted_ids")
                 PROVE  (d \in act'.pressed) = (d \in act'.shown["upvoted_ids"])
      BY DEF PressedTells
    <3>1. \A q \in R : ~(q.of = d /\ q.kind = "upvoted_ids")
      BY <2>6, RedrawnMatches DEF Redraw
    <3>2. d # r.of => (d \in act.pressed) = (d \in act.shown["upvoted_ids"])
      BY <2>4, <2>6, <3>1 DEF ActInv, PressedTells, Rest
    <3> QED
      BY <2>4, <2>6, <3>2 DEF Drawn
  <2>14. AnsweredTells(act')
    BY <2>4, <2>6 DEF ActInv, AnsweredTells, Rest
  <2> QED
    BY <2>6, <2>8, <2>9, <2>10, <2>11, <2>12, <2>13, <2>14 DEF ActInv
<1> QED
  BY <1>9, <1>10
\* A vote that the service did is counted for its content, and for no other.
LEMMA CountedElsewhere ==
    ASSUME NEW R, NEW r, NEW s, s.of = r.of, s.kind = r.kind, NEW c, NEW vote,
           ~(c = r.of /\ r.kind = "upvoted_ids")
    PROVE  Counted((R \ {r}) \cup {s}, c, vote) = Counted(R, c, vote)
BY DEF Counted
\* The service did what r asks for: it is a vote, and is in the set that is left as served.
ServedAs(R, r, S) ==
    /\ r.status = "sent" /\ r.kind = "upvoted_ids" /\ \A q \in R : q.nr = r.nr => q = r
    /\ \E s : /\ s.nr = r.nr /\ s.of = r.of /\ s.kind = r.kind /\ s.on = r.on
              /\ s.status = "served" /\ S = (R \ {r}) \cup {s}
\* Its number joins those of the votes like it.
LEMMA CountedServed ==
    ASSUME NEW R, NEW r \in R, NEW S, ServedAs(R, r, S)
    PROVE  /\ Counted(S, r.of, Vote(r)) = Counted(R, r.of, Vote(r)) \cup {r.nr}
           /\ r.nr \notin Counted(R, r.of, Vote(r))
           /\ \A v : v # Vote(r) => Counted(S, r.of, v) = Counted(R, r.of, v)
<1>1. PICK s : /\ s.nr = r.nr /\ s.of = r.of /\ s.kind = r.kind /\ s.on = r.on
               /\ s.status = "served" /\ S = (R \ {r}) \cup {s}
  BY DEF ServedAs
<1>2. r.status = "sent" /\ r.kind = "upvoted_ids" /\ \A q \in R : q.nr = r.nr => q = r
  BY DEF ServedAs
<1>3. Vote(s) = Vote(r)
  BY <1>1 DEF Vote
<1> QED
  BY <1>1, <1>2, <1>3 DEF Counted
\* The service did what was asked, maybe after what was asked later.
LEMMA ServedKeeps ==
    ASSUME ActInv(act), NEW r \in act.requests, Actions!Served(r)
    PROVE  ActInv(act)'
<1> DEFINE s == [r EXCEPT !.status = "served"]
           R == act.requests
           S == (R \ {r}) \cup {s}
           late == IF \E q \in R : Actions!Newer(q, r) /\ q.status = "sent" THEN Actions!Buttons(r) ELSE {}
           kept == IF r.on THEN act.held[r.kind] \cup {r.of} ELSE act.held[r.kind] \ {r.of}
<1>1. /\ r.status = "sent"
      /\ act' = [act EXCEPT !.held[r.kind] = kept, !.requests = S, !.spoiled = @ \cup late]
  BY DEF Actions!Served
<1>2. /\ r \in Request /\ r.of \in Actions!Contents /\ r.kind \in Actions!Kinds
      /\ r.nr \in Nat /\ r.on \in BOOLEAN
  BY DEF ActInv, ActState, Request
<1>3. /\ s \in Request /\ s.nr = r.nr /\ s.of = r.of /\ s.kind = r.kind /\ s.on = r.on
      /\ s.live = r.live /\ s.crossed = r.crossed /\ s.status = "served"
  BY <1>2 DEF Request
<1>4. late \in SUBSET (Actions!Contents \X Actions!Kinds)
  BY <1>2 DEF Actions!Buttons
<1>5. kept \in SUBSET Actions!Contents
  BY <1>2 DEF ActInv, ActState
<1>6. \A d \in Actions!Contents : (d \in kept) = IF d = r.of THEN r.on ELSE d \in act.held[r.kind]
  BY <1>2
<1> HIDE DEF s, late, kept
<1>7. act' \in ActState
  <2>1. S \in SUBSET Request /\ act.spoiled \cup late \in SUBSET (Actions!Contents \X Actions!Kinds)
    BY <1>3, <1>4 DEF ActInv, ActState
  <2> HIDE DEF S
  <2>2. [act.held EXCEPT ![r.kind] = kept] \in [Actions!Kinds -> SUBSET Actions!Contents]
    BY <1>5 DEF ActInv, ActState
  <2> QED
    BY <1>1, <2>1, <2>2 DEF ActInv, ActState
<1>8. /\ act'.held[r.kind] = kept
      /\ \A j \in Actions!Kinds \ {r.kind} : act'.held[j] = act.held[j]
      /\ act'.requests = S /\ act'.spoiled = act.spoiled \cup late
      /\ act'.shown = act.shown /\ act'.pressed = act.pressed /\ act'.up_count = act.up_count
      /\ act'.endorsed = act.endorsed /\ act'.sent = act.sent /\ act'.reopened = act.reopened
      /\ act'.failed = act.failed /\ act'.lost = act.lost
  BY <1>1, <1>2 DEF ActInv, ActState
<1>9. \A q \in R : q.nr = r.nr => q = r
  BY DEF ActInv, Numbered
<1>10. Numbered(act')
  BY <1>3, <1>8 DEF ActInv, Numbered
<1>11. Crossings(act')
  BY <1>3, <1>8, <1>9 DEF ActInv, Crossings, Together
<1>12. Undoes(act')
  <2> SUFFICES ASSUME NEW q \in act'.requests, q.status = "sent", ~q.crossed, NEW d \in Actions!Contents,
                      d = q.of \/ q.kind = "upvoted_ids", Reliable(act', d, q.kind)
               PROVE  (d \in q.undo) = (d \in act'.held[q.kind])
    BY DEF Undoes
  <2>1. q \in R /\ q # r /\ q.kind \in Actions!Kinds
    BY <1>3, <1>8 DEF ActInv, ActState, Request
  <2>2. (d \in q.undo) = (d \in act.held[q.kind])
    BY <1>8, <2>1 DEF ActInv, Undoes, Reliable
  <2>3. ~(q.kind = r.kind /\ d = r.of)
    BY <2>1 DEF ActInv, Crossings, Together
  <2> QED
    BY <1>6, <1>8, <2>1, <2>2, <2>3
<1>13. OneEach(act')
  BY <1>3, <1>8 DEF ActInv, OneEach
<1>14. Waiting(S, r.of, r.kind) = Waiting(R, r.of, r.kind) \ {[nr |-> r.nr, on |-> r.on]}
  BY <1>1, <1>3, <1>9 DEF Waiting
<1>15. \A d, j : ~(d = r.of /\ j = r.kind) => Waiting(S, d, j) = Waiting(R, d, j)
  BY <1>3 DEF Waiting
<1>16. Reliable(act', r.of, r.kind) =>
          \A q \in R : q.of = r.of /\ q.kind = r.kind /\ q.status = "sent" => r.nr <= q.nr
  <2> SUFFICES ASSUME NEW q \in R, q.of = r.of, q.kind = r.kind, q.status = "sent", ~(r.nr <= q.nr)
               PROVE  ~Reliable(act', r.of, r.kind)
    OBVIOUS
  <2>1. q.nr \in Nat
    BY DEF ActInv, ActState, Request
  <2>2. Actions!Newer(q, r)
    BY <1>2, <2>1 DEF Actions!Newer
  <2>3. <<r.of, r.kind>> \in late
    BY <1>2, <2>2 DEF late, Actions!Buttons
  <2> QED
    BY <1>8, <2>3 DEF Reliable
<1>17. Reliable(act', r.of, r.kind) =>
          /\ Story(Waiting(S, r.of, r.kind), r.of \in act.shown[r.kind], r.on)
          /\ r.on # (r.of \in act.held[r.kind])
  <2> SUFFICES ASSUME Reliable(act', r.of, r.kind)
               PROVE  /\ Story(Waiting(S, r.of, r.kind), r.of \in act.shown[r.kind], r.on)
                      /\ r.on # (r.of \in act.held[r.kind])
    OBVIOUS
  <2> DEFINE W == Waiting(R, r.of, r.kind)
             x == [nr |-> r.nr, on |-> r.on]
             shown == r.of \in act.shown[r.kind]
             held == r.of \in act.held[r.kind]
  <2>1. Story(W, shown, held)
    <3>1. r.kind \in Actions!KindsOf(r.of)
      BY DEF ActInv, Numbered
    <3>2. Reliable(act, r.of, r.kind)
      BY <1>8 DEF Reliable
    <3> QED
      BY <1>2, <3>1, <3>2 DEF ActInv, Stories
  <2>2. x \in W /\ x.on = r.on
    BY <1>1 DEF Waiting
  <2>3. \A q \in W : q.nr \in Nat /\ q.on \in BOOLEAN
    BY DEF Waiting, ActInv, ActState, Request
  <2>4. \A q \in W : x.nr <= q.nr
    BY <1>16 DEF Waiting
  <2>5. shown \in BOOLEAN /\ held \in BOOLEAN
    OBVIOUS
  <2>6. Waiting(S, r.of, r.kind) = W \ {x}
    BY <1>14
  <2> HIDE DEF W, x, shown, held
  <2>7. Story(W \ {x}, shown, x.on) /\ x.on # held
    BY <2>1, <2>2, <2>3, <2>4, <2>5, StoryServes
  <2> QED
    BY <2>2, <2>6, <2>7 DEF shown, held
<1>18. Stories(act')
  <2> SUFFICES ASSUME NEW d \in Actions!Contents, NEW j \in Actions!KindsOf(d), Reliable(act', d, j)
               PROVE  Story(Waiting(act'.requests, d, j), d \in act'.shown[j], d \in act'.held[j])
    BY DEF Stories
  <2>1. CASE d = r.of /\ j = r.kind
    <3>1. (r.of \in kept) = r.on
      BY <1>2, <1>6
    <3> QED
      BY <1>8, <1>17, <2>1, <3>1
  <2>2. CASE ~(d = r.of /\ j = r.kind)
    <3>1. Story(Waiting(R, d, j), d \in act.shown[j], d \in act.held[j])
      BY <1>8 DEF ActInv, Stories, Reliable
    <3>2. (d \in act'.held[j]) = (d \in act.held[j])
      BY <1>6, <1>8, <2>2, KindsAre
    <3> QED
      BY <1>8, <1>15, <2>2, <3>1, <3>2
  <2> QED
    BY <2>1, <2>2
<1>19. VotesAdd(act')
  <2> SUFFICES ASSUME NEW d \in Actions!Contents, Reliable(act', d, "upvoted_ids")
               PROVE  act'.up_count[d] + Cardinality(Counted(act'.requests, d, 1))
                                       - Cardinality(Counted(act'.requests, d, -1))
                          = IF d \in act'.held["upvoted_ids"] THEN 1 ELSE 0
    BY DEF VotesAdd
  <2> DEFINE n(vote) == Cardinality(Counted(R, d, vote))
             m(vote) == Cardinality(Counted(S, d, vote))
  <2>1. act.up_count[d] + n(1) - n(-1) = IF d \in act.held["upvoted_ids"] THEN 1 ELSE 0
    BY <1>8 DEF ActInv, VotesAdd, Reliable
  <2>2. /\ n(1) \in Nat /\ n(-1) \in Nat /\ act.up_count[d] \in Int
        /\ \A v : IsFiniteSet(Counted(R, d, v))
    BY CountedFinite, FS_CardinalityType DEF ActInv, ActState
  <2>3. CASE ~(d = r.of /\ r.kind = "upvoted_ids")
    <3>1. \A v : Counted(S, d, v) = Counted(R, d, v)
      BY <1>3, <2>3, CountedElsewhere
    <3>2. (d \in act'.held["upvoted_ids"]) = (d \in act.held["upvoted_ids"])
      BY <1>6, <1>8, <2>3, KindsAre
    <3> QED
      BY <1>8, <2>1, <3>1, <3>2
  <2>4. CASE d = r.of /\ r.kind = "upvoted_ids"
    <3>1. (d \in act'.held["upvoted_ids"]) = r.on
      BY <1>2, <1>6, <1>8, <2>4
    <3>2. r.on # (d \in act.held["upvoted_ids"])
      BY <1>17, <2>4
    <3>3. /\ Counted(S, d, Vote(r)) = Counted(R, d, Vote(r)) \cup {r.nr}
          /\ r.nr \notin Counted(R, d, Vote(r))
          /\ \A v : v # Vote(r) => Counted(S, d, v) = Counted(R, d, v)
      <4>1. ServedAs(R, r, S)
        BY <1>1, <1>3, <1>9, <2>4 DEF ServedAs
      <4>2. r \in R
        OBVIOUS
      <4> HIDE DEF R, S
      <4>3. /\ Counted(S, r.of, Vote(r)) = Counted(R, r.of, Vote(r)) \cup {r.nr}
            /\ r.nr \notin Counted(R, r.of, Vote(r))
            /\ \A v : v # Vote(r) => Counted(S, r.of, v) = Counted(R, r.of, v)
        BY <4>1, <4>2, CountedServed
      <4> QED
        BY <2>4, <4>3
    <3>4. m(Vote(r)) = n(Vote(r)) + 1 /\ \A v : v # Vote(r) => m(v) = n(v)
      BY <2>2, <3>3, FS_AddElement
    <3>5. CASE r.on
      <4>1. Vote(r) = 1 /\ act'.held["upvoted_ids"] \cap {d} = {d}
        BY <3>1, <3>5 DEF Vote
      <4>2. m(1) = n(1) + 1 /\ m(-1) = n(-1)
        BY <3>4, <4>1
      <4>3. act.up_count[d] + n(1) - n(-1) = 0
        BY <2>1, <3>2, <3>5
      <4> HIDE DEF m, n
      <4>4. act.up_count[d] + m(1) - m(-1) = 1
        BY <2>2, <4>2, <4>3
      <4> QED
        BY <1>8, <3>1, <3>5, <4>4 DEF m
    <3>6. CASE ~r.on
      <4>1. Vote(r) = -1
        BY <3>6 DEF Vote
      <4>2. m(1) = n(1) /\ m(-1) = n(-1) + 1
        BY <3>4, <4>1
      <4>3. act.up_count[d] + n(1) - n(-1) = 1
        BY <1>2, <2>1, <3>2, <3>6
      <4> HIDE DEF m, n
      <4>4. act.up_count[d] + m(1) - m(-1) = 0
        BY <2>2, <4>2, <4>3
      <4> QED
        BY <1>8, <3>1, <3>6, <4>4 DEF m
    <3> QED
      BY <3>5, <3>6
  <2> QED
    BY <2>3, <2>4
<1>20. PressedTells(act')
  <2>1. (\A q \in S : ~(q.of = r.of /\ q.kind = r.kind)) => FALSE
    BY <1>3
  <2>2. \A d \in Actions!Contents :
            (\A q \in S : ~(q.of = d /\ q.kind = "upvoted_ids"))
                => \A q \in R : ~(q.of = d /\ q.kind = "upvoted_ids")
    BY <2>1
  <2> QED
    BY <1>8, <2>2 DEF ActInv, PressedTells
<1>21. AnsweredTells(act')
  BY <1>8 DEF ActInv, AnsweredTells
<1> QED
  BY <1>7, <1>10, <1>11, <1>12, <1>13, <1>18, <1>19, <1>20, <1>21 DEF ActInv
\* A request failed, and what the page said before it is shown again.
LEMMA FailsKeeps ==
    ASSUME ActInv(act), NEW r \in act.requests, Actions!Fails(r)
    PROVE  ActInv(act)'
<1> DEFINE R == act.requests \ {r}
           a == [act EXCEPT
                   !.requests = @ \ {r}, !.failed = @ \cup {r.kind},
                   !.spoiled = @ \cup IF r.crossed THEN Actions!Buttons(r) ELSE {},
                   !.lost = @ \cup IF r.status = "served" THEN Actions!Buttons(r) ELSE {}]
           on == IF r.kind = "upvoted_ids" THEN r.undo
                 ELSE (a.shown[r.kind] \ {r.of}) \cup (r.undo \cap {r.of})
<1>1. act' = Actions!change(a, r.of, r.kind, on)
  BY DEF Actions!Fails, Actions!undone
<1>2. /\ r \in Request /\ r.of \in Actions!Contents /\ r.kind \in Actions!Kinds
      /\ r.undo \in SUBSET Actions!Contents /\ r.status \in {"sent", "served"}
  BY DEF ActInv, ActState, Request
<1>3. Actions!Buttons(r) \in SUBSET (Actions!Contents \X Actions!Kinds)
  BY <1>2 DEF Actions!Buttons
<1>4. \A d \in Actions!Contents : d = r.of \/ r.kind = "upvoted_ids" => <<d, r.kind>> \in Actions!Buttons(r)
  BY DEF Actions!Buttons
<1>5. /\ a \in ActState /\ a.requests = R /\ a.shown = act.shown /\ a.held = act.held
      /\ a.pressed = act.pressed /\ a.up_count = act.up_count /\ a.endorsed = act.endorsed
      /\ a.sent = act.sent /\ a.reopened = act.reopened /\ a.failed = act.failed \cup {r.kind}
      /\ act.spoiled \subseteq a.spoiled /\ act.lost \subseteq a.lost
      /\ r.crossed => Actions!Buttons(r) \subseteq a.spoiled
      /\ r.status = "served" => Actions!Buttons(r) \subseteq a.lost
  <2> DEFINE spoiled == act.spoiled \cup IF r.crossed THEN Actions!Buttons(r) ELSE {}
             lost == act.lost \cup IF r.status = "served" THEN Actions!Buttons(r) ELSE {}
  <2>1. a = [act EXCEPT !.requests = @ \ {r}, !.failed = @ \cup {r.kind},
                        !.spoiled = spoiled, !.lost = lost]
    BY DEF ActInv, ActState
  <2>2. act \in ActState /\ R \in SUBSET Request /\ act.failed \cup {r.kind} \in SUBSET Actions!Kinds
    BY <1>2 DEF ActInv, ActState
  <2>3. /\ spoiled \in SUBSET (Actions!Contents \X Actions!Kinds)
        /\ lost \in SUBSET (Actions!Contents \X Actions!Kinds)
    BY <1>3, <2>2 DEF ActState
  <2>4. /\ act.spoiled \subseteq spoiled /\ act.lost \subseteq lost
        /\ r.crossed => Actions!Buttons(r) \subseteq spoiled
        /\ r.status = "served" => Actions!Buttons(r) \subseteq lost
    OBVIOUS
  <2> HIDE DEF spoiled, lost, a
  <2> QED
    BY <2>1, <2>2, <2>3, <2>4 DEF ActState
<1>6. on \in SUBSET Actions!Contents
  <2>1. a.shown[r.kind] \in SUBSET Actions!Contents
    BY <1>2, <1>5, ZenonT(60) DEF ActState
  <2> HIDE DEF a
  <2> QED
    BY <1>2, <2>1
<1>7. \A d \in Actions!Contents :
          IF d = r.of \/ r.kind = "upvoted_ids" THEN (d \in on) = (d \in r.undo)
                                                ELSE (d \in on) = (d \in act.shown[r.kind])
  BY <1>5
<1> HIDE DEF a, on
<1>8. /\ act' \in ActState /\ Rest(a, act') /\ Shows(a, act', r.kind, on)
      /\ Redrawn(R, act'.requests, Responses)
  <2> HIDE DEF R
  <2>1. act' \in ActState
    BY <1>1, <1>2, <1>5, <1>6, Changes
  <2>2. Rest(a, act')
    BY <1>1, <1>2, <1>5, <1>6, Changes
  <2>3. Shows(a, act', r.kind, on)
    BY <1>1, <1>2, <1>5, <1>6, Changes
  <2>4. Redrawn(a.requests, act'.requests, Responses)
    BY <1>1, <1>2, <1>5, <1>6, Changes
  <2> QED
    BY <1>5, <2>1, <2>2, <2>3, <2>4
<1>9. Presses(a, act', r.of, r.kind)
  BY <1>1, <1>2, <1>5, <1>6, Changes
<1>10. Tells(a, act', r.kind)
  BY <1>1, <1>2, <1>5, <1>6, Changes
<1>11. R \in SUBSET act.requests
  OBVIOUS
<1>12. Numbered(act') /\ Crossings(act')
  BY <1>5, <1>8, <1>11, RedrawnParts DEF ActInv, Rest
<1>13. Undoes(act')
  BY <1>5, <1>8, <1>11, RedrawnUndoes DEF ActInv, Rest
<1>14. OneEach(act')
  BY <1>5, <1>8, <1>11, RedrawnEach DEF ActInv, Rest
<1>15. \A d, j : Reliable(act', d, j) =>
           /\ Reliable(act, d, j)
           /\ <<d, j>> \in Actions!Buttons(r) => r.status = "sent" /\ ~r.crossed
  BY <1>2, <1>5, <1>8 DEF Reliable, Rest
<1>16. Stories(act')
  <2> SUFFICES ASSUME NEW d \in Actions!Contents, NEW j \in Actions!KindsOf(d), Reliable(act', d, j)
               PROVE  Story(Waiting(act'.requests, d, j), d \in act'.shown[j], d \in act'.held[j])
    BY DEF Stories
  <2>1. Waiting(act'.requests, d, j) = Waiting(R, d, j)
    BY <1>8, RedrawnCounts
  <2>2. act'.held = act.held /\ j \in Actions!Kinds
    BY <1>5, <1>8, KindsAre DEF Rest
  <2>3. CASE j = r.kind /\ (d = r.of \/ r.kind = "upvoted_ids")
    <3>1. r.status = "sent" /\ ~r.crossed /\ Reliable(act, d, j)
      BY <1>4, <1>15, <2>3
    <3>2. \A q \in R : ~(q.of = d /\ q.kind = j)
      BY <2>3, <3>1 DEF ActInv, Crossings, Together
    <3>3. Waiting(R, d, j) = {}
      BY <3>2 DEF Waiting
    <3>4. (d \in r.undo) = (d \in act.held[j])
      BY <2>3, <3>1 DEF ActInv, Undoes
    <3>5. (d \in act'.shown[j]) = (d \in r.undo)
      BY <1>7, <1>8, <2>3 DEF Shows
    <3> QED
      BY <2>1, <2>2, <3>3, <3>4, <3>5 DEF Story
  <2>4. CASE ~(j = r.kind /\ (d = r.of \/ r.kind = "upvoted_ids"))
    <3>1. Waiting(R, d, j) = Waiting(act.requests, d, j)
      BY <2>4, WaitingLeft
    <3>2. (d \in act'.shown[j]) = (d \in act.shown[j])
      BY <1>5, <1>7, <1>8, <2>2, <2>4 DEF Shows
    <3>3. Story(Waiting(act.requests, d, j), d \in act.shown[j], d \in act.held[j])
      BY <1>15 DEF ActInv, Stories
    <3> QED
      BY <2>1, <2>2, <3>1, <3>2, <3>3
  <2> QED
    BY <2>3, <2>4
<1>17. VotesAdd(act')
  <2> SUFFICES ASSUME NEW d \in Actions!Contents, Reliable(act', d, "upvoted_ids")
               PROVE  act'.up_count[d] + Cardinality(Counted(act'.requests, d, 1))
                                       - Cardinality(Counted(act'.requests, d, -1))
                          = IF d \in act'.held["upvoted_ids"] THEN 1 ELSE 0
    BY DEF VotesAdd
  <2>1. r.kind = "upvoted_ids" => r.status # "served"
    BY <1>4, <1>15
  <2>2. \A v : Counted(R, d, v) = Counted(act.requests, d, v)
    BY <2>1, CountedLeft
  <2>3. \A v : Counted(act'.requests, d, v) = Counted(R, d, v)
    BY <1>8, RedrawnCounts
  <2>4. act'.up_count = act.up_count /\ act'.held = act.held
    BY <1>5, <1>8 DEF Rest
  <2> QED
    BY <1>15, <2>2, <2>3, <2>4 DEF ActInv, VotesAdd
<1>18. PressedTells(act')
  <2> SUFFICES ASSUME "upvoted_ids" \notin act'.failed, NEW d \in Actions!Contents,
                      \A q \in act'.requests : ~(q.of = d /\ q.kind = "upvoted_ids")
               PROVE  (d \in act'.pressed) = (d \in act'.shown["upvoted_ids"])
    BY DEF PressedTells
  <2>1. r.kind # "upvoted_ids" /\ "upvoted_ids" \notin act.failed
    BY <1>5, <1>8 DEF Rest
  <2>2. \A q \in R : ~(q.of = d /\ q.kind = "upvoted_ids")
    BY <1>8, RedrawnMatches DEF Redraw
  <2>3. (d \in act.pressed) = (d \in act.shown["upvoted_ids"])
    BY <2>1, <2>2 DEF ActInv, PressedTells
  <2>4. act'.shown["upvoted_ids"] = act.shown["upvoted_ids"]
    BY <1>5, <1>8, <2>1, KindsAre DEF Shows
  <2> QED
    BY <1>5, <1>9, <2>3, <2>4 DEF Presses, Drawn
<1>19. AnsweredTells(act')
  BY <1>5, <1>8, <1>10, KindsAre DEF ActInv, AnsweredTells, Shows, Tells, Rest
<1> QED
  BY <1>8, <1>12, <1>13, <1>14, <1>16, <1>17, <1>18, <1>19 DEF ActInv
--------------------------------------------------------------------------------
\* Nothing was clicked yet.
LEMMA ActionsStarts ==
    ASSUME Actions!Init
    PROVE  ActInv(act)
<1>1. PICK voted \in {{}, Responses}, answers \in {{}, Responses} :
         LET held == [k \in Actions!Kinds |-> CASE k = "upvoted_ids" -> voted
                                                [] k = "endorsed" -> answers [] OTHER -> {}]
         IN  act = [shown |-> held, held |-> held, pressed |-> held["upvoted_ids"],
                    up_count |-> [c \in Actions!Contents |-> IF c \in held["upvoted_ids"] THEN 1 ELSE 0],
                    endorsed |-> held["endorsed"] # {}, requests |-> {}, sent |-> 0, used |-> {},
                    reopened |-> FALSE, spoiled |-> {}, failed |-> {}, lost |-> {}]
  BY DEF Actions!Init
<1> DEFINE held == [k \in Actions!Kinds |-> CASE k = "upvoted_ids" -> voted
                                              [] k = "endorsed" -> answers [] OTHER -> {}]
           up == [c \in Actions!Contents |-> IF c \in held["upvoted_ids"] THEN 1 ELSE 0]
<1>2. held \in [Actions!Kinds -> SUBSET Actions!Contents]
  BY DEF Actions!Contents
<1>3. up \in [Actions!Contents -> Int]
  OBVIOUS
<1>4. \A c \in Actions!Contents : up[c] = IF c \in held["upvoted_ids"] THEN 1 ELSE 0
  OBVIOUS
<1>5. act = [shown |-> held, held |-> held, pressed |-> held["upvoted_ids"], up_count |-> up,
             endorsed |-> held["endorsed"] # {}, requests |-> {}, sent |-> 0, used |-> {},
             reopened |-> FALSE, spoiled |-> {}, failed |-> {}, lost |-> {}]
  BY <1>1
<1> HIDE DEF held, up
<1>6. act \in ActState
  <2>1. held["upvoted_ids"] \in SUBSET Actions!Contents
    BY <1>2, KindsAre
  <2>2. (held["endorsed"] # {}) \in BOOLEAN
    OBVIOUS
  <2> DEFINE told == held["endorsed"] # {}
  <2> HIDE DEF told
  <2>3. told \in BOOLEAN
    BY DEF told
  <2>4. act = [shown |-> held, held |-> held, pressed |-> held["upvoted_ids"], up_count |-> up,
             endorsed |-> told, requests |-> {}, sent |-> 0, used |-> {},
             reopened |-> FALSE, spoiled |-> {}, failed |-> {}, lost |-> {}]
    BY <1>5 DEF told
  <2> QED
    BY <1>2, <1>3, <2>1, <2>3, <2>4 DEF ActState
<1>7. /\ act.requests = {} /\ act.shown = held /\ act.held = held /\ act.pressed = held["upvoted_ids"]
      /\ act.up_count = up /\ act.endorsed = (held["endorsed"] # {})
  BY <1>5
<1>8. Numbered(act) /\ Crossings(act) /\ Undoes(act) /\ OneEach(act)
  BY <1>7 DEF Numbered, Crossings, Undoes, OneEach
<1>9. Stories(act)
  <2>1. \A c, k : Waiting({}, c, k) = {}
    BY DEF Waiting
  <2> QED
    BY <1>7, <2>1 DEF Stories, Story
<1>10. VotesAdd(act)
  <2>1. \A c, v : Counted({}, c, v) = {}
    BY DEF Counted
  <2>2. Cardinality({}) = 0
    BY FS_EmptySet
  <2>3. \A c \in Actions!Contents : up[c] + 0 - 0 = up[c]
    BY <1>3
  <2> QED
    BY <1>4, <1>7, <2>1, <2>2, <2>3 DEF VotesAdd
<1>11. PressedTells(act) /\ AnsweredTells(act)
  BY <1>7 DEF PressedTells, AnsweredTells
<1> QED
  BY <1>6, <1>8, <1>9, <1>10, <1>11 DEF ActInv

\* Every step keeps the invariant.
LEMMA ActionsKeeps ==
    ASSUME ActInv(act), [Actions!Next]_act
    PROVE  ActInv(act)'
<1>1. ActCore(act) /\ AnsweredTells(act) /\ act \in ActState
  BY DEF ActInv, ActCore
<1>2. Thread \in Actions!Contents /\ \A c \in Responses : c \in Actions!Contents /\ c # Thread
  BY Bounds DEF Actions!Contents
<1>3. ASSUME NEW c \in Actions!Contents, NEW k, k # "endorsed", Actions!Click(c, k),
             act' = Actions!updateWithUndo(act, c, k, Actions!Flipped(act, c, k))
      PROVE  ActInv(act)'
  <2>1. k \in Actions!KindsOf(c) /\ Actions!Enabled(act, c, k)
    BY <1>3 DEF Actions!Click
  <2>2. ActCore(act') /\ (k # "endorsed" /\ AnsweredTells(act) => AnsweredTells(act'))
    BY <1>1, <1>3, <2>1, SendKeeps
  <2> QED
    BY <1>1, <1>3, <2>2 DEF ActInv, ActCore
<1>4. CASE Actions!ToggleFollow
  BY <1>2, <1>3, <1>4 DEF Actions!ToggleFollow, Actions!toggleFollow
<1>5. CASE Actions!TogglePin
  BY <1>2, <1>3, <1>5 DEF Actions!TogglePin, Actions!togglePin
<1>6. CASE Actions!ToggleClose
  BY <1>2, <1>3, <1>6 DEF Actions!ToggleClose, Actions!toggleClose
<1>7. CASE Actions!ToggleReport
  BY <1>3, <1>7 DEF Actions!ToggleReport, Actions!toggleReport
<1>8. CASE Actions!ToggleVote
  BY <1>3, <1>8 DEF Actions!ToggleVote, Actions!toggleVote
<1>9. CASE Actions!ToggleEndorse
  <2>1. PICK c \in Responses : Actions!Click(c, "endorsed") /\ act' = Actions!toggleEndorse(act, c)
    BY <1>9 DEF Actions!ToggleEndorse
  <2>2. PICK now : /\ now = Actions!updateWithUndo(act, c, "endorsed", Actions!Flipped(act, c, "endorsed"))
                   /\ act' = [now EXCEPT !.endorsed = now.shown["endorsed"] # {}]
    BY <2>1 DEF Actions!toggleEndorse, Actions!endorseThread
  <2>3. "endorsed" \in Actions!KindsOf(c) /\ Actions!Enabled(act, c, "endorsed")
    BY <2>1 DEF Actions!Click
  <2>4. ActCore(now)
    BY <1>1, <1>2, <2>2, <2>3, SendKeeps
  <2>5. now \in ActState
    BY <2>4 DEF ActCore
  <2>6. /\ act' \in ActState /\ act'.shown = now.shown /\ act'.held = now.held
        /\ act'.pressed = now.pressed /\ act'.up_count = now.up_count
        /\ act'.requests = now.requests /\ act'.sent = now.sent
        /\ act'.reopened = now.reopened /\ act'.spoiled = now.spoiled
        /\ act'.failed = now.failed /\ act'.lost = now.lost
    BY <2>2, <2>5 DEF ActState
  <2>7. act'.endorsed = (act'.shown["endorsed"] # {})
    BY <2>2, <2>5 DEF ActState
  <2>8. /\ Numbered(act') /\ Crossings(act') /\ Undoes(act') /\ OneEach(act')
        /\ Stories(act') /\ VotesAdd(act') /\ PressedTells(act')
    BY <2>4, <2>6 DEF ActCore, Numbered, Crossings, Undoes, OneEach, Stories, VotesAdd,
                      PressedTells, Reliable
  <2> QED
    BY <2>6, <2>7, <2>8 DEF ActInv, AnsweredTells
<1>10. CASE Actions!CloseEditView
  BY <1>10, CloseEditKeeps
<1>11. CASE \E r \in act.requests : Actions!Served(r)
  BY <1>11, ServedKeeps
<1>12. CASE \E r \in act.requests : Actions!Succeeds(r)
  BY <1>12, SucceedsKeeps
<1>13. CASE \E r \in act.requests : Actions!Fails(r)
  BY <1>13, FailsKeeps
<1>14. CASE UNCHANGED act
  BY <1>14
<1> QED
  BY <1>4, <1>5, <1>6, <1>7, <1>8, <1>9, <1>10, <1>11, <1>12, <1>13, <1>14 DEF Actions!Next
--------------------------------------------------------------------------------
\* The invariant is what the checks ask of the buttons.
LEMMA ActIsSound ==
    ASSUME ActInv(act)
    PROVE  /\ Actions!TypeOK /\ Actions!ShownIsKept /\ Actions!OneAtATime
           /\ Actions!AnsweredHasAnswer /\ Actions!VotesAreCounted
<1>1. act \in ActState
  BY DEF ActInv
<1>2. Actions!TypeOK
  BY <1>1 DEF ActState, Actions!TypeOK
<1>3. ASSUME NEW c \in Actions!Contents, NEW k \in Actions!KindsOf(c),
             Actions!Pending(act, c, k) = {}, <<c, k>> \notin act.spoiled \cup act.lost
      PROVE  (c \in act.shown[k]) = (c \in act.held[k])
  <2>1. \A q \in act.requests : ~(q.of = c /\ q.kind = k)
    BY <1>3 DEF Actions!Pending
  <2>2. Waiting(act.requests, c, k) = {}
    BY <2>1 DEF Waiting
  <2> QED
    BY <1>3, <2>2 DEF ActInv, Stories, Reliable, Story
<1>4. Actions!ShownIsKept
  BY <1>3 DEF Actions!ShownIsKept
<1>5. Actions!OneAtATime
  <2> SUFFICES ASSUME NEW q \in act.requests, NEW r \in act.requests,
                      q.of = Thread, Actions!Newer(q, r), ~act.reopened
               PROVE  FALSE
    BY DEF Actions!OneAtATime
  <2>1. q = r
    BY DEF ActInv, OneEach, Actions!Newer
  <2>2. q.nr \in Nat
    BY <1>1 DEF ActState, Request
  <2>3. r.nr > q.nr
    BY DEF Actions!Newer
  <2> QED
    BY <2>1, <2>2, <2>3
<1>6. Actions!AnsweredHasAnswer
  BY DEF ActInv, AnsweredTells, Actions!AnsweredHasAnswer
<1>7. ASSUME NEW c \in Actions!Contents, Actions!Pending(act, c, "upvoted_ids") = {}
      PROVE  \A q \in act.requests : ~(q.of = c /\ q.kind = "upvoted_ids")
  BY <1>7 DEF Actions!Pending
<1>8. ASSUME NEW c \in Actions!Contents, Actions!Pending(act, c, "upvoted_ids") = {},
             <<c, "upvoted_ids">> \notin act.spoiled \cup act.lost
      PROVE  act.up_count[c] = IF c \in act.held["upvoted_ids"] THEN 1 ELSE 0
  <2>1. \A v : Counted(act.requests, c, v) = {}
    BY <1>7, <1>8 DEF Counted
  <2>2. act.up_count[c] \in Int /\ Cardinality({}) = 0
    BY <1>1, FS_EmptySet DEF ActState
  <2>3. act.up_count[c] + 0 - 0 = IF c \in act.held["upvoted_ids"] THEN 1 ELSE 0
    BY <1>8, <2>1, <2>2 DEF ActInv, VotesAdd, Reliable
  <2> QED
    BY <2>2, <2>3
<1>9. Actions!VotesAreCounted
  BY <1>7, <1>8 DEF ActInv, PressedTells, Actions!VotesAreCounted
<1> QED
  BY <1>2, <1>4, <1>5, <1>6, <1>9

(***************************************************************************)
(* What a button shows is what the service keeps when it is answered.      *)
(***************************************************************************)
THEOREM ShownIsAlwaysKept == Spec => []ShownIsKept
<1>1. Init => ActInv(act)
  BY ActionsStarts DEF Init
<1>2. ActInv(act) /\ [Next]_vars => ActInv(act)'
  <2> SUFFICES ASSUME ActInv(act), [Next]_vars
               PROVE  ActInv(act)'
    OBVIOUS
  <2>1. [Actions!Next]_act
    BY DEF Next, vars
  <2> QED
    BY <2>1, ActionsKeeps
<1>3. ActInv(act) => ShownIsKept
  BY ActIsSound DEF ShownIsKept
<1> QED
  BY <1>1, <1>2, <1>3, PTL DEF Spec
================================================================================
