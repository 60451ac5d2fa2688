----------------------------- MODULE ProblemButtons -----------------------------
(***************************************************************************)
(* The buttons of a Problem (display.js) that is graded at once: Submit,   *)
(* Save and Reset, which disable all buttons while they run; Show answer   *)
(* and Hint, which do not; what is typed meanwhile; and the notifications  *)
(* and marks that tell the learner what became of the answer.  Requests    *)
(* are served and answered in any order.  The polled problem, the gate of  *)
(* file submissions and the rendering loop are in ProblemPage.             *)
(***************************************************************************)
EXTENDS Integers, FiniteSets

CONSTANTS Values,       \* answers that can be entered, besides 0: none
          MaxAttempts, MaxHints,
          MaxRequests,  \* bound: requests made in all
          MaxFlying     \* bound: requests at the same time

VARIABLE problem

Buttons == {"submit", "save", "reset", "show", "hint"}
Changing == {"submit", "save", "reset"}
--------------------------------------------------------------------------------
\* The html of the problem as it is on the server, with the answer that is kept there.
Html(server, note) ==
    [seed |-> server.seed, value |-> server.saved, attempts |-> server.attempts,
     mark |-> IF server.done THEN server.graded ELSE 0,
     shouldEnableSubmit |-> server.attempts < MaxAttempts,
     notes |-> note \cup (IF server.hasSaved THEN {"save"} ELSE {})]

\* A new html, bound: its buttons are its own, and Submit waits for an answer.
render(p, html) ==
    [p EXCEPT !.gen = @ + 1, !.seed = html.seed, !.value = html.value, !.mark = html.mark,
              !.shouldEnableSubmit = html.shouldEnableSubmit, !.notes = html.notes,
              !.disabled = IF html.value # 0 /\ html.shouldEnableSubmit THEN {} ELSE {"submit"},
              !.submitting = FALSE, !.hint = 0, !.hint_index = 0, !.seen = 0,
              !.edited = FALSE]

updateProgress_Always(p, r) == [p EXCEPT !.attempts = r.progress]
updateProgress(p, r) == IF r.progress_changed THEN [p EXCEPT !.attempts = r.progress] ELSE p

clear_all_notifications(p) == [p EXCEPT !.notes = @ \ {"submit", "alert", "save", "show"}]
gentle_alert(p) == [clear_all_notifications(p) EXCEPT !.notes = @ \cup {"alert"}]

enableSubmitButton(p, enable, changeText) ==
    [p EXCEPT !.disabled = IF ~enable THEN @ \cup {"submit"}
                           ELSE IF p.shouldEnableSubmit THEN @ \ {"submit"} ELSE @,
              !.submitting = IF changeText THEN ~enable ELSE @]

\* The buttons are those of the html they were found in, but for Submit.
enableButtons(p, buttons, gen, enable, changeText) ==
    LET others == buttons \ {"submit"}
        now == IF gen # p.gen THEN p
               ELSE [p EXCEPT !.disabled = IF enable THEN @ \ others ELSE @ \cup others]
    IN  IF "submit" \in buttons THEN enableSubmitButton(now, enable, changeText) ELSE now

Sent(p, op, buttons, arg) ==
    [p EXCEPT !.made = @ + 1, !.crossed = @ \/ (op \in Changing /\ \E r \in p.requests : r.op \in Changing),
              !.requests = @ \cup {[op |-> op, nr |-> p.made, buttons |-> buttons, gen |-> p.gen,
                                    arg |-> arg, status |-> "sent", html |-> <<>>,
                                    progress |-> 0, progress_changed |-> FALSE]}]

disableAllButtonsWhileRunning(p, op, arg) ==
    LET enabled == Buttons \ p.disabled
    IN  Sent(enableButtons(p, enabled, p.gen, FALSE, op = "submit"), op, enabled, arg)

\* What is entered changes: it is not the answer that was marked, nor the one that was saved.
bindResetCorrectness_Once(p) == IF p.edited THEN p ELSE [p EXCEPT !.mark = 0]
bindResetCorrectness(p) == [p EXCEPT !.mark = 0]
submitAnswersAndSubmitButton(p) ==
    LET now == [p EXCEPT !.notes = @ \ {"save", "show"}, !.disabled = @ \ {"show"}]
    IN  IF p.value # 0 THEN enableSubmitButton(now, TRUE, TRUE)
        ELSE enableSubmitButton(now, FALSE, FALSE)

submit_internal(p, r) ==
    IF r.status = "done" THEN updateProgress(render(p, r.html), r)
    ELSE gentle_alert([p EXCEPT !.notes = @ \ {"save"}])
reset_internal(p, r) ==
    IF r.status = "done" THEN updateProgress(render(p, r.html), r) ELSE gentle_alert(p)
save_internal(p, r) ==
    IF r.status = "done" THEN [clear_all_notifications(p) EXCEPT !.notes = @ \cup {"save"}]
    ELSE gentle_alert(p)

\* The answers are put into the html that is there by now, whichever problem they are of.
show(p, r) ==
    [clear_all_notifications(updateProgress(p, r)) EXCEPT
        !.disabled = @ \cup {"show"}, !.notes = @ \cup {"show"}]

hint_button_CountsClicks(p, r) ==
    [p EXCEPT !.hint = r.arg, !.seen = IF @ < r.arg THEN r.arg ELSE @, !.hint_index = @ + 1,
              !.disabled = IF r.arg < MaxHints THEN @ \ {"hint"} ELSE @ \cup {"hint"},
              !.notes = @ \cup {"hint"}]
\* The hint is shown in the html of now, its number kept in that of the click.
hint_button(p, r) ==
    [p EXCEPT !.hint = r.arg, !.seen = IF @ < r.arg THEN r.arg ELSE @,
              !.hint_index = IF r.gen = p.gen THEN r.arg ELSE @,
              !.disabled = IF r.arg < MaxHints THEN @ \ {"hint"} ELSE @ \cup {"hint"},
              !.notes = @ \cup {"hint"}]

Handled(p, r) ==
    CASE r.op = "submit" -> submit_internal(p, r)
      [] r.op = "reset" -> reset_internal(p, r)
      [] r.op = "save" -> save_internal(p, r)
      [] r.op = "show" -> show(p, r)
      [] r.op = "hint" -> hint_button(p, r)
always(p, r) ==
    IF r.op \in Changing THEN enableButtons(p, r.buttons, r.gen, TRUE, r.op = "submit") ELSE p
--------------------------------------------------------------------------------
Init ==
    LET server == [attempts |-> 0, seed |-> 1, saved |-> 0, graded |-> 0, done |-> FALSE,
                   hasSaved |-> FALSE]
    IN  problem = render([server |-> server, gen |-> 0, seed |-> 1, value |-> 0, mark |-> 0,
                          shouldEnableSubmit |-> TRUE, notes |-> {}, disabled |-> {},
                          submitting |-> FALSE, hint |-> 0, hint_index |-> 0, seen |-> 0,
                          edited |-> FALSE, attempts |-> 0, requests |-> {}, made |-> 0,
                          crossed |-> FALSE, lost |-> FALSE, typedWhile |-> FALSE], Html(server, {}))

Type ==
    \E value \in (Values \cup {0}) \ {problem.value} :
        LET p == bindResetCorrectness([problem EXCEPT !.value = value, !.edited = TRUE,
                     !.typedWhile = @ \/ \E r \in problem.requests : r.op \in Changing])
        IN  problem' = submitAnswersAndSubmitButton(p)

Enabled(b) == /\ b \notin problem.disabled /\ problem.made < MaxRequests
              /\ Cardinality(problem.requests) < MaxFlying
Click(b) ==
    /\ Enabled(b) /\ b \in Changing
    /\ problem' = disableAllButtonsWhileRunning(problem, b, problem.value)
ClickShow == Enabled("show") /\ problem' = Sent(problem, "show", {}, 1)
ClickHint == Enabled("hint") /\ problem' = Sent(problem, "hint", {}, problem.hint_index + 1)

\* The server handles it, or refuses: the problem is closed, or has nothing to reset.
Closed == problem.server.attempts >= MaxAttempts
Serve(r, server, status, html) ==
    problem' = [problem EXCEPT
        !.server = server,
        !.requests = {q \in @ : q.nr # r.nr} \cup {[r EXCEPT !.status = status, !.html = html,
                         !.progress = server.attempts,
                         !.progress_changed = server.attempts # problem.server.attempts]}]
ServeSubmit(r) ==
    LET server == [problem.server EXCEPT !.attempts = @ + 1, !.saved = r.arg, !.graded = r.arg,
                                         !.done = TRUE, !.hasSaved = FALSE]
    IN  /\ r.op = "submit"
        /\ IF Closed THEN Serve(r, problem.server, "refused", <<>>)
           ELSE Serve(r, server, "done", Html(server, {"submit"}))
ServeSave(r) ==
    /\ r.op = "save"
    /\ IF Closed THEN Serve(r, problem.server, "refused", <<>>)
       ELSE Serve(r, [problem.server EXCEPT !.saved = r.arg, !.hasSaved = TRUE], "done", <<>>)
ServeReset(r) ==
    LET server == [problem.server EXCEPT !.seed = @ + 1, !.saved = 0, !.graded = 0,
                                         !.done = FALSE, !.hasSaved = FALSE]
    IN  /\ r.op = "reset"
        /\ IF Closed \/ ~problem.server.done THEN Serve(r, problem.server, "refused", <<>>)
           ELSE Serve(r, server, "done", Html(server, {}))
\* Hints are counted round, and nothing else changes.
ServeOther(r) ==
    /\ r.op \in {"show", "hint"}
    /\ Serve([r EXCEPT !.arg = ((@ - 1) % MaxHints) + 1], problem.server, "done", <<>>)

Arrives(r) ==
    LET p == [problem EXCEPT !.requests = @ \ {r}]
    IN  r.status # "sent" /\ problem' = always(Handled(p, r), r)
Fails(r) ==
    problem' = always([problem EXCEPT !.requests = @ \ {r}, !.lost = TRUE], r)

Next ==
    \/ Type \/ ClickShow \/ ClickHint
    \/ \E b \in Buttons : Click(b)
    \/ \E r \in problem.requests :
           \/ r.status = "sent" /\ (ServeSubmit(r) \/ ServeSave(r) \/ ServeReset(r) \/ ServeOther(r))
           \/ Arrives(r) \/ Fails(r)

Spec == Init /\ [][Next]_problem
--------------------------------------------------------------------------------
TypeOK == /\ problem.value \in Values \cup {0} /\ problem.hint \in 0 .. MaxHints
          /\ problem.attempts \in 0 .. MaxAttempts /\ problem.disabled \subseteq Buttons

Running == \E r \in problem.requests : r.op \in Changing

(***************************************************************************)
(* When nothing runs, every button can be used again that can be used at   *)
(* all, and Submit says "Submit", whatever failed, was refused or crossed. *)
(***************************************************************************)
ButtonsComeBack ==
    ~Running => /\ problem.disabled \cap {"save", "reset"} = {}
                /\ ~problem.submitting
                /\ problem.value # 0 /\ problem.shouldEnableSubmit => "submit" \notin problem.disabled

(***************************************************************************)
(* A mark is of the answer that is entered: typing takes it away, and a    *)
(* submission answered meanwhile brings its own answer back with it.       *)
(***************************************************************************)
MarkIsOfEntered == problem.mark # 0 => problem.mark = problem.value

\* "Saved" is said of the answer that is entered, unless it was changed while being saved.
SavedIsKept ==
    "save" \in problem.notes /\ ~Running /\ ~problem.typedWhile /\ ~problem.lost
        => problem.server.saved = problem.value

\* One thing is said of the last action: notifications do not add up.
OneNotification == Cardinality(problem.notes \ {"hint"}) <= 1

(***************************************************************************)
(* A hint is shown only after the one before it was, though the answers to *)
(* clicks cross; but for a hint asked for in an html that is gone.         *)
(***************************************************************************)
HintsInOrder ==
    [][\A r \in problem.requests \ problem'.requests :
           r.op = "hint" /\ r.gen = problem.gen => problem'.hint <= problem.seen + 1]_problem

(***************************************************************************)
(* A page with nothing on its way tells the attempts that were used and    *)
(* shows the problem there is, though hints and answers shown meanwhile    *)
(* are answered late; unless an answer was lost, or two actions crossed    *)
(* after typing had enabled Submit again.                                  *)
(***************************************************************************)
QuietIsCurrent ==
    problem.requests = {} /\ ~problem.lost /\ ~problem.crossed
        => problem.attempts = problem.server.attempts /\ problem.seed = problem.server.seed

\* Only typing enables Submit while an action runs, so only then are two sent at once.
NotTwice == problem.crossed => problem.typedWhile
================================================================================
