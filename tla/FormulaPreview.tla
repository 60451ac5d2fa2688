----------------------------- MODULE FormulaPreview -----------------------------
(***************************************************************************)
(* formula_equation_preview.js: while a formula is typed, the server is    *)
(* asked how it would be read, at most once in 300 ms; the answers may     *)
(* cross, and an error is shown only after a while, in case more is typed. *)
(* A formula is the number of the change that made it, 0 the empty one.    *)
(***************************************************************************)
EXTENDS Integers, FiniteSets

CONSTANTS MaxEdits  \* bound: changes made

VARIABLE formula

\* What the server says of a formula: it can be read, or it cannot.
Verdicts == {"preview", "error"}
Request(start, text) == [start |-> start, text |-> text, verdict |-> "none"]
Nothing == [start |-> 0, text |-> 0, verdict |-> "preview"]
--------------------------------------------------------------------------------
display(s, response) == [s EXCEPT !.shown = response]

updatePage_AnyOrder(s, response) ==
    LET icon == IF response.start = s.lastSent /\ ~s.isWaitingForRequest
                THEN [s EXCEPT !.loading = FALSE] ELSE s
        now == [icon EXCEPT !.requestVisible = response.start, !.errorWaitTimeout = {}]
    IN  IF response.verdict = "error"
        THEN [now EXCEPT !.loading = TRUE, !.errorWaitTimeout = {response}]
        ELSE display(now, response)
\* An answer older than what is shown is dropped; an error waits, until a newer answer is there.
updatePage(s, response) ==
    LET icon == IF response.start = s.lastSent /\ ~s.isWaitingForRequest
                THEN [s EXCEPT !.loading = FALSE] ELSE s
        now == [icon EXCEPT !.requestVisible = response.start, !.errorWaitTimeout = {}]
    IN  IF response.start <= s.requestVisible THEN icon
        ELSE IF response.verdict = "error"
        THEN [now EXCEPT !.loading = TRUE, !.errorWaitTimeout = {response}]
        ELSE display(now, response)

\* The time is the number of the requests; that of an empty formula is answered at once.
sendRequest_StillWaiting(s) ==
    LET r == Request(s.clock, s.throttled)
        now == [s EXCEPT !.lastSent = s.clock, !.clock = @ + 1, !.due = FALSE]
    IN  IF s.throttled = 0 THEN updatePage(now, [r EXCEPT !.verdict = "preview"])
        ELSE [now EXCEPT !.requests = @ \cup {r}]
sendRequest(s) ==
    LET r == Request(s.clock, s.throttled)
        now == [s EXCEPT !.lastSent = s.clock, !.clock = @ + 1, !.isWaitingForRequest = FALSE,
                         !.due = FALSE]
    IN  IF s.throttled = 0 THEN updatePage(now, [r EXCEPT !.verdict = "preview"])
        ELSE [now EXCEPT !.requests = @ \cup {r}]

\* _.throttle with leading: false: the last formula is sent when the time is up.
initializeRequest_Leading(s, text) ==
    [s EXCEPT !.loading = TRUE, !.isWaitingForRequest = TRUE, !.due = TRUE,
              !.throttled = IF s.due THEN @ ELSE text]
initializeRequest(s, text) ==
    [s EXCEPT !.loading = TRUE, !.isWaitingForRequest = TRUE, !.due = TRUE, !.throttled = text]
--------------------------------------------------------------------------------
\* The input may hold a saved formula: its preview is asked for at once.
Init ==
    \E saved \in {0, 1} :
        formula = initializeRequest(
            [text |-> saved, edits |-> saved, lastSent |-> 0, clock |-> 1,
             isWaitingForRequest |-> FALSE, requestVisible |-> 0, errorWaitTimeout |-> {},
             loading |-> FALSE, throttled |-> 0, due |-> FALSE, requests |-> {},
             shown |-> Nothing, failed |-> FALSE], saved)

Type ==
    /\ formula.edits < MaxEdits
    /\ \E text \in {0, formula.edits + 1} :
        /\ text # formula.text
        /\ formula' = initializeRequest([formula EXCEPT !.text = text, !.edits = @ + 1], text)
ThrottleEnds == formula.due /\ formula' = sendRequest(formula)
Serve ==
    \E r \in formula.requests, verdict \in Verdicts :
        /\ r.verdict = "none"
        /\ formula' = [formula EXCEPT
                         !.requests = (@ \ {r}) \cup {[r EXCEPT !.verdict = verdict]}]
Arrives ==
    \E r \in formula.requests :
        /\ r.verdict # "none"
        /\ formula' = updatePage([formula EXCEPT !.requests = @ \ {r}], r)
\* Nothing hears of a request that fails.
Fails ==
    \E r \in formula.requests :
        formula' = [formula EXCEPT !.requests = @ \ {r}, !.failed = TRUE]
ErrorDelayEnds ==
    \E r \in formula.errorWaitTimeout :
        formula' = [display(formula, r) EXCEPT !.loading = FALSE, !.errorWaitTimeout = @ \ {r}]

Next == Type \/ ThrottleEnds \/ Serve \/ Arrives \/ Fails \/ ErrorDelayEnds
Fairness == WF_formula(ThrottleEnds) /\ WF_formula(Serve) /\ WF_formula(Arrives)
            /\ WF_formula(ErrorDelayEnds)
Spec == Init /\ [][Next]_formula /\ Fairness
--------------------------------------------------------------------------------
TypeOK == /\ formula.lastSent < formula.clock /\ formula.requestVisible <= formula.lastSent
          /\ Cardinality(formula.errorWaitTimeout) <= 1

\* Whatever order the answers come in, the preview never goes back to an older formula.
NeverBackwards == [][formula'.shown.start >= formula.shown.start]_formula

(***************************************************************************)
(* When all is quiet, the preview (or the error) is of what is in the      *)
(* input, and no icon says that it is still on its way; unless a request   *)
(* failed, when both may stay as they were.                                *)
(***************************************************************************)
Quiet == ~formula.due /\ formula.requests = {} /\ formula.errorWaitTimeout = {}
QuietIsCurrent ==
    Quiet /\ ~formula.failed => formula.shown.text = formula.text /\ ~formula.loading

\* It gets there, however much was typed.
CatchesUp == <>[](formula.shown.text = formula.text \/ formula.failed)
================================================================================
