-------------------------- MODULE GradingMethodsCheck --------------------------
(***************************************************************************)
(* The grading methods of GradingMethods against what they mean, over      *)
(* every history of at most MaxLength scores.                              *)
(***************************************************************************)
EXTENDS GradingMethods

CONSTANTS ScoreValues,   \* scores of one attempt, in hundredths
          MaxLength      \* bound: attempts in a history

ASSUME ScoresAssumption == ScoreValues \subseteq Nat

VARIABLES history,   \* the scores of the attempts so far
          total      \* what they come to

\* Ties that go up and ties that go down.
MCTieUp(h) == h[Len(h)] = 133

historyVars == <<history, total>>

FirstAttempt == \E s \in ScoreValues : history = <<s>> /\ total = s

NextAttempt ==
    /\ Len(history) < MaxLength
    /\ \E s \in ScoreValues : history' = Append(history, s) /\ total' = total + s

HistorySpec == FirstAttempt /\ [][NextAttempt]_historyVars

(***************************************************************************)
(* The average is a nearest number of hundredths to the exact mean of all  *)
(* attempts: no more than half a hundredth away from it.                   *)
(***************************************************************************)
AverageIsNearest ==
    LET n == Len(history)
        a == get_score("average_score", history)
        excess == IF a * n >= total THEN a * n - total ELSE total - a * n
    IN  2 * excess <= n

(***************************************************************************)
(* An attempt moves the score by its own rule only: the first score never  *)
(* changes, the highest never drops, the last is the attempt's own, and    *)
(* the average moves towards the attempt's score and never past it.        *)
(***************************************************************************)
MovesByItsRule ==
    LET s == history'[Len(history')]
        old(m) == get_score(m, history)
        new(m) == get_score(m, history')
    IN  /\ new("first_score") = old("first_score")
        /\ new("highest_score") >= old("highest_score")
        /\ new("highest_score") \in {old("highest_score"), s}
        /\ new("last_score") = s
        /\ s >= old("average_score") => new("average_score") \in old("average_score") .. s
        /\ s <= old("average_score") => new("average_score") \in s .. old("average_score")

AttemptMovesScore == [][MovesByItsRule]_historyVars
================================================================================
