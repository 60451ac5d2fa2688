----------------------------- MODULE CapaAttempts -----------------------------
(***************************************************************************)
(* What a problem promises the learner and the course staff about attempts *)
(* and grades, without answers, maps, histories or rendering.              *)
(*                                                                         *)
(*   - an attempt is spent only on a problem that is open, and, when the   *)
(*     problem must be renewed between attempts, only on a fresh one;      *)
(*   - no call spends more than one attempt, and nothing gives one back;   *)
(*   - the grade in the gradebook changes only by an attempt, by the       *)
(*     learner's renewing an open problem (to nothing), or by the staff's  *)
(*     regrading an attempted one, which can be told never to lower it.    *)
(***************************************************************************)
EXTENDS Naturals

CONSTANTS Grades,      \* possible grades, 0 among them
          Limit,       \* attempts allowed, or NoLimit
          NoLimit,
          MustRenew    \* attempts are separated by renewals

VARIABLES used,    \* attempts spent
          fresh,   \* not attempted since it was last renewed
          late,    \* the due date has passed
          grade

avars == <<used, fresh, late, grade>>

Init == /\ used \in Nat
        /\ fresh \in BOOLEAN
        /\ late = FALSE
        /\ grade \in Grades
        /\ used = 0 => fresh /\ grade = 0

Open == ~late /\ (Limit = NoLimit \/ used < Limit)

\* A submission whose page cannot be rendered leaves the problem fresh.
Attempt == /\ Open
           /\ MustRenew => fresh
           /\ used' = used + 1
           /\ fresh' \in BOOLEAN
           /\ grade' \in Grades
           /\ UNCHANGED late

Renew == /\ Open
         /\ ~fresh
         /\ fresh' = TRUE
         /\ grade' = 0
         /\ UNCHANGED <<used, late>>

\* A stored answer that breaks the page renews the problem, and keeps the grade.
Recover == ~fresh /\ fresh' = TRUE /\ UNCHANGED <<used, late, grade>>

Regrade(only_if_higher) ==
    /\ ~fresh
    /\ grade' \in {g \in Grades : only_if_higher => g >= grade}
    /\ UNCHANGED <<used, fresh, late>>

DueDateChange == late' = ~late /\ UNCHANGED <<used, fresh, grade>>

Next == \/ Attempt
        \/ Renew
        \/ Recover
        \/ \E only_if_higher \in BOOLEAN : Regrade(only_if_higher)
        \/ DueDateChange

Spec == Init /\ [][Next]_avars
================================================================================
