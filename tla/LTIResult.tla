------------------------------- MODULE LTIResult -------------------------------
(***************************************************************************)
(* The results an LTI provider reports: LTI 1.1 (grade_handler) and 2.0    *)
(* (lti_2_0_result_rest_handler).  A request binds the block to the        *)
(* learner, publishes the grade, and saves the block's own score and       *)
(* comment when it ends; one that fails in between has published only.     *)
(* Scores are in thousandths.                                              *)
(***************************************************************************)
EXTENDS Integers, FiniteSets

CONSTANTS Students, Scores, Comments,
          MaxResults,   \* bound: requests made in all
          MaxFlying     \* bound: requests at the same time

VARIABLE lti

NoScore == -1
Full == 1000
Settings == [has_score : BOOLEAN, weight : {1, 5}, accept_grades_past_due : BOOLEAN]
Result(op, l, score, comment) == [op |-> op, learner |-> l, score |-> score, comment |-> comment]
--------------------------------------------------------------------------------
max_score(s) == IF s.block.has_score THEN s.block.weight ELSE NoScore
_round_away_from_zero_Down(n) == {(n \div 10) * 10}
\* The hundredths nearest to a score.  The code floors a binary float, which is on
\* one side of a tie or on the other: 0.285 comes as 0.28, and 0.335 as 0.34.
_round_away_from_zero(n) ==
    {m \in {(n \div 10) * 10, (n \div 10) * 10 + 10} : m - n \in -5..5}

\* Past the due date nothing is heard; nor is a score that is not within 0 and 1.
lti_2_0_result_rest_handler(s, r) ==
    /\ s.block.accept_grades_past_due \/ ~s.past_due
    /\ r.op = "put" => r.score \in 0..Full \cup {NoScore}
grade_handler(s, r) ==
    /\ s.block.accept_grades_past_due \/ ~s.past_due
    /\ r.score \in 0..Full

\* A result without a score is a deletion, and its comment is not kept; LTI 1.1 has none.
clear_user_module_score_KeepsComment(s, r) ==
    [r EXCEPT !.op = "set", !.score = NoScore, !.comment = s.score_comment[r.learner]]
clear_user_module_score(s, r) == [r EXCEPT !.op = "set", !.score = NoScore, !.comment = ""]
_lti_2_0_result_put_handler(s, r) ==
    IF r.score = NoScore THEN clear_user_module_score(s, r)
    ELSE [r EXCEPT !.op = "set", !.score = IF s.block.has_score THEN @ * max_score(s) ELSE NoScore]
Handled(s, r) ==
    CASE r.op = "replace" -> _lti_2_0_result_put_handler(s, r)
      [] r.op = "put" -> _lti_2_0_result_put_handler(s, r)
      [] r.op = "delete" -> clear_user_module_score(s, r)

\* The grade goes out first, and the block has it when the request ends.
set_user_module_score_Unscaled(s, r) ==
    [s EXCEPT !.gradebook[r.learner] = IF r.score = NoScore THEN NoScore ELSE r.score \div max_score(s)]
set_user_module_score(s, r) == [s EXCEPT !.gradebook[r.learner] = r.score]
save(s, r) == [s EXCEPT !.module_score[r.learner] = r.score, !.score_comment[r.learner] = r.comment]

\* What may be told.
_lti_2_0_result_get_handler(s, l) ==
    IF s.module_score[l] = NoScore THEN [score : {NoScore}, comment : {""}]
    ELSE [score : _round_away_from_zero(s.module_score[l]), comment : {s.score_comment[l]}]
--------------------------------------------------------------------------------
Init ==
    \E b \in Settings :
        lti = [block |-> b, past_due |-> FALSE,
               module_score |-> [l \in Students |-> NoScore],
               score_comment |-> [l \in Students |-> ""],
               gradebook |-> [l \in Students |-> NoScore],
               got |-> [l \in Students |-> [score |-> NoScore, comment |-> ""]],
               running |-> {}, made |-> 0, given |-> {}, apart |-> {}]

\* A request is heard, and the grade it brings published.
Publishes(r) ==
    /\ lti.made < MaxResults /\ Cardinality(lti.running) < MaxFlying
    /\ IF r.op = "replace" THEN grade_handler(lti, r) ELSE lti_2_0_result_rest_handler(lti, r)
    /\ LET h == Handled(lti, r)
       IN  lti' = [set_user_module_score(lti, h) EXCEPT
              !.made = @ + 1, !.running = @ \cup {<<lti.made, h>>},
              !.given = @ \cup {<<r.learner, h.score, r.comment>>},
              !.apart = @ \cup IF \E q \in lti.running : q[2].learner = r.learner
                               THEN {r.learner} ELSE {}]
Saves(q) == lti' = [save(lti, q[2]) EXCEPT !.running = @ \ {q}]
\* The request fails once its grade is out.
Fails(q) == lti' = [lti EXCEPT !.running = @ \ {q}, !.apart = @ \cup {q[2].learner}]
Gets(l) == /\ lti_2_0_result_rest_handler(lti, Result("get", l, NoScore, ""))
           /\ \E told \in _lti_2_0_result_get_handler(lti, l) : lti' = [lti EXCEPT !.got[l] = told]
is_past_due == ~lti.past_due /\ lti' = [lti EXCEPT !.past_due = TRUE]

Next ==
    \/ \E l \in Students, n \in Scores :
          \/ Publishes(Result("replace", l, n, ""))
          \/ \E c \in Comments \cup {""} : Publishes(Result("put", l, n, c))
    \/ \E l \in Students :
          \/ \E c \in Comments \cup {""} : Publishes(Result("put", l, NoScore, c))
          \/ Publishes(Result("delete", l, NoScore, ""))
          \/ Gets(l)
    \/ \E q \in lti.running : Saves(q) \/ Fails(q)
    \/ is_past_due

Spec == Init /\ [][Next]_lti
--------------------------------------------------------------------------------
TypeOK == \A l \in Students : lti.module_score[l] \in {NoScore} \cup 0..5 * Full

(***************************************************************************)
(* The gradebook and the block agree on a learner's score when no request  *)
(* is running, unless one failed in between or two of them overlapped.     *)
(***************************************************************************)
GradebookAgrees ==
    \A l \in Students :
        l \notin lti.apart /\ (\A q \in lti.running : q[2].learner # l)
            => lti.gradebook[l] = lti.module_score[l]

(***************************************************************************)
(* The comment a learner reads beside a score was given with that score,   *)
(* also when requests overlapped or failed.                                *)
(***************************************************************************)
CommentIsOfTheScore ==
    \A l \in Students : lti.score_comment[l] # ""
        => <<l, lti.module_score[l], lti.score_comment[l]>> \in lti.given

(***************************************************************************)
(* What the provider is told of a result it has put is within half a       *)
(* hundredth of what the gradebook has.                                    *)
(***************************************************************************)
GetTellsGrade ==
    [][\A l \in Students :
          /\ lti'.got[l] # lti.got[l] /\ l \notin lti.apart
          /\ \A q \in lti.running : q[2].learner # l
          => IF lti.gradebook[l] = NoScore THEN lti'.got[l].score = NoScore
             ELSE /\ lti'.got[l].score - lti.gradebook[l] \in -5..5
                  /\ lti'.got[l].score % 10 = 0]_lti
================================================================================
