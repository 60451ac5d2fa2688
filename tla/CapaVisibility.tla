---------------------------- MODULE CapaVisibility ----------------------------
(***************************************************************************)
(* What a page of ProblemBlock offers and reveals: the rules of            *)
(* problem/capa_block.py for the Submit, Save and Reset buttons and for    *)
(* the answer, as functions of the state of CapaProblem.  The rules write  *)
(* nothing, so the behaviours are those of CapaProblem.                    *)
(*                                                                         *)
(* The settings the rules read are parameters: the properties quantify     *)
(* over all of them.  The problem has a due date.                          *)
(***************************************************************************)
EXTENDS CapaProblem

ShowAnswerModes ==
    {"", "always", "answered", "attempted", "closed", "finished",
     "correct_or_past_due", "past_due", "never", "after_attempts",
     "after_all_attempts", "after_all_attempts_or_correct",
     "attempted_no_past_due"}

ShowCorrectnessModes == {"always", "past_due", "never"}

is_attempted_Done == done
is_attempted == attempts > 0

is_correct_OnTheMap == score_from_lcp(correct_map) = 100 * MaxPoints
is_correct == score = 100 * MaxPoints

is_survey_question == MaxAttempts = 0

(***************************************************************************)
(* The buttons.                                                            *)
(***************************************************************************)
should_enable_submit_button == ~closed /\ ~NeedsReset

should_show_reset_button(show_reset_button) ==
    /\ closed => is_survey_question
    /\ \/ Rerandomize \in {"always", "onreset"} /\ done
       \/ ~is_correct /\ show_reset_button

should_show_save_button(force_save_button) ==
    \/ force_save_button /\ ~closed
    \/ /\ ~force_save_button
       /\ MaxAttempts # Unlimited \/ Rerandomize = "always"
       /\ closed => is_survey_question
       /\ ~NeedsReset

(***************************************************************************)
(* The answer.  ShowCorrectness is the XBlock library's.                   *)
(***************************************************************************)
correctness_available(show_correctness, staff) ==
    /\ show_correctness # "never"
    /\ staff \/ show_correctness = "always" \/ pastDue

\* attempts_before_showanswer_button, cut to max_attempts when that is not 0.
required_attempts(before) ==
    IF MaxAttempts \notin {Unlimited, 0} /\ before >= MaxAttempts
    THEN MaxAttempts ELSE before

ShownBy(showanswer, before) ==
    CASE showanswer = "attempted"             -> is_attempted \/ pastDue
      [] showanswer = "answered"              -> is_correct
      [] showanswer = "closed"                -> closed
      [] showanswer = "finished"              -> closed \/ is_correct
      [] showanswer = "correct_or_past_due"   -> is_correct \/ pastDue
      [] showanswer = "past_due"              -> pastDue
      [] showanswer = "after_attempts"        -> attempts >= required_attempts(before)
      [] showanswer = "always"                -> TRUE
      [] showanswer = "after_all_attempts"    -> used_all_attempts
      [] showanswer = "after_all_attempts_or_correct" -> used_all_attempts \/ is_correct
      [] showanswer = "attempted_no_past_due" -> is_attempted
      [] OTHER                                -> FALSE

answer_available(showanswer, before, show_correctness, staff) ==
    /\ correctness_available(show_correctness, staff)
    /\ showanswer \notin {"", "never"}
    /\ staff \/ ShownBy(showanswer, before)
--------------------------------------------------------------------------------
Required == 0 .. 3   \* bound: values of attempts_before_showanswer_button

(***************************************************************************)
(* A learner who is shown the answer under a rule that waits for the end   *)
(* of the problem cannot submit that answer; under a rule that also shows  *)
(* it to those who are correct, the learner has full points already.  When *)
(* correctness is withheld until the due date, this holds under any rule.  *)
(***************************************************************************)
AnswerWaitsForTheEnd ==
    \A m \in ShowAnswerModes, c \in ShowCorrectnessModes, n \in Required :
        answer_available(m, n, c, FALSE) =>
            /\ m \in {"closed", "past_due", "after_all_attempts"} \/ c = "past_due"
               => ~should_enable_submit_button
            /\ m \in {"finished", "answered", "correct_or_past_due",
                      "after_all_attempts_or_correct"}
               => ~should_enable_submit_button \/ score = 100 * MaxPoints

(***************************************************************************)
(* An answer shown because of the number of attempts is never hidden again *)
(* by anything the learner or the staff do to the problem.                 *)
(***************************************************************************)
AnswerStaysVisible ==
    [][\A m \in {"attempted_no_past_due", "after_attempts", "after_all_attempts"},
          n \in Required :
           answer_available(m, n, "always", FALSE)
           => answer_available(m, n, "always", FALSE)']_vars

(***************************************************************************)
(* An answer that was shown to a learner, under any rule and any setting,  *)
(* is taken back for one of two causes only: the due date is moved into    *)
(* the future, or the rule is for learners who are correct and the score   *)
(* falls.  It falls with a new attempt, with a fresh problem in the place  *)
(* of one that was done, or when a save or a malformed submission writes   *)
(* back the points of a map that the score was not of.  A rescore, whose   *)
(* new points go to the gradebook and not to the block, takes nothing back. *)
(***************************************************************************)
RulesForTheCorrect ==
    {"answered", "finished", "correct_or_past_due", "after_all_attempts_or_correct"}

ScoreFalls ==
    /\ score' < score
    /\ \/ attempts' > attempts
       \/ done /\ ~done'
       \/ score # score_from_lcp(correct_map) /\ score' = score_from_lcp(correct_map)

\* Only one of the rules reads attempts_before_showanswer_button.
Rules == ((ShowAnswerModes \ {"after_attempts"}) \X {0}) \cup ({"after_attempts"} \X Required)

AnswerTakenBackForCause ==
    [][\A r \in Rules, c \in ShowCorrectnessModes :
           answer_available(r[1], r[2], c, FALSE) /\ ~answer_available(r[1], r[2], c, FALSE)'
           => \/ pastDue /\ ~pastDue'
              \/ r[1] \in RulesForTheCorrect /\ ScoreFalls
      ]_vars

(***************************************************************************)
(* A Save or Reset button that a page offers leads to a call its handler   *)
(* accepts: the rules that draw the page and the guards of the handlers    *)
(* are written separately, and the one of Reset is right for a survey only *)
(* because a survey is never done.  Two settings offer a button that is    *)
(* refused: force_save_button while a randomized problem waits for its     *)
(* reset, and show_reset_button while nothing was submitted.               *)
(***************************************************************************)
SaveAccepted  == (closed => MaxAttempts = 0) /\ ~NeedsReset
ResetAccepted == ~closed /\ done

OfferedIsAccepted ==
    \A force_save_button, show_reset_button \in BOOLEAN :
        /\ should_show_save_button(force_save_button)
           => SaveAccepted \/ (force_save_button /\ NeedsReset)
        /\ should_show_reset_button(show_reset_button)
           => ResetAccepted \/ (show_reset_button /\ ~done)

(***************************************************************************)
(* Full points on the block mean that the learner has an attempt whose     *)
(* grade is on display: neither a reset, a broken page nor a malformed or  *)
(* early submission leaves a problem that looks correct and is not done.   *)
(***************************************************************************)
CorrectIsEarned == MaxPoints > 0 /\ is_correct => done /\ is_attempted
================================================================================
