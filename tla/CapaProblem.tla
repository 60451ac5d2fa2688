------------------------------ MODULE CapaProblem ------------------------------
(***************************************************************************)
(* One learner's state of one ProblemBlock (problem/capa_block.py) with    *)
(* its LoncapaProblem (problem/capa/capa_problem.py), for a problem whose  *)
(* responses are graded while the request is handled.  A problem graded by *)
(* an external queue is module XQueueGrading.                              *)
(*                                                                         *)
(* The XBlock runtime builds the block from the saved user_state fields,   *)
(* calls one handler, and saves the fields when the handler returns; a     *)
(* handler that raises saves nothing.  So an action is one handler call    *)
(* that returns, and a call that raises (a closed problem, an unreset      *)
(* randomized one, a rescore that fails) is a step that changes nothing.   *)
(*                                                                         *)
(* A problem has one input.  Its whole answer is a member of Answers, and  *)
(* its correct map says which answer was graded and the points awarded.    *)
(***************************************************************************)
EXTENDS Naturals, Sequences, GradingMethods

CONSTANTS
    Answers,            \* what a learner can submit
    MalformedAnswers,   \* graders raise StudentInputError on these
    CorruptAnswers,     \* the problem cannot be rendered with these
    NoAnswer,           \* the empty answers dict
    Keys,               \* versions of the problem an author can publish
    Seeds,              \* seeds of choose_new_seed
    Points(_, _, _),    \* points of an answer, under a key and a seed
    MaxPoints,          \* get_max_score()
    MaxAttempts,        \* max_attempts, or Unlimited for None
    Unlimited,
    GradingMethod,      \* grading_method
    Rerandomize,        \* rerandomize
    HasWait,            \* submission_wait_seconds not in [0, None]
    HistoryBound        \* bound: submissions kept in student_answers_history

ASSUME AnswersAssumption ==
    /\ MalformedAnswers \subseteq Answers
    /\ CorruptAnswers \subseteq Answers
    /\ NoAnswer \notin Answers

ASSUME SettingsAssumption ==
    /\ MaxAttempts \in Nat \/ MaxAttempts = Unlimited
    /\ Unlimited \notin Nat
    /\ GradingMethod \in Methods
    /\ Rerandomize \in {"always", "onreset", "never", "per_student"}
    /\ HasWait \in BOOLEAN
    /\ HistoryBound \in Nat

ASSUME PointsAssumption ==
    /\ MaxPoints \in Nat
    /\ \A k \in Keys, s \in Seeds, a \in Answers : Points(k, s, a) \in 0 .. MaxPoints

VARIABLES
    attempts, done, seed, score,
    student_answers, has_saved_answers, correct_map,
    student_answers_history, correct_map_history, score_history,
    waiting,     \* last_submission_time is less than submission_wait_seconds ago
    pastDue,     \* is_past_due()
    key,         \* the published version of the problem
    gradebook,   \* the grade the LMS keeps from the published "grade" events
    graded       \* history variable: the answer graded by each attempt, in order

lcpState == <<done, student_answers, has_saved_answers, correct_map,
              correct_map_history>>
settings == <<pastDue, key>>
vars == <<attempts, seed, score, lcpState, student_answers_history,
          score_history, waiting, settings, gradebook, graded>>

(***************************************************************************)
(* The handlers' vocabulary.                                               *)
(***************************************************************************)
\* A correct map as it is graded; "of" records the answer it was computed from.
NoMap == [of |-> NoAnswer, points |-> 0]
Grade(a) == [of |-> a, points |-> Points(key, seed, a)]
CorrectMaps == [of : Answers \cup {NoAnswer}, points : 0 .. MaxPoints]

score_from_lcp(map) == 100 * map.points

used_all_attempts == MaxAttempts # Unlimited /\ attempts >= MaxAttempts
closed == used_all_attempts \/ pastDue

NeedsReset == done /\ Rerandomize = "always"

\* choose_new_seed: random for "always" and "onreset", fixed otherwise.
NewSeeds == IF Rerandomize \in {"always", "onreset"} THEN Seeds ELSE {seed}

\* What the LMS does with a published grade (external).
Published(new, only_if_higher) ==
    IF only_if_higher /\ gradebook > new THEN gradebook ELSE new

FreshProblem_KeepsDone ==
    /\ UNCHANGED done
    /\ student_answers' = NoAnswer
    /\ has_saved_answers' = FALSE
    /\ correct_map' = NoMap
    /\ correct_map_history' = << >>
    /\ score' = 0

FreshProblem_KeepsMaps ==
    /\ done' = FALSE
    /\ student_answers' = NoAnswer
    /\ has_saved_answers' = FALSE
    /\ correct_map' = NoMap
    /\ UNCHANGED correct_map_history
    /\ score' = 0

FreshProblem_KeepsScore ==
    /\ done' = FALSE
    /\ student_answers' = NoAnswer
    /\ has_saved_answers' = FALSE
    /\ correct_map' = NoMap
    /\ correct_map_history' = << >>
    /\ UNCHANGED score

\* new_lcp(None) followed by set_state_from_lcp and set_score: a problem that
\* was never answered.
FreshProblem ==
    /\ done' = FALSE
    /\ student_answers' = NoAnswer
    /\ has_saved_answers' = FALSE
    /\ correct_map' = NoMap
    /\ correct_map_history' = << >>
    /\ score' = 0
--------------------------------------------------------------------------------
(***************************************************************************)
(* A learner who never opened the problem, or one who answered it once     *)
(* before the three history fields existed: they read as their default [].*)
(***************************************************************************)
NewLearner ==
    /\ attempts = 0
    /\ done = FALSE
    /\ student_answers = NoAnswer
    /\ correct_map = NoMap
    /\ score = 0

LearnerWithoutHistory ==
    /\ MaxAttempts # 0
    /\ attempts = 1
    /\ done = TRUE
    /\ student_answers \in Answers \ (MalformedAnswers \cup CorruptAnswers)
    /\ correct_map = Grade(student_answers)
    /\ score = score_from_lcp(correct_map)

Init ==
    /\ seed \in Seeds
    /\ key \in Keys
    /\ NewLearner \/ LearnerWithoutHistory
    /\ has_saved_answers = FALSE
    /\ student_answers_history = << >>
    /\ correct_map_history = << >>
    /\ score_history = << >>
    /\ waiting = FALSE
    /\ pastDue = FALSE
    /\ gradebook = score
    /\ graded = << >>

(***************************************************************************)
(* submit_problem.  The submission is recorded in student_answers_history  *)
(* before anything is checked.                                             *)
(***************************************************************************)
RecordSubmission_WhenClosed(a) ==
    /\ Len(student_answers_history) < HistoryBound
    /\ ~used_all_attempts
    /\ ~NeedsReset
    /\ student_answers_history' = Append(student_answers_history, a)

RecordSubmission_Unreset(a) ==
    /\ Len(student_answers_history) < HistoryBound
    /\ ~closed
    /\ student_answers_history' = Append(student_answers_history, a)

RecordSubmission(a) ==
    /\ Len(student_answers_history) < HistoryBound
    /\ ~closed
    /\ ~NeedsReset
    /\ student_answers_history' = Append(student_answers_history, a)

\* "You must wait at least ... between submissions."
SubmitTooSoon(a) ==
    /\ RecordSubmission(a)
    /\ waiting
    /\ UNCHANGED <<attempts, seed, score, lcpState, score_history, waiting,
                   settings, gradebook, graded>>

\* A grader raises StudentInputError: the answers are kept, the attempt is not
\* counted, and the score is the one of the map that was there before.
SubmitMalformed(a) ==
    /\ RecordSubmission(a)
    /\ ~waiting
    /\ a \in MalformedAnswers
    /\ student_answers' = a
    /\ has_saved_answers' = FALSE
    /\ score' = score_from_lcp(correct_map)
    /\ UNCHANGED <<attempts, done, seed, correct_map, correct_map_history,
                   score_history, waiting, settings, gradebook, graded>>

\* The submission is graded, counted and published, and then rendered: when the
\* rendering fails the problem is replaced by a fresh one.
SubmitGraded(a) ==
    /\ RecordSubmission(a)
    /\ ~waiting
    /\ a \in Answers \ MalformedAnswers
    /\ attempts' = attempts + 1
    /\ graded' = Append(graded, a)
    /\ score_history' = Append(score_history, score_from_lcp(Grade(a)))
    /\ gradebook' = Published(get_score(GradingMethod, score_history'), FALSE)
    /\ waiting' = HasWait
    /\ IF a \in CorruptAnswers
       THEN FreshProblem
       ELSE /\ done' = TRUE
            /\ student_answers' = a
            /\ has_saved_answers' = FALSE
            /\ correct_map' = Grade(a)
            /\ correct_map_history' = Append(correct_map_history, Grade(a))
            /\ score' = get_score(GradingMethod, score_history')
    /\ UNCHANGED <<seed, settings>>

Save_NoFlag(a) ==
    /\ closed => MaxAttempts = 0
    /\ ~NeedsReset
    /\ student_answers' = a
    /\ score' = score_from_lcp(correct_map)
    /\ UNCHANGED <<attempts, done, seed, has_saved_answers, correct_map,
                   correct_map_history, student_answers_history, score_history,
                   waiting, settings, gradebook, graded>>

(***************************************************************************)
(* save_problem.  A survey (max_attempts of 0) can be saved when closed.   *)
(* The reply renders the problem, too.                                     *)
(***************************************************************************)
Save(a) ==
    /\ closed => MaxAttempts = 0
    /\ ~NeedsReset
    /\ IF a \in CorruptAnswers
       THEN FreshProblem
       ELSE /\ student_answers' = a
            /\ has_saved_answers' = TRUE
            /\ score' = score_from_lcp(correct_map)
            /\ UNCHANGED <<done, correct_map, correct_map_history>>
    /\ UNCHANGED <<attempts, seed, student_answers_history, score_history,
                   waiting, settings, gradebook, graded>>

\* reset_problem: the seed changes only for "always" and "onreset", and the
\* fresh problem's grade is published.
Reset ==
    /\ ~closed
    /\ done
    /\ seed' \in NewSeeds
    /\ FreshProblem
    /\ gradebook' = Published(0, FALSE)
    /\ UNCHANGED <<attempts, student_answers_history, score_history, waiting,
                   settings, graded>>

\* get_problem and student_view: rendering answers that were stored without
\* being rendered may fail, and then the problem is replaced by a fresh one.
View ==
    /\ student_answers \in CorruptAnswers
    /\ FreshProblem
    /\ UNCHANGED <<attempts, seed, student_answers_history, score_history,
                   waiting, settings, gradebook, graded>>

(***************************************************************************)
(* rescore, a background task of the course staff.  The two histories are  *)
(* zipped: an answer is paired with the map at its own position, and the   *)
(* longer history is cut.  A grader that raises makes the whole call raise.*)
(***************************************************************************)
PairedAttempts ==
    1 .. (IF Len(student_answers_history) < Len(correct_map_history)
          THEN Len(student_answers_history) ELSE Len(correct_map_history))

RescoreSucceeds ==
    \A i \in PairedAttempts : student_answers_history[i] \notin MalformedAnswers

Rescore(only_if_higher) ==
    /\ done
    /\ RescoreSucceeds
    /\ correct_map_history' =
           [i \in PairedAttempts |-> Grade(student_answers_history[i])]
    /\ correct_map' =
           IF correct_map_history' = << >>
           THEN correct_map
           ELSE correct_map_history'[Len(correct_map_history')]
    /\ score_history' =
           SeededHistory(score, [i \in PairedAttempts |->
                                     score_from_lcp(correct_map_history'[i])])
    /\ gradebook' = Published(get_score(GradingMethod, score_history'), only_if_higher)
    /\ UNCHANGED <<attempts, done, seed, score, student_answers, has_saved_answers,
                   student_answers_history, waiting, settings, graded>>

(***************************************************************************)
(* Time, and the author of the problem.                                    *)
(***************************************************************************)
block == <<attempts, seed, score, lcpState, student_answers_history,
           score_history, gradebook, graded>>

WaitEnds == waiting /\ waiting' = FALSE /\ UNCHANGED <<block, settings>>

\* The due date passes, or it is extended.
DueDateChange == pastDue' = ~pastDue /\ UNCHANGED <<block, waiting, key>>

\* A new version of the problem is published.
Publish == /\ key' \in Keys \ {key}
           /\ UNCHANGED <<block, waiting, pastDue>>

Next ==
    \/ \E a \in Answers : \/ SubmitTooSoon(a)
                          \/ SubmitMalformed(a)
                          \/ SubmitGraded(a)
                          \/ Save(a)
    \/ Reset
    \/ View
    \/ \E only_if_higher \in BOOLEAN : Rescore(only_if_higher)
    \/ WaitEnds
    \/ DueDateChange
    \/ Publish

Spec == Init /\ [][Next]_vars
--------------------------------------------------------------------------------
(***************************************************************************)
(* Type invariant.  Whatever the grading method and whatever was regraded, *)
(* each score the block holds or publishes lies between nothing and full   *)
(* points.                                                                 *)
(***************************************************************************)
Scores == 0 .. 100 * MaxPoints

TypeOK ==
    /\ attempts \in Nat
    /\ done \in BOOLEAN
    /\ seed \in Seeds
    /\ score \in Scores
    /\ student_answers \in Answers \cup {NoAnswer}
    /\ has_saved_answers \in BOOLEAN
    /\ correct_map \in CorrectMaps
    /\ student_answers_history \in Seq(Answers)
    /\ correct_map_history \in Seq(CorrectMaps)
    /\ score_history \in Seq(Scores)
    /\ waiting \in BOOLEAN
    /\ pastDue \in BOOLEAN
    /\ key \in Keys
    /\ gradebook \in Scores
    /\ graded \in Seq(Answers)

(***************************************************************************)
(* The attempts counter never passes max_attempts, and no history of       *)
(* graded attempts is longer than the counter: a malformed, early or       *)
(* refused submission, a reset and a rescore consume and create none.      *)
(***************************************************************************)
AttemptsAccounted ==
    /\ MaxAttempts # Unlimited => attempts <= MaxAttempts
    /\ Len(graded) <= attempts
    /\ Len(correct_map_history) <= Len(graded)
    /\ Len(score_history) <= attempts

(***************************************************************************)
(* student_answers_history is at least as long as correct_map_history, and *)
(* when the two are equally long they pair every attempt with the answer   *)
(* that was graded on it: the zip of update_correctness_list is right      *)
(* exactly for the learners whose histories have the same length.          *)
(***************************************************************************)
AlignedWhenSameLength ==
    /\ Len(correct_map_history) <= Len(student_answers_history)
    /\ Len(correct_map_history) = Len(student_answers_history)
       => student_answers_history = graded

(***************************************************************************)
(* The correct map on display is the last of the map history, and the      *)
(* newest scores of the score history are the points of those maps, after  *)
(* any mix of submissions, saves, resets, rescores and broken renderings.  *)
(***************************************************************************)
HistoriesAgree ==
    LET n == Len(correct_map_history)
        k == Len(score_history) - n
    IN  n > 0 => /\ done
                 /\ correct_map = correct_map_history[n]
                 /\ k >= 0
                 /\ \A i \in 1 .. n : score_history[k + i] =
                                          score_from_lcp(correct_map_history[i])

(***************************************************************************)
(* A problem is done exactly when its correct map holds a grade, and a     *)
(* problem nobody attempted has earned nothing anywhere.                   *)
(***************************************************************************)
DoneMeansGraded ==
    /\ done <=> correct_map.of # NoAnswer
    /\ attempts = 0 => ~done /\ score = 0 /\ gradebook = 0

(***************************************************************************)
(* What the learner reads next to the answers is the grade of those        *)
(* answers, unless they were saved since or the last submission was        *)
(* malformed.  Only a rescore of histories of different lengths can break  *)
(* this: it then shows the grade of another attempt's answer.              *)
(***************************************************************************)
DisplayAgrees ==
    done => \/ correct_map.of = student_answers
            \/ has_saved_answers
            \/ student_answers \in MalformedAnswers

OnlySkewedRescoreMislabels ==
    [][DisplayAgrees /\ ~DisplayAgrees'
       => /\ Len(correct_map_history) < Len(student_answers_history)
          /\ \E only_if_higher \in BOOLEAN : Rescore(only_if_higher)
      ]_vars

(***************************************************************************)
(* For a learner whose histories have the same length, a rescore grades    *)
(* again exactly the answers that were graded, in order, against the       *)
(* published version of the problem.                                       *)
(***************************************************************************)
RescoreGradesTheAttempts ==
    [][\A only_if_higher \in BOOLEAN :
           /\ Rescore(only_if_higher)
           /\ graded # << >>
           /\ Len(correct_map_history) = Len(student_answers_history)
           => score_history' = [i \in DOMAIN graded |-> 100 * Points(key, seed, graded[i])]
      ]_vars

(***************************************************************************)
(* Once the problem is closed to the learner, nothing but a rescore by the *)
(* staff changes an attempt, a correct map or the grade in the gradebook,  *)
(* except that a problem whose stored answers cannot be rendered is reset. *)
(***************************************************************************)
ClosedIsFinal ==
    [][closed /\ student_answers \notin CorruptAnswers
       => \/ UNCHANGED <<attempts, done, correct_map, correct_map_history,
                         score_history, gradebook, graded>>
          \/ MaxAttempts = 0
          \/ \E only_if_higher \in BOOLEAN : Rescore(only_if_higher)
      ]_vars

(***************************************************************************)
(* With the last_score method every handler that replaces the correct map  *)
(* leaves the block's score equal to the points of the new map; only a     *)
(* rescore does not write the block's score.                               *)
(***************************************************************************)
ScoreFollowsMap ==
    [][GradingMethod = "last_score" /\ correct_map' # correct_map
       => \/ score' = score_from_lcp(correct_map')
          \/ \E only_if_higher \in BOOLEAN : Rescore(only_if_higher)
      ]_vars

(***************************************************************************)
(* The block keeps the promise of CapaAttempts: every handler spends at    *)
(* most one attempt, under its conditions, and moves the grade in the      *)
(* gradebook only as that specification allows.                            *)
(***************************************************************************)
Attempts == INSTANCE CapaAttempts WITH
    Grades <- Scores, Limit <- MaxAttempts, NoLimit <- Unlimited,
    MustRenew <- Rerandomize = "always",
    used <- attempts, fresh <- ~done, late <- pastDue, grade <- gradebook

KeepsThePromise == Attempts!Spec

(***************************************************************************)
(* What the block's own texts say of it, and the code does not do.         *)
(***************************************************************************)
\* "Your answers have been saved but not graded": saving changes no score.
SavingDoesNotGrade ==
    [][\A a \in Answers \ CorruptAnswers : Save(a) => score' = score]_vars
================================================================================
