----------------------------- MODULE XQueueGrading -----------------------------
(***************************************************************************)
(* A problem of CodeResponses, graded by an external grader behind XQueue: *)
(* problem/capa/responsetypes.py (CodeResponse), xqueue_interface.py and   *)
(* xqueue_submission.py, and the callback of problem/capa_block.py.        *)
(*                                                                         *)
(* Submit sends one job per input and marks the input queued under a       *)
(* queuekey.  Later the grader's reply comes back with the key and is      *)
(* matched against what is queued then.  In between the learner may submit *)
(* again or reset, and replies may be reordered, duplicated or lost.       *)
(*                                                                         *)
(* A queuekey is the hash of the seed, the time in seconds, the learner    *)
(* and the input; the seed and the learner are fixed here, so it is the    *)
(* input and the second.                                                   *)
(***************************************************************************)
EXTENDS Naturals, Sequences, FiniteSets, FiniteSetsExt

CONSTANTS
    Inputs,         \* 1 .. n, in the order of the responders
    Points,         \* what the grader may award for one input
    MaxAttempts,    \* max_attempts
    WaitTime,       \* waittime_between_requests, in seconds
    MaxClock,       \* bound: last second of a behaviour
    MaxSubmissions  \* bound: calls of submit_problem that send something

ASSUME XQueueAssumption ==
    /\ Inputs \subseteq Nat
    /\ IsFiniteSet(Inputs)
    /\ Points \subseteq Nat
    /\ {MaxAttempts, WaitTime, MaxClock, MaxSubmissions} \subseteq Nat

VARIABLES
    attempts, done, score,
    score_history,
    cmap,         \* the correct map: the entry of each input
    gradebook,    \* the published grade
    jobs,         \* accepted by the queue, not yet graded
    replies,      \* graded, to be delivered to the callback
    faulty,       \* the queue may lose replies, and its service fail without a word
    clock,        \* the second it is
    sent          \* history variable: the second of each submission

block == <<attempts, done, score, score_history, cmap, gradebook>>
vars == <<block, jobs, replies, faulty, clock, sent>>

NotQueued == << >>
Queuekey(i) == <<i, clock>>

\* An entry of the correct map.  Two fields are history: "by" is the submission
\* that made the entry, and "of" the one whose grade it holds (0 for none).
Entry(queuestate, msg, npoints, by, of) ==
    [queuestate |-> queuestate, msg |-> msg, npoints |-> npoints, by |-> by, of |-> of]
NoEntry == Entry(NotQueued, "", 0, 0, 0)

is_queued(i) == cmap[i].queuestate # NotQueued

is_right_queuekey_AnyKey(i, k) == is_queued(i)
is_right_queuekey(i, k) == is_queued(i) /\ cmap[i].queuestate = k

\* calculate_score: the points of all entries.
calculate_score(map) == MapThenSumSet(LAMBDA i : map[i].npoints, Inputs)

closed == attempts >= MaxAttempts

\* set_score(score_from_lcp) and publish_grade.
PublishScoreOf_ScoreOnly(map) ==
    score' = calculate_score(map) /\ UNCHANGED gradebook
PublishScoreOf(map) ==
    /\ score' = calculate_score(map)
    /\ gradebook' = score'
--------------------------------------------------------------------------------
Init ==
    /\ attempts = 0
    /\ done = FALSE
    /\ score = 0
    /\ score_history = << >>
    /\ cmap = [i \in Inputs |-> NoEntry]
    /\ gradebook = 0
    /\ jobs = {}
    /\ replies = {}
    /\ faulty \in BOOLEAN
    /\ clock = 1
    /\ sent = << >>

(***************************************************************************)
(* submit_problem.  While an input is queued, a new submission must come   *)
(* waittime after the latest one; a refused call changes no grade and is   *)
(* left out here (CapaProblem has its effect on the answer history).       *)
(***************************************************************************)
get_recentmost_queuetime ==
    Max({cmap[i].queuestate[2] : i \in {j \in Inputs : is_queued(j)}})

MaySubmit ==
    /\ ~closed
    /\ (\E i \in Inputs : is_queued(i)) => clock - get_recentmost_queuetime >= WaitTime
    /\ Len(sent) < MaxSubmissions

\* The jobs of the submission in hand that the queue gets from these inputs.
NewJobs(inputs) == {[key |-> Queuekey(i), of |-> Len(sent) + 1] : i \in inputs}

\* send_to_queue.  "accepted" and "refused" are what it reports; a job whose
\* "unanswered" request timed out was accepted and is reported as an error; an
\* error of the submission service is "swallowed" and reported as success.
SendOutcomes == {"accepted", "refused", "unanswered"} \cup (IF faulty THEN {"swallowed"} ELSE {})
GetsTheJob(outcome)        == outcome \in {"accepted", "unanswered"}
ReportsAnError(outcome)    == outcome \in {"refused", "unanswered"}

\* An attempt that is queued has no points yet, and its score of 0 is the one
\* that enters the history and, under any grading method, is published.
SubmitGraded(outcome) ==
    /\ MaySubmit
    /\ attempts' = attempts + 1
    /\ done' = TRUE
    /\ cmap' = [i \in Inputs |-> IF ReportsAnError(outcome[i])
                                 THEN Entry(NotQueued, "undelivered", 0, Len(sent) + 1, 0)
                                 ELSE Entry(Queuekey(i), "queued", 0, Len(sent) + 1, 0)]
    /\ score_history' = Append(score_history, calculate_score(cmap'))
    /\ PublishScoreOf(cmap')
    /\ jobs' = jobs \cup NewJobs({i \in Inputs : GetsTheJob(outcome[i])})
    /\ sent' = Append(sent, clock)
    /\ UNCHANGED <<replies, faulty, clock>>

\* Sending the job of input "last" raises, so the handler raises and saves
\* nothing; the jobs of the inputs before it are in the queue.
SubmitRaises(last) ==
    /\ MaySubmit
    /\ jobs' = jobs \cup NewJobs({i \in Inputs : i < last})
    /\ sent' = Append(sent, clock)
    /\ UNCHANGED <<block, replies, faulty, clock>>

Reset ==
    /\ done
    /\ ~closed
    /\ done' = FALSE
    /\ cmap' = [i \in Inputs |-> NoEntry]
    /\ PublishScoreOf(cmap')
    /\ UNCHANGED <<attempts, score_history, jobs, replies, faulty, clock, sent>>

(***************************************************************************)
(* The queue and the grader (external).  A job is graded once; its reply   *)
(* may be one that _parse_score_msg rejects.  Replies are delivered in any *)
(* order and, because the queue retries a callback, more than once.        *)
(***************************************************************************)
GraderReplies(job) ==
    /\ jobs' = jobs \ {job}
    /\ \E valid \in BOOLEAN, p \in Points :
           /\ replies' = replies \cup {[key |-> job.key, of |-> job.of, valid |-> valid,
                                        npoints |-> IF valid THEN p ELSE 0]}
    /\ UNCHANGED <<block, faulty, clock, sent>>

LoseReply(r) ==
    /\ faulty
    /\ replies' = replies \ {r}
    /\ UNCHANGED <<block, jobs, faulty, clock, sent>>

(***************************************************************************)
(* update_score, the callback.  Every CodeResponse of the problem sees the *)
(* reply: a valid one replaces the entry queued under its key, an invalid  *)
(* one replaces the entries of all inputs by an error message.             *)
(***************************************************************************)
Updated_StaysQueued(r) ==
    [i \in Inputs |->
        IF ~r.valid THEN Entry(NotQueued, "invalid", 0, cmap[i].by, 0)
        ELSE IF is_right_queuekey(i, r.key)
        THEN Entry(r.key, "graded", r.npoints, cmap[i].by, r.of)
        ELSE cmap[i]]

Updated(r) ==
    [i \in Inputs |->
        IF ~r.valid THEN Entry(NotQueued, "invalid", 0, cmap[i].by, 0)
        ELSE IF is_right_queuekey(i, r.key)
        THEN Entry(NotQueued, "graded", r.npoints, cmap[i].by, r.of)
        ELSE cmap[i]]

update_score(r) ==
    /\ cmap' = Updated(r)
    /\ PublishScoreOf(cmap')
    /\ replies' = replies \ {r}
    /\ UNCHANGED <<attempts, done, score_history, jobs, faulty, clock, sent>>

\* The callback answers too late for the queue, which will deliver again.
update_score_again(r) ==
    /\ cmap' = Updated(r)
    /\ PublishScoreOf(cmap')
    /\ UNCHANGED <<attempts, done, score_history, replies, jobs, faulty, clock, sent>>

Tick ==
    /\ clock < MaxClock
    /\ clock' = clock + 1
    /\ UNCHANGED <<block, jobs, replies, faulty, sent>>

Next ==
    \/ \E outcome \in [Inputs -> SendOutcomes] : SubmitGraded(outcome)
    \/ \E last \in Inputs : SubmitRaises(last)
    \/ Reset
    \/ \E job \in jobs : GraderReplies(job)
    \/ \E r \in replies : LoseReply(r) \/ update_score(r) \/ update_score_again(r)
    \/ Tick

Spec == Init /\ [][Next]_vars

\* The queue hands out its jobs, the grader answers them and the replies reach
\* the callback.  Nothing is assumed of the learner or of the clock.
Fairness ==
    /\ WF_vars(\E job \in jobs : GraderReplies(job))
    /\ WF_vars(\E r \in replies : update_score(r))

FairSpec == Spec /\ Fairness
--------------------------------------------------------------------------------
Seconds == 1 .. MaxClock
QueueKeys == Inputs \X Seconds
Submissions == 1 .. Len(sent)

TypeOK ==
    /\ attempts \in 0 .. MaxAttempts
    /\ done \in BOOLEAN
    /\ score \in Nat
    /\ score_history \in Seq(Nat)
    /\ cmap \in [Inputs -> [queuestate : QueueKeys \cup {NotQueued},
                            msg : {"", "queued", "undelivered", "graded", "invalid"},
                            npoints : Points \cup {0},
                            by : Submissions \cup {0},
                            of : Submissions \cup {0}]]
    /\ gradebook \in Nat
    /\ jobs \subseteq [key : QueueKeys, of : Submissions]
    /\ replies \subseteq [key : QueueKeys, of : Submissions, valid : BOOLEAN,
                          npoints : Points \cup {0}]
    /\ clock \in Seconds
    /\ sent \in Seq(Seconds)

(***************************************************************************)
(* The published grade is the block's score and the points of the entries  *)
(* of the correct map, whatever was submitted, reset, lost or delivered    *)
(* twice, and whenever it was answered.                                    *)
(***************************************************************************)
GradebookFollowsMap ==
    score = calculate_score(cmap) /\ gradebook = score

(***************************************************************************)
(* A grade on display is of the submission that made the entry, or of one  *)
(* sent in the same second: a queuekey is no finer than that.              *)
(***************************************************************************)
StaleOnlyWithinASecond ==
    \A i \in Inputs :
        cmap[i].of # 0 => sent[cmap[i].of] = sent[cmap[i].by]

(***************************************************************************)
(* An input waits only for a reply that can still come: its job is in the  *)
(* queue, or the reply to it is on the way; unless the service failed      *)
(* without a word, or the queue lost the reply.                            *)
(***************************************************************************)
AnswerOnItsWay ==
    ~faulty => \A i \in Inputs :
        is_queued(i) => \E m \in jobs \cup replies : m.key = cmap[i].queuestate

(***************************************************************************)
(* A queued input does not stay queued: it is graded, or an invalid reply  *)
(* or a new submission or a reset takes its place.                         *)
(***************************************************************************)
QueuedIsAnswered == \A i \in Inputs : ~faulty /\ is_queued(i) ~> ~is_queued(i)
================================================================================
