-------------------------- MODULE XQueueGrading_proofs --------------------------
(***************************************************************************)
(* Proofs about XQueueGrading: whatever is lost, repeated or answered late, *)
(* for any number of inputs, points, attempts and seconds.                 *)
(***************************************************************************)
EXTENDS Naturals, Sequences, XQueueGrading, FiniteSetTheorems, TLAPS

(***************************************************************************)
(* A message carries the second of the submission that sent it, and an     *)
(* entry that is queued that of the submission that made it: the queuekey  *)
(* is all that ties a reply to an entry.                                   *)
(***************************************************************************)
MessagesTimed ==
    \A m \in jobs \cup replies : m.of \in Submissions /\ sent[m.of] = m.key[2]
EntryTimed(e) ==
    /\ e.by # 0 => e.by \in Submissions
    /\ e.queuestate # NotQueued => e.by \in Submissions /\ sent[e.by] = e.queuestate[2]
    /\ e.of # 0 => e.of \in Submissions /\ e.by \in Submissions /\ sent[e.of] = sent[e.by]
Timed ==
    /\ sent \in Seq(Nat) /\ clock \in Nat
    /\ MessagesTimed
    /\ DOMAIN cmap = Inputs /\ \A i \in Inputs : EntryTimed(cmap[i])
--------------------------------------------------------------------------------
\* What was sent before keeps its second, and the new submission has that of now.
LEMMA SendingKeeps ==
    ASSUME Timed, sent' = Append(sent, clock), clock' = clock,
           jobs' \subseteq jobs \cup {[key |-> Queuekey(i), of |-> Len(sent) + 1] : i \in Inputs},
           replies' = replies
    PROVE  /\ sent' \in Seq(Nat) /\ clock' \in Nat /\ MessagesTimed'
           /\ Len(sent) + 1 \in Submissions' /\ sent'[Len(sent) + 1] = clock
           /\ \A s \in Submissions : s \in Submissions' /\ sent'[s] = sent[s]
<1>1. /\ sent' \in Seq(Nat) /\ clock' \in Nat
      /\ Len(sent) + 1 \in Submissions' /\ sent'[Len(sent) + 1] = clock
      /\ \A s \in Submissions : s \in Submissions' /\ sent'[s] = sent[s]
  BY DEF Timed, Submissions
<1>2. ASSUME NEW m \in jobs' \cup replies'
      PROVE  m.of \in Submissions' /\ sent'[m.of] = m.key[2]
  <2>1. CASE m \in jobs \cup replies
    BY <1>1, <2>1 DEF Timed, MessagesTimed
  <2>2. CASE m \notin jobs \cup replies
    <3>1. PICK i \in Inputs : m = [key |-> Queuekey(i), of |-> Len(sent) + 1]
      BY <1>2, <2>2
    <3> QED
      BY <1>1, <3>1 DEF Queuekey
  <2> QED
    BY <2>1, <2>2
<1> QED
  BY <1>1, <1>2 DEF MessagesTimed

\* A reply that is heard only moves its own submission into the entry of its second.
LEMMA ReplyKeeps ==
    ASSUME Timed, NEW r \in replies, cmap' = Updated(r), jobs' = jobs, replies' \subseteq replies,
           sent' = sent, clock' = clock
    PROVE  Timed'
<1>1. MessagesTimed'
  BY DEF Timed, MessagesTimed, Submissions
<1>2. r.of \in Submissions /\ sent[r.of] = r.key[2]
  BY DEF Timed, MessagesTimed
<1>3. ASSUME NEW i \in Inputs
      PROVE  EntryTimed(cmap[i])'
  <2>1. EntryTimed(cmap[i])
    BY DEF Timed
  <2>2. CASE ~r.valid
    BY <2>1, <2>2 DEF Updated, Entry, EntryTimed, Submissions
  <2>3. CASE r.valid /\ is_right_queuekey(i, r.key)
    BY <1>2, <2>1, <2>3 DEF Updated, Entry, EntryTimed, Submissions, is_right_queuekey, is_queued
  <2>4. CASE r.valid /\ ~is_right_queuekey(i, r.key)
    BY <2>1, <2>4 DEF Updated, EntryTimed, Submissions
  <2> QED
    BY <2>2, <2>3, <2>4
<1> QED
  BY <1>1, <1>3 DEF Timed, Updated

LEMMA TimedInductive ==
    /\ Init => Timed
    /\ Timed /\ [Next]_vars => Timed'
<1>1. Init => Timed
  <2> SUFFICES ASSUME Init
               PROVE  Timed
    OBVIOUS
  <2>1. sent \in Seq(Nat) /\ clock \in Nat /\ MessagesTimed
    BY DEF Init, MessagesTimed
  <2>2. EntryTimed(NoEntry)
    BY DEF EntryTimed, NoEntry, Entry
  <2>3. DOMAIN cmap = Inputs /\ \A i \in Inputs : cmap[i] = NoEntry
    BY DEF Init
  <2> QED
    BY <2>1, <2>2, <2>3 DEF Timed
<1>2. ASSUME Timed, [Next]_vars
      PROVE  Timed'
  <2>1. ASSUME NEW outcome \in [Inputs -> SendOutcomes], SubmitGraded(outcome)
        PROVE  Timed'
    <3>1. /\ sent' \in Seq(Nat) /\ clock' \in Nat /\ MessagesTimed'
          /\ Len(sent) + 1 \in Submissions' /\ sent'[Len(sent) + 1] = clock
      BY <1>2, <2>1, SendingKeeps DEF SubmitGraded, NewJobs
    <3>2. ASSUME NEW i \in Inputs
          PROVE  EntryTimed(cmap[i])'
      <4>1. cmap'[i] \in {Entry(NotQueued, "undelivered", 0, Len(sent) + 1, 0),
                          Entry(Queuekey(i), "queued", 0, Len(sent) + 1, 0)}
        BY <2>1 DEF SubmitGraded
      <4> QED
        BY <3>1, <4>1 DEF Entry, Queuekey, EntryTimed
    <3> QED
      BY <2>1, <3>1, <3>2 DEF Timed, SubmitGraded
  <2>2. ASSUME NEW last \in Inputs, SubmitRaises(last)
        PROVE  Timed'
    <3>1. /\ sent' \in Seq(Nat) /\ clock' \in Nat /\ MessagesTimed'
          /\ \A s \in Submissions : s \in Submissions' /\ sent'[s] = sent[s]
      BY <1>2, <2>2, SendingKeeps DEF SubmitRaises, NewJobs
    <3>2. cmap' = cmap
      BY <2>2 DEF SubmitRaises, block
    <3> QED
      BY <1>2, <3>1, <3>2 DEF Timed, EntryTimed
  <2>3. CASE Reset
    BY <1>2, <2>3 DEF Reset, Timed, MessagesTimed, Submissions, EntryTimed, NoEntry, Entry
  <2>4. ASSUME NEW job \in jobs, GraderReplies(job)
        PROVE  Timed'
    <3>1. PICK valid \in BOOLEAN, p \in Points :
              replies' = replies \cup {[key |-> job.key, of |-> job.of, valid |-> valid,
                                        npoints |-> IF valid THEN p ELSE 0]}
      BY <2>4 DEF GraderReplies
    <3> QED
      BY <1>2, <2>4, <3>1
         DEF GraderReplies, block, Timed, MessagesTimed, EntryTimed, Submissions
  <2>5. ASSUME NEW r \in replies, LoseReply(r)
        PROVE  Timed'
    BY <1>2, <2>5 DEF LoseReply, block, Timed, MessagesTimed, EntryTimed, Submissions
  <2>6. ASSUME NEW r \in replies, update_score(r) \/ update_score_again(r)
        PROVE  Timed'
    BY <1>2, <2>6, ReplyKeeps DEF update_score, update_score_again
  <2>7. CASE Tick
    BY <1>2, <2>7 DEF Tick, block, Timed, MessagesTimed, EntryTimed, Submissions
  <2>8. CASE UNCHANGED vars
    BY <1>2, <2>8 DEF vars, block, Timed, MessagesTimed, EntryTimed, Submissions
  <2> QED
    BY <1>2, <2>1, <2>2, <2>3, <2>4, <2>5, <2>6, <2>7, <2>8 DEF Next
<1> QED
  BY <1>1, <1>2

(***************************************************************************)
(* A grade on display is of the submission that made the entry, or of one  *)
(* of the same second: late and repeated replies cannot do more, since a   *)
(* queuekey names the second.                                              *)
(***************************************************************************)
THEOREM StaleIsWithinASecond == Spec => []StaleOnlyWithinASecond
<1>1. Timed => StaleOnlyWithinASecond
  BY DEF Timed, EntryTimed, StaleOnlyWithinASecond
<1> QED
  BY <1>1, TimedInductive, PTL DEF Spec
--------------------------------------------------------------------------------
\* A reply takes away only the answer of an input that it ends the wait of.
LEMMA AnswerInductive ==
    /\ Init => AnswerOnItsWay
    /\ AnswerOnItsWay /\ [Next]_vars => AnswerOnItsWay'
<1>1. Init => AnswerOnItsWay
  <2>1. NoEntry.queuestate = NotQueued
    BY DEF NoEntry, Entry
  <2> QED
    BY <2>1 DEF Init, AnswerOnItsWay, is_queued
<1>2. ASSUME AnswerOnItsWay, [Next]_vars
      PROVE  AnswerOnItsWay'
  <2> SUFFICES ASSUME ~faulty', NEW i \in Inputs, is_queued(i)'
               PROVE  \E m \in jobs' \cup replies' : m.key = cmap'[i].queuestate
    BY DEF AnswerOnItsWay
  <2>1. ASSUME NEW outcome \in [Inputs -> SendOutcomes], SubmitGraded(outcome)
        PROVE  \E m \in jobs' \cup replies' : m.key = cmap'[i].queuestate
    <3>1. ~ReportsAnError(outcome[i]) /\ cmap'[i].queuestate = Queuekey(i)
      BY <2>1 DEF SubmitGraded, Entry, is_queued
    <3>2. GetsTheJob(outcome[i])
      BY <2>1, <3>1 DEF SubmitGraded, SendOutcomes, ReportsAnError, GetsTheJob
    <3>3. [key |-> Queuekey(i), of |-> Len(sent) + 1] \in jobs'
      BY <2>1, <3>2 DEF SubmitGraded, NewJobs
    <3> QED
      BY <3>1, <3>3
  <2>2. ASSUME NEW last \in Inputs, SubmitRaises(last)
        PROVE  \E m \in jobs' \cup replies' : m.key = cmap'[i].queuestate
    BY <1>2, <2>2 DEF SubmitRaises, block, AnswerOnItsWay, is_queued
  <2>3. CASE Reset
    <3>1. NoEntry.queuestate = NotQueued
      BY DEF NoEntry, Entry
    <3> QED
      BY <2>3, <3>1 DEF Reset, is_queued
  <2>4. ASSUME NEW job \in jobs, GraderReplies(job)
        PROVE  \E m \in jobs' \cup replies' : m.key = cmap'[i].queuestate
    <3>1. PICK valid \in BOOLEAN, p \in Points :
              replies' = replies \cup {[key |-> job.key, of |-> job.of, valid |-> valid,
                                        npoints |-> IF valid THEN p ELSE 0]}
      BY <2>4 DEF GraderReplies
    <3>2. PICK m \in jobs \cup replies : m.key = cmap'[i].queuestate
      BY <1>2, <2>4 DEF GraderReplies, block, AnswerOnItsWay, is_queued
    <3>3. CASE m = job
      <4> DEFINE answer == [key |-> job.key, of |-> job.of, valid |-> valid,
                           npoints |-> IF valid THEN p ELSE 0]
      <4>1. answer \in replies' /\ answer.key = job.key
        BY <3>1
      <4> QED
        BY <3>2, <3>3, <4>1
    <3>4. CASE m # job
      BY <2>4, <3>1, <3>2, <3>4 DEF GraderReplies
    <3> QED
      BY <3>3, <3>4
  <2>5. ASSUME NEW r \in replies, LoseReply(r)
        PROVE  \E m \in jobs' \cup replies' : m.key = cmap'[i].queuestate
    BY <2>5 DEF LoseReply
  <2>6. ASSUME NEW r \in replies, update_score(r) \/ update_score_again(r)
        PROVE  \E m \in jobs' \cup replies' : m.key = cmap'[i].queuestate
    <3>1. cmap' = Updated(r) /\ jobs' = jobs /\ replies \ {r} \subseteq replies' /\ faulty' = faulty
      BY <2>6 DEF update_score, update_score_again
    <3>2. r.valid /\ ~is_right_queuekey(i, r.key) /\ cmap'[i] = cmap[i]
      BY <3>1 DEF Updated, Entry, is_queued
    <3>3. PICK m \in jobs \cup replies : m.key = cmap[i].queuestate
      BY <1>2, <3>1, <3>2 DEF AnswerOnItsWay, is_queued
    <3>4. m # r
      BY <3>2, <3>3 DEF is_right_queuekey, is_queued
    <3> QED
      BY <3>1, <3>2, <3>3, <3>4
  <2>7. CASE Tick
    BY <1>2, <2>7 DEF Tick, block, AnswerOnItsWay, is_queued
  <2>8. CASE UNCHANGED vars
    BY <1>2, <2>8 DEF vars, block, AnswerOnItsWay, is_queued
  <2> QED
    BY <1>2, <2>1, <2>2, <2>3, <2>4, <2>5, <2>6, <2>7, <2>8 DEF Next
<1> QED
  BY <1>1, <1>2

(***************************************************************************)
(* Where nothing is lost, an input waits only for an answer that can still *)
(* come, whatever is sent again, reset or answered twice.                  *)
(***************************************************************************)
THEOREM AnswerIsAlwaysOnItsWay == Spec => []AnswerOnItsWay
BY AnswerInductive, PTL DEF Spec
--------------------------------------------------------------------------------
(***************************************************************************)
(* Entries without points are worth nothing together: the function that    *)
(* adds them up exists, it is 0 on every set of inputs, and an induction   *)
(* over these sets shows that no other one adds them up.                   *)
(***************************************************************************)
LEMMA NothingCounts ==
    ASSUME NEW map, \A i \in Inputs : map[i].npoints = 0
    PROVE  calculate_score(map) = 0
<1> DEFINE F(f) == f = [s \in SUBSET Inputs |->
                         IF s = {} THEN 0
                         ELSE LET x == CHOOSE i \in s : TRUE IN map[x].npoints + f[s \ {x}]]
           sum == CHOOSE f : F(f)
           Wrong == {s \in SUBSET Inputs : sum[s] # 0}
<1>1. calculate_score(map) = sum[Inputs]
  BY DEF calculate_score, MapThenSumSet, MapThenFoldSet
<1>2. F(sum)
  <2> DEFINE zero == [s \in SUBSET Inputs |-> 0]
  <2>1. ASSUME NEW s \in SUBSET Inputs, s # {}
        PROVE  LET x == CHOOSE i \in s : TRUE IN map[x].npoints + zero[s \ {x}] = 0
    <3> DEFINE x == CHOOSE i \in s : TRUE
    <3>1. x \in Inputs /\ s \ {x} \in SUBSET Inputs
      BY <2>1
    <3>2. map[x].npoints = 0 /\ zero[s \ {x}] = 0
      BY <3>1
    <3> QED
      BY <3>2
  <2>2. F(zero)
    BY <2>1
  <2> QED
    BY <2>2
<1> HIDE DEF sum
<1>3. Wrong = {}
  <2> SUFFICES ASSUME Wrong # {}
               PROVE  FALSE
    OBVIOUS
  <2>1. Wrong \subseteq FiniteSubsetsOf(Inputs)
    BY FS_Subset, XQueueAssumption DEF FiniteSubsetsOf
  <2>2. PICK s \in Wrong : \A t \in Wrong : <<t, s>> \notin StrictSubsetOrdering(Inputs)
    <3> HIDE DEF Wrong
    <3> QED
      BY <2>1, XQueueAssumption, FS_StrictSubsetOrderingWellFounded, WFMin
  <2>3. s # {}
    BY <1>2
  <2> DEFINE x == CHOOSE i \in s : TRUE
  <2>4. x \in s /\ s \ {x} \subseteq Inputs /\ s \subseteq Inputs
    BY <2>3
  <2>5. s \ {x} \notin Wrong
    <3>1. <<s \ {x}, s>> \in StrictSubsetOrdering(Inputs)
      BY <2>4 DEF StrictSubsetOrdering
    <3> QED
      BY <2>2, <3>1
  <2>6. sum[s] = map[x].npoints + sum[s \ {x}]
    <3>1. sum = [u \in SUBSET Inputs |->
                   IF u = {} THEN 0 ELSE LET y == CHOOSE i \in u : TRUE IN map[y].npoints + sum[u \ {y}]]
      BY <1>2
    <3> HIDE DEF F
    <3> QED
      BY <2>3, <2>4, <3>1
  <2> QED
    BY <2>4, <2>5, <2>6
<1> QED
  BY <1>1, <1>2, <1>3

(***************************************************************************)
(* The published grade is the block's score and the points of the entries  *)
(* of the correct map: every handler that changes an entry publishes, also *)
(* a callback that the queue repeats or that comes for a reset problem.    *)
(***************************************************************************)
THEOREM GradebookAlwaysFollowsMap == Spec => []GradebookFollowsMap
<1>1. Init => GradebookFollowsMap
  <2> SUFFICES ASSUME Init
               PROVE  GradebookFollowsMap
    OBVIOUS
  <2>1. \A i \in Inputs : cmap[i].npoints = 0
    BY DEF Init, NoEntry, Entry
  <2> QED
    BY <2>1, NothingCounts DEF Init, GradebookFollowsMap
<1>2. GradebookFollowsMap /\ [Next]_vars => GradebookFollowsMap'
  <2> SUFFICES ASSUME GradebookFollowsMap, [Next]_vars
               PROVE  GradebookFollowsMap'
    OBVIOUS
  <2>1. ASSUME PublishScoreOf(cmap')
        PROVE  GradebookFollowsMap'
    BY <2>1 DEF PublishScoreOf, GradebookFollowsMap, calculate_score, MapThenSumSet, MapThenFoldSet
  <2>2. ASSUME UNCHANGED block
        PROVE  GradebookFollowsMap'
    BY <2>2 DEF block, GradebookFollowsMap, calculate_score, MapThenSumSet, MapThenFoldSet
  <2>3. PublishScoreOf(cmap') \/ UNCHANGED block
    BY DEF Next, SubmitGraded, SubmitRaises, Reset, GraderReplies, LoseReply, update_score,
           update_score_again, Tick, vars
  <2> QED
    BY <2>1, <2>2, <2>3
<1> QED
  BY <1>1, <1>2, PTL DEF Spec
================================================================================
