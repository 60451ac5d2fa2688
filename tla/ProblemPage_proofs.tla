--------------------------- MODULE ProblemPage_proofs ---------------------------
(***************************************************************************)
(* Proofs about ProblemPage: however many responses and timers cross, for  *)
(* any number of inputs, attempts and delays.                              *)
(***************************************************************************)
EXTENDS Naturals, ProblemPage, FiniteSetTheorems, TLAPS

\* A new timer or request has an id of its own.
LEMMA FreshIdType ==
    ASSUME FreshIds # {}
    PROVE  Min(FreshIds) \in Ids
<1> DEFINE Less == OpToRel(<, Nat)
<1>1. FreshIds \subseteq Nat /\ FreshIds \subseteq Ids
  BY PageAssumption DEF FreshIds
<1>2. \A x, y \in Nat : y < x => <<y, x>> \in Less
  BY DEF OpToRel
<1>3. PICK x \in FreshIds : \A y \in FreshIds : <<y, x>> \notin Less
  BY <1>1, NatLessThanWellFounded, WFMin
<1> HIDE DEF Less
<1>4. Min(FreshIds) \in FreshIds
  <2>1. ASSUME NEW y \in FreshIds, y < x
        PROVE  FALSE
    <3>1. <<y, x>> \in Less
      BY <1>1, <1>2, <2>1
    <3> QED
      BY <1>3, <3>1
  <2>2. \A y \in FreshIds : x <= y
    BY <1>1, <2>1
  <2> QED
    BY <2>2 DEF Min
<1> QED
  BY <1>1, <1>4

\* The server's html and what a request becomes when it is served.
Requests == [op : {"submit", "poll"}, id : Ids, previous : 0 .. AlertAfter - 1,
             status : {"sent", "done", "refused"}, html : HtmlType]
LEMMA ServedType ==
    ASSUME NEW r \in Requests, NEW status \in {"sent", "done", "refused"}, NEW html \in HtmlType
    PROVE  [r EXCEPT !.status = status, !.html = html] \in Requests
  BY DEF Requests
Timers == [id : Ids, previous : 1 .. AlertAfter - 1]
LEMMA FirstTimerType ==
    ASSUME NEW id \in Ids
    PROVE  Timer(id, 1) \in Timers
  BY PageAssumption DEF Timers, Timer

\* Polls wait twice as long each time, and never as long as AlertAfter.
LEMMA PollAgainType ==
    ASSUME TypeOK, NEW left, NEW r \in Requests, r.previous > 0,
           PollAgain(left, r.previous, r.id)
    PROVE  /\ queuePollerID' \in Ids \cup {NoId, OtherId}
           /\ pollTimers' \subseteq Timers
           /\ givenUp' \in BOOLEAN
<1>1. pollTimers \subseteq Timers /\ givenUp \in BOOLEAN /\ r.id \in Ids /\ r.previous \in Nat
  BY PageAssumption DEF TypeOK, Timers, Requests
<1>2. CASE left = 0 \/ NextDelay(r.previous) >= AlertAfter
  BY <1>1, <1>2 DEF PollAgain
<1>3. CASE left # 0 /\ ~(NextDelay(r.previous) >= AlertAfter)
  <2>1. NextDelay(r.previous) \in 1 .. AlertAfter - 1
    BY <1>1, <1>3, PageAssumption DEF NextDelay
  <2>2. Timer(r.id, NextDelay(r.previous)) \in Timers
    BY <1>1, <2>1 DEF Timer, Timers
  <2> QED
    BY <1>1, <1>3, <2>2 DEF PollAgain
<1> QED
  BY <1>2, <1>3
--------------------------------------------------------------------------------
\* The types, and that a poll was begun by a timer.
PollsTimed == \A r \in requests : r.op = "poll" => r.previous > 0
Typed == TypeOK /\ PollsTimed

LEMMA TypedInductive ==
    /\ Init => Typed
    /\ Typed /\ [Next]_vars => Typed'
<1>1. ASSUME Init
      PROVE  Typed
  <2>1. Cardinality(Ids) \in Nat
    BY PageAssumption, FS_CardinalityType
  <2>2. shown \in HtmlType
    BY <1>1, PageAssumption DEF Init, Html, HtmlType
  <2>3. submitEnabled \in BOOLEAN
    BY <1>1, <2>2 DEF Init
  <2>4. /\ attempts \in 0 .. MaxAttempts /\ queued \in 0 .. NumInputs
        /\ gateTimers \in 0 .. Cardinality(Ids) /\ queuePollerID = NoId
        /\ pollTimers = {} /\ requests = {}
    BY <1>1, <2>1, PageAssumption DEF Init
  <2>5. {answered, submitEnabled, hasFileInput, has_timed_out, has_response, givenUp} \subseteq BOOLEAN
    BY <1>1, <2>3 DEF Init
  <2> QED
    BY <2>2, <2>4, <2>5 DEF Typed, TypeOK, PollsTimed
<1>2. ASSUME Typed, [Next]_vars
      PROVE  Typed'
  <2>1. /\ requests \subseteq Requests /\ pollTimers \subseteq Timers
        /\ shown \in HtmlType /\ Html \in HtmlType /\ NoHtml \in HtmlType
        /\ \A b \in {answered, submitEnabled, hasFileInput, has_timed_out, has_response, givenUp} :
              b \in BOOLEAN
    BY <1>2, PageAssumption DEF Typed, TypeOK, Requests, Timers, Html, NoHtml, HtmlType
  <2>2. CASE submitAnswersAndSubmitButton
    BY <1>2, <2>1, <2>2
       DEF submitAnswersAndSubmitButton, Typed, TypeOK, PollsTimed, EnableSubmit, HtmlType,
           server, gate, poller
  <2>3. CASE submit
    <3>1. Request("submit", Min(FreshIds), 0) \in Requests
      BY <2>1, <2>3, FreshIdType, PageAssumption DEF submit, Request, Requests
    <3>2. gateTimers' \in 0 .. Cardinality(Ids) /\ has_timed_out' \in BOOLEAN /\ has_response' \in BOOLEAN
      <4>1. Cardinality(Ids) \in Nat
        BY PageAssumption, FS_CardinalityType
      <4>2. CASE hasFileInput
        <5>1. gateTimers' = gateTimers + 1 /\ gateTimers < Cardinality(Ids)
          BY <2>3, <4>2 DEF submit
        <5>2. has_timed_out' = FALSE /\ has_response' = FALSE
          BY <2>3, <4>2 DEF submit
        <5>3. gateTimers \in 0 .. Cardinality(Ids)
          BY <1>2 DEF Typed, TypeOK
        <5>4. has_timed_out' \in BOOLEAN /\ has_response' \in BOOLEAN
          BY <5>2
        <5> QED
          BY <4>1, <5>1, <5>3, <5>4
      <4>3. CASE ~hasFileInput
        BY <1>2, <2>1, <2>3, <4>3 DEF submit, gate, Typed, TypeOK
      <4> QED
        BY <4>2, <4>3
    <3>3. requests' \subseteq Requests /\ PollsTimed'
      BY <1>2, <2>1, <2>3, <3>1 DEF submit, Typed, PollsTimed, Request
    <3> QED
      BY <1>2, <2>1, <2>3, <3>2, <3>3
         DEF submit, Typed, TypeOK, Requests, Timers, server, poller
  <2>4. CASE submit_fd_Aborted
    BY <1>2, <2>1, <2>4
       DEF submit_fd_Aborted, Typed, TypeOK, PollsTimed, EnableSubmit, HtmlType, server, poller
  <2>5. CASE GateTimesOut
    BY <1>2, <2>1, <2>5, PageAssumption, FS_CardinalityType
       DEF GateTimesOut, Typed, TypeOK, PollsTimed, EnableSubmit, HtmlType, server, poller
  <2>6. CASE GraderAnswers
    BY <1>2, <2>1, <2>6, PageAssumption
       DEF GraderAnswers, Typed, TypeOK, PollsTimed, page, gate, poller
  <2>7. ASSUME NEW t \in pollTimers, PollTimesOut(t)
        PROVE  Typed'
    <3>1. Request("poll", t.id, t.previous) \in Requests /\ t.previous > 0
      BY <2>1, PageAssumption DEF Timers, Request, Requests
    <3>2. requests' \subseteq Requests /\ PollsTimed'
      BY <1>2, <2>1, <2>7, <3>1 DEF PollTimesOut, Typed, PollsTimed, Request
    <3> QED
      BY <1>2, <2>1, <2>7, <3>2
         DEF PollTimesOut, Typed, TypeOK, Requests, server, page, gate
  <2>8. ASSUME NEW r \in requests, problem_check(r)
        PROVE  Typed'
    <3>1. /\ attempts' \in 0 .. MaxAttempts /\ queued' \in 0 .. NumInputs
          /\ \E status \in {"done", "refused"}, html \in HtmlType : Served(r, status, html)
      <4>1. CASE Served(r, "refused", NoHtml) /\ UNCHANGED server
        BY <1>2, <2>1, <4>1 DEF Typed, TypeOK, server
      <4>2. CASE /\ attempts < MaxAttempts
                 /\ attempts' = attempts + 1
                 /\ queued' = NumInputs
                 /\ Served(r, "done", Html')
        <5>1. attempts' \in 0 .. MaxAttempts /\ queued' \in 0 .. NumInputs
          BY <1>2, <4>2, PageAssumption DEF Typed, TypeOK
        <5>2. Html' \in HtmlType
          BY <5>1 DEF Html, HtmlType
        <5> QED
          BY <4>2, <5>1, <5>2
      <4> QED
        BY <2>8, <4>1, <4>2 DEF problem_check
    <3>2. requests' \subseteq Requests /\ PollsTimed'
      BY <1>2, <2>1, <2>8, <3>1 DEF Served, Typed, PollsTimed, Requests
    <3> QED
      BY <1>2, <2>1, <2>8, <3>1, <3>2
         DEF problem_check, Typed, TypeOK, Requests, page, gate, poller
  <2>9. ASSUME NEW r \in requests, problem_get(r)
        PROVE  Typed'
    <3>1. requests' \subseteq Requests /\ PollsTimed'
      BY <1>2, <2>1, <2>9 DEF problem_get, Served, Typed, PollsTimed, Requests
    <3> QED
      BY <1>2, <2>1, <2>9, <3>1
         DEF problem_get, Typed, TypeOK, Requests, server, page, gate, poller
  <2>10. ASSUME NEW r \in requests, SubmitGraded(r)
         PROVE  Typed'
    <3>1. r \in Requests /\ Timer(r.id, 1) \in Timers /\ r.id \in Ids
      BY <2>1, FirstTimerType DEF Requests
    <3>2. /\ queuePollerID' \in Ids \cup {NoId, OtherId}
          /\ pollTimers' \subseteq Timers /\ givenUp' \in BOOLEAN
      BY <1>2, <2>1, <2>10, <3>1 DEF SubmitGraded, queueing, poller, Typed, TypeOK
    <3>3. shown' \in HtmlType /\ answered' \in BOOLEAN /\ requests' \subseteq requests
      BY <2>10, <3>1 DEF SubmitGraded, Rendered, Requests
    <3>4. submitEnabled' \in BOOLEAN /\ has_response' \in BOOLEAN
      BY <2>1, <2>10, <3>3
         DEF SubmitGraded, EndOfSubmission, SubmitEnabledAfter, EnableSubmit, HtmlType
    <3> QED
      BY <1>2, <2>1, <2>10, <3>2, <3>3, <3>4
         DEF SubmitGraded, EndOfSubmission, Typed, TypeOK, PollsTimed, Timers, server
  <2>11. ASSUME NEW r \in requests, SubmitRefused(r)
         PROVE  Typed'
    <3>1. submitEnabled' \in BOOLEAN /\ has_response' \in BOOLEAN
      BY <2>1, <2>11
         DEF SubmitRefused, EndOfSubmission, SubmitEnabledAfter, EnableSubmit, HtmlType
    <3> QED
      BY <1>2, <2>1, <2>11, <3>1
         DEF SubmitRefused, EndOfSubmission, Typed, TypeOK, PollsTimed, server, poller
  <2>12. ASSUME NEW r \in requests, SubmitFails(r)
         PROVE  Typed'
    <3>1. /\ submitEnabled' \in BOOLEAN /\ has_response' \in BOOLEAN
          /\ has_timed_out' = has_timed_out /\ gateTimers' = gateTimers
      BY <2>1, <2>12
         DEF SubmitFails, EndOfSubmission, SubmitEnabledAfter, EnableSubmit, HtmlType, gate
    <3> QED
      BY <1>2, <2>1, <2>12, <3>1
         DEF SubmitFails, Typed, TypeOK, PollsTimed, server
  <2>13. ASSUME NEW r \in requests, PollReturns(r)
         PROVE  Typed'
    <3>1. r \in Requests /\ r.previous > 0
      BY <1>2, <2>1, <2>13 DEF PollReturns, Typed, PollsTimed
    <3>2. /\ queuePollerID' \in Ids \cup {NoId, OtherId}
          /\ pollTimers' \subseteq Timers /\ givenUp' \in BOOLEAN
      BY <1>2, <2>13, <3>1, PollAgainType DEF PollReturns, Typed
    <3>3. shown' \in HtmlType /\ answered' \in BOOLEAN /\ submitEnabled' \in BOOLEAN
      BY <2>1, <2>13, <3>1 DEF PollReturns, Rendered, page, Requests, HtmlType
    <3> QED
      BY <1>2, <2>1, <2>13, <3>2, <3>3
         DEF PollReturns, Typed, TypeOK, PollsTimed, Timers, server, gate
  <2>14. ASSUME NEW r \in requests, PollFails(r)
         PROVE  Typed'
    BY <1>2, <2>1, <2>14
       DEF PollFails, Typed, TypeOK, PollsTimed, server, page, gate
  <2>15. CASE OtherProblemQueues
    BY <1>2, <2>1, <2>15
       DEF OtherProblemQueues, Typed, TypeOK, PollsTimed, server, page, gate
  <2>16. CASE OtherProblemStops
    BY <1>2, <2>1, <2>16
       DEF OtherProblemStops, Typed, TypeOK, PollsTimed, server, page, gate
  <2>17. CASE UNCHANGED vars
    BY <1>2, <2>17
       DEF vars, Typed, TypeOK, PollsTimed, HtmlType, server, page, gate, poller
  <2> QED
    BY <1>2, <2>2, <2>3, <2>4, <2>5, <2>6, <2>7, <2>8, <2>9, <2>10, <2>11, <2>12, <2>13, <2>14,
       <2>15, <2>16, <2>17 DEF Next
<1> QED
  BY <1>1, <1>2
--------------------------------------------------------------------------------
\* A served request stays one of its kind.
LEMMA ServedKeeps ==
    ASSUME NEW r \in requests, NEW status, NEW html, Typed, Served(r, status, html)
    PROVE  /\ \A q \in requests : \E s \in requests' : s.op = q.op /\ (s = q \/ q = r)
           /\ \A s \in requests' : \E q \in requests : s.op = q.op
<1>1. r \in Requests
  BY DEF Typed, TypeOK, Requests
<1> DEFINE new == [r EXCEPT !.status = status, !.html = html]
<1>2. new.op = r.op /\ new \in requests' /\ requests' = (requests \ {r}) \cup {new}
  BY <1>1 DEF Served, Requests
<1> QED
  BY <1>2

LEMMA ServedIsThere ==
    ASSUME NEW r \in Requests, NEW status, NEW html, Served(r, status, html)
    PROVE  \E s \in requests' : s.status = status /\ s.html = html
<1> DEFINE new == [r EXCEPT !.status = status, !.html = html]
<1>1. new.status = status /\ new.html = html /\ new \in requests'
  BY DEF Served, Requests
<1> QED
  BY <1>1

(***************************************************************************)
(* What is shown waits for news that come: a timer or a poll on its way,   *)
(* or a response that leaves something queued or is true by now.  Only the *)
(* last kind ends the polling, and a submission that makes it untrue       *)
(* brings a response of its own.                                           *)
(***************************************************************************)
Brings(r) == \/ r.op = "poll" /\ r.status = "sent"
             \/ r.status = "done" /\ (r.html.queued > 0 \/ queued = 0)
NewsCome == pollTimers # {} \/ \E r \in requests : Brings(r)
KeptCurrent == givenUp \/ (shown.queued = 0 /\ queued = 0) \/ NewsCome
--------------------------------------------------------------------------------
LEMMA WaitingInductive ==
    /\ Init => WaitingIsPolled
    /\ Typed /\ WaitingIsPolled /\ [Next]_vars => WaitingIsPolled'
<1>1. Init => WaitingIsPolled
  BY DEF Init, WaitingIsPolled, Html
<1>2. ASSUME Typed, WaitingIsPolled, [Next]_vars
      PROVE  WaitingIsPolled'
  <2>1. ASSUME shown' = shown, pollTimers' = pollTimers, givenUp' = givenUp,
               \A q \in requests : q.op = "poll" => \E s \in requests' : s.op = "poll"
        PROVE  WaitingIsPolled'
    BY <1>2, <2>1 DEF WaitingIsPolled, Polled
  <2>2. CASE submitAnswersAndSubmitButton \/ submit \/ submit_fd_Aborted \/ GateTimesOut
             \/ GraderAnswers \/ OtherProblemStops
    BY <2>1, <2>2
       DEF submitAnswersAndSubmitButton, submit, submit_fd_Aborted, GateTimesOut, GraderAnswers,
           OtherProblemStops, page, poller
  <2>3. ASSUME NEW r \in requests, problem_check(r) \/ problem_get(r)
        PROVE  WaitingIsPolled'
    <3>1. \E status, html : Served(r, status, html)
      BY <2>3 DEF problem_check, problem_get
    <3> QED
      BY <1>2, <2>1, <2>3, <3>1, ServedKeeps DEF problem_check, problem_get, page, poller
  <2>4. ASSUME NEW r \in requests, SubmitRefused(r)
        PROVE  WaitingIsPolled'
    BY <2>1, <2>4 DEF SubmitRefused, poller
  <2>5. ASSUME NEW r \in requests, SubmitGraded(r)
        PROVE  WaitingIsPolled'
    <3>1. shown' = r.html /\ \A q \in requests : q.op = "poll" => q \in requests'
      BY <2>5 DEF SubmitGraded, Rendered
    <3>2. r.html.queued > 0 => pollTimers' # {}
      BY <2>5 DEF SubmitGraded, queueing
    <3> QED
      BY <3>1, <3>2 DEF WaitingIsPolled, Polled
  <2>6. ASSUME NEW r \in requests, SubmitFails(r) \/ PollFails(r)
        PROVE  WaitingIsPolled'
    BY <2>6 DEF SubmitFails, PollFails, WaitingIsPolled
  <2>7. ASSUME NEW t \in pollTimers, PollTimesOut(t)
        PROVE  WaitingIsPolled'
    <3>1. Request("poll", t.id, t.previous).op = "poll"
      BY DEF Request
    <3> QED
      BY <2>7, <3>1 DEF PollTimesOut, WaitingIsPolled, Polled
  <2>8. ASSUME NEW r \in requests, PollReturns(r)
        PROVE  WaitingIsPolled'
    <3>1. shown'.queued = r.html.queued
      BY <2>8 DEF PollReturns, Rendered, page
    <3>2. r.html.queued \in Nat
      BY <1>2, PageAssumption DEF Typed, TypeOK, HtmlType
    <3>3. CASE r.html.queued = 0
      BY <3>1, <3>3 DEF WaitingIsPolled
    <3>4. CASE r.html.queued # 0
      BY <2>8, <3>4 DEF PollReturns, PollAgain, WaitingIsPolled, Polled
    <3> QED
      BY <3>3, <3>4
  <2>9. CASE OtherProblemQueues
    <3>1. UNCHANGED <<shown, requests>> /\ (pollTimers' = pollTimers \/ givenUp')
      BY <2>9 DEF OtherProblemQueues, page
    <3>2. CASE givenUp'
      BY <3>2 DEF WaitingIsPolled
    <3>3. CASE pollTimers' = pollTimers /\ ~givenUp'
      <4>1. ~givenUp
        BY <2>9, <3>3 DEF OtherProblemQueues
      <4> QED
        BY <1>2, <3>1, <3>3, <4>1 DEF WaitingIsPolled, Polled
    <3> QED
      BY <3>1, <3>2, <3>3
  <2>10. CASE UNCHANGED vars
    BY <2>1, <2>10 DEF vars, page, poller
  <2> QED
    BY <1>2, <2>2, <2>3, <2>4, <2>5, <2>6, <2>7, <2>8, <2>9, <2>10 DEF Next
<1> QED
  BY <1>1, <1>2

LEMMA KeptCurrentInductive ==
    /\ Init => KeptCurrent
    /\ Typed /\ KeptCurrent /\ [Next]_vars => KeptCurrent'
<1>1. Init => KeptCurrent
  BY DEF Init, KeptCurrent, Html
<1>2. ASSUME Typed, KeptCurrent, [Next]_vars
      PROVE  KeptCurrent'
  <2>0. queued \in Nat /\ requests \subseteq Requests
        /\ \A r \in requests : r.html.queued \in Nat
    BY <1>2, PageAssumption DEF Typed, TypeOK, HtmlType, Requests
  <2>1. ASSUME shown' = shown, queued' = queued, pollTimers' = pollTimers, givenUp' = givenUp,
               \A q \in requests : Brings(q) => \E s \in requests' : Brings(s)'
        PROVE  KeptCurrent'
    BY <1>2, <2>1 DEF KeptCurrent, NewsCome
  <2>2. CASE submitAnswersAndSubmitButton \/ submit \/ submit_fd_Aborted \/ GateTimesOut
             \/ OtherProblemStops
    BY <2>1, <2>2
       DEF submitAnswersAndSubmitButton, submit, submit_fd_Aborted, GateTimesOut,
           OtherProblemStops, page, poller, server, Brings
  <2>3. ASSUME NEW r \in requests, problem_check(r)
        PROVE  KeptCurrent'
    <3>1. CASE Served(r, "refused", NoHtml) /\ UNCHANGED server
      <4>1. \A q \in requests : Brings(q) => q # r /\ Brings(q)'
        BY <2>3, <3>1 DEF problem_check, Brings, server
      <4> QED
        BY <2>1, <2>3, <3>1, <4>1 DEF problem_check, Served, server, page, poller
    <3>2. CASE Served(r, "done", Html') /\ queued' = NumInputs
      <4>1. PICK new \in requests' : new.status = "done" /\ new.html.queued = queued'
        BY <2>0, <3>2, ServedIsThere DEF Html
      <4>2. queued' > 0 \/ queued' = 0
        BY <3>2, PageAssumption
      <4>3. NewsCome'
        BY <4>1, <4>2 DEF Brings, NewsCome
      <4> QED
        BY <4>3 DEF KeptCurrent
    <3> QED
      BY <2>3, <3>1, <3>2 DEF problem_check
  <2>4. ASSUME NEW r \in requests, problem_get(r)
        PROVE  KeptCurrent'
    <3>1. Served(r, "done", Html) /\ queued' = queued
      BY <2>4 DEF problem_get, server
    <3>2. PICK new \in requests' : new.status = "done" /\ new.html.queued = queued
      BY <2>0, <3>1, ServedIsThere DEF Html
    <3>3. queued' > 0 \/ queued' = 0
      BY <2>0, <3>1
    <3>4. NewsCome'
      BY <3>1, <3>2, <3>3 DEF Brings, NewsCome
    <3> QED
      BY <3>4 DEF KeptCurrent
  <2>5. CASE GraderAnswers
    <3>1. queued' \in Nat /\ queued > 0 /\ UNCHANGED <<pollTimers, givenUp, requests>>
      BY <2>0, <2>5 DEF GraderAnswers, poller
    <3>2. \A q \in requests : Brings(q) => Brings(q)'
      BY <2>0, <3>1 DEF Brings
    <3> QED
      BY <1>2, <3>1, <3>2 DEF KeptCurrent, NewsCome
  <2>6. ASSUME NEW r \in requests, SubmitRefused(r)
        PROVE  KeptCurrent'
    BY <2>1, <2>6 DEF SubmitRefused, poller, server, Brings
  <2>7. ASSUME NEW r \in requests, SubmitGraded(r)
        PROVE  KeptCurrent'
    <3>1. CASE r.html.queued > 0
      BY <2>7, <3>1 DEF SubmitGraded, queueing, KeptCurrent, NewsCome
    <3>2. CASE ~(r.html.queued > 0)
      <4>1. shown'.queued = 0 /\ UNCHANGED <<queued, pollTimers, givenUp>> /\ requests' = requests \ {r}
        BY <2>0, <2>7, <3>2 DEF SubmitGraded, queueing, Rendered, poller, server
      <4>2. ASSUME NEW q \in requests, Brings(q), queued # 0
            PROVE  q \in requests' /\ Brings(q)'
        BY <2>7, <3>2, <4>1, <4>2 DEF SubmitGraded, Brings
      <4> QED
        BY <1>2, <4>1, <4>2 DEF KeptCurrent, NewsCome
    <3> QED
      BY <3>1, <3>2
  <2>8. ASSUME NEW r \in requests, SubmitFails(r) \/ PollFails(r)
        PROVE  KeptCurrent'
    BY <2>8 DEF SubmitFails, PollFails, KeptCurrent
  <2>9. ASSUME NEW t \in pollTimers, PollTimesOut(t)
        PROVE  KeptCurrent'
    <3>1. Brings(Request("poll", t.id, t.previous))'
      BY DEF Request, Brings
    <3> QED
      BY <2>9, <3>1 DEF PollTimesOut, KeptCurrent, NewsCome
  <2>10. ASSUME NEW r \in requests, PollReturns(r)
         PROVE  KeptCurrent'
    <3>1. shown'.queued = r.html.queued /\ queued' = queued /\ requests' = requests \ {r}
      BY <2>10 DEF PollReturns, Rendered, page, server
    <3>2. CASE r.html.queued # 0
      BY <2>10, <3>2 DEF PollReturns, PollAgain, KeptCurrent, NewsCome
    <3>3. CASE r.html.queued = 0
      <4>1. UNCHANGED <<pollTimers, givenUp>>
        BY <2>10, <3>3 DEF PollReturns, PollAgain
      <4>2. ASSUME NEW q \in requests, Brings(q), queued # 0
            PROVE  q \in requests' /\ Brings(q)'
        BY <2>0, <2>10, <3>1, <3>3, <4>2 DEF PollReturns, Brings
      <4> QED
        BY <1>2, <3>1, <3>3, <4>1, <4>2 DEF KeptCurrent, NewsCome
    <3> QED
      BY <3>2, <3>3
  <2>11. CASE OtherProblemQueues
    BY <1>2, <2>1, <2>11 DEF OtherProblemQueues, KeptCurrent, NewsCome, Brings, page, server
  <2>12. CASE UNCHANGED vars
    BY <2>1, <2>12 DEF vars, page, poller, server, Brings
  <2> QED
    BY <1>2, <2>2, <2>3, <2>4, <2>5, <2>6, <2>7, <2>8, <2>9, <2>10, <2>11, <2>12 DEF Next
<1> QED
  BY <1>1, <1>2

(***************************************************************************)
(* While something is queued the page polls, and a quiet page shows what   *)
(* there is, unless it gave up or a request or its timer was lost, however *)
(* submissions, polls and the grader's answers cross.                      *)
(***************************************************************************)
THEOREM PageAlwaysKeepsUp == Spec => []PageKeepsUp
<1>1. Typed /\ WaitingIsPolled /\ KeptCurrent => PageKeepsUp
  BY DEF Typed, PageKeepsUp, KeptCurrent, NewsCome, Polled, QuietPageIsCurrent
<1> QED
  BY <1>1, TypedInductive, WaitingInductive, KeptCurrentInductive, PTL DEF Spec
--------------------------------------------------------------------------------
\* Submissions end with enableButtons, which enables Submit whoever else disabled it; those
\* of files with the later of the answer and the timeout, which enable it too.
LEMMA SubmitInductive ==
    /\ Init => SubmitComesBack
    /\ Typed /\ SubmitComesBack /\ [Next]_vars => SubmitComesBack'
<1>1. Init => SubmitComesBack
  BY DEF Init, SubmitComesBack, SubmissionEnded
<1>2. ASSUME Typed, SubmitComesBack, [Next]_vars
      PROVE  SubmitComesBack'
  <2> SUFFICES ASSUME SubmissionEnded', answered', shown'.may_submit
               PROVE  submitEnabled'
    BY DEF SubmitComesBack
  <2>1. hasFileInput' = hasFileInput
    BY <1>2 DEF Next, submitAnswersAndSubmitButton, submit, submit_fd_Aborted, GateTimesOut,
                GraderAnswers, PollTimesOut, problem_check, SubmitGraded, SubmitRefused, problem_get,
                PollReturns, SubmitFails, PollFails, OtherProblemQueues, OtherProblemStops, vars
  <2>2. ASSUME answered' = answered, shown' = shown, submitEnabled' = submitEnabled,
               UNCHANGED <<has_timed_out, has_response>>,
               \A q \in requests : q.op = "submit" => \E s \in requests' : s.op = "submit"
        PROVE  submitEnabled'
    BY <1>2, <2>1, <2>2 DEF SubmitComesBack, SubmissionEnded
  <2>3. CASE submitAnswersAndSubmitButton
    BY <2>3 DEF submitAnswersAndSubmitButton, EnableSubmit
  <2>4. CASE submit
    <3> DEFINE new == Request("submit", Min(FreshIds), 0)
    <3>1. new.op = "submit"
      BY DEF Request
    <3>2. new \in requests' /\ (hasFileInput => ~has_timed_out')
      BY <2>4 DEF submit
    <3> QED
      BY <2>1, <3>1, <3>2 DEF SubmissionEnded
  <2>5. CASE GateTimesOut
    <3>1. CASE hasFileInput
      BY <2>1, <2>5, <3>1 DEF GateTimesOut, SubmissionEnded, EnableSubmit
    <3>2. CASE ~hasFileInput
      BY <1>2, <2>1, <2>5, <3>2 DEF GateTimesOut, SubmitComesBack, SubmissionEnded, EnableSubmit
    <3> QED
      BY <3>1, <3>2
  <2>6. CASE GraderAnswers \/ OtherProblemQueues \/ OtherProblemStops
    BY <2>2, <2>6 DEF GraderAnswers, OtherProblemQueues, OtherProblemStops, page, gate
  <2>7. ASSUME NEW t \in pollTimers, PollTimesOut(t)
        PROVE  submitEnabled'
    BY <2>2, <2>7 DEF PollTimesOut, page, gate
  <2>8. ASSUME NEW r \in requests, problem_check(r) \/ problem_get(r)
        PROVE  submitEnabled'
    <3>1. PICK status, html : Served(r, status, html)
      BY <2>8 DEF problem_check, problem_get
    <3>2. \A q \in requests : \E s \in requests' : s.op = q.op
      BY <1>2, <3>1, ServedKeeps
    <3>3. UNCHANGED <<page, gate>>
      BY <2>8 DEF problem_check, problem_get
    <3> QED
      BY <2>2, <3>2, <3>3 DEF page, gate
  <2>9. ASSUME NEW r \in requests, SubmitGraded(r) \/ SubmitRefused(r) \/ SubmitFails(r)
        PROVE  submitEnabled'
    <3>1. CASE \/ EndOfSubmission(shown', answered' /\ shown'.may_submit)
               \/ shown' = shown /\ EndOfSubmission(shown, submitEnabled)
      <4>1. has_timed_out' = has_timed_out
        BY <3>1 DEF EndOfSubmission
      <4>2. ~(hasFileInput /\ ~has_timed_out)
        BY <2>1, <4>1 DEF SubmissionEnded
      <4> QED
        BY <3>1, <4>2 DEF EndOfSubmission, SubmitEnabledAfter, EnableSubmit
    <3>2. CASE hasFileInput /\ UNCHANGED <<page, gate>>
      BY <1>2, <2>1, <3>2 DEF page, gate, SubmitComesBack, SubmissionEnded
    <3> QED
      BY <2>9, <3>1, <3>2 DEF SubmitGraded, SubmitRefused, SubmitFails, page
  <2>10. ASSUME NEW r \in requests, PollReturns(r)
         PROVE  submitEnabled'
    <3>1. CASE UNCHANGED page
      BY <2>2, <2>10, <3>1 DEF PollReturns, page, gate
    <3>2. CASE submitEnabled' = (answered' /\ shown'.may_submit)
      BY <3>2
    <3> QED
      BY <2>10, <3>1, <3>2 DEF PollReturns
  <2>11. ASSUME NEW r \in requests, PollFails(r)
         PROVE  submitEnabled'
    BY <2>2, <2>11 DEF PollFails, page, gate
  <2>12. CASE UNCHANGED vars
    BY <2>2, <2>12 DEF vars, page, gate
  <2>13. CASE submit_fd_Aborted
    BY <2>1, <2>13 DEF submit_fd_Aborted, SubmissionEnded
  <2> QED
    BY <1>2, <2>3, <2>4, <2>5, <2>6, <2>7, <2>8, <2>9, <2>10, <2>11, <2>12, <2>13 DEF Next
<1> QED
  BY <1>1, <1>2

(***************************************************************************)
(* Every submission gives Submit back when it has ended, whatever was      *)
(* typed, answered, refused or lost meanwhile; one of files when its       *)
(* answer and the end of its wait have come, in either order.              *)
(***************************************************************************)
THEOREM SubmitAlwaysComesBack == Spec => []SubmitComesBack
BY TypedInductive, SubmitInductive, PTL DEF Spec
================================================================================
