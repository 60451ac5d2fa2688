------------------------------ MODULE ProblemPage ------------------------------
(***************************************************************************)
(* The browser's side of an externally graded problem: the class Problem   *)
(* of problem/assets/static/js/display.js, on a page that may hold other   *)
(* Problems.  It submits, renders what comes back, and while the page      *)
(* shows queued inputs polls problem_get, waiting twice as long each time  *)
(* until it tells the learner to refresh.                                  *)
(*                                                                         *)
(* Requests run concurrently with each other, with timers and with the     *)
(* learner; each is handled by the server some time after it is sent and   *)
(* answered some time after that, in any order.  Delays are not measured:  *)
(* a timer that is set may fire at any later step.                         *)
(***************************************************************************)
EXTENDS Naturals, FiniteSets, FiniteSetsExt

CONSTANTS
    NumInputs,     \* the externally graded inputs of the problem
    MaxAttempts,   \* max_attempts
    AlertAfter,    \* polls are given up at this delay (60000 ms; 1000 ms is 1)
    RequestsFail,  \* a request or its reply may be lost
    OthersOnPage,  \* another Problem of the page uses window.queuePollerID
    Ids            \* bound: ids of the timers and requests pending at once

ASSUME PageAssumption ==
    /\ {NumInputs, MaxAttempts} \subseteq Nat /\ AlertAfter \in Nat \ {0, 1}
    /\ {RequestsFail, OthersOnPage} \subseteq BOOLEAN
    /\ Ids \subseteq Nat \ {0, 1}
    /\ IsFiniteSet(Ids)

NoId == 0
OtherId == 1   \* the id of a timer of another Problem
NoHtml == [queued |-> 0, may_submit |-> FALSE]

VARIABLES
    attempts, queued,   \* the server's: attempts used, and inputs queued now
    shown,              \* the html on the page; shown.queued is num_queued_items
    answered,           \* submitAnswersAndSubmitButton finds an answer filled in
    submitEnabled,      \* the Submit button has no "disabled" attribute
    hasFileInput,       \* the problem has an input:file
    has_timed_out, has_response,
    gateTimers,         \* timeouts of enableSubmitButtonAfterTimeout, pending
    queuePollerID,      \* window.queuePollerID
    pollTimers,         \* timeouts that will poll this problem, pending
    requests,           \* sent and not yet answered
    givenUp             \* history: since queueing() last ran the learner was told to
                        \* refresh, or a request or the timer of the poller was lost

server == <<attempts, queued>>
page == <<shown, answered, submitEnabled>>
gate == <<has_timed_out, has_response, gateTimers>>
poller == <<queuePollerID, pollTimers, givenUp>>
vars == <<server, page, hasFileInput, gate, poller, requests>>

Html == [queued |-> queued, may_submit |-> attempts < MaxAttempts]

\* The id of a new timer, and of a request a click sends.  A timer that is set
\* by a response takes the id of the request, which nothing uses any more.
FreshIds == Ids \ ({t.id : t \in pollTimers} \cup {r.id : r \in requests} \cup {queuePollerID})

Request(op, id, previous) ==
    [op |-> op, id |-> id, previous |-> previous, status |-> "sent", html |-> NoHtml]
Timer(id, previous) == [id |-> id, previous |-> previous]

\* enableSubmitButton(true), for the button of this html and its state.
EnableSubmit(html, enabled) == enabled \/ html.may_submit

\* The new html on the page, its inputs filled with what the server saved, and
\* bind(), which enables Submit if they are.
Rendered(html) ==
    /\ shown' = html
    /\ answered' \in BOOLEAN
--------------------------------------------------------------------------------
Init ==
    /\ attempts = 0
    /\ queued = 0
    /\ shown = Html
    /\ answered \in BOOLEAN
    /\ submitEnabled = (answered /\ shown.may_submit)
    /\ hasFileInput \in BOOLEAN
    /\ has_timed_out = FALSE /\ has_response = FALSE
    /\ gateTimers = 0
    /\ queuePollerID = NoId
    /\ pollTimers = {}
    /\ requests = {}
    /\ givenUp = FALSE

(***************************************************************************)
(* The learner fills in or empties an input, submits, or submits and is    *)
(* stopped by the checks on the files.                                     *)
(***************************************************************************)
submitAnswersAndSubmitButton ==
    /\ answered' \in BOOLEAN
    /\ submitEnabled' = IF answered' THEN EnableSubmit(shown, submitEnabled) ELSE FALSE
    /\ UNCHANGED <<server, shown, hasFileInput, gate, poller, requests>>

submit ==
    /\ submitEnabled
    /\ FreshIds # {}
    /\ gateTimers < Cardinality(Ids)
    /\ requests' = requests \cup {Request("submit", Min(FreshIds), 0)}
    /\ submitEnabled' = FALSE
    /\ IF hasFileInput
       THEN /\ has_timed_out' = FALSE
            /\ has_response' = FALSE
            /\ gateTimers' = gateTimers + 1
       ELSE UNCHANGED gate
    /\ UNCHANGED <<server, shown, answered, hasFileInput, poller>>

submit_fd_Aborted ==
    /\ submitEnabled
    /\ hasFileInput
    /\ has_timed_out' = FALSE
    /\ has_response' = FALSE
    /\ submitEnabled' = EnableSubmit(shown, FALSE)
    /\ UNCHANGED <<server, shown, answered, hasFileInput, gateTimers, poller, requests>>

\* The timeout of enableSubmitButtonAfterTimeout.
GateTimesOut ==
    /\ gateTimers > 0
    /\ gateTimers' = gateTimers - 1
    /\ has_timed_out' = TRUE
    /\ submitEnabled' = IF has_response THEN EnableSubmit(shown, submitEnabled)
                        ELSE submitEnabled
    /\ UNCHANGED <<server, shown, answered, hasFileInput, has_response, poller, requests>>

(***************************************************************************)
(* The server and the grader.                                              *)
(***************************************************************************)
Served(r, status, html) ==
    requests' = (requests \ {r}) \cup {[r EXCEPT !.status = status, !.html = html]}

\* problem_check queues every input, or answers why not: the problem is closed,
\* or it is too soon after a submission that is still queued.
problem_check(r) ==
    /\ r.op = "submit" /\ r.status = "sent"
    /\ \/ /\ attempts < MaxAttempts
          /\ attempts' = attempts + 1
          /\ queued' = NumInputs
          /\ Served(r, "done", Html')
       \/ /\ attempts = MaxAttempts \/ queued > 0
          /\ Served(r, "refused", NoHtml)
          /\ UNCHANGED server
    /\ UNCHANGED <<page, hasFileInput, gate, poller>>

problem_get(r) ==
    /\ r.op = "poll" /\ r.status = "sent"
    /\ Served(r, "done", Html)
    /\ UNCHANGED <<server, page, hasFileInput, gate, poller>>

GraderAnswers ==
    /\ queued > 0
    /\ queued' = queued - 1
    /\ UNCHANGED <<attempts, page, hasFileInput, gate, poller, requests>>

(***************************************************************************)
(* queueing(), at the end of render(): start polling in 1000 ms, in place  *)
(* of the timer that queuePollerID names.                                  *)
(***************************************************************************)
queueing_Once(html, id) ==
    IF html.queued > 0 /\ queuePollerID = NoId
    THEN /\ pollTimers' = pollTimers \cup {Timer(id, 1)}
         /\ queuePollerID' = id
         /\ givenUp' = FALSE
    ELSE UNCHANGED poller

queueing(html, id) ==
    IF html.queued > 0
    THEN /\ pollTimers' = {t \in pollTimers : t.id # queuePollerID} \cup {Timer(id, 1)}
         /\ queuePollerID' = id
         /\ givenUp' = FALSE
    ELSE UNCHANGED poller

\* The button when a submission ends: enableSubmitButtonAfterResponse for one
\* of files, and enableButtons of the buttons it disabled for any other.
SubmitEnabledAfter_AnyGate(html, enabled) ==
    IF ~has_timed_out THEN FALSE ELSE EnableSubmit(html, enabled)
SubmitEnabledAfter(html, enabled) ==
    IF hasFileInput /\ ~has_timed_out THEN FALSE ELSE EnableSubmit(html, enabled)

EndOfSubmission(html, enabled) ==
    /\ submitEnabled' = SubmitEnabledAfter(html, enabled)
    /\ has_response' = (hasFileInput \/ has_response)
    /\ UNCHANGED <<has_timed_out, gateTimers>>

SubmitGraded(r) ==
    /\ r.op = "submit" /\ r.status = "done"
    /\ requests' = requests \ {r}
    /\ Rendered(r.html)
    /\ EndOfSubmission(shown', answered' /\ shown'.may_submit)
    /\ queueing(r.html, r.id)
    /\ UNCHANGED <<server, hasFileInput>>

SubmitRefused(r) ==
    /\ r.op = "submit" /\ r.status = "refused"
    /\ requests' = requests \ {r}
    /\ EndOfSubmission(shown, submitEnabled)
    /\ UNCHANGED <<server, shown, answered, hasFileInput, poller>>

\* The connection fails.  For a submission of files the error handler raises,
\* as there is no responseJSON, and "complete" is never called.
SubmitFails(r) ==
    /\ RequestsFail
    /\ r.op = "submit"
    /\ requests' = requests \ {r}
    /\ givenUp' = TRUE
    /\ IF hasFileInput THEN UNCHANGED <<submitEnabled, gate>>
       ELSE EndOfSubmission(shown, submitEnabled)
    /\ UNCHANGED <<server, shown, answered, hasFileInput, queuePollerID, pollTimers>>

(***************************************************************************)
(* poll().                                                                 *)
(***************************************************************************)
PollTimesOut(t) ==
    /\ pollTimers' = pollTimers \ {t}
    /\ requests' = requests \cup {Request("poll", t.id, t.previous)}
    /\ UNCHANGED <<server, page, hasFileInput, gate, queuePollerID, givenUp>>

NextDelay_Constant(previous) == previous
NextDelay(previous) == 2 * previous

\* A response that leaves none also clears the timer that is set.
PollAgain_Clears(left, previous, id) ==
    IF left = 0
    THEN /\ pollTimers' = {t \in pollTimers : t.id # queuePollerID}
         /\ queuePollerID' = NoId
         /\ UNCHANGED givenUp
    ELSE IF NextDelay(previous) >= AlertAfter
    THEN queuePollerID' = NoId /\ givenUp' = TRUE /\ UNCHANGED pollTimers
    ELSE /\ pollTimers' = pollTimers \cup {Timer(id, NextDelay(previous))}
         /\ queuePollerID' = id
         /\ UNCHANGED givenUp

\* After a response that leaves this many inputs queued: stop, give up, or wait
\* twice as long.
PollAgain(left, previous, id) ==
    IF left = 0 THEN queuePollerID' = NoId /\ UNCHANGED <<pollTimers, givenUp>>
    ELSE IF NextDelay(previous) >= AlertAfter
    THEN queuePollerID' = NoId /\ givenUp' = TRUE /\ UNCHANGED pollTimers
    ELSE /\ pollTimers' = pollTimers \cup {Timer(id, NextDelay(previous))}
         /\ queuePollerID' = id
         /\ UNCHANGED givenUp

PollReturns(r) ==
    /\ r.op = "poll" /\ r.status = "done"
    /\ requests' = requests \ {r}
    /\ IF r.html.queued = shown.queued THEN UNCHANGED page
       ELSE /\ Rendered(r.html)
            /\ submitEnabled' = (answered' /\ shown'.may_submit)
    /\ PollAgain(r.html.queued, r.previous, r.id)
    /\ UNCHANGED <<server, hasFileInput, gate>>

PollFails(r) ==
    /\ RequestsFail
    /\ r.op = "poll"
    /\ requests' = requests \ {r}
    /\ givenUp' = TRUE
    /\ UNCHANGED <<server, page, hasFileInput, gate, queuePollerID, pollTimers>>

(***************************************************************************)
(* Another Problem of the page calls queueing, or its poller stops.        *)
(***************************************************************************)
OtherProblemQueues ==
    /\ OthersOnPage
    /\ pollTimers' = {t \in pollTimers : t.id # queuePollerID}
    /\ givenUp' = (givenUp \/ pollTimers' # pollTimers)
    /\ queuePollerID' = OtherId
    /\ UNCHANGED <<server, page, hasFileInput, gate, requests>>

OtherProblemStops ==
    /\ OthersOnPage
    /\ queuePollerID' = NoId
    /\ UNCHANGED <<server, page, hasFileInput, gate, pollTimers, givenUp, requests>>

Next ==
    \/ submitAnswersAndSubmitButton \/ submit \/ submit_fd_Aborted
    \/ GateTimesOut
    \/ GraderAnswers
    \/ \E t \in pollTimers : PollTimesOut(t)
    \/ \E r \in requests : \/ problem_check(r) \/ SubmitGraded(r) \/ SubmitRefused(r)
                           \/ problem_get(r) \/ PollReturns(r)
                           \/ SubmitFails(r) \/ PollFails(r)
    \/ OtherProblemQueues \/ OtherProblemStops

\* The server handles requests, and the browser runs timers that are due and
\* the handlers of responses.  Nothing is assumed of the learner, the grader or
\* another Problem.
Fairness ==
    /\ WF_vars(\E r \in requests : problem_check(r))
    /\ WF_vars(\E r \in requests : SubmitGraded(r) \/ SubmitRefused(r))
    /\ WF_vars(\E t \in pollTimers : PollTimesOut(t))
    /\ WF_vars(\E r \in requests : problem_get(r))
    /\ WF_vars(\E r \in requests : PollReturns(r))

Spec == Init /\ [][Next]_vars /\ Fairness
--------------------------------------------------------------------------------
HtmlType == [queued : 0 .. NumInputs, may_submit : BOOLEAN]

TypeOK ==
    /\ attempts \in 0 .. MaxAttempts
    /\ queued \in 0 .. NumInputs
    /\ shown \in HtmlType
    /\ {answered, submitEnabled, hasFileInput, has_timed_out, has_response,
        givenUp} \subseteq BOOLEAN
    /\ gateTimers \in 0 .. Cardinality(Ids)
    /\ queuePollerID \in Ids \cup {NoId, OtherId}
    /\ pollTimers \subseteq [id : Ids, previous : 1 .. AlertAfter - 1]
    /\ requests \subseteq [op : {"submit", "poll"}, id : Ids, previous : 0 .. AlertAfter - 1,
                           status : {"sent", "done", "refused"}, html : HtmlType]

Polled == pollTimers # {} \/ \E r \in requests : r.op = "poll"

(***************************************************************************)
(* A page that shows queued inputs is polling, whatever replies crossed,   *)
(* unless it has told the learner to refresh, or lost a request or its     *)
(* timer since it last rendered a submission.                              *)
(***************************************************************************)
WaitingIsPolled == shown.queued > 0 => Polled \/ givenUp

(***************************************************************************)
(* A page with nothing pending shows what the server has queued, with the  *)
(* same exceptions: no order of replies leaves it with an old state.       *)
(***************************************************************************)
QuietPageIsCurrent ==
    ~Polled /\ requests = {} /\ ~givenUp => shown.queued = queued

(***************************************************************************)
(* A page keeps up with the server: while something is queued it asks, and *)
(* when it asks no more it shows what there is.                            *)
(***************************************************************************)
PageKeepsUp == TypeOK /\ WaitingIsPolled /\ QuietPageIsCurrent

(***************************************************************************)
(* A submission gives the Submit button back: when it has ended, a         *)
(* filled-in form that the server lets the learner submit can be           *)
(* submitted.  It has ended when none is pending; that of files when its   *)
(* answer has come and its 750 ms are over, in either order.  (It never    *)
(* does if its connection failed, or if the files of another submission    *)
(* were refused by the page meanwhile, which starts the wait anew.)        *)
(***************************************************************************)
SubmissionEnded ==
    IF hasFileInput THEN has_timed_out /\ has_response
    ELSE \A r \in requests : r.op # "submit"

SubmitComesBack == SubmissionEnded /\ answered /\ shown.may_submit => submitEnabled

(***************************************************************************)
(* Waiting ends: the inputs are shown graded, or the learner is told to    *)
(* refresh, or a request or the timer was lost.                            *)
(***************************************************************************)
WaitingEnds == shown.queued > 0 ~> (shown.queued = 0 \/ givenUp)
================================================================================
