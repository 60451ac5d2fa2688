------------------------------- MODULE JSChannel -------------------------------
(***************************************************************************)
(* jschannel.js: requests with callbacks, answers, errors and time-outs    *)
(* between a page and a frame, over messages of windows.  Both sides run   *)
(* this same code.  A message to a window that has no channel is lost.     *)
(***************************************************************************)
EXTENDS Integers, Sequences, FiniteSets, SequencesExt

CONSTANTS FirstIds,  \* where s_curTranId may start
          MaxCalls   \* bound: calls made in all

VARIABLE ch

Sides == {"page", "frame"}
Other(w) == IF w = "page" THEN "frame" ELSE "page"

Message(kind, id, arg) == [kind |-> kind, id |-> id, arg |-> arg]
Ready(type) == Message("ready", -1, type)

\* A window; bound: a channel is in s_boundChans, registered: __ready is in regTbl.
Window(first) ==
    [bound |-> FALSE, pinged |-> FALSE, ready |-> FALSE, registered |-> FALSE,
     pendingQueue |-> <<>>, outTbl |-> {}, inTbl |-> {}, s_curTranId |-> first,
     s_transIds |-> {}, timers |-> {}]

\* History: calls made and ended here, callbacks invoked and heard here.
Quiet == [asked |-> {}, ended |-> <<>>, invoked |-> {}, heard |-> {}]
--------------------------------------------------------------------------------
build(s, w) ==
    [s EXCEPT ![w].bound = TRUE, ![w].registered = TRUE, ![w].ready = FALSE]

transmit(s, w, m) == [s EXCEPT !.to[Other(w)] = Append(@, m)]
postMessage(s, w, m) ==
    IF s[w].ready THEN transmit(s, w, m) ELSE [s EXCEPT ![w].pendingQueue = Append(@, m)]

\* What was queued goes out, the last first.
flush(s, w) ==
    [s EXCEPT !.to[Other(w)] = @ \o Reverse(s[w].pendingQueue), ![w].pendingQueue = <<>>]

onReady_FlushesFirst(s, w, type) ==
    LET open == flush([s EXCEPT ![w].registered = FALSE, ![w].ready = TRUE], w)
    IN  IF type = "ping" THEN transmit(open, w, Ready("pong")) ELSE open
onReady_Silent(s, w, type) == flush([s EXCEPT ![w].registered = FALSE, ![w].ready = TRUE], w)
onReady(s, w, type) ==
    LET open == [s EXCEPT ![w].registered = FALSE, ![w].ready = TRUE]
    IN  flush(IF type = "ping" THEN transmit(open, w, Ready("pong")) ELSE open, w)

call(s, w, method, timed) ==
    LET id == s[w].s_curTranId
    IN  postMessage([s EXCEPT
            ![w].outTbl = @ \cup {id}, ![w].s_transIds = @ \cup {id},
            ![w].timers = IF timed THEN @ \cup {id} ELSE @, ![w].s_curTranId = @ + 1,
            !.log[w].asked = @ \cup {id}], w, Message("request", id, method))

\* The end of a call: its success or its error function runs, and it is forgotten.
ended(s, w, id, how) ==
    [s EXCEPT ![w].outTbl = @ \ {id}, ![w].s_transIds = @ \ {id},
              !.log[w].ended = Append(@, <<id, how>>)]

\* What the bound function does: it returns or throws, or says it will answer later.
Handles == {"returns", "throws", "later"}
complete(s, w, id, how) == postMessage([s EXCEPT ![w].inTbl = @ \ {id}], w, Message("answer", id, how))
serve(s, w, id, does) ==
    LET now == [s EXCEPT ![w].inTbl = @ \cup {id}]
    IN  CASE does = "returns" -> complete(now, w, id, "result")
          [] does = "throws" -> complete(now, w, id, "error")
          [] does = "later" -> now

\* An id that is 0 counts as none: a request is a notification, an answer is nothing.
onMessage(s, w, m, does) ==
    CASE m.kind = "ready" -> IF s[w].registered THEN onReady(s, w, m.arg) ELSE s
      [] m.kind = "request" ->
            IF m.id = 0 THEN s ELSE serve(s, w, m.id, does)
      [] m.kind = "callback" ->
            IF m.id # 0 /\ m.id \in s[w].outTbl
            THEN [s EXCEPT !.log[w].heard = @ \cup {m.id}] ELSE s
      [] m.kind = "answer" ->
            IF m.id # 0 /\ m.id \in s[w].outTbl THEN ended(s, w, m.id, m.arg) ELSE s

\* Requests go to the channel that is bound, the others to who waits for their id.
s_onMessage(s, w, m, does) ==
    IF m.kind \in {"ready", "request"} THEN IF s[w].bound THEN onMessage(s, w, m, does) ELSE s
    ELSE IF m.id \in s[w].s_transIds THEN onMessage(s, w, m, does) ELSE s

setTransactionTimeout(s, w, id) ==
    LET now == [s EXCEPT ![w].timers = @ \ {id}]
    IN  IF id \in s[w].outTbl THEN ended(now, w, id, "timeout") ELSE now

\* The ids that answers are awaited for stay, and go to a channel that forgot them.
destroy(s, w) ==
    [s EXCEPT ![w].bound = FALSE, ![w].registered = FALSE, ![w].ready = FALSE,
              ![w].inTbl = {}, ![w].outTbl = {}, ![w].pendingQueue = <<>>]
--------------------------------------------------------------------------------
Init ==
    \E first \in FirstIds :
        ch = [page |-> Window(first), frame |-> Window(1), to |-> [w \in Sides |-> <<>>],
              log |-> [w \in Sides |-> Quiet], reloaded |-> FALSE, destroyed |-> FALSE]

Build(w) ==
    /\ ~ch[w].bound /\ ~ch[w].pinged
    /\ ch' = build(ch, w)
\* The time-out of 0 ms after build.
Ping(w) ==
    /\ ch[w].bound /\ ~ch[w].pinged
    /\ ch' = transmit([ch EXCEPT ![w].pinged = TRUE], w, Ready("ping"))

\* Bounds: the first call of a side may be timed, none is made after a reload.
Call(w) ==
    /\ ch[w].bound /\ ~ch.reloaded /\ Cardinality(ch.log.page.asked) + Cardinality(ch.log.frame.asked) < MaxCalls
    /\ \E timed \in {ch.log[w].asked = {}, FALSE} : ch' = call(ch, w, "method", timed)
Deliver(w) ==
    /\ ch.to[w] # <<>>
    /\ LET now == [ch EXCEPT !.to[w] = Tail(@)]
           m == Head(ch.to[w])
       IN  \E does \in IF m.kind = "request" THEN Handles ELSE {"returns"} :
               ch' = s_onMessage(now, w, m, does)
TimesOut(w) == \E id \in ch[w].timers : ch' = setTransactionTimeout(ch, w, id)

\* A function that answers later calls back first (bound: once), and then answers.
Invoke(w) ==
    \E id \in ch[w].inTbl :
        /\ id \notin ch.log[w].invoked
        /\ ch' = postMessage([ch EXCEPT !.log[w].invoked = @ \cup {id}], w,
                             Message("callback", id, ""))
Complete(w) ==
    \E id \in ch[w].inTbl : ch' = complete(ch, w, id, "result")

\* The frame is loaded again: a new window, whose ids are new and which knows nothing.
Reload ==
    /\ ch.frame.bound /\ ~ch.reloaded /\ ~ch.destroyed
    /\ ch' = [ch EXCEPT !.frame = Window(100), !.to.frame = <<>>, !.log.frame = Quiet,
                        !.reloaded = TRUE]
Destroy ==
    /\ ch.page.bound /\ ~ch.destroyed /\ ~ch.reloaded
    /\ ch' = [destroy(ch, "page") EXCEPT !.destroyed = TRUE]

Next ==
    \/ \E w \in Sides : \/ Build(w) \/ Ping(w) \/ Call(w) \/ Deliver(w)
                        \/ TimesOut(w) \/ Invoke(w) \/ Complete(w)
    \/ Reload \/ Destroy

\* The browser runs what is loaded and delivers messages; a request is answered.
Fairness ==
    \A w \in Sides : /\ WF_ch(Build(w)) /\ WF_ch(Ping(w))
                     /\ WF_ch(Deliver(w)) /\ WF_ch(Complete(w))

Spec == Init /\ [][Next]_ch /\ Fairness
--------------------------------------------------------------------------------
Untouched == ~ch.reloaded /\ ~ch.destroyed

TypeOK ==
    \A w \in Sides :
        /\ ch[w].outTbl \subseteq ch[w].s_transIds \cup {0}
        /\ ch[w].ready => ~ch[w].registered /\ ch[w].pendingQueue = <<>>

(***************************************************************************)
(* A call ends once: with its result, its error or its time-out, whichever *)
(* of the timer and the answer comes first.                                *)
(***************************************************************************)
EndsOnce ==
    \A w \in Sides : \A i, j \in DOMAIN ch.log[w].ended :
        i # j => ch.log[w].ended[i][1] # ch.log[w].ended[j][1]

\* However the two are loaded, a side that is not ready first hears of the handshake.
HandshakeFirst ==
    Untouched => \A w \in Sides : \A i \in DOMAIN ch.to[w] :
        ~ch[w].ready => \E j \in 1 .. i : ch.to[w][j].kind = "ready"

(***************************************************************************)
(* A function in the parameters that was called before the request was     *)
(* answered has run when the call ends with that answer.                   *)
(***************************************************************************)
CallbacksComeFirst ==
    Untouched => \A w \in Sides : \A i \in DOMAIN ch.log[w].ended :
        LET id == ch.log[w].ended[i][1]
        IN  ch.log[w].ended[i][2] # "timeout" /\ id \in ch.log[Other(w)].invoked
                => id \in ch.log[w].heard

\* Whichever side is loaded first, both become ready.
BothGetReady ==
    (ch.page.bound /\ ch.frame.bound) ~> (ch.page.ready /\ ch.frame.ready) \/ ~Untouched

(***************************************************************************)
(* Every call ends, even one made before the other side is there; unless   *)
(* its id is 0, the channel is destroyed, or the frame is loaded again:    *)
(* the new frame is never told that the page is ready, and queues its      *)
(* answers for ever.                                                       *)
(***************************************************************************)
CallsEnd ==
    \A w \in Sides : \A id \in 1 .. MaxCalls + 1 :
        id \in ch[w].outTbl ~> id \notin ch[w].outTbl \/ ~Untouched
================================================================================
