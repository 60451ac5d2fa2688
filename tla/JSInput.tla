-------------------------------- MODULE JSInput --------------------------------
(***************************************************************************)
(* A problem with a jsinput: an application in a frame, whose answer and   *)
(* state are asked for when Submit is clicked (submit_save_waitfor), and   *)
(* whose saved state is put back when the problem is shown again.  A frame *)
(* of the same origin is called directly, another over a JSChannel.        *)
(*                                                                         *)
(* What the learner has made in the frame is a number: 0 when it is new,   *)
(* 1 as it was saved, then more with every change.                         *)
(***************************************************************************)
EXTENDS Integers, Sequences, FiniteSets, SequencesExt

CONSTANTS MaxWork, MaxClicks,  \* bounds: changes made in the frame, clicks on Submit
          MaxTries             \* how often setState is tried (5)

VARIABLE js

Channel == INSTANCE JSChannel WITH ch <- js.ch, FirstIds <- {1}, MaxCalls <- 0

Thrown == -1
Asked(id, method, click, answer) ==
    [id |-> id, method |-> method, click |-> click, answer |-> answer]
\* A click on Submit: what was in the frame, and whether it had its saved state or would have.
Click(s) == [made |-> IF s.restored THEN s.made ELSE 0,
             ordered |-> s.restored \/ (~s.sop /\ s.ch.page.ready)]
--------------------------------------------------------------------------------
\* channel.call, and who waits for its answer.
call(s, method, click, answer) ==
    [s EXCEPT !.ch = Channel!call(@, "page", method, FALSE),
              !.asked = @ \cup {Asked(s.ch.page.s_curTranId, method, click, answer)}]

setState(s) == [s EXCEPT !.made = 1, !.restored = TRUE]

\* Tried until the frame's function is there, and no more than so often.
whileloop_Waits(s, n) ==
    IF n = 0 THEN s
    ELSE IF ~s.sop THEN IF n = MaxTries THEN [s EXCEPT !.tries = n - 1]
                        ELSE call([s EXCEPT !.tries = 0], "setState", Click(s), 0)
    ELSE IF s.loaded THEN [setState(s) EXCEPT !.tries = 0]
    ELSE [s EXCEPT !.tries = n - 1]
whileloop(s, n) ==
    IF n = 0 THEN s
    ELSE IF ~s.sop THEN call(s, "setState", Click(s), 0)
    ELSE IF s.loaded THEN [setState(s) EXCEPT !.tries = 0]
    ELSE [s EXCEPT !.tries = n - 1]

jsinputConstructor(sop, saves, inputs, first) ==
    LET s == [sop |-> sop, saves |-> saves, inputs |-> inputs,
              ch |-> [page |-> Channel!build([page |-> Channel!Window(first)], "page").page,
                      frame |-> Channel!Window(1),
                      to |-> [w \in {"page", "frame"} |-> <<>>],
                      log |-> [w \in {"page", "frame"} |-> Channel!Quiet]],
              loaded |-> FALSE, made |-> 0, restored |-> ~saves, tries |-> 0, asked |-> {},
              input |-> <<0, 0>>, sent |-> <<>>, clicks |-> 0, failed |-> FALSE, worked |-> 0]
    IN  IF saves THEN whileloop(s, MaxTries) ELSE s

\* The problem is sent with what its inputs hold now.
submit_internal(s, click) ==
    [s EXCEPT !.sent = Append(@, [input |-> s.input, click |-> click])]

answered(s, answer, state, click) == submit_internal([s EXCEPT !.input = <<answer, state>>], click)

\* Answer and state are two calls when they go over a channel.
update_StateFirst(s) ==
    IF s.sop THEN answered(s, s.made, s.made, Click(s)) ELSE call(s, "getState", Click(s), 0)
update(s) ==
    IF s.sop THEN answered(s, s.made, s.made, Click(s)) ELSE call(s, "getGrade", Click(s), 0)

\* The flag is the last input's; when it is false the problem is sent at once.
submit_save_waitfor(s) ==
    LET asking == IF "js" \in ToSet(s.inputs) THEN update(s) ELSE s
    IN  IF Last(s.inputs) = "js" THEN asking ELSE submit_internal(asking, Click(s))

\* The frame does what it is asked; what its function throws comes back as an error.
frameServes(s, m, throws) ==
    LET now == IF m.arg = "setState" THEN setState(s) ELSE s
    IN  IF throws THEN [s EXCEPT !.ch = Channel!complete(@, "frame", m.id, Thrown), !.failed = TRUE]
        ELSE [now EXCEPT !.ch = Channel!complete(@, "frame", m.id, s.made)]

\* The page has no error function: an error raises in the handler, and the call stays open.
success(s, r, value) ==
    IF r.method = "getGrade" /\ s.saves THEN call(s, "getState", r.click, value)
    ELSE IF r.method = "getGrade" THEN answered(s, value, value, r.click)
    ELSE IF r.method = "getState" THEN answered(s, r.answer, value, r.click)
    ELSE s
--------------------------------------------------------------------------------
Init ==
    \E sop, saves \in BOOLEAN, inputs \in {<<"js">>, <<"js", "text">>, <<"text", "js">>} :
        js = jsinputConstructor(sop, saves, inputs, 1)

\* The frame has run its scripts: its functions are there, or its channel is.
FrameLoads ==
    /\ ~js.loaded
    /\ js' = [js EXCEPT !.loaded = TRUE,
                        !.ch = IF js.sop THEN @ ELSE Channel!build(@, "frame")]
TryAgain == js.tries > 0 /\ js' = whileloop(js, js.tries)

Ping(w) ==
    /\ ~js.sop /\ js.ch[w].bound /\ ~js.ch[w].pinged
    /\ js' = [js EXCEPT !.ch = Channel!transmit([@ EXCEPT ![w].pinged = TRUE], w,
                                               Channel!Ready("ping"))]
Received(w) == [js EXCEPT !.ch.to[w] = Tail(@)]
FrameReceives ==
    /\ js.ch.to.frame # <<>>
    /\ LET m == Head(js.ch.to.frame)
       IN  IF m.kind = "request" /\ js.ch.frame.bound
           THEN \E throws \in BOOLEAN :
                   /\ m.arg = "setState" => ~throws
                   /\ js' = frameServes(Received("frame"), m, throws)
           ELSE js' = [Received("frame") EXCEPT !.ch = Channel!s_onMessage(@, "frame", m, "returns")]
PageReceives ==
    /\ js.ch.to.page # <<>>
    /\ LET m == Head(js.ch.to.page)
           waits == {r \in js.asked : r.id = m.id}
       IN  IF m.kind # "answer"
           THEN js' = [Received("page") EXCEPT !.ch = Channel!s_onMessage(@, "page", m, "returns")]
           ELSE IF m.arg = Thrown THEN js' = Received("page")
           ELSE LET r == CHOOSE x \in waits : TRUE
                    now == [Received("page") EXCEPT !.asked = @ \ {r}]
                IN  js' = [success(now, r, m.arg) EXCEPT
                             !.ch = Channel!s_onMessage(@, "page", m, "returns")]

Work ==
    /\ js.loaded /\ js.worked < MaxWork
    /\ js' = [js EXCEPT !.made = js.worked + 2, !.worked = @ + 1]

\* Before a frame of the same origin is loaded the click raises, and nothing is sent.
Submit ==
    /\ js.clicks < MaxClicks
    /\ js' = IF js.sop /\ ~js.loaded THEN [js EXCEPT !.clicks = @ + 1, !.failed = TRUE]
             ELSE submit_save_waitfor([js EXCEPT !.clicks = @ + 1])

\* The answer of the server shows the problem again, with the state that was sent.
ShownAgain ==
    /\ js.sent # <<>> /\ js.asked = {} /\ js.saves
    /\ js' = [jsinputConstructor(js.sop, TRUE, js.inputs, js.ch.page.s_curTranId)
                EXCEPT !.clicks = js.clicks]

Next ==
    \/ FrameLoads \/ TryAgain \/ FrameReceives \/ PageReceives \/ Work \/ Submit \/ ShownAgain
    \/ \E w \in {"page", "frame"} : Ping(w)

Fairness ==
    /\ WF_js(FrameLoads) /\ WF_js(TryAgain) /\ WF_js(FrameReceives) /\ WF_js(PageReceives)
    /\ \A w \in {"page", "frame"} : WF_js(Ping(w))
Spec == Init /\ [][Next]_js /\ Fairness
--------------------------------------------------------------------------------
LastWaits == Last(js.inputs) = "js"

TypeOK == /\ js.tries \in 0 .. MaxTries
          /\ \A r \in js.asked : r.id \in js.ch.page.outTbl /\ r.id < js.ch.page.s_curTranId

(***************************************************************************)
(* The answer that is graded is the one in the frame when Submit was       *)
(* clicked, or a later one; and the state saved with it is never older.    *)
(* (Between the two calls the frame may be changed: then it is newer.)     *)
(***************************************************************************)
SentIsEntered ==
    LastWaits => \A i \in DOMAIN js.sent :
        LET x == js.sent[i]
        IN  x.click.ordered => /\ x.click.made <= x.input[1] /\ x.input[1] <= x.input[2]
                               /\ js.sop => x.input[1] = x.input[2]

(***************************************************************************)
(* No answer is read from a frame that has not got its saved state back,   *)
(* unless Submit was clicked before the frame could be reached (what is    *)
(* queued until then is called the last first) or, for one of the same     *)
(* origin, before the next try or after the last.                          *)
(***************************************************************************)
SentIsRestored ==
    js.saves /\ LastWaits => \A i \in DOMAIN js.sent :
        js.sent[i].click.ordered => js.sent[i].input[1] >= 1

\* The saved state is put back once: what is made afterwards stays.
WorkStays ==
    [][js.restored /\ js'.restored /\ Len(js'.sent) >= Len(js.sent) => js'.made >= js.made]_js

\* When the last input is the frame's, one click sends the problem once.
OneClickOneSubmission == LastWaits => Len(js.sent) <= js.clicks

\* A click is answered by a submission, unless the frame's function threw.
Asking == \E r \in js.asked : r.method # "setState"
ClickIsSent == Asking ~> ~Asking \/ js.failed
================================================================================
