------------------------------ MODULE MCExchanges ------------------------------
(***************************************************************************)
(* The parts that exchange messages: a page with the frame of an input,    *)
(* with the service that previews formulas, with scripts that load and     *)
(* inputs that tell each other, and an LTI block with its provider.  Each  *)
(* behaviour is about one of them, focus, and leaves the others where they *)
(* start.                                                                  *)
(***************************************************************************)
EXTENDS Integers, Sequences, FiniteSets

CONSTANTS FirstIds, MaxCalls, MaxWork, MaxClicks, MaxTries,
          MaxEdits, Tags, Comments,
          Students, Scores, MaxResults, MaxFlying

\* An LTI block that is not in focus.
Plain == [has_score |-> TRUE, weight |-> 1, accept_grades_past_due |-> TRUE]

\* What the parts ask of their constants.
ASSUME ExchangesAssumption ==
    /\ FirstIds \subseteq Nat /\ "" \in Comments /\ IsFiniteSet(Tags)
    /\ Scores \subseteq Nat
    /\ {MaxCalls, MaxWork, MaxClicks, MaxTries, MaxEdits, MaxResults, MaxFlying} \subseteq Nat \ {0}

VARIABLES focus, ch, js, formula, widgets, lti

Channel == INSTANCE JSChannel
Frame == INSTANCE JSInput
Formula == INSTANCE FormulaPreview
Widgets == INSTANCE ProblemWidgets
Results == INSTANCE LTIResult WITH Comments <- Comments \ {""}

vars == <<focus, ch, js, formula, widgets, lti>>

\* Where a part that is not in focus rests.
Init ==
    /\ focus \in {"channel", "frame", "formula", "widgets", "lti"}
    /\ Channel!Init /\ (focus # "channel" => ch.page.s_curTranId = 1)
    /\ Frame!Init /\ (focus # "frame" => js.sop /\ js.saves /\ js.inputs = <<"js">>)
    /\ Formula!Init /\ (focus # "formula" => formula.text = 0)
    /\ Widgets!Init
    /\ focus # "widgets" => widgets.scripts.placeholders = <<>> /\ ~widgets.output.translated
    /\ Results!Init /\ (focus # "lti" => lti.block = Plain)

Next ==
    \/ focus = "channel" /\ Channel!Next /\ UNCHANGED <<focus, js, formula, widgets, lti>>
    \/ focus = "frame" /\ Frame!Next /\ UNCHANGED <<focus, ch, formula, widgets, lti>>
    \/ focus = "formula" /\ Formula!Next /\ UNCHANGED <<focus, ch, js, widgets, lti>>
    \/ focus = "widgets" /\ Widgets!Next /\ UNCHANGED <<focus, ch, js, formula, lti>>
    \/ focus = "lti" /\ Results!Next /\ UNCHANGED <<focus, ch, js, formula, widgets>>

\* The fairness of the parts, while they are in focus.
Spec ==
    /\ Init /\ [][Next]_vars
    /\ \A w \in {"page", "frame"} :
          /\ WF_ch(focus = "channel" /\ Channel!Build(w))
          /\ WF_ch(focus = "channel" /\ Channel!Ping(w))
          /\ WF_ch(focus = "channel" /\ Channel!Deliver(w))
          /\ WF_ch(focus = "channel" /\ Channel!Complete(w))
          /\ WF_js(focus = "frame" /\ Frame!Ping(w))
    /\ WF_js(focus = "frame" /\ Frame!FrameLoads) /\ WF_js(focus = "frame" /\ Frame!TryAgain)
    /\ WF_js(focus = "frame" /\ Frame!FrameReceives) /\ WF_js(focus = "frame" /\ Frame!PageReceives)
    /\ WF_formula(focus = "formula" /\ Formula!ThrottleEnds)
    /\ WF_formula(focus = "formula" /\ Formula!Serve)
    /\ WF_formula(focus = "formula" /\ Formula!Arrives)
    /\ WF_formula(focus = "formula" /\ Formula!ErrorDelayEnds)
--------------------------------------------------------------------------------
(***************************************************************************)
(* Between the page and the frame of a jsinput nothing is answered twice   *)
(* or before the handshake, and what is sent to be graded was entered in a *)
(* frame that has its saved state back, once for a click.                  *)
(***************************************************************************)
FrameIsHeard ==
    /\ Channel!TypeOK /\ Channel!EndsOnce /\ Channel!HandshakeFirst /\ Channel!CallbacksComeFirst
    /\ Frame!TypeOK /\ Frame!SentIsEntered /\ Frame!SentIsRestored /\ Frame!OneClickOneSubmission

(***************************************************************************)
(* A quiet page shows what was entered: the preview of a formula, the tags *)
(* of an annotation, long outputs; and is bound when its scripts have run. *)
(***************************************************************************)
ShownIsCurrent ==
    /\ Formula!TypeOK /\ Formula!QuietIsCurrent
    /\ Widgets!TypeOK /\ Widgets!BoundWhenLoaded /\ Widgets!LinksTell /\ Widgets!AnnotationIsSent

\* The gradebook and an LTI block agree on a learner's score, and its comment was given with it.
GradebookAgrees == Results!TypeOK /\ Results!GradebookAgrees /\ Results!CommentIsOfTheScore

(***************************************************************************)
(* What is asked for is answered: page and frame become ready whichever is *)
(* loaded first, calls between them end, a click on Submit sends, and the  *)
(* preview gets to what was typed, never back to what was typed before;    *)
(* what is made in a frame after its saved state came back stays; and an   *)
(* LTI provider is told the score that is in the gradebook, to the nearest *)
(* hundredth.                                                              *)
(***************************************************************************)
AskedIsAnswered ==
    /\ Channel!BothGetReady /\ (focus = "channel" => Channel!CallsEnd)
    /\ Frame!ClickIsSent /\ Frame!WorkStays
    /\ (focus = "formula" => Formula!CatchesUp) /\ Formula!NeverBackwards
    /\ Results!GetTellsGrade
================================================================================
