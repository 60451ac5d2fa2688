-------------------------------- MODULE MCPages --------------------------------
(***************************************************************************)
(* What a learner does on a page by hand: the buttons of a problem, the    *)
(* annotated texts that share a page, the draggables of an image and the   *)
(* schematic editor.  Each behaviour is about one of them, focus, and      *)
(* leaves the others where they start.                                     *)
(***************************************************************************)
EXTENDS Integers, Sequences, FiniteSets

CONSTANTS Values, MaxAttempts, MaxHints, MaxRequests, MaxFlying, Blocks, MaxClicks,
          Ids, Reusable, Slow, Fits, MaxCopies, MaxDrops,
          Columns, Rows, Kinds, MaxComponents, MaxEdits

\* Three spans about two annotation problems.
problem_id == [s |-> 0, t |-> 1, u |-> 1]
Problems == <<"p", "q">>

\* The targets of the image, and those that draggables carry.
Targets == <<"s", "t">>
Fields == [a |-> <<"f">>, b |-> <<"g">>]

\* Schematics to begin with: none; a wire from a ground to a resistor; and two labelled wires that
\* cross, beside a resistor that lies on its side.
Piece(type, at, d) == [id |-> 0, type |-> type, at |-> at, d |-> d, rotation |-> 0,
                       selected |-> FALSE, from |-> <<-1, -1>>]
Diagrams == {<<>>, <<Piece("g", <<0, 0>>, <<0, 0>>), Piece("w", <<0, 0>>, <<2, 0>>), Piece("r", <<2, 0>>, <<0, 1>>)>>,
             <<[Piece("r", <<0, 2>>, <<0, 1>>) EXCEPT !.rotation = 7],
               Piece("a", <<1, 0>>, <<0, 0>>), Piece("w", <<1, 0>>, <<0, 2>>),
               Piece("w", <<0, 1>>, <<2, 0>>), Piece("b", <<0, 1>>, <<0, 0>>)>>}

\* What the parts ask of their constants.
ASSUME PagesAssumption ==
    /\ Values \subseteq Nat \ {0}
    /\ \A s \in DOMAIN problem_id : problem_id[s] \in Nat
    /\ Reusable \cup Slow \subseteq Ids /\ DOMAIN Fields = Ids
    /\ \A id \in Ids : Fields[id] \in Seq(STRING)
    /\ Fits \in Nat \ {0}
    /\ {MaxAttempts, MaxHints, MaxRequests, MaxFlying, MaxClicks, MaxCopies, MaxDrops,
        Columns, Rows, MaxComponents, MaxEdits} \subseteq Nat \ {0}

VARIABLES focus, problem, anno, dnd, sch

Buttons == INSTANCE ProblemButtons
Texts == INSTANCE Annotatable
Drag == INSTANCE DragAndDrop
Schematics == INSTANCE Schematic

vars == <<focus, problem, anno, dnd, sch>>

\* Where a part that is not in focus rests.
Init ==
    /\ focus \in {"problem", "anno", "drag", "sch"}
    /\ Buttons!Init /\ Texts!Init
    /\ Drag!Init /\ (focus # "drag" => dnd.individualTargets /\ dnd.onePerTarget)
    /\ Schematics!Init /\ (focus # "sch" => sch.components = <<>>)

Next ==
    \/ focus = "problem" /\ Buttons!Next /\ UNCHANGED <<focus, anno, dnd, sch>>
    \/ focus = "anno" /\ Texts!Next /\ UNCHANGED <<focus, problem, dnd, sch>>
    \/ focus = "drag" /\ Drag!Next /\ UNCHANGED <<focus, problem, anno, sch>>
    \/ focus = "sch" /\ Schematics!Next /\ UNCHANGED <<focus, problem, anno, dnd>>

Spec == Init /\ [][Next]_vars
--------------------------------------------------------------------------------
(***************************************************************************)
(* What pages of problems and annotated texts say is so: marks and saved   *)
(* answers are of what is entered, buttons come back and say what a click  *)
(* does, and one returns to the span one came from.                        *)
(***************************************************************************)
PagesTell ==
    /\ Buttons!TypeOK /\ Buttons!ButtonsComeBack /\ Buttons!MarkIsOfEntered /\ Buttons!SavedIsKept
    /\ Buttons!OneNotification /\ Buttons!QuietIsCurrent /\ Buttons!NotTwice
    /\ Texts!TypeOK /\ Texts!ButtonsTell /\ Texts!NoTipWhenHidden /\ Texts!BackWhereItCameFrom

(***************************************************************************)
(* Draggables and targets agree on what lies where, however they are       *)
(* stacked, moved or put back: each lies on one target, at its own height, *)
(* none is taken away from under another, and the answer is what is shown. *)
(***************************************************************************)
DraggablesAgree ==
    focus = "drag" =>
        /\ Drag!TypeOK /\ Drag!IndexesAgree /\ Drag!EachOnce /\ Drag!InputIsShown /\ Drag!RestoredAsSaved
        /\ Drag!OneOnEach /\ Drag!CarriersStay /\ Drag!ArrowsTell /\ Drag!HeightsDiffer

\* A schematic's table of connection points is that of its components, and labels tell what is connected.
DiagramIsSound ==
    focus = "sch" => Schematics!TypeOK /\ Schematics!TableIsPoints /\ Schematics!LabelsTellNets

(***************************************************************************)
(* Editing a schematic keeps what is connected: a drawn wire takes no      *)
(* connection away and makes those it covers, what is dropped on wires is  *)
(* connected with them, and loading the diagram again changes nothing.     *)
(***************************************************************************)
EditsKeepConnections ==
    /\ Schematics!DrawingKeeps /\ Schematics!DrawingConnects
    /\ Schematics!DroppedTouches /\ Schematics!ReloadKeeps

(***************************************************************************)
(* A click does what it says: hints come in their order, and a button of   *)
(* an annotated text does what is written on it.                           *)
(***************************************************************************)
ClicksDoWhatTheySay == Buttons!HintsInOrder /\ Texts!ClickDoesWhatItSays
================================================================================
