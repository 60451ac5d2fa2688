------------------------------ MODULE Annotatable ------------------------------
(***************************************************************************)
(* The annotated texts of a page (annotatable.js): each block keeps its    *)
(* own flags, but binds the buttons, hides the spans and owns the tips of  *)
(* all the blocks.  Spans and annotation problems refer to each other by   *)
(* the number a problem has among those on the page so far.                *)
(***************************************************************************)
EXTENDS Integers, FiniteSets, Sequences, SequencesExt

CONSTANTS Blocks,
          problem_id,   \* the problem each span is about, by its number from 0
          Problems,     \* the annotation problems, in the order of the page
          MaxClicks     \* bound: clicks on buttons

VARIABLE anno

None == "none"
Spans == DOMAIN problem_id

\* The problems loaded, in the order of the page.
Loaded == SelectSeq(Problems, LAMBDA q : q \in anno.loaded)
getProblem(s) ==
    IF problem_id[s] < Len(Loaded) THEN {Loaded[problem_id[s] + 1]} ELSE {}
getSpanForProblemReturn_OffByOne(q) ==
    {s \in Spans : problem_id[s] = CHOOSE i \in 1..Len(Loaded) : Loaded[i] = q}
getSpanForProblemReturn(q) ==
    {s \in Spans : problem_id[s] = CHOOSE i \in 0..(Len(Loaded) - 1) : Loaded[i + 1] = q}
--------------------------------------------------------------------------------
Init == anno = [bound |-> <<>>, owner |-> None, loaded |-> {}, tips |-> {}, clicks |-> 0,
                annotationsHidden |-> [b \in Blocks |-> FALSE], spans |-> "shown", text |-> "Hide",
                instructionsHidden |-> [b \in Blocks |-> FALSE], instructions |-> "shown", link |-> "Collapse",
                late |-> FALSE, came |-> None, at |-> {}]

\* A block initialised later destroys the tips there are, and makes its own.
initTips(s, b) == [s EXCEPT !.owner = b, !.tips = {}]
initEvents_Twice(s, b) ==
    [s EXCEPT !.bound = @ \o <<b, b>>, !.annotationsHidden[b] = FALSE, !.instructionsHidden[b] = FALSE]
initEvents(s, b) ==
    [s EXCEPT !.bound = Append(@, b), !.annotationsHidden[b] = FALSE, !.instructionsHidden[b] = FALSE]
init(b) ==
    /\ b \notin ToSet(anno.bound)
    /\ anno' = initTips(initEvents([anno EXCEPT !.late = @ \/ anno.text = "Show" \/ anno.link = "Expand"], b), b)

toggleTips(s) == [s EXCEPT !.tips = {}]
toggleAnnotations(s, b) ==
    LET hide == ~s.annotationsHidden[b]
    IN  toggleTips([s EXCEPT !.annotationsHidden[b] = hide, !.text = IF hide THEN "Show" ELSE "Hide",
                             !.spans = IF hide THEN "hidden" ELSE "shown"])
toggleInstructions(s, b) ==
    LET hide == ~s.instructionsHidden[b]
    IN  [s EXCEPT !.instructionsHidden[b] = hide, !.link = IF hide THEN "Expand" ELSE "Collapse",
                  !.instructions = IF hide THEN "hidden" ELSE "shown"]

\* Every block hears the click, in the order they were initialised.
Clicked(toggle(_, _)) ==
    /\ anno.clicks < MaxClicks
    /\ anno' = FoldLeft(toggle, [anno EXCEPT !.clicks = @ + 1], anno.bound)
ClickAnnotations == Clicked(toggleAnnotations)
ClickInstructions == Clicked(toggleInstructions)

\* The block that made the tips decides; a tip shown takes the place of any other.
onShowTip(s) ==
    /\ anno.owner # None /\ ~anno.annotationsHidden[anno.owner]
    /\ anno' = [anno EXCEPT !.tips = {s}]
HideTip(s) == s \in anno.tips /\ anno' = [anno EXCEPT !.tips = @ \ {s}]

LoadProblem(q) ==
    /\ q \notin anno.loaded
    /\ anno' = [anno EXCEPT !.loaded = @ \cup {q}, !.came = None, !.at = {}]

\* The answer a learner is sent to, and the spans one is sent back to.
replyTo(s) ==
    /\ s \in anno.tips /\ getProblem(s) # {}
    /\ anno' = [anno EXCEPT !.came = s, !.at = getProblem(s)]
returnFrom(q) ==
    /\ q \in anno.loaded /\ anno.bound # <<>> /\ getSpanForProblemReturn(q) # {}
    /\ anno' = [anno EXCEPT !.came = IF q \in anno.at THEN anno.came ELSE None,
                            !.at = getSpanForProblemReturn(q)]

Next ==
    \/ \E b \in Blocks : init(b)
    \/ ClickAnnotations \/ ClickInstructions
    \/ \E s \in Spans : onShowTip(s) \/ HideTip(s) \/ replyTo(s)
    \/ \E q \in ToSet(Problems) : LoadProblem(q) \/ returnFrom(q)

Spec == Init /\ [][Next]_anno
--------------------------------------------------------------------------------
TypeOK == /\ anno.bound \in Seq(Blocks) /\ Cardinality(anno.tips) <= 1
          /\ anno.owner = None <=> anno.bound = <<>>

\* The buttons of all the blocks say what the spans, and the instructions, of all of them are.
ButtonsTell ==
    /\ anno.text = "Hide" <=> anno.spans = "shown"
    /\ anno.link = "Collapse" <=> anno.instructions = "shown"

\* No annotation is shown while annotations are hidden, unless the tips are of a block initialised after that.
NoTipWhenHidden == anno.spans = "hidden" => anno.tips = {} \/ anno.late

(***************************************************************************)
(* A click does what the button says, in all the blocks, unless a block    *)
(* was initialised while annotations or instructions were hidden: then the *)
(* flags of the blocks disagree, and the last one has it its way.          *)
(***************************************************************************)
ClickDoesWhatItSays ==
    [][/\ ClickAnnotations /\ anno.bound # <<>> /\ ~anno.late
       => anno.spans' = (IF anno.text = "Hide" THEN "hidden" ELSE "shown")]_anno

\* From the problem a reply led to, one returns to the span it came from, unless a problem was loaded meanwhile.
BackWhereItCameFrom == anno.came # None /\ anno.at \subseteq Spans => anno.came \in anno.at
================================================================================
