------------------------------ MODULE DragAndDrop ------------------------------
(***************************************************************************)
(* The drag and drop input: draggables that are taken out of a slider, or  *)
(* copied out of it, onto the targets of an image or the targets other     *)
(* draggables carry; the answer in the hidden input; and how a saved       *)
(* answer is put back when the page is shown again, while icons load.      *)
(***************************************************************************)
EXTENDS Integers, Sequences, FiniteSets, SequencesExt

CONSTANTS Ids, Reusable, Fields,  \* the draggables; Fields[d]: the ids of the targets d carries
          Targets,                \* the targets of the image
          Slow,                   \* the draggables whose icons come late the second time
          Fits,                   \* what the slider shows at a time
          MaxCopies, MaxDrops     \* bounds: copies made, and drops

VARIABLE dnd

\* Draggables are <<id, 0>>, copies <<id, n>>; a target of the image lies on Image.
Image == <<"image", 0>>
None == [on |-> Image, id |-> "none", nr |-> 0]
Original(u) == u[2] = 0
Pressed(s) == {u \in ToSet(s.draggables) : s.obj[u].pressed}
Restoring(s) == {p \in s.pending : p.kind # "grab"}
Highest(S) == CHOOSE x \in S : \A y \in S : y <= x
Lowest(S) == CHOOSE x \in S : \A y \in S : x <= y
--------------------------------------------------------------------------------
Draggable(loaded) ==
    [inContainer |-> TRUE, pressed |-> FALSE, onTarget |-> None, onTargetIndex |-> 0,
     stateIndex |-> 0, x |-> FALSE, z |-> 1, onMe |-> 0, hasLoaded |-> loaded, hidden |-> FALSE,
     targetField |-> <<>>]
With(f, x, y) == [z \in DOMAIN f \cup {x} |-> IF z = x THEN y ELSE f[z]]

pushDraggable(s, u, loaded) ==
    [s EXCEPT !.draggables = Append(@, u),
              !.obj = With(@, u, [Draggable(loaded) EXCEPT !.stateIndex = Len(s.draggables) + 1])]
processTarget(s, on, id) ==
    LET t == [on |-> on, id |-> id, nr |-> s.nr]
    IN  [s EXCEPT !.targets = Append(@, t), !.lists = With(@, t, <<>>), !.nr = @ + 1,
                  !.index = With(@, t, Len(s.targets) + 1),
                  !.obj = IF on = Image THEN @ ELSE [@ EXCEPT ![on].targetField = Append(@, t)]]

\* Once out of the slider a draggable carries its targets.
initializeTargetField(s, u) ==
    IF s.obj[u].targetField # <<>> THEN s
    ELSE FoldLeft(LAMBDA now, id : processTarget(now, u, id), s, Fields[u[1]])

destroyTargetField_KeepsIndexes(s, u) ==
    LET kept == SelectSeq(s.targets, LAMBDA t : t \notin ToSet(s.obj[u].targetField))
    IN  [s EXCEPT !.targets = kept, !.lists = [t \in ToSet(kept) |-> @[t]],
                  !.index = [t \in ToSet(kept) |-> @[t]], !.obj[u].targetField = <<>>]
\* Its targets are cut out of the array, and those behind move up.
destroyTargetField(s, u) ==
    LET n == Len(s.obj[u].targetField)
        first == s.index[s.obj[u].targetField[1]]
        kept == SubSeq(s.targets, 1, first - 1) \o SubSeq(s.targets, first + n, Len(s.targets))
    IN  IF n = 0 THEN s
        ELSE [s EXCEPT !.targets = kept, !.lists = [t \in ToSet(kept) |-> @[t]],
                       !.index = [t \in ToSet(kept) |-> IF @[t] > first THEN @[t] - n ELSE @[t]],
                       !.obj[u].targetField = <<>>]

ListOf(s, t) == IF t \in DOMAIN s.lists THEN s.lists[t] ELSE <<>>
addDraggable(s, t, u) ==
    LET now == [s EXCEPT !.lists = With(@, t, Append(ListOf(s, t), u)), !.obj[u].onTarget = t,
                         !.obj[u].onTargetIndex = Len(ListOf(s, t)) + 1]
    IN  IF t.on = Image THEN now ELSE [now EXCEPT !.obj[t.on].onMe = @ + 1]

\* A target may be gone from the page while a draggable is still on it.
removeDraggable(s, u) ==
    LET t == s.obj[u].onTarget
        i == s.obj[u].onTargetIndex
        others == IF i \in DOMAIN ListOf(s, t) THEN RemoveAt(s.lists[t], i) ELSE <<>>
    IN  [s EXCEPT
           !.lists = [x \in DOMAIN @ |-> IF x = t THEN others ELSE @[x]],
           !.obj = [v \in DOMAIN @ |->
                      IF v = u THEN [@[v] EXCEPT !.onTarget = None, !.onTargetIndex = 0]
                      ELSE IF v = t.on THEN [@[v] EXCEPT !.onMe = @ - 1]
                      ELSE IF v \in ToSet(others) /\ @[v].onTargetIndex > i
                      THEN [@[v] EXCEPT !.onTargetIndex = @ - 1] ELSE @[v]]]

\* Above what lies on the same target, or anywhere; what is in the hand has 1000.
correctZIndexes(s, u) ==
    LET others == IF s.individualTargets THEN s.lists[s.obj[u].onTarget] ELSE s.draggables
    IN  [s EXCEPT !.obj[u].z = 1 + Highest({0} \cup ({s.obj[v].z : v \in ToSet(others)} \ {1000}))]

\* A click on the number of a target: the lowest of its draggables comes to the top.
cycleDraggableOrder(s, t) ==
    LET heights == {s.obj[v].z : v \in ToSet(s.lists[t])}
    IN  [s EXCEPT !.obj = [v \in DOMAIN @ |->
            IF v \notin ToSet(s.lists[t]) THEN @[v]
            ELSE [@[v] EXCEPT !.z = IF @ = Lowest(heights) THEN Highest(heights) ELSE @ - 1]]]

\* The slider is moved by one place; an arrow is dim when a click on it does nothing.
MayMoveLeft(s) == s.margin >= 1
MayMoveRight(s) == s.margin <= s.inSlider - Fits
updateArrowOpacity(s) ==
    [s EXCEPT !.brightLeft = MayMoveLeft(s), !.brightRight = MayMoveRight(s)]
--------------------------------------------------------------------------------
\* A draggable, the target it is on, who carries that, and so on down to the image.
RECURSIVE addTargetRecursively(_, _, _)
addTargetRecursively(s, u, n) ==
    LET t == s.obj[u].onTarget
    IN  <<u[1], t.id>> \o IF t.on = Image \/ n = 0 THEN <<>>
                          ELSE addTargetRecursively(s, t.on, n - 1)
Answer(s) ==
    IF s.individualTargets
    THEN FlattenSeq([i \in DOMAIN s.targets |->
            [j \in DOMAIN s.lists[s.targets[i]] |->
                addTargetRecursively(s, s.lists[s.targets[i]][j], Len(s.draggables))]])
    ELSE LET out == SelectSeq(s.draggables, LAMBDA u : s.obj[u].x)
         IN  [i \in DOMAIN out |-> <<out[i][1]>>]
\* With two in the hand, one can be put on a carrier that is nowhere, or each on the other: it throws.
Unending(s) == \E i \in DOMAIN Answer(s) : \/ Len(Answer(s)[i]) > 2 * Len(s.draggables)
                                           \/ None.id \in ToSet(Answer(s)[i])
update(s) == IF Unending(s) THEN s ELSE [s EXCEPT !.input = Answer(s)]

\* The copy is among the draggables when its icon is there, and then handed on.
makeDraggableCopy(s, u, kind, to, todo) ==
    [s EXCEPT !.copies = @ + 1,
              !.pending = @ \cup {[kind |-> kind, of |-> <<u[1], s.copies + 1>>, to |-> to,
                                   todo |-> todo]}]

moveBackToSlider(s, u) ==
    LET now == destroyTargetField(s, u)
        i == s.obj[u].stateIndex
    IN  IF Original(u) THEN [now EXCEPT !.obj[u].z = 1, !.obj[u].inContainer = TRUE]
        ELSE [now EXCEPT
                !.draggables = RemoveAt(@, i),
                !.obj = [v \in DOMAIN @ |->
                           IF v = u THEN Draggable(TRUE)
                           ELSE IF @[v].stateIndex > i THEN [@[v] EXCEPT !.stateIndex = @ - 1]
                           ELSE @[v]]]

mouseDown(s, u) ==
    IF s.obj[u].pressed \/ s.obj[u].onMe > 0 THEN s
    ELSE IF s.obj[u].inContainer /\ Original(u) /\ u[1] \in Reusable
    THEN makeDraggableCopy(s, u, "grab", None, <<>>)
    ELSE [s EXCEPT !.obj[u].inContainer = FALSE, !.obj[u].z = 1000, !.obj[u].pressed = TRUE,
                   !.inSlider = IF s.obj[u].inContainer /\ Original(u) THEN @ - 1 ELSE @,
                   !.twice = @ \/ Pressed(s) # {}, !.touched = @ \/ Restoring(s) # {}]

\* Where it may land: not on one's own targets, nor where there is one and only one may be.
checkIfOnTarget(s, u) ==
    {t \in ToSet(s.targets) : t.on # u /\ (s.onePerTarget => s.lists[t] \in {<<>>, <<u>>}
                                                             \/ Len(s.lists[t]) > 1)}

landOnTarget_StaysOnOld(s, u, t) ==
    LET now == IF s.obj[u].onTarget = t THEN s ELSE addDraggable(s, t, u)
    IN  initializeTargetField(correctZIndexes(now, u), u)
landOnTarget(s, u, t) ==
    LET left == IF s.obj[u].onTarget \notin {None, t} THEN removeDraggable(s, u) ELSE s
        now == IF s.obj[u].onTarget = t THEN s ELSE addDraggable(left, t, u)
    IN  initializeTargetField(correctZIndexes(now, u), u)
landOnImage(s, u) == initializeTargetField([correctZIndexes(s, u) EXCEPT !.obj[u].x = TRUE], u)
landOutside(s, u) ==
    LET left == IF s.obj[u].onTarget # None THEN removeDraggable(s, u) ELSE s
        back == [moveBackToSlider(left, u) EXCEPT !.obj[u].x = FALSE]
    IN  IF Original(u) THEN [back EXCEPT !.inSlider = @ + 1] ELSE back

checkLandingElement_UpdatesFirst(s, u, landed) ==
    LET now == [landed EXCEPT !.obj[u].pressed = FALSE, !.drops = @ + 1, !.dropped = TRUE]
    IN  [IF Original(u) THEN updateArrowOpacity(now) ELSE now EXCEPT !.input = Answer(s)]
checkLandingElement(s, u, landed) ==
    LET now == [landed EXCEPT !.obj[u].pressed = FALSE, !.drops = @ + 1,
                             !.dropped = TRUE]
    IN  update(IF Original(u) THEN updateArrowOpacity(now) ELSE now)
--------------------------------------------------------------------------------
(***************************************************************************)
(* Putting a saved answer back.  A chain is <<draggable, target of the     *)
(* image>>, or <<draggable, target, its carrier, target of the image>>;    *)
(* the deeper ones come first, and bring their carriers.                   *)
(***************************************************************************)
Out(s, id) == SelectSeq(s.draggables, LAMBDA u : u[1] = id /\ ~s.obj[u].inContainer)
OnBase(s, u, target) == s.obj[u].onTarget.id = target
OnLayer(s, u, target, base, baseTarget) ==
    LET t == s.obj[u].onTarget
    IN  /\ t.id = target /\ t.on # Image
        /\ t.on[1] = base /\ s.obj[t.on].onTarget.id = baseTarget

\* What is in the hand and came from the slider is on no target: looking at it throws.
Throws(s, id) == \E i \in DOMAIN Out(s, id) : s.obj[Out(s, id)[i]].onTarget = None

wait(s, u, to, todo) ==
    [s EXCEPT !.pending = @ \cup {[kind |-> "load", of |-> u, to |-> to, todo |-> todo,
                                   nr |-> s.nr]},
              !.nr = @ + 1]
place(s, u, to) ==
    LET now == [s EXCEPT !.obj[u].inContainer = FALSE, !.obj[u].z = 1000]
        there == IF to = None THEN [now EXCEPT !.obj[u].x = TRUE] ELSE addDraggable(now, to, u)
        done == initializeTargetField(correctZIndexes(there, u), u)
    IN  IF Original(u) THEN updateArrowOpacity([done EXCEPT !.inSlider = @ - 1]) ELSE done

RECURSIVE moveDraggableTo(_, _, _, _), processAnswerTargets(_, _)
moveDraggableTo(s, u, to, todo) ==
    IF ~s.obj[u].hasLoaded THEN wait(s, u, to, todo)
    ELSE IF Original(u) /\ u[1] \in Reusable THEN makeDraggableCopy(s, u, "copy", to, todo)
    ELSE processAnswerTargets(place(s, u, to), todo)

processAnswerTargets(s, todo) ==
    IF todo = <<>> THEN s
    ELSE LET chain == Head(todo)
             deep == Len(chain) > 2
             base == chain[Len(chain) - 1]
             baseTarget == chain[Len(chain)]
             bases == SelectSeq(Out(s, base), LAMBDA u : OnBase(s, u, baseTarget))
             onImage == SelectSeq(s.targets, LAMBDA t : t.on = Image /\ t.id = baseTarget)
             layered == SelectSeq(Out(s, chain[1]),
                                  LAMBDA u : OnLayer(s, u, chain[2], base, baseTarget))
             field == SelectSeq(s.obj[bases[1]].targetField, LAMBDA t : t.id = chain[2])
         IN  IF Throws(s, base) \/ (deep /\ Throws(s, chain[1])) THEN s
             ELSE IF bases = <<>>
             THEN IF s.obj[<<base, 0>>].inContainer /\ onImage # <<>>
                  THEN moveDraggableTo(s, <<base, 0>>, onImage[1], todo) ELSE s
             ELSE IF deep /\ layered = <<>> /\ field # <<>> /\ s.obj[<<chain[1], 0>>].inContainer
             THEN moveDraggableTo(s, <<chain[1], 0>>, field[Len(field)], Tail(todo))
             ELSE processAnswerTargets(s, Tail(todo))

repositionDraggables(s) ==
    LET ofDepth(n) == SelectSeq(s.input, LAMBDA c : Len(c) = n + 1)
    IN  IF ~s.individualTargets
        THEN FoldLeft(LAMBDA now, c : IF now.obj[<<c[1], 0>>].inContainer
                                      THEN moveDraggableTo(now, <<c[1], 0>>, None, <<>>) ELSE now,
                      s, s.input)
        ELSE IF \E i \in DOMAIN s.input : Len(s.input[i]) > 4 THEN s
        ELSE processAnswerTargets(s, ofDepth(3) \o ofDepth(1))
--------------------------------------------------------------------------------
\* The page is shown, with the answer that was saved.
processProblem(individualTargets, onePerTarget, input, drops) ==
    LET empty == [individualTargets |-> individualTargets, onePerTarget |-> onePerTarget,
                  draggables |-> <<>>, obj |-> <<>>, targets |-> <<>>, lists |-> <<>>,
                  index |-> <<>>, nr |-> 1, input |-> input, saved |-> input, pending |-> {},
                  inSlider |-> Cardinality(Ids), margin |-> 0, brightLeft |-> FALSE,
                  brightRight |-> FALSE, copies |-> 0, drops |-> drops, dropped |-> FALSE, reloaded |-> input # <<>>,
                  touched |-> FALSE, twice |-> FALSE]
        aimed == IF individualTargets
                 THEN FoldLeft(LAMBDA s, id : processTarget(s, Image, id), empty, Targets)
                 ELSE empty
        drawn == FoldLeft(LAMBDA s, id : pushDraggable(s, <<id, 0>>, id \notin Slow \/ input = <<>>),
                          aimed, SetToSeq(Ids))
    IN  repositionDraggables(updateArrowOpacity(drawn))

Init == \E individual, one \in BOOLEAN : dnd = processProblem(individual, one, <<>>, 0)

\* Bound: when one drop is left.
Reload ==
    /\ dnd.drops = MaxDrops - 1
    /\ ~dnd.reloaded /\ dnd.input # <<>> /\ dnd.pending = {} /\ Pressed(dnd) = {}
    /\ dnd' = processProblem(dnd.individualTargets, dnd.onePerTarget, dnd.input, dnd.drops)

IconLoads ==
    \E id \in Slow :
        /\ ~dnd.obj[<<id, 0>>].hasLoaded
        /\ dnd' = [dnd EXCEPT !.obj[<<id, 0>>].hasLoaded = TRUE,
                              !.obj[<<id, 0>>].hidden = ~dnd.obj[<<id, 0>>].inContainer]

\* What waited for an icon is tried again.
MoveIsDue(p) ==
    /\ p.kind = "load" /\ dnd.obj[p.of].hasLoaded
    /\ dnd' = moveDraggableTo([dnd EXCEPT !.pending = @ \ {p}], p.of, p.to, p.todo)
\* The copy has its icon, and is put or held; the mouse may be up again by then.
CopyIsReady(p) ==
    /\ p.kind # "load"
    /\ LET s == pushDraggable([dnd EXCEPT !.pending = @ \ {p}], p.of,
                              dnd.obj[<<p.of[1], 0>>].hasLoaded)
       IN  dnd' = IF p.kind = "grab" THEN mouseDown(s, p.of)
                  ELSE processAnswerTargets(place(s, p.of, p.to), p.todo)

\* Bounds: one drag into the restoration; two in the hand only before the page is shown again.
MouseDown(u) ==
    /\ ~dnd.obj[u].hidden /\ Pressed(dnd) = {} /\ dnd.drops < MaxDrops /\ ~dnd.touched
    /\ dnd.reloaded => \A p \in dnd.pending : p.kind # "grab"
    /\ Original(u) /\ u[1] \in Reusable => dnd.copies < MaxCopies
    /\ dnd' = mouseDown(dnd, u) /\ dnd' # dnd
MouseUp(u) ==
    /\ dnd.obj[u].pressed /\ ~dnd.obj[u].hidden
    /\ \/ dnd' = checkLandingElement(dnd, u, landOutside(dnd, u))
       \/ /\ dnd.individualTargets
          /\ \E t \in checkIfOnTarget(dnd, u) :
                dnd' = checkLandingElement(dnd, u, landOnTarget(dnd, u, t))
       \/ /\ ~dnd.individualTargets
          /\ dnd' = checkLandingElement(dnd, u, landOnImage(dnd, u))
CycleOrder ==
    /\ ~dnd.onePerTarget /\ Pressed(dnd) = {}
    /\ \E t \in ToSet(dnd.targets) :
        Len(dnd.lists[t]) > 1 /\ dnd' = cycleDraggableOrder(dnd, t) /\ dnd' # dnd
MoveSlider ==
    \/ /\ MayMoveLeft(dnd)
       /\ dnd' = updateArrowOpacity([dnd EXCEPT !.margin = @ - 1])
    \/ /\ MayMoveRight(dnd)
       /\ dnd' = updateArrowOpacity([dnd EXCEPT !.margin = @ + 1])

Next ==
    \/ Reload \/ IconLoads \/ CycleOrder \/ MoveSlider
    \/ \E p \in dnd.pending : MoveIsDue(p)
    \/ \E p \in dnd.pending : CopyIsReady(p)
    \/ \E u \in ToSet(dnd.draggables) : MouseDown(u)
    \/ \E u \in ToSet(dnd.draggables) : MouseUp(u)

Spec == Init /\ [][Next]_dnd
--------------------------------------------------------------------------------
TypeOK == /\ dnd.inSlider \in 0 .. Cardinality(Ids) /\ dnd.margin \in Nat
          /\ \A u \in DOMAIN dnd.obj : dnd.obj[u].onMe \in Nat

\* One in the hand at a time, and none before the saved answer has been put back.
Orderly == ~dnd.touched /\ ~dnd.twice

(***************************************************************************)
(* The three places that remember an index (in the array of draggables, in *)
(* the array of targets, in the list of a target) remember the right one,  *)
(* through all that is cut out of those arrays.                            *)
(***************************************************************************)
IndexesAgree ==
    /\ \A i \in DOMAIN dnd.draggables : dnd.obj[dnd.draggables[i]].stateIndex = i
    /\ \A i \in DOMAIN dnd.targets : dnd.index[dnd.targets[i]] = i
    /\ Orderly => \A t \in ToSet(dnd.targets) : \A j \in DOMAIN dnd.lists[t] :
                       LET u == dnd.obj[dnd.lists[t][j]]
                       IN  u.onTarget = t /\ u.onTargetIndex = j

\* What lies on the page is on exactly one target, so it is in the answer once.
EachOnce ==
    Orderly /\ dnd.individualTargets
        => \A u \in ToSet(dnd.draggables) :
               LET places == {<<t, j>> \in ToSet(dnd.targets) \X (1 .. Len(dnd.draggables)) :
                                j \in DOMAIN dnd.lists[t] /\ dnd.lists[t][j] = u}
               IN  ~dnd.obj[u].inContainer /\ ~dnd.obj[u].pressed => Cardinality(places) = 1

\* After a drop the answer that would be sent is what is on the page.
InputIsShown ==
    Orderly /\ Pressed(dnd) = {} /\ dnd.dropped => dnd.input = Answer(dnd)

(***************************************************************************)
(* A saved answer is put back as it was, however late the icons are;       *)
(* unless it is deeper than a draggable on a draggable, or has the same    *)
(* draggable on the same target twice (the second is not put back).        *)
(***************************************************************************)
Shallow == \A i \in DOMAIN dnd.saved : Len(dnd.saved[i]) <= 4
Different == Cardinality({<<dnd.saved[i][1], dnd.saved[i][2]>> : i \in DOMAIN dnd.saved})
                 = Len(dnd.saved)
RestoredAsSaved ==
    /\ dnd.reloaded /\ ~dnd.dropped /\ ~dnd.touched /\ Restoring(dnd) = {}
    /\ dnd.individualTargets => Shallow /\ Different
    => ToSet(Answer(dnd)) = ToSet(dnd.saved) /\ Len(Answer(dnd)) = Len(dnd.saved)

\* Where one draggable may lie on a target, never two do.
OneOnEach ==
    Orderly /\ dnd.onePerTarget => \A t \in ToSet(dnd.targets) : Len(dnd.lists[t]) <= 1

\* No draggable is taken away from under another.
CarriersStay ==
    Orderly => \A u \in ToSet(dnd.draggables) :
        LET carried == UNION {ToSet(dnd.lists[t]) : t \in ToSet(dnd.obj[u].targetField)}
        IN  /\ dnd.obj[u].onMe = Cardinality(carried)
            /\ dnd.obj[u].pressed \/ dnd.obj[u].inContainer => carried = {}

\* The slider's arrows are dim when, and only when, a click on them does nothing.
ArrowsTell ==
    /\ ~dnd.touched => dnd.inSlider = Cardinality({id \in Ids : dnd.obj[<<id, 0>>].inContainer})
    /\ Pressed(dnd) = {} => /\ dnd.brightLeft = MayMoveLeft(dnd)
                            /\ dnd.brightRight = MayMoveRight(dnd)

\* On a target every draggable has its own height, so the number brings each of them up.
HeightsDiffer ==
    Orderly => \A t \in ToSet(dnd.targets) : \A u, v \in ToSet(dnd.lists[t]) :
                   u # v => dnd.obj[u].z # dnd.obj[v].z
================================================================================
