------------------------------- MODULE Schematic -------------------------------
(***************************************************************************)
(* The schematic editor (schematic.js): parts and wires on a grid, and the *)
(* table of the places where their connection points are.  A wire is split *)
(* at a point that comes to lie on it, and two wires that go on straight   *)
(* are merged; both call add_wire, which splits again.  What one event     *)
(* handler does is one step; it stops half way when it raises.             *)
(*   The grid's unit is the height of a part.  Drawing, zooming, dialogs   *)
(* and the simulation are left out.                                        *)
(***************************************************************************)
EXTENDS Integers, Sequences, FiniteSets, SequencesExt

CONSTANTS Columns, Rows,   \* bound: the grid is 0..Columns, 0..Rows
          Kinds,           \* the parts of the bin
          Diagrams,        \* values the page may load: sequences of components
          MaxComponents,   \* bound on the diagram
          MaxEdits         \* bound: clicks and keys

VARIABLE sch

Grid == (0..Columns) \X (0..Rows)
Nowhere == <<-1, -1>>
Down(n) == [i \in 1..n |-> n + 1 - i]
Plus(p, q) == <<p[1] + q[1], p[2] + q[2]>>
Minus(p, q) == <<p[1] - q[1], p[2] - q[2]>>

\* Components know where they are, and a wire where it leads; the id is ours.
Component(type, at, d, rotation) ==
    [id |-> 0, type |-> type, at |-> at, d |-> d, rotation |-> rotation, selected |-> FALSE, from |-> Nowhere]
Wire(p, q) == Component("w", p, Minus(q, p), 0)
Ground(at) == Component("g", at, <<0, 0>>, 0)
Resistor(at) == Component("r", at, <<0, 1>>, 0)
Part(kind, at) == IF kind = "r" THEN Resistor(at) ELSE [Ground(at) EXCEPT !.type = kind]

transform(rot, p) ==
    <<CASE rot \in {0, 6} -> p[1] [] rot \in {1, 5} -> -p[2] [] rot \in {2, 4} -> -p[1] [] OTHER -> p[2],
      CASE rot \in {1, 7} -> p[1] [] rot \in {2, 6} -> -p[2] [] rot \in {3, 5} -> -p[1] [] OTHER -> p[2]>>
Connections(c) == IF c.type \in {"w", "r"} THEN 2 ELSE 1
Location(c, k) == Plus(c.at, transform(c.rotation, IF k = 1 THEN <<0, 0>> ELSE c.d))
Locations(c) == {Location(c, k) : k \in 1..Connections(c)}

Index(s, c) == SelectInSeq(s.components, LAMBDA b : b.id = c.id)
Belongs(s, c) == Index(s, c) # 0
ById(s, id) == s.components[SelectInSeq(s.components, LAMBDA b : b.id = id)]
Raise(s) == [s EXCEPT !.raised = TRUE]
\* What follows in a handler, unless it raised.
Then(s, Op(_)) == IF s.raised THEN s ELSE Op(s)
--------------------------------------------------------------------------------
\* The table: places in the order in which they were entered, and the points there.
Place(s, l) == SelectInSeq(s.connection_points, LAMBDA e : e.at = l)
find_connections(s, l) == IF Place(s, l) = 0 THEN <<>> ELSE s.connection_points[Place(s, l)].cps
add_connection_point(s, cp, l) ==
    IF Place(s, l) = 0
    THEN [s EXCEPT !.connection_points = Append(@, [at |-> l, cps |-> <<cp>>])]
    ELSE [s EXCEPT !.connection_points[Place(s, l)].cps = Append(@, cp)]
remove_connection_point(s, cp, l) ==
    LET cps == find_connections(s, l)
    IN  CASE ~Contains(cps, cp) -> s
          [] cps = <<cp>> -> [s EXCEPT !.connection_points = RemoveAt(@, Place(s, l))]
          [] OTHER -> [s EXCEPT !.connection_points[Place(s, l)].cps = Remove(@, cp)]

update_coords_KeepsOld(s, old, new) ==
    FoldLeft(LAMBDA t, k : add_connection_point(t, <<new.id, k>>, Location(new, k)),
             [s EXCEPT !.components[Index(s, new)] = new], Down(Connections(new)))
update_coords(s, old, new) ==
    FoldLeft(LAMBDA t, k : add_connection_point(remove_connection_point(t, <<old.id, k>>, Location(old, k)),
                                                <<new.id, k>>, Location(new, k)),
             [s EXCEPT !.components[Index(s, new)] = new], Down(Connections(new)))

\* The new component is the last one of the result.
add(s, c) ==
    LET new == [c EXCEPT !.id = s.next]
    IN  update_coords([s EXCEPT !.next = @ + 1, !.components = Append(@, new)], new, new)
remove(s, c) ==
    IF ~Belongs(s, c) THEN Raise(s)
    ELSE LET t == FoldLeft(LAMBDA u, k : remove_connection_point(u, <<c.id, k>>, Location(c, k)),
                           s, Down(Connections(c)))
         IN  [t EXCEPT !.components = RemoveAt(@, Index(s, c))]
--------------------------------------------------------------------------------
Between(a, x, b) == (a <= x /\ x <= b) \/ (b <= x /\ x <= a)
Cross(p, q) == p[1] * q[2] - p[2] * q[1]
collinear(p, q, r) == Cross(Minus(q, p), Minus(r, p)) = 0
Covers(p, q, l) == collinear(p, q, l) /\ Between(p[1], l[1], q[1]) /\ Between(p[2], l[2], q[2])

\* Rotating a wire turns its end and its box, but not the line it is measured by.
bisect_cp(w, l) ==
    /\ w.type = "w" /\ w.d # <<0, 0>> /\ l \notin Locations(w)
    /\ \A i \in 1..2 : Between(Location(w, 1)[i], l[i], Location(w, 2)[i])
    /\ Cross(Minus(l, w.at), w.d) = 0
bisect(w, c) == {k \in 1..Connections(c) : bisect_cp(w, Location(c, k))}

RECURSIVE check_wires_from(_, _, _), add_wire(_, _, _)
split_wire_Half(s, w, l) == Then(remove(s, w), LAMBDA t : add_wire(t, w.at, l))
split_wire(s, w, l) ==
    Then(Then(remove(s, w), LAMBDA t : add_wire(t, w.at, l)), LAMBDA t : add_wire(t, Plus(w.at, w.d), l))
split_for(s, w, c) ==
    LET ks == bisect(w, c)
    IN  IF w.id = c.id \/ ks = {} THEN s ELSE split_wire(s, w, Location(c, Max(ks)))

\* The list is changed by the splits while it is gone through by index.
check_wires_from(s, c, i) ==
    IF s.raised \/ i > Len(s.components) THEN s
    ELSE check_wires_from(split_for(s, s.components[i], c), c, i + 1)
check_wires(s, c) == check_wires_from(s, c, 1)
check_connection_points(s, w) ==
    LET i == SelectInSeq(s.connection_points, LAMBDA e : bisect_cp(w, e.at))
    IN  IF i = 0 THEN s ELSE split_wire(s, w, s.connection_points[i].at)

\* A wire that was split while it looked for the wires it splits has no schematic any more.
move_end(s, c) ==
    IF c.type # "w" THEN IF c.at = c.from THEN s ELSE check_wires(s, c)
    ELSE Then(check_wires(s, c), LAMBDA t : IF Belongs(t, c) THEN check_connection_points(t, c) ELSE Raise(t))
move_last(s) == move_end(s, Last(s.components))
add_wire(s, p, q) == move_last(add(s, Wire(p, q)))

\* A point where two wires meet, and nothing else, is taken out if they go on straight.
Merge(s, l) ==
    LET cps == find_connections(s, l)
        c1 == ById(s, cps[1][1])
        c2 == ById(s, cps[2][1])
        e1 == Location(c1, 3 - cps[1][2])
        e2 == Location(c2, 3 - cps[2][2])
    IN  CASE s.raised \/ Len(cps) # 2 -> s
          [] OTHER -> IF c1.type # "w" \/ c2.type # "w" \/ ~collinear(e1, e2, l) THEN s
                      ELSE IF c1.id = c2.id THEN Raise(remove(s, c1))
                      ELSE add_wire(remove(remove(s, c1), c2), e1, e2)
clean_up_wires(s) == FoldLeft(LAMBDA t, e : Merge(t, e.at), s, s.connection_points)
--------------------------------------------------------------------------------
\* Handlers work on the components that were there, from the last to the first.
EachSelected(s, Op(_, _)) ==
    FoldLeft(LAMBDA t, i : IF ~t.raised /\ i <= Len(t.components) /\ t.components[i].selected
                           THEN Op(t, t.components[i]) ELSE t,
             s, Down(Len(s.components)))
Selecting(s, Now(_, _)) ==
    [s EXCEPT !.components = [i \in DOMAIN @ |-> [@[i] EXCEPT !.selected = Now(i, @)]]]
unselect_all(s) == Selecting(s, LAMBDA i, was : FALSE)
drag_begin(s) ==
    [s EXCEPT !.components = [i \in DOMAIN @ |-> [@[i] EXCEPT !.from = s.components[i].at]], !.dragging = TRUE]
drag_end_NoCheck(s) == clean_up_wires([s EXCEPT !.dragging = FALSE])
drag_end(s) ==
    Then(EachSelected(s, move_end), LAMBDA t : clean_up_wires([t EXCEPT !.dragging = FALSE]))

\* Neither a copy nor what is saved has the rotation of a wire.
Clones(cs) == [i \in DOMAIN cs |-> [cs[i] EXCEPT !.id = 0, !.from = Nowhere,
                                                !.rotation = IF cs[i].type = "w" THEN 0 ELSE @]]
json(s) == Clones(unselect_all(s).components)
\* Backwards, and wires are not looked for when a part is added.
load_schematic(s, value) ==
    FoldLeft(LAMBDA t, c : IF t.raised THEN t ELSE IF c.type = "w" THEN add_wire(t, c.at, Plus(c.at, c.d)) ELSE add(t, c),
             s, Reverse(value))
\* Grounds and labels name the net they are on, the wires take the name along, and then every
\* point of a part that has none gets the next number.
NoLabel == ""
Named(c) == CASE c.type = "g" -> "0" [] c.type \in {"w", "r"} -> NoLabel [] OTHER -> c.type
Conducts_Never(c) == FALSE
Conducts(c) == c.type = "w"
RECURSIVE propagate_label(_, _, _, _)
propagate_label(s, m, cp, label) ==
    LET c == ById(s, cp[1])
        here == FoldLeft(LAMBDA n, q : propagate_label(s, n, q, label),
                         [m EXCEPT !.label = cp :> label @@ @], Reverse(find_connections(s, Location(c, cp[2]))))
    IN  IF cp \in DOMAIN m.label
        THEN [m EXCEPT !.alert = @ \/ ("0" \notin {m.label[cp], label} /\ m.label[cp] # label)]
        ELSE IF Conducts(c) THEN propagate_label(s, propagate_label(s, here, <<c.id, 1>>, label), <<c.id, 2>>, label)
             ELSE here
add_default_labels(s, m, c) ==
    IF Named(c) = NoLabel THEN m ELSE propagate_label(s, m, <<c.id, 1>>, Named(c))
label_connections(s, m, c) ==
    IF c.type = "w" THEN m
    ELSE FoldLeft(LAMBDA n, k : IF <<c.id, k>> \in DOMAIN n.label THEN n
                                ELSE propagate_label(s, [n EXCEPT !.next_label = @ + 1], <<c.id, k>>,
                                                     ToString(n.next_label + 1)),
                  m, Down(Connections(c)))
label_connection_points(s) ==
    LET each(m, Op(_, _, _)) == FoldLeft(LAMBDA n, i : Op(s, n, s.components[i]), m, Down(Len(s.components)))
    IN  each(each([label |-> <<>>, alert |-> FALSE, next_label |-> 0], add_default_labels), label_connections)
--------------------------------------------------------------------------------
Empty == [components |-> <<>>, connection_points |-> <<>>, next |-> 1, raised |-> FALSE, dragging |-> FALSE,
          wire |-> Nowhere, clipboard |-> <<>>, edits |-> 0, last |-> "edit", end |-> Nowhere]
\* Numbered afresh by their places in the list; where a drag began is of use only while it lasts.
Settled(s) ==
    LET new(id) == SelectInSeq(s.components, LAMBDA c : c.id = id)
    IN  [s EXCEPT !.next = Len(s.components) + 1,
            !.components = [i \in DOMAIN @ |-> [@[i] EXCEPT !.id = i,
                               !.from = IF s.dragging /\ s.components[i].selected THEN @ ELSE Nowhere]],
            !.connection_points = [i \in DOMAIN @ |-> [at |-> @[i].at,
                               cps |-> [j \in DOMAIN @[i].cps |-> <<new(@[i].cps[j][1]), @[i].cps[j][2]>>]]]]
InGrid(s) == \A i \in DOMAIN s.components : Locations(s.components[i]) \subseteq Grid
WithinBounds(s) == InGrid(s) /\ Len(s.components) <= MaxComponents
Start == [sch EXCEPT !.raised = FALSE, !.end = Nowhere]
Step(what, s) == WithinBounds(s) /\ sch' = Settled([s EXCEPT !.last = what])
Edit(what, s) == sch.edits < MaxEdits /\ Step(what, [s EXCEPT !.edits = @ + 1])

Init == \E value \in Diagrams : sch = Settled(load_schematic(Empty, value))

\* A part is carried from the bin into the diagram.
mouse_enter(kind, l) ==
    LET s == add(unselect_all(Start), Part(kind, l))
        n == Len(s.components)
    IN  Edit("edit", drag_begin(Selecting(s, LAMBDA i, was : i = n)))

\* On a point a wire begins, elsewhere a component is picked up.
mouse_down_point(l) ==
    /\ find_connections(sch, l) # <<>>
    /\ Edit("edit", [unselect_all(Start) EXCEPT !.wire = l])
mouse_down(i, shiftKey) ==
    LET was == sch.components[i].selected
        s == Selecting(Start, LAMBDA j, w : IF shiftKey THEN IF j = i THEN ~w ELSE w
                                            ELSE j = i \/ (was /\ w))
    IN  /\ sch.components[i].type = "w" => sch.components[i].d # <<0, 0>>
        /\ Edit("edit", IF shiftKey /\ was THEN s ELSE drag_begin(s))
\* A rectangle selects what it touches, and a wire if it has one of its ends.
select_rect(p, q) ==
    /\ ~sch.dragging /\ sch.wire = Nowhere /\ p[1] <= q[1] /\ p[2] <= q[2]
    /\ Edit("edit", Selecting(Start, LAMBDA i, was : \E l \in Locations(sch.components[i]) :
                                           \A j \in 1..2 : p[j] <= l[j] /\ l[j] <= q[j]))
mouse_move(d) ==
    /\ sch.dragging /\ sch.wire = Nowhere /\ d # <<0, 0>>
    /\ \A c \in ToSet(sch.components) : c.selected => \A l \in Locations(c) : Plus(l, d) \in Grid
    /\ Step("edit", EachSelected(Start, LAMBDA t, c : update_coords(t, c, [c EXCEPT !.at = Plus(@, d)])))
mouse_up(l) ==
    LET s == [Start EXCEPT !.wire = Nowhere, !.end = IF sch.wire = Nowhere THEN @ ELSE l]
        drawn == IF sch.wire \in {Nowhere, l} THEN s ELSE Then(add_wire(s, sch.wire, l), clean_up_wires)
    IN  /\ sch.wire # Nowhere \/ (sch.dragging /\ l = <<0, 0>>)  \* where, matters to a wire only
        /\ Step(IF sch.wire = Nowhere THEN "drop" ELSE "draw",
                Then(drawn, LAMBDA t : IF t.dragging THEN drag_end(t) ELSE t))

DeleteKey ==
    LET s == EachSelected(Start, remove)
    IN  Edit("edit", clean_up_wires(s))
RotateKey ==
    LET turned(c) == IF Connections(c) = 1 THEN c ELSE [c EXCEPT !.rotation = (@ + 1) % 8]
    IN  Edit("edit", Then(EachSelected(Start, LAMBDA t, c : check_wires(update_coords(t, c, turned(c)), turned(c))),
                          clean_up_wires))
Chosen == Reverse(SelectSeq(Clones(sch.components), LAMBDA c : c.selected))
copy == Edit("edit", [Start EXCEPT !.clipboard = Chosen])
cut == Edit("edit", [EachSelected(Start, remove) EXCEPT !.clipboard = Chosen])
\* A left or a top of 0 counts as none yet.
Corner(j) == FoldRight(LAMBDA c, least : IF least \in {0, -1} \/ c.at[j] < least THEN c.at[j] ELSE least,
                       sch.clipboard, -1)
paste(l) ==
    Edit("edit", FoldRight(LAMBDA c, t : add(t, [c EXCEPT !.selected = TRUE,
                                                     !.at = Plus(l, Minus(@, <<Corner(1), Corner(2)>>))]),
            sch.clipboard, unselect_all(Start)))
\* A submission saves the diagram, and the problem that comes back loads it.
update_value == /\ ~sch.dragging /\ sch.wire = Nowhere
                /\ Edit("load", load_schematic([Empty EXCEPT !.clipboard = sch.clipboard, !.edits = sch.edits], json(sch)))

Next ==
    \/ \E l \in Grid : mouse_down_point(l) \/ mouse_up(l) \/ paste(l) \/ \E k \in Kinds : mouse_enter(k, l)
    \/ \E p, q \in Grid : select_rect(p, q)
    \/ \E d \in (-Columns..Columns) \X (-Rows..Rows) : mouse_move(d)
    \/ \E i \in DOMAIN sch.components, shiftKey \in BOOLEAN : mouse_down(i, shiftKey)
    \/ DeleteKey \/ RotateKey \/ copy \/ cut \/ update_value

Spec == Init /\ [][Next]_sch
--------------------------------------------------------------------------------
Numbered == DOMAIN sch.components
TypeOK == InGrid(sch) /\ \A i \in DOMAIN sch.connection_points : sch.connection_points[i].at \in Grid

\* What the parts' points are connected with, by wires that have these ends, or cover these places.
PartPlaces(s) == UNION {Locations(s.components[i]) : i \in {j \in DOMAIN s.components : s.components[j].type # "w"}}
Wires(s) == {s.components[i] : i \in {j \in DOMAIN s.components : s.components[j].type = "w"}}
RECURSIVE Reached(_, _)
Reached(S, groups) == LET T == S \cup UNION {g \in groups : g \cap S # {}}
                      IN  IF T = S THEN S ELSE Reached(T, groups)
Joined(places, groups) == {pair \in places \X places : pair[2] \in Reached({pair[1]}, groups)}
Ends(s) == {Locations(w) : w \in Wires(s)}

(***************************************************************************)
(* The table has the points of the components, each at its place and once, *)
(* and no empty place; also after a handler raised half way.               *)
(***************************************************************************)
TableIsPoints ==
    /\ \A i \in Numbered, k \in 1..2 : k <= Connections(sch.components[i])
          => Len(SelectSeq(find_connections(sch, Location(sch.components[i], k)), LAMBDA cp : cp = <<i, k>>)) = 1
    /\ \A e \in ToSet(sch.connection_points) : e.cps # <<>> /\ \A cp \in ToSet(e.cps) :
          cp[1] \in Numbered /\ Location(sch.components[cp[1]], cp[2]) = e.at

\* A point that lies on a wire and is not one of its ends is not connected with it, and a wire
\* that was turned is measured by its old line.
Bare(s) == \E w \in Wires(s), e \in ToSet(s.connection_points) : bisect_cp(w, e.at)
Turned(s) == \E w \in Wires(s) : w.rotation # 0
Draws == sch'.last = "draw" /\ ~sch.dragging /\ sch'.end # sch.wire
CoveredBy(p, q) ==
    {l \in Grid : Covers(p, q, l) /\ (find_connections(sch, l) # <<>> \/ l \in {sch.wire, sch'.end})}
WithDrawn == {CoveredBy(Location(w, 1), Location(w, 2)) : w \in Wires(sch)} \cup {CoveredBy(sch.wire, sch'.end)}

(***************************************************************************)
(* To draw a wire never takes a connection between parts away, whatever is *)
(* split and merged for it, and also when the handler raises.              *)
(***************************************************************************)
DrawingKeeps ==
    [][Draws => Joined(PartPlaces(sch), Ends(sch)) \subseteq Joined(PartPlaces(sch'), Ends(sch'))]_sch

(***************************************************************************)
(* In a diagram without bare points or turned wires, a drawn wire connects *)
(* what it and the other wires cover, and nothing else.                    *)
(***************************************************************************)
DrawingConnects ==
    [][Draws /\ ~sch'.raised /\ ~Bare(sch) /\ ~Turned(sch)
          => Joined(PartPlaces(sch'), Ends(sch')) = Joined(PartPlaces(sch), WithDrawn)]_sch

(***************************************************************************)
(* Such a diagram connects the same parts when it is loaded again.         *)
(***************************************************************************)
ReloadKeeps ==
    [][sch'.last = "load" /\ ~Bare(sch) /\ ~Turned(sch)
          => Joined(PartPlaces(sch), Ends(sch)) = Joined(PartPlaces(sch'), Ends(sch'))]_sch

(***************************************************************************)
(* A part with one point that was dragged does not lie bare on a wire,     *)
(* however many wires cross there.                                         *)
(***************************************************************************)
DroppedTouches ==
    [][sch'.last = "drop" /\ ~sch'.raised =>
          \A c \in ToSet(sch.components) : c.selected /\ Connections(c) = 1 /\ c.at # c.from
              => ~\E w \in Wires(sch') : bisect_cp(w, c.at)]_sch

Parts(s) == {i \in DOMAIN s.components : s.components[i].type # "w"}
NamesAt(s, joined, l) ==
    {Named(s.components[i]) : i \in {j \in Parts(s) : \E k \in Locations(s.components[j]) : <<l, k>> \in joined}} \ {NoLabel}

(***************************************************************************)
(* Two points of parts have the same label just if wires connect them or   *)
(* they were given the same name; two names in one net are told, unless a  *)
(* ground is there too.                                                    *)
(***************************************************************************)
LabelsTellNets ==
    LET m == label_connection_points(sch)
        joined == Joined(PartPlaces(sch), Ends(sch))
        points == {cp \in Parts(sch) \X (1..2) : cp[2] <= Connections(sch.components[cp[1]])}
        place(cp) == Location(sch.components[cp[1]], cp[2])
        names(cp) == NamesAt(sch, joined, place(cp))
    IN  ~sch.dragging /\ sch.wire = Nowhere =>
        IF \A cp \in points : Cardinality(names(cp)) <= 1
        THEN ~m.alert /\ \A p, q \in points :
                 m.label[p] = m.label[q] <=> <<place(p), place(q)>> \in joined \/ (names(p) = names(q) /\ names(p) # {})
        ELSE (\E cp \in points : Cardinality(names(cp)) > 1 /\ "0" \notin names(cp)) => m.alert
================================================================================
