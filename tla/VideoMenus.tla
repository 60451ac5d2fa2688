------------------------------- MODULE VideoMenus -------------------------------
(***************************************************************************)
(* Keyboard and mouse in the menus of a video: the speed menu              *)
(* (08_video_speed_control.js, 00_iterator.js), the language menu and the  *)
(* transcript (09_video_caption.js), the context menu                      *)
(* (095_video_context_menu.js).  Each behaviour is about one of them.      *)
(***************************************************************************)
EXTENDS Integers, Sequences, SequencesExt

CONSTANTS Entries,     \* entries of the speed and of the language menu
          Items,       \* of the context menu: the last one is the submenu
          Captions     \* captions in the transcript


VARIABLE menu

Button == -1
Elsewhere == -2
Root == 0
--------------------------------------------------------------------------------
(***************************************************************************)
(* The speed menu.  bound: the window closes it on a click.                *)
(***************************************************************************)
openMenu(m, bindEvent) == [m EXCEPT !.opened = TRUE, !.bound = @ \/ bindEvent]
closeMenu(m, unBindEvent) == [m EXCEPT !.opened = FALSE, !.bound = @ /\ ~unBindEvent]

next(index) == IF index >= Entries - 1 THEN 0 ELSE index + 1
prev(index) == IF index < 1 THEN Entries - 1 ELSE index - 1

mouseLeaveHandler(m) == IF m.focus >= 0 THEN m ELSE closeMenu(m, FALSE)

\* The click that binds the window's handler reaches the window too.
clickMenu(m) == closeMenu(openMenu([m EXCEPT !.focus = Button], TRUE), FALSE)
clickElsewhere(m) ==
    LET n == [m EXCEPT !.focus = Elsewhere] IN IF m.bound THEN closeMenu(n, FALSE) ELSE n

keyDownMenuHandler(m, key) ==
    CASE key \in {"enter", "up"} -> [openMenu(m, TRUE) EXCEPT !.focus = Entries - 1]
      [] key = "escape" -> closeMenu(m, TRUE)
      [] OTHER -> [m EXCEPT !.focus = Elsewhere]

keyDownLinkHandler(m, key) ==
    CASE key = "tab" -> [closeMenu(m, TRUE) EXCEPT !.focus = Elsewhere]
      [] key \in {"enter", "escape"} -> [closeMenu(m, TRUE) EXCEPT !.focus = Button]
      [] key = "up" -> [m EXCEPT !.focus = prev(@)]
      [] key = "down" -> [m EXCEPT !.focus = next(@)]

SpeedMenu ==
    /\ menu.kind = "speed"
    /\ \/ menu' = openMenu(menu, FALSE)
       \/ menu' = mouseLeaveHandler(menu)
       \/ menu' = clickMenu(menu)
       \/ menu' = clickElsewhere(menu)
       \/ menu' = [menu EXCEPT !.focus = IF @ = Elsewhere THEN Button ELSE @]
       \/ \E key \in {"enter", "up", "escape", "tab"} :
              menu.focus = Button /\ menu' = keyDownMenuHandler(menu, key)
       \/ \E key \in {"enter", "up", "down", "escape", "tab"} :
              menu.focus >= 0 /\ menu' = keyDownLinkHandler(menu, key)
--------------------------------------------------------------------------------
(***************************************************************************)
(* The language menu.  shown: what the events language_menu:* said last.   *)
(***************************************************************************)
openLanguageMenu(m) == [m EXCEPT !.opened = TRUE, !.focus = Entries - 1]
closeLanguageMenu(m) == [m EXCEPT !.opened = FALSE, !.focus = Button]
onContainerMouseEnter(m) == [m EXCEPT !.opened = TRUE, !.bound = TRUE]
onContainerMouseLeave(m) == [m EXCEPT !.opened = FALSE, !.bound = FALSE]

nextLanguageMenuItem(m) == [m EXCEPT !.focus = IF @ = Entries - 1 THEN 0 ELSE @ + 1]
previousLanguageMenuItem(m) == [m EXCEPT !.focus = IF @ = 0 THEN Entries - 1 ELSE @ - 1]

LanguageMenu ==
    /\ menu.kind = "language"
    /\ \/ menu' = onContainerMouseEnter(menu)
       \/ menu' = onContainerMouseLeave(menu)
       \/ menu' = [menu EXCEPT !.focus = IF @ = Elsewhere THEN Button ELSE Elsewhere]
       \/ menu.focus = Button /\ menu' = openLanguageMenu(menu)
       \/ menu.focus # Elsewhere /\ menu' = closeLanguageMenu(menu)
       \/ menu.focus >= 0 /\ menu' = nextLanguageMenuItem(menu)
       \/ menu.focus >= 0 /\ menu' = previousLanguageMenuItem(menu)
--------------------------------------------------------------------------------
(***************************************************************************)
(* The context menu: rings of siblings, 1 .. Items and, for the children   *)
(* of the submenu, Items + 1 .. 2 * Items.                                 *)
(***************************************************************************)
addChild(ring, item) ==
    IF ring.children = <<>> THEN [ring EXCEPT !.children = <<item>>]
    ELSE LET first == Head(ring.children)
             last == Last(ring.children)
         IN  [children |-> Append(ring.children, item),
              next |-> [ring.next EXCEPT ![last] = item, ![item] = first],
              prev |-> [ring.prev EXCEPT ![first] = item, ![item] = last]]

Nowhere == [item \in 1 .. 2 * Items |-> 0]
build(items) == FoldLeft(addChild, [children |-> <<>>, next |-> Nowhere, prev |-> Nowhere], items)

Submenu == Items
InSubmenu(item) == item > Items
Siblings(item) == IF InSubmenu(item) THEN Items + 1 .. 2 * Items ELSE 1 .. Items
RingOf(m, item) == IF InSubmenu(item) THEN m.sub ELSE m.top

\* focus closes the siblings, the submenu if it is one of them.
focusItem(m, item) ==
    [m EXCEPT !.focus = item,
              !.subOpened = @ /\ ~(Submenu \in Siblings(item) \ {item})]

closeRoot_OnlyItself(m) == [m EXCEPT !.opened = FALSE, !.bound = FALSE, !.focus = Elsewhere]
closeRoot(m) == [m EXCEPT !.opened = FALSE, !.bound = FALSE, !.focus = Elsewhere,
                          !.subOpened = FALSE]
openRoot(m) == [m EXCEPT !.opened = TRUE, !.bound = TRUE, !.focus = Root]

getNext(m, item) == IF item = Root THEN Head(m.top.children) ELSE RingOf(m, item).next[item]
getPrev(m, item) == IF item = Root THEN Last(m.top.children) ELSE RingOf(m, item).prev[item]

select(m, item) == closeRoot([m EXCEPT !.selected = (@ \ Siblings(item)) \cup {item}])

openKeyboard(m) == focusItem([m EXCEPT !.subOpened = TRUE], Head(m.sub.children))

\* A second right click: on the video, or beside it.
overlayContextmenu(m) == {[m EXCEPT !.focus = Root, !.subOpened = FALSE], closeRoot(m)}

keyDown(m, item, key) ==
    CASE key = "up" -> focusItem(m, getPrev(m, item))
      [] key = "down" -> focusItem(m, getNext(m, item))
      [] key = "escape" -> closeRoot(m)
      [] key = "enter" -> IF item = Submenu THEN openKeyboard(m)
                          ELSE IF item = Root THEN m ELSE select(m, item)
      [] key = "right" -> IF item = Submenu THEN openKeyboard(m) ELSE m
      [] key = "left" -> IF item = Submenu \/ InSubmenu(item)
                         THEN [m EXCEPT !.subOpened = FALSE, !.focus = Submenu] ELSE m

\* The submenu opens, or closes, 200 ms after the mouse came or left.
mouseOver(m, item) ==
    IF item = Submenu THEN focusItem([m EXCEPT !.timer = "open"], item) ELSE focusItem(m, item)
mouseLeave(m) == focusItem([m EXCEPT !.timer = "close"], Submenu)
timerFires(m) == [m EXCEPT !.subOpened = m.timer = "open", !.timer = "none",
                           !.late = @ \/ ~m.opened \/ InSubmenu(m.focus)]

ContextMenu ==
    /\ menu.kind = "context"
    /\ \/ ~menu.opened /\ menu' = openRoot(menu)
       \/ menu.opened /\ menu' \in overlayContextmenu(menu)
       \/ menu.bound /\ menu' = closeRoot(menu)
       \/ \E key \in {"up", "down", "left", "right", "enter", "escape"} :
              menu.opened /\ menu' = keyDown(menu, menu.focus, key)
       \/ \E item \in 1 .. 2 * Items :
              /\ menu.opened /\ (InSubmenu(item) => menu.subOpened)
              /\ \/ menu' = mouseOver(menu, item)
                 \/ item # Submenu /\ menu' = select(menu, item)
       \/ menu.opened /\ menu' = mouseLeave(menu)
       \/ menu.timer # "none" /\ menu' = timerFires(menu)
--------------------------------------------------------------------------------
(***************************************************************************)
(* Focus on a caption of the transcript, 0 .. Captions - 1.                *)
(***************************************************************************)
captionFocus(m, i) ==
    IF m.isMouseFocus THEN [m EXCEPT !.autoScrolling = TRUE, !.focus = i]
    ELSE [m EXCEPT !.focus = i, !.autoScrolling = @ /\ i > 1 /\ i < Captions - 2]

captionBlur_OnlyLast(m) ==
    [m EXCEPT !.focus = Elsewhere, !.autoScrolling = @ \/ m.focus = Captions - 1]
captionBlur(m) ==
    [m EXCEPT !.focus = Elsewhere, !.autoScrolling = @ \/ m.focus \in {0, Captions - 1}]

captionMouseDown(m) == [m EXCEPT !.isMouseFocus = TRUE, !.autoScrolling = TRUE, !.moused = TRUE]
captionKeyDown(m) == [m EXCEPT !.isMouseFocus = FALSE]

\* Tab forwards or backwards, into, through and out of the list; a click.
TranscriptFocus ==
    /\ menu.kind = "captions"
    /\ \/ menu.focus = Elsewhere /\ \E i \in {0, Captions - 1} : menu' = captionFocus(menu, i)
       \/ /\ menu.focus # Elsewhere
          /\ \E i \in {menu.focus - 1, menu.focus + 1} :
                LET blurred == captionBlur(captionKeyDown(menu))
                IN  menu' = IF i \in 0 .. Captions - 1 THEN captionFocus(blurred, i) ELSE blurred
       \/ \E i \in 0 .. Captions - 1 :
              LET m == captionMouseDown(menu)
              IN  menu' = captionFocus(IF m.focus = Elsewhere THEN m ELSE captionBlur(m), i)
--------------------------------------------------------------------------------
Init ==
    \E kind \in {"speed", "language", "context", "captions"} :
        menu = [kind |-> kind, opened |-> FALSE, bound |-> FALSE, focus |-> Elsewhere,
                top |-> build([i \in 1 .. Items |-> i]),
                sub |-> build([i \in 1 .. Items |-> Items + i]),
                subOpened |-> FALSE, selected |-> {2 * Items}, timer |-> "none", late |-> FALSE,
                autoScrolling |-> TRUE, isMouseFocus |-> FALSE, moused |-> FALSE]

Next == SpeedMenu \/ LanguageMenu \/ ContextMenu \/ TranscriptFocus

Spec == Init /\ [][Next]_menu
--------------------------------------------------------------------------------
TypeOK == /\ menu.opened \in BOOLEAN /\ menu.focus \in -2 .. 2 * Items + Captions + Entries
          /\ menu.selected \subseteq 1 .. 2 * Items

(***************************************************************************)
(* Focus is never on an entry that cannot be seen: in the speed menu       *)
(* however mouse and keys are mixed, in the context menu unless the timer  *)
(* of the submenu fired after the menu was closed or the keys went on.     *)
(***************************************************************************)
FocusIsVisible ==
    /\ menu.kind = "speed" /\ menu.focus >= 0 => menu.opened
    /\ menu.kind = "context" /\ ~menu.late =>
           /\ menu.focus >= 0 => menu.opened
           /\ InSubmenu(menu.focus) => menu.subOpened

(***************************************************************************)
(* Down goes through all the entries of a menu, and up undoes it.          *)
(***************************************************************************)
UpUndoesDown ==
    menu.kind = "context" => \A i \in 1 .. 2 * Items :
        /\ getPrev(menu, getNext(menu, i)) = i /\ getNext(menu, getPrev(menu, i)) = i
        /\ {RingOf(menu, i).next[j] : j \in Siblings(i)} = Siblings(i)

(***************************************************************************)
(* A closed context menu has no open submenu and no overlay left: the next *)
(* right click does not find it half open.  (But for a late timer.)        *)
(***************************************************************************)
ClosedIsClosed ==
    menu.kind = "context" /\ ~menu.opened =>
        ~menu.bound /\ (menu.subOpened => menu.late)

(***************************************************************************)
(* Who reads the transcript by the keyboard only is not scrolled away, and *)
(* it follows the video again when the focus has left it.                  *)
(***************************************************************************)
TabbingDecidesScrolling ==
    menu.kind = "captions" /\ ~menu.moused =>
        menu.autoScrolling = (menu.focus = Elsewhere)
================================================================================
