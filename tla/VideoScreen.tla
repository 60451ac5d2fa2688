------------------------------ MODULE VideoScreen ------------------------------
(***************************************************************************)
(* The full screen of a video (04_video_full_screen.js, the delta and mode *)
(* of 00_resizer.js), with the browser's answers to its requests and its   *)
(* fullscreenchange events, and the quality button of a YouTube video      *)
(* (05_video_quality_control.js).                                          *)
(***************************************************************************)
EXTENDS Integers, Sequences

CONSTANTS Qualities,   \* what the YouTube player has for this video
          MaxRequests  \* bound: requests and events on their way

HD == {"highres", "hd1080", "hd720"}

VARIABLES screen, quality
vars == <<screen, quality>>
--------------------------------------------------------------------------------
handleEnter(s) ==
    IF s.isFullScreen THEN s
    ELSE [s EXCEPT !.isFullScreen = TRUE, !.delta = @ - 1, !.mode = "both", !.parent = TRUE,
                   !.label = "Exit full browser", !.menu = "Exit full browser"]

handleExit(s) ==
    IF ~s.isFullScreen THEN s
    ELSE [s EXCEPT !.isFullScreen = FALSE, !.delta = 0, !.mode = "width", !.parent = FALSE,
                   !.label = "Fill browser", !.menu = "Fill browser"]

\* Requests of a browser that has the Fullscreen API.
ask(s, request) == IF s.api THEN [s EXCEPT !.requests = Append(@, request)] ELSE s

exit_AtOnce(s) == IF s.element THEN handleExit(s) ELSE ask(s, "exit")
exit(s) == IF s.element THEN ask(s, "exit") ELSE handleExit(s)
enter(s) == ask(handleEnter(s), "enter")

\* A click, Escape while in full screen, or the context menu.
toggle(s) ==
    LET t == [s EXCEPT !.raced = @ \/ s.requests # <<>> \/ s.changes > 0]
    IN  IF s.isFullScreen THEN exit(t) ELSE enter(t)

handleFullscreenChange_Never(s) == s
handleFullscreenChange(s) == IF ~s.element /\ s.isFullScreen THEN handleExit(s) ELSE s

\* The listener is gone before exit is called.
destroy(s) == [IF s.isFullScreen THEN exit(s) ELSE s EXCEPT !.destroyed = TRUE]
--------------------------------------------------------------------------------
fetchAvailableQualities(q) ==
    [q EXCEPT !.fetched = TRUE, !.availableHD = Qualities \cap HD,
              !.hidden = @ /\ Qualities \cap HD = {},
              !.active = @ \/ (q.quality \in Qualities \cap HD),
              !.asked = Append(@, q.quality)]

onQualityChange_Stale(q) == [q EXCEPT !.quality = q.playing, !.active = q.quality \in q.availableHD]
onQualityChange(q) == [q EXCEPT !.quality = q.playing, !.active = q.playing \in q.availableHD]

toggleQuality(q) ==
    [q EXCEPT !.asked = Append(@, IF q.quality \in q.availableHD THEN "large" ELSE "highres")]
--------------------------------------------------------------------------------
Init ==
    /\ \E api \in BOOLEAN :
          screen = [api |-> api, isFullScreen |-> FALSE, element |-> FALSE, requests |-> <<>>,
                    changes |-> 0, delta |-> 0, mode |-> "width", parent |-> FALSE,
                    label |-> "Fill browser", menu |-> "Fill browser",
                    raced |-> FALSE, destroyed |-> FALSE]
    /\ \E playing \in Qualities :
          quality = [quality |-> "large", availableHD |-> {}, playing |-> playing,
                     active |-> FALSE, hidden |-> TRUE, fetched |-> FALSE,
                     asked |-> <<>>, changed |-> 0]

InScreen(s) == screen' = s /\ UNCHANGED quality
InQuality(q) == quality' = q /\ UNCHANGED screen

Toggle ==
    /\ ~screen.destroyed /\ Len(screen.requests) < MaxRequests
    /\ InScreen(toggle(screen))

Destroy == ~screen.destroyed /\ Len(screen.requests) < MaxRequests /\ InScreen(destroy(screen))

\* The browser grants the oldest request, or refuses to enter.
BrowserAnswers ==
    /\ screen.requests # <<>> /\ screen.changes < MaxRequests
    /\ LET to == Head(screen.requests) = "enter"
           s == [screen EXCEPT !.requests = Tail(@)]
       IN  \/ InScreen([s EXCEPT !.element = to,
                                 !.changes = IF screen.element = to THEN @ ELSE @ + 1])
           \/ to /\ ~screen.element /\ InScreen(s)

\* The learner leaves by the browser's own means.
BrowserLeaves ==
    /\ screen.element /\ screen.changes < MaxRequests
    /\ InScreen([screen EXCEPT !.element = FALSE, !.changes = @ + 1])

FullscreenChange ==
    /\ screen.changes > 0
    /\ LET s == [screen EXCEPT !.changes = @ - 1]
       IN  InScreen(IF s.destroyed THEN s ELSE handleFullscreenChange(s))

FirstPlay == ~quality.fetched /\ InQuality(fetchAvailableQualities(quality))

ToggleQuality ==
    /\ ~quality.hidden /\ Len(quality.asked) < MaxRequests
    /\ InQuality(toggleQuality(quality))

\* YouTube plays what it sees fit and says so.
QualityChanges ==
    /\ quality.asked # <<>> /\ quality.changed < MaxRequests
    /\ \E q \in Qualities :
           InQuality([quality EXCEPT !.asked = Tail(@), !.playing = q, !.changed = @ + 1])

onPlaybackQualityChange ==
    /\ quality.changed > 0
    /\ InQuality(onQualityChange([quality EXCEPT !.changed = @ - 1]))

Next == \/ Toggle \/ Destroy \/ BrowserAnswers \/ BrowserLeaves \/ FullscreenChange
        \/ FirstPlay \/ ToggleQuality \/ QualityChanges \/ onPlaybackQualityChange

Spec == Init /\ [][Next]_vars /\ WF_vars(BrowserAnswers) /\ WF_vars(FullscreenChange)
--------------------------------------------------------------------------------
TypeOK == /\ screen.requests \in Seq({"enter", "exit"}) /\ screen.changes \in 0 .. MaxRequests
          /\ quality.playing \in Qualities /\ quality.active \in BOOLEAN

Quiet == screen.requests = <<>> /\ screen.changes = 0

(***************************************************************************)
(* When the browser has answered, a page that is not laid out for the full *)
(* screen is not on it: unless the learner toggled it again before the     *)
(* answer came, or the video was removed meanwhile.                        *)
(***************************************************************************)
ScreenAgrees ==
    Quiet /\ ~screen.raced /\ ~screen.destroyed => (screen.element => screen.isFullScreen)

(***************************************************************************)
(* The height of the controls is taken from the video's once while it is   *)
(* on full screen and given back when it leaves, whichever way it does.    *)
(***************************************************************************)
HeightIsGivenBack ==
    screen.delta = (IF screen.isFullScreen THEN -1 ELSE 0) /\ (screen.isFullScreen <=> screen.mode = "both")

(***************************************************************************)
(* A learner who leaves full screen by the browser's means finds the page  *)
(* as it was.                                                              *)
(***************************************************************************)
BrowserLeft == screen.changes > 0 /\ ~screen.element
LeavingIsNoticed == BrowserLeft ~> ~screen.isFullScreen \/ screen.destroyed \/ screen.raced

(***************************************************************************)
(* When YouTube has answered, the HD button is lit exactly when it plays   *)
(* one of the HD qualities it offered.                                     *)
(***************************************************************************)
ButtonTellsQuality ==
    quality.fetched /\ quality.asked = <<>> /\ quality.changed = 0 =>
        /\ quality.active = (quality.playing \in HD \cap Qualities)
        /\ quality.hidden = (HD \cap Qualities = {})
================================================================================
