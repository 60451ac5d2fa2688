------------------------------- MODULE VideoSpeed -------------------------------
(***************************************************************************)
(* The speed of a video and auto-advance (08_video_speed_control.js, the   *)
(* speed submenu of 095_video_context_menu.js, setSpeed of                 *)
(* 01_initialize.js, onReady of 03_video_player.js, 09_save_state_plugin,  *)
(* 08_video_auto_advance_control.js).  Speeds are in hundredths.           *)
(***************************************************************************)
EXTENDS Integers, FiniteSets

CONSTANTS Html5Speeds,    \* state.speeds of an HTML5 video
          YoutubeRates,   \* getAvailablePlaybackRates of YouTube's player
          SavedSpeeds     \* what the field and the cookie may hold


VARIABLE spd
--------------------------------------------------------------------------------
\* The keys of map are strings: not every number is written like its key.
map(speed, isString) ==
    CASE speed = 25 -> 75
      [] speed = 50 /\ isString -> 75
      [] speed = 75 -> 50
      [] speed = 125 -> 150
      [] speed = 200 /\ ~isString -> 150
      [] OTHER -> 0

\* speeds holds strings: a number is never among them.
setSpeed(speeds, newSpeed, isString) ==
    IF isString /\ newSpeed \in speeds THEN newSpeed
    ELSE IF map(newSpeed, isString) \in speeds THEN map(newSpeed, isString) ELSE 100

setPlaybackRate(s, rate) == [s EXCEPT !.rate = rate]

onSpeedChange_Tells(s, newSpeed) ==
    LET speed == setSpeed(s.speeds, newSpeed, FALSE)
    IN  setPlaybackRate([s EXCEPT !.speed = speed], speed)
onSpeedChange(s, newSpeed) ==
    setPlaybackRate([s EXCEPT !.speed = setSpeed(s.speeds, newSpeed, FALSE)], newSpeed)

\* The listeners of speedchange, in the order they were bound.
speedchange(s, newSpeed) ==
    LET t == [s EXCEPT !.saved = newSpeed, !.selected = newSpeed]
    IN  IF s.ready THEN onSpeedChange(t, newSpeed) ELSE t

VideoSpeedControl_setSpeed(s, newSpeed) ==
    [IF newSpeed = s.currentSpeed THEN s
     ELSE speedchange([s EXCEPT !.currentSpeed = newSpeed], newSpeed) EXCEPT !.active = newSpeed]
--------------------------------------------------------------------------------
initialize(html5, saved, auto) ==
    LET speeds == IF html5 THEN Html5Speeds ELSE {100}
        speed == IF html5 THEN setSpeed(speeds, saved, TRUE) ELSE saved
    IN  [html5 |-> html5, speeds |-> speeds, speed |-> speed, currentSpeed |-> speed,
         active |-> speed, selected |-> speed, rate |-> 100, saved |-> saved,
         ready |-> FALSE, played |-> FALSE, chosen |-> FALSE,
         auto_advance |-> auto, autoActive |-> auto, autoSaved |-> auto, early |-> FALSE]

Init == \E html5, auto \in BOOLEAN, saved \in SavedSpeeds : spd = initialize(html5, saved, auto)

\* A click, a key or the context menu.  chosen: since the video was started.
ChooseSpeed ==
    \E newSpeed \in spd.speeds :
        spd' = [VideoSpeedControl_setSpeed(spd, newSpeed)
                   EXCEPT !.chosen = @ \/ (spd.played /\ newSpeed # spd.currentSpeed)]

\* YouTube's rates replace the speeds, and the list is rendered again.
onReady ==
    LET speeds == IF spd.html5 THEN spd.speeds ELSE {r \in YoutubeRates : r > 25 /\ r <= 500}
        speed == IF spd.html5 THEN spd.speed ELSE setSpeed(speeds, spd.speed, TRUE)
    IN  /\ ~spd.ready
        /\ spd' = setPlaybackRate([spd EXCEPT !.ready = TRUE, !.speeds = speeds,
                                              !.speed = speed,
                                              !.active = IF spd.html5 THEN @ ELSE speed], speed)

\* videoPlayer.ready, at the first play.
ready ==
    /\ spd.ready /\ ~spd.played
    /\ spd' = [IF spd.speed # 100 THEN setPlaybackRate(spd, spd.speed) ELSE spd
                  EXCEPT !.played = TRUE]

onClick ==
    LET enabled == ~spd.auto_advance
    IN  spd' = [spd EXCEPT !.autoActive = enabled, !.autoSaved = enabled,
                           !.auto_advance = IF spd.ready THEN enabled ELSE @,
                           !.early = ~spd.ready]

\* The learner comes back, or goes on to a video of the other kind.
Reload == \E html5 \in BOOLEAN : spd' = initialize(html5, spd.saved, spd.autoSaved)

Next == ChooseSpeed \/ onReady \/ ready \/ onClick \/ Reload

Spec == Init /\ [][Next]_spd
--------------------------------------------------------------------------------
TypeOK == /\ spd.speed \in Nat /\ spd.currentSpeed \in Nat /\ spd.active \in Nat
          /\ spd.speeds \subseteq Nat

(***************************************************************************)
(* A speed chosen while the video plays is the one it plays at.            *)
(***************************************************************************)
ChosenIsPlayed == spd.chosen => spd.rate = spd.currentSpeed

(***************************************************************************)
(* The lit speed of the menu, that of the button, the one of the context   *)
(* menu and the saved one agree once a speed was chosen, and a speed that  *)
(* was chosen is offered by the next video of this kind.                   *)
(***************************************************************************)
MenusAgree ==
    [][ChooseSpeed => /\ spd'.active = spd'.currentSpeed
                      /\ spd'.currentSpeed # spd.currentSpeed
                            => spd'.saved = spd'.active /\ spd'.selected = spd'.active]_spd

(***************************************************************************)
(* The player of a video that has been started knows the rate it is at.    *)
(***************************************************************************)
RateIsAvailable == spd.played => spd.rate \in spd.speeds /\ spd.rate > 25

(***************************************************************************)
(* Auto-advance does what its button shows and what was saved, unless the  *)
(* last click came before the player was ready to listen to it.            *)
(***************************************************************************)
AutoAdvanceAgrees ==
    /\ spd.autoActive = spd.autoSaved
    /\ ~spd.early => spd.autoActive = spd.auto_advance
================================================================================
