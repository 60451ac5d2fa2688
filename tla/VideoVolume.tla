------------------------------ MODULE VideoVolume ------------------------------
(***************************************************************************)
(* The volume control of a video (07_video_volume_control.js): a volume    *)
(* shown by a slider and a button, kept in a cookie, and passed to the     *)
(* player by events the player listens to only once it is ready.           *)
(***************************************************************************)
EXTENDS Integers

CONSTANTS Cookies,   \* what the cookie may hold at the start; NoCookie is no number
          Slides     \* where the learner drags the slider to

NoCookie == -999
Min == 0
Max == 100
Step == 20

VARIABLE vol
--------------------------------------------------------------------------------
Least(a, b) == IF a < b THEN a ELSE b
Greatest(a, b) == IF a > b THEN a ELSE b

\* CookieManager.getVolume
getVolume(cookie) == IF cookie = NoCookie THEN Max ELSE Least(Greatest(cookie, Min), Max)

getMuteStatus(v) == v.volume = 0

checkMuteButtonStatus_Once(v, volume) ==
    IF volume <= Min THEN [v EXCEPT !.isMuted = TRUE] ELSE v
\* The view is muted until the volume changes once more.
checkMuteButtonStatus(v, volume) ==
    IF volume <= Min THEN [v EXCEPT !.isMuted = TRUE, !.isMutedOnce = TRUE] ELSE v

\* The events volumechange and volumechange:silent at the player.
tellPlayer(v) == IF v.ready THEN [v EXCEPT !.player = v.volume] ELSE v

volumechange(v) ==
    LET seen == IF v.isMutedOnce THEN [v EXCEPT !.isMuted = FALSE, !.isMutedOnce = FALSE] ELSE v
    IN  tellPlayer([checkMuteButtonStatus(seen, v.volume) EXCEPT !.label = getMuteStatus(v)])

\* setVolume(volume, false, ...): nothing happens when it is the same.
setVolume(v, volume) ==
    IF volume = v.volume THEN v
    ELSE volumechange([v EXCEPT !.volume = volume, !.cookie = volume])

mute(v, muteStatus) ==
    LET w == [v EXCEPT !.isMuted = muteStatus,
                       !.storedVolume = IF ~muteStatus THEN @
                                        ELSE IF v.volume # 0 THEN v.volume ELSE Max]
    IN  setVolume(w, IF muteStatus THEN 0 ELSE w.storedVolume)

increaseVolume(v) == setVolume(v, Least(v.volume + Step, Max))
decreaseVolume(v) == setVolume(v, Greatest(v.volume - Step, Min))
--------------------------------------------------------------------------------
initialize(cookie) ==
    LET volume == getVolume(cookie)
    IN  checkMuteButtonStatus([volume |-> volume, storedVolume |-> Max, cookie |-> cookie,
                               isMuted |-> FALSE, isMutedOnce |-> FALSE, label |-> volume = 0,
                               player |-> Max, ready |-> FALSE, played |-> FALSE], volume)

Init == \E cookie \in Cookies : vol = initialize(cookie)

toggleMute == vol' = mute(vol, ~getMuteStatus(vol))
IncreaseVolume == vol' = increaseVolume(vol)
DecreaseVolume == vol' = decreaseVolume(vol)
onSlideHandler == \E volume \in Slides : vol' = setVolume(vol, volume)

\* onReady binds the player's handlers; the first play tells it the volume.
PlayerIsReady == ~vol.ready /\ vol' = [vol EXCEPT !.ready = TRUE]

updateVolumeSilently ==
    vol.ready /\ ~vol.played /\ vol' = tellPlayer([vol EXCEPT !.played = TRUE])

\* The learner comes back to the page.
Reload == vol' = initialize(vol.cookie)

Next == \/ toggleMute \/ IncreaseVolume \/ DecreaseVolume \/ onSlideHandler
        \/ PlayerIsReady \/ updateVolumeSilently \/ Reload

Spec == Init /\ [][Next]_vol
--------------------------------------------------------------------------------
TypeOK == vol.volume \in Min .. Max /\ vol.storedVolume \in Min .. Max /\ vol.cookie \in Int

(***************************************************************************)
(* The muted icon, and the entry of the context menu, tell whether there   *)
(* is no sound, however the volume came to zero and left it.               *)
(***************************************************************************)
MutedIsSilent == vol.isMuted = (vol.volume = 0) /\ vol.label = (vol.volume = 0)

(***************************************************************************)
(* From the first play on, the player is as loud as the slider says,       *)
(* whatever was set before it was there to be told.                        *)
(***************************************************************************)
PlayerIsAsLoud == vol.played => vol.player = vol.volume

(***************************************************************************)
(* Whoever unmutes hears something.                                        *)
(***************************************************************************)
UnmuteIsHeard == [][vol.volume = 0 /\ toggleMute => vol'.volume > 0]_vol

(***************************************************************************)
(* The volume set is the one of the next visit.                            *)
(***************************************************************************)
VolumeIsRemembered == [][Reload => vol'.volume = vol.volume]_vol
================================================================================
