------------------------------ MODULE VideoPlayback ------------------------------
(***************************************************************************)
(* One video of a page while it plays: the player (03_video_player.js)     *)
(* over an HTML5, HLS or YouTube media element, the progress slider, the   *)
(* play button and its overlay, and the three plugins that report what     *)
(* happens: the event log, the saved position and the completion.          *)
(*                                                                         *)
(* Every module listens to the events of the others on state.el; jQuery    *)
(* runs the listeners of an event inside the call that triggers it.  An    *)
(* operator here takes the video and returns what the function makes of    *)
(* it, listeners included.  What is asynchronous is a step of its own: the *)
(* media element posts its events, timers fire, the learner acts, and      *)
(* requests are answered in any order.  Time counts in units no shorter    *)
(* than the 200 ms between two updates.                                    *)
(***************************************************************************)
EXTENDS Integers, Sequences

CONSTANTS
    Duration,         \* the length of the video
    Configs,          \* how the author set the video up, and if it is alone on the page
    SlideTo,          \* where the learner drags the slider to
    CaptionAt,        \* the times of the captions the learner clicks
    CompletionOf,     \* <<n, d>>: completionPercentage is n / d
    MaxEvents         \* bound: events of the media element not yet handled

NoTime == -1          \* null or undefined

ASSUME PlaybackAssumption ==
    /\ Duration \in Nat \ {0}
    /\ SlideTo \cup CaptionAt \subseteq 0 .. Duration
    /\ Configs \subseteq [videoType : {"html5", "hls", "youtube"}, startTime : Nat,
                          endTime : Nat \cup {NoTime}, savedVideoPosition : Nat,
                          autoplay : BOOLEAN, othersOnPage : BOOLEAN]

VARIABLES
    config,       \* state.config; it does not change
    phase,        \* "loading", "ready", "destroyed", or "left" when the page is
    video,        \* what the modules and the media element hold, see TypeOK
    pendingSeek,  \* the time of the debounced onSeek, or NoTime
    onceSpent     \* the _.once of bindUnloadHandler, one for all videos, has run

vars == <<config, phase, video, pendingSeek, onceSpent>>

isYoutubeType == config.videoType = "youtube"
SmallerOf(a, b) == IF a < b THEN a ELSE b
LargerOf(a, b) == IF a < b THEN b ELSE a
--------------------------------------------------------------------------------
(***************************************************************************)
(* The media element.  Its state changes at once; the events that tell of  *)
(* it are posted, and named here by the PlayerState they carry.            *)
(***************************************************************************)
Posting(v, events) == [v EXCEPT !.events = @ \o events]

media_play(v) ==
    IF ~v.paused THEN v
    ELSE Posting([v EXCEPT !.paused = FALSE, !.stalled = TRUE,
                           !.pos = IF @ = Duration THEN 0 ELSE @], <<"BUFFERING">>)

media_pause(v) ==
    IF v.paused THEN v
    ELSE Posting([v EXCEPT !.paused = TRUE, !.stalled = FALSE], <<"PAUSED">>)

\* The wrapper of HLS also shows and hides the spinner.
playVideo(v) ==
    LET w == media_play(v) IN
    IF config.videoType = "hls" THEN [w EXCEPT !.spinner = TRUE, !.overlay = FALSE] ELSE w

pauseVideo_LeavesSpinner(v) == media_pause(v)
pauseVideo(v) ==
    LET w == media_pause(v) IN
    IF config.videoType = "hls" THEN [w EXCEPT !.spinner = FALSE] ELSE w

\* YouTube starts over, and what it had to tell is dropped.
cueVideoById(v, time) ==
    [v EXCEPT !.pos = time, !.paused = TRUE, !.stalled = FALSE, !.events = <<"CUED">>]

player_seekTo(v, time) == [v EXCEPT !.pos = time]

isPlaying(v) == v.playerState = "PLAYING"
isUnplayed(v) == v.playerState \in {"UNSTARTED", "CUED"}
duration(v) == IF v.playerState = "UNSTARTED" /\ ~isYoutubeType THEN 0 ELSE Duration
--------------------------------------------------------------------------------
(***************************************************************************)
(* Completion.                                                             *)
(***************************************************************************)
\* currentTime > startTime + (endTime - startTime) * completionPercentage, for
\* the end the author set, or the duration.
PastCompletion(v, currentTime) ==
    LET end == IF config.endTime \notin {NoTime, 0} THEN config.endTime ELSE duration(v) IN
    /\ end # 0
    /\ CompletionOf[2] * (currentTime - config.startTime)
           > CompletionOf[1] * (end - config.startTime)

\* It posts the completion.  lastSentTime is set with isComplete, which nothing
\* resets, and read only while that is false: it and repostDelaySeconds have no
\* effect and are left out.
markCompletion(v) == [v EXCEPT !.isComplete = TRUE, !.postFailed = FALSE]

handleTimeUpdate(v, currentTime) ==
    IF v.isComplete \/ ~PastCompletion(v, currentTime) THEN v ELSE markCompletion(v)

handleEnded_WaitsForPoint(v) == handleTimeUpdate(v, v.currentTime)
handleEnded(v) == IF v.isComplete THEN v ELSE markCompletion(v)
--------------------------------------------------------------------------------
(***************************************************************************)
(* The event log and the saved position.                                   *)
(***************************************************************************)
events_onPlay(v) ==
    IF v.emitPlayVideoEvent
    THEN [v EXCEPT !.logged = "play_video", !.emitPlayVideoEvent = FALSE] ELSE v
events_onPause(v) == [v EXCEPT !.logged = "pause_video", !.emitPlayVideoEvent = TRUE]
events_onEnded(v) == [v EXCEPT !.logged = "stop_video", !.emitPlayVideoEvent = TRUE]
events_onSeek(v) == [v EXCEPT !.logged = "seek_video", !.emitPlayVideoEvent = TRUE]

saveState_OnlyNew(v) == IF v.lastSave = NoTime THEN [v EXCEPT !.lastSave = v.currentTime] ELSE v
saveState(v) == [v EXCEPT !.lastSave = v.currentTime]

\* What the listeners of an event of state.el do, in the order they were bound.
trigger_pause(v) == events_onPause(saveState([v EXCEPT !.button = "play"]))
trigger_ended(v) == handleEnded(events_onEnded([v EXCEPT !.button = "play"]))
trigger_stop(v) == events_onEnded(v)
trigger_play(v) ==
    LET w == IF v.playSeek = NoTime THEN v ELSE player_seekTo(v, v.playSeek)
    IN  events_onPlay([w EXCEPT !.button = "pause", !.played = TRUE,
                                !.unloadBound = @ \/ ~onceSpent])
--------------------------------------------------------------------------------
(***************************************************************************)
(* The player.                                                             *)
(***************************************************************************)
\* videoProgressSlider.updatePlayTime; the slider keeps its value in its range.
SliderEnd(v) == IF config.endTime \notin {NoTime, 0}
                THEN SmallerOf(config.endTime, duration(v)) ELSE duration(v)
OnSlider(v, time) == LargerOf(config.startTime, SmallerOf(time, SliderEnd(v)))
updatePlayTime(v, time) == IF v.frozen THEN v ELSE [v EXCEPT !.shown = OnSlider(v, time)]

update_IgnoresEnd(v) ==
    LET w == updatePlayTime([v EXCEPT !.currentTime = v.pos], v.pos)
    IN  handleTimeUpdate(w, w.currentTime)
update_ReportsSlider(v) ==
    LET w == updatePlayTime([v EXCEPT !.currentTime = v.pos], v.pos)
    IN  handleTimeUpdate(w, w.shown)
update(v) ==
    LET w == updatePlayTime([v EXCEPT !.currentTime = v.pos], v.pos)
        x == IF w.endTime # NoTime /\ w.endTime <= w.currentTime
             THEN trigger_stop(pauseVideo(w)) ELSE w
    IN  handleTimeUpdate(x, w.currentTime)

runTimer(v) == IF v.updateInterval THEN v ELSE update([v EXCEPT !.updateInterval = TRUE])
stopTimer(v) == [v EXCEPT !.updateInterval = FALSE]

\* videoPlayer.seekTo.  A YouTube video that buffers is sought when it plays.
seekTo_KeepsTimerOff(v, time) ==
    IF time < 0 \/ time > duration(v) THEN v
    ELSE LET w == IF isPlaying(v) THEN stopTimer(v) ELSE v
         IN  [updatePlayTime(player_seekTo(w, time), time) EXCEPT !.currentTime = time]

seekTo(v, time) ==
    IF time < 0 \/ time > duration(v) THEN v
    ELSE LET w == [IF isPlaying(v) THEN stopTimer(v) ELSE v EXCEPT !.playSeek = NoTime]
             x == IF isUnplayed(v) /\ isYoutubeType
                  THEN cueVideoById(w, time)
                  ELSE IF isYoutubeType /\ v.playerState = "BUFFERING"
                  THEN [w EXCEPT !.playSeek = time]
                  ELSE player_seekTo(w, time)
             y == updatePlayTime(x, time)
             z == IF isPlaying(y) THEN runTimer(y) ELSE y
         IN  [z EXCEPT !.currentTime = time]

onSeek(v, time) == events_onSeek(seekTo(v, time))
play(v) == playVideo(v)
pause(v) == pauseVideo(v)
togglePlayback(v) == IF isPlaying(v) THEN pause(v) ELSE play(v)

onPlay(v) == trigger_play(runTimer(v))
onPause(v) == trigger_pause(stopTimer(v))
onEnded(v) ==
    LET w == updatePlayTime(v, duration(v))
    IN  trigger_ended(IF isYoutubeType THEN trigger_pause(w) ELSE w)

\* The handlers of the element's events set the state, call onStateChange and
\* see to the overlay, which YouTube does not have.
onStateChange(v, state) ==
    LET w == [v EXCEPT !.playerState = state] IN
    CASE state = "BUFFERING" -> [w EXCEPT !.overlay = FALSE]
      [] state = "PLAYING" ->
            [onPlay(w) EXCEPT !.overlay = FALSE,
                              !.spinner = IF config.videoType = "hls" THEN FALSE ELSE @]
      [] state = "PAUSED" -> [onPause(w) EXCEPT !.overlay = ~isYoutubeType]
      [] state = "ENDED" -> onEnded(w)
      [] state = "CUED" -> w

\* The start and the end of the part of the video to play, and where to start.
figureOutStartEndTime(length) ==
    LET start == IF config.startTime >= length THEN 0 ELSE config.startTime
    IN  [startTime |-> start,
         endTime |-> IF config.endTime <= start \/ config.endTime >= length THEN NoTime
                     ELSE config.endTime]

figureOutStartingTime(length) ==
    LET part == figureOutStartEndTime(length)
        position == config.savedVideoPosition
        usable == /\ position > part.startTime
                  /\ part.endTime > position \/ part.endTime = NoTime
                  /\ position < length - 1
    IN  IF usable THEN position ELSE part.startTime

onReady(v) ==
    LET time == figureOutStartingTime(duration(v))
        w == [v EXCEPT !.endTime = figureOutStartEndTime(duration(v)).endTime]
        x == IF time > 0 THEN seekTo(w, time) ELSE w
    IN  IF config.autoplay THEN play(x) ELSE x

onLoadedMetadata(v) ==
    LET w == [v EXCEPT !.playerState = IF isYoutubeType THEN "CUED" ELSE "PAUSED"]
    IN  [onReady(w) EXCEPT !.overlay = ~isYoutubeType]
--------------------------------------------------------------------------------
Init ==
    /\ config \in Configs
    /\ phase = "loading"
    /\ video = [paused |-> TRUE, stalled |-> FALSE, pos |-> 0, events |-> <<>>,
                playerState |-> "UNSTARTED", currentTime |-> 0, updateInterval |-> FALSE,
                played |-> FALSE, endTime |-> NoTime, playSeek |-> NoTime,
                shown |-> config.startTime, frozen |-> FALSE,
                unfreezing |-> FALSE, lastSeekValue |-> NoTime,
                button |-> "play", overlay |-> FALSE, spinner |-> FALSE,
                emitPlayVideoEvent |-> TRUE, logged |-> "none", lastSave |-> NoTime,
                unloadBound |-> FALSE, isComplete |-> FALSE, postFailed |-> FALSE]
    /\ pendingSeek = NoTime
    /\ onceSpent = FALSE

\* The modules take a step that makes this of the video.
Becomes(v) ==
    /\ video' = v
    /\ onceSpent' = (onceSpent \/ v.unloadBound)
    /\ UNCHANGED config

Ready == phase = "ready"
RoomForEvents == Len(video.events) < MaxEvents

MetadataLoads ==
    /\ phase = "loading"
    /\ phase' = "ready"
    /\ Becomes(onLoadedMetadata(video))
    /\ UNCHANGED pendingSeek

(***************************************************************************)
(* The learner.                                                            *)
(***************************************************************************)
TogglePlayback ==
    /\ Ready /\ RoomForEvents
    /\ Becomes(togglePlayback(video))
    /\ UNCHANGED <<phase, pendingSeek>>

\* A click on the video or on its overlay.
ClickVideo ==
    /\ Ready /\ RoomForEvents
    /\ ~isYoutubeType
    /\ Becomes(IF isPlaying(video)
               THEN pauseVideo([video EXCEPT !.playerState = "PAUSED"])
               ELSE playVideo([video EXCEPT !.playerState = "PLAYING"]))
    /\ UNCHANGED <<phase, pendingSeek>>

onSlide(time) ==
    /\ Ready
    /\ time = OnSlider(video, time)
    /\ Becomes([video EXCEPT !.frozen = TRUE, !.shown = time,
                             !.lastSeekValue = time])
    /\ pendingSeek' = time
    /\ UNCHANGED phase

\* The handle is let go, or only pressed.  One timer stands for all that are
\* set: any of them unfreezes.
onStop ==
    /\ Ready
    /\ Becomes([video EXCEPT !.frozen = TRUE, !.unfreezing = TRUE])
    /\ pendingSeek' = IF video.lastSeekValue # video.shown THEN video.shown ELSE pendingSeek
    /\ UNCHANGED phase


CaptionSeek(time) ==
    /\ Ready
    /\ pendingSeek' = time
    /\ UNCHANGED <<config, phase, video, onceSpent>>

(***************************************************************************)
(* Timers: the debounced seek, the slider's, the update interval.          *)
(***************************************************************************)
SeekIsDue ==
    /\ Ready /\ RoomForEvents
    /\ pendingSeek # NoTime
    /\ pendingSeek' = NoTime
    /\ Becomes(onSeek(video, pendingSeek))
    /\ UNCHANGED phase

SliderUnfreezes ==
    /\ Ready
    /\ video.unfreezing
    /\ Becomes([video EXCEPT !.frozen = FALSE, !.unfreezing = FALSE])
    /\ UNCHANGED <<phase, pendingSeek>>

UpdateIsDue ==
    /\ Ready
    /\ video.updateInterval
    /\ Becomes(update(video))
    /\ UNCHANGED <<phase, pendingSeek>>

(***************************************************************************)
(* The media element and its events.                                       *)
(***************************************************************************)
MediaStarts ==
    /\ Ready /\ video.stalled
    /\ Becomes(Posting([video EXCEPT !.stalled = FALSE], <<"PLAYING">>))
    /\ UNCHANGED <<phase, pendingSeek>>

\* YouTube tells that it runs out of data, and an HTML5 video that it goes on.
MediaStalls ==
    /\ Ready /\ RoomForEvents
    /\ ~video.paused /\ ~video.stalled
    /\ Becomes(Posting([video EXCEPT !.stalled = TRUE],
                       IF isYoutubeType THEN <<"BUFFERING">> ELSE <<>>))
    /\ UNCHANGED <<phase, pendingSeek>>

\* A unit of time passes; the video was updated since the one before.
MediaAdvances ==
    /\ Ready
    /\ ~video.paused /\ ~video.stalled
    /\ video.updateInterval => video.currentTime = video.pos
    /\ IF video.pos < Duration
       THEN Becomes([video EXCEPT !.pos = @ + 1])
       ELSE /\ RoomForEvents
            /\ Becomes(Posting([video EXCEPT !.paused = TRUE],
                               IF isYoutubeType THEN <<"ENDED">> ELSE <<"PAUSED", "ENDED">>))
    /\ UNCHANGED <<phase, pendingSeek>>

HandleEvent ==
    /\ Ready
    /\ video.events # <<>>
    /\ Becomes(onStateChange([video EXCEPT !.events = Tail(@)], Head(video.events)))
    /\ UNCHANGED <<phase, pendingSeek>>

\* The error handler resets self.complete, which nothing reads.
PostFails ==
    /\ Ready
    /\ video.isComplete /\ ~video.postFailed
    /\ Becomes([video EXCEPT !.postFailed = TRUE])
    /\ UNCHANGED <<phase, pendingSeek>>

(***************************************************************************)
(* The video is removed, the page is left, other videos play or go.        *)
(***************************************************************************)
\* The listeners of "destroy" save the position before the player is gone.
destroy ==
    /\ Ready
    /\ phase' = "destroyed"
    /\ Becomes([stopTimer(saveState(video)) EXCEPT !.unloadBound = FALSE])
    /\ UNCHANGED pendingSeek

onUnload ==
    /\ Ready
    /\ phase' = "left"
    /\ Becomes(IF video.unloadBound THEN saveState(video) ELSE video)
    /\ UNCHANGED pendingSeek

OtherVideoPlays ==
    /\ config.othersOnPage
    /\ onceSpent' = TRUE
    /\ UNCHANGED <<config, phase, video, pendingSeek>>

\* $(window).off('.video')
OtherVideoDestroyed ==
    /\ config.othersOnPage
    /\ video' = [video EXCEPT !.unloadBound = FALSE]
    /\ UNCHANGED <<config, phase, pendingSeek, onceSpent>>

Learner ==
    \/ TogglePlayback \/ ClickVideo \/ onStop
    \/ \E time \in SlideTo : onSlide(time)
    \/ \E time \in CaptionAt : CaptionSeek(time)

Next ==
    \/ MetadataLoads
    \/ Learner
    \/ SeekIsDue \/ SliderUnfreezes \/ UpdateIsDue
    \/ MediaStarts \/ MediaStalls \/ MediaAdvances \/ HandleEvent
    \/ PostFails
    \/ destroy \/ onUnload
    \/ OtherVideoPlays \/ OtherVideoDestroyed

\* The browser runs the timers that are due and the handlers of events.
Spec == Init /\ [][Next]_vars
        /\ WF_vars(UpdateIsDue) /\ WF_vars(HandleEvent)
--------------------------------------------------------------------------------
PlayerStates == {"UNSTARTED", "CUED", "BUFFERING", "PLAYING", "PAUSED", "ENDED"}
Times == 0 .. Duration

TypeOK ==
    /\ config \in Configs
    /\ phase \in {"loading", "ready", "destroyed", "left"}
    /\ video.pos \in Times /\ video.currentTime \in Times
    /\ video.shown \in Nat /\ pendingSeek \in Nat \cup {NoTime}
    /\ video.playerState \in PlayerStates
    /\ video.events \in Seq(PlayerStates)
    /\ {video.endTime, video.playSeek, video.lastSeekValue, video.lastSave}
           \subseteq Times \cup {NoTime}
    /\ video.logged \in {"none", "play_video", "pause_video", "stop_video", "seek_video"}
    /\ video.button \in {"play", "pause"}
    /\ {video.paused, video.stalled, video.updateInterval, video.played, video.frozen,
        video.unfreezing, video.overlay, video.spinner,
        video.emitPlayVideoEvent, video.unloadBound, video.isComplete, video.postFailed,
        onceSpent}
           \subseteq BOOLEAN

\* The media element has told all it has to tell, and plays or is paused.
Quiet == video.events = <<>> /\ ~video.stalled
Settled == Ready /\ Quiet
Plays == Ready /\ ~video.paused /\ ~video.stalled

(***************************************************************************)
(* When the events have been handled, the update interval runs if and only *)
(* if the video plays: clicks that write playerState themselves, seeks     *)
(* that stop and start it, and pauses at the end time leave none behind.   *)
(* (After a YouTube video has ended it goes on.)                           *)
(***************************************************************************)
TimerFollowsPlayback ==
    Settled => /\ ~video.paused => video.updateInterval
               /\ video.updateInterval => ~video.paused \/ video.playerState = "ENDED"

(***************************************************************************)
(* What the learner sees, the button, the overlay of an HTML5 video and    *)
(* the spinner of HLS, agrees with what the video does.                    *)
(***************************************************************************)
ControlsTellTheTruth ==
    Settled => /\ video.button = "pause" <=> ~video.paused
               /\ video.overlay => video.paused
               /\ ~video.spinner

(***************************************************************************)
(* The last word of the event log is not that a paused video plays, nor    *)
(* that a playing one paused or stopped.                                   *)
(***************************************************************************)
LogTellsPlayback ==
    Settled => IF video.paused THEN video.logged # "play_video"
               ELSE video.logged \in {"play_video", "seek_video"}

(***************************************************************************)
(* Whatever was clicked, sought or stalled, once the media element has     *)
(* told all it has to tell, the timer, the controls and the log agree with *)
(* what the video does.                                                    *)
(***************************************************************************)
PlaybackIsTold == TypeOK /\ TimerFollowsPlayback /\ ControlsTellTheTruth /\ LogTellsPlayback

\* Who plays to the end has it reported.
EndIsReported == Settled /\ video.playerState = "ENDED" => video.isComplete

(***************************************************************************)
(* Removing the video or leaving the page saves a position within one unit *)
(* of where the video is, if it has played, or that of a seek that still   *)
(* waits.  (When the page is left, only of a video alone on it: the        *)
(* listener is bound once for all, and removed for all.)                   *)
(***************************************************************************)
LeavingSaves ==
    ( /\ Quiet /\ video.played /\ video.playSeek = NoTime
      /\ \/ phase = "destroyed"
         \/ phase = "left" /\ ~config.othersOnPage )
        => /\ video.lastSave # NoTime
           /\ \/ video.pos - video.lastSave \in {-1, 0, 1}
              \/ video.lastSave >= Duration - 1 /\ video.pos = 0   \* paused as it restarts

(***************************************************************************)
(* What the learner has watched is not lost: its end is reported, and the  *)
(* position is saved when the video is left.                               *)
(***************************************************************************)
ProgressIsKept == EndIsReported /\ LeavingSaves

(***************************************************************************)
(* Who plays on past the completion point has it reported, and a video     *)
(* does not go on playing beyond its end time, whatever was clicked or     *)
(* sought.                                                                 *)
(***************************************************************************)
EndsAreReached ==
    /\ Plays /\ PastCompletion(video, video.pos)
           ~> ~Plays \/ ~PastCompletion(video, video.pos) \/ video.isComplete
    /\ Plays /\ video.endTime # NoTime /\ video.pos >= video.endTime
           ~> ~Plays \/ video.pos < video.endTime

(***************************************************************************)
(* "How many seconds to wait after a POST fails to try again": a report    *)
(* that failed is sent again, when the video ends at the latest.           *)
(* Violated: what the error handler resets is not what the others read.    *)
(***************************************************************************)
FailedPostIsRetried ==
    [][(video.postFailed /\ HandleEvent /\ Head(video.events) = "ENDED")
           => ~video'.postFailed]_vars

================================================================================
