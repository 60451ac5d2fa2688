------------------------------ MODULE VideoStartup ------------------------------
(***************************************************************************)
(* How the videos of a page come up: window.Video (10_main.js) with its    *)
(* poster and bumper, and initialize (01_initialize.js), which waits for   *)
(* the YouTube API, a script the videos share, and falls back to the HTML5 *)
(* sources when it does not come in time.  The script of each video loads  *)
(* or fails, the API gets ready, the test timeout fires, metadata arrives, *)
(* the learner clicks and the course moves on to another sequence, in any  *)
(* order.                                                                  *)
(***************************************************************************)
EXTENDS Integers, Sequences, FiniteSets

CONSTANTS
    Videos,        \* the videos of the page
    Kinds,         \* what their authors and the course gave them: records
    MaxTimers      \* bound: calls of showMainVideoHandler that wait


VARIABLES
    kind,        \* of each video
    YT,          \* window.YT: "absent", "loading", "ready"; one for all videos
    page,        \* "shown", or "changed" to another sequence
    video,       \* what each video's state holds
    bumper       \* what its VideoBumper and the storage hold

vars == <<kind, YT, page, video, bumper>>

NewVideo == [stage |-> "unseen",      \* "poster", "started", "rejected"
             videoType |-> "none", players |-> <<>>, live |-> FALSE,
             htmlPlayerLoaded |-> FALSE, youtubeApiAvailable |-> FALSE,
             waitsForApi |-> FALSE, testing |-> FALSE, script |-> "none",
             metadata |-> "none", told |-> {}, destroyed |-> FALSE]

NewBumper == [stage |-> "none",       \* "playing", "resolved"
              isBumperShown |-> FALSE, doNotShowAgain |-> FALSE,
              timers |-> 0, saved |-> {}, resolutions |-> 0]
--------------------------------------------------------------------------------
(***************************************************************************)
(* initialize and what it calls, as functions of the video's state s.      *)
(***************************************************************************)
\* VideoPlayer(state): it sets state.videoPlayer.
VideoPlayer(s, type) == [s EXCEPT !.players = Append(@, type), !.live = TRUE]

onYTApiReady_NoCheck(s) == [VideoPlayer(s, "youtube") EXCEPT !.youtubeApiAvailable = TRUE,
                                                             !.waitsForApi = FALSE]
onYTApiReady_NotNoted(s) ==
    IF s.htmlPlayerLoaded THEN s ELSE [VideoPlayer(s, "youtube") EXCEPT !.waitsForApi = FALSE]
onYTApiReady(s) ==
    IF s.htmlPlayerLoaded THEN [s EXCEPT !.waitsForApi = FALSE]
    ELSE [VideoPlayer(s, "youtube") EXCEPT !.youtubeApiAvailable = TRUE,
                                           !.waitsForApi = FALSE]

_renderElements(s) ==
    IF s.videoType = "html5" THEN [VideoPlayer(s, "html5") EXCEPT !.htmlPlayerLoaded = TRUE]
    ELSE LET w == [s EXCEPT !.youtubeApiAvailable = FALSE, !.waitsForApi = TRUE]
         IN  IF YT = "ready" THEN onYTApiReady(w) ELSE w

\* It shows the error message when the video has no HTML5 sources.
_prepareHTML5Video(k, s) == IF k.html5 THEN [s EXCEPT !.videoType = "html5"] ELSE s

loadYoutubePlayer(s) ==
    IF s.htmlPlayerLoaded THEN s ELSE [s EXCEPT !.metadata = "asked"]

loadHtmlPlayer_YoutubeOnly(k, s) == loadYoutubePlayer(s)
loadHtmlPlayer(k, s) ==
    IF k.html5 THEN _renderElements(_prepareHTML5Video(k, s)) ELSE loadYoutubePlayer(s)

initialize(k, s) ==
    IF k.prioritizeHls \/ ~k.youtube
    THEN IF k.html5 THEN [_renderElements(_prepareHTML5Video(k, s)) EXCEPT !.stage = "started"]
         ELSE [s EXCEPT !.stage = "rejected"]
    ELSE [_renderElements([s EXCEPT !.videoType = "youtube"])
             EXCEPT !.stage = "started", !.testing = TRUE, !.script = "loading"]

\* videoPlayer.destroy, which also deletes state.videoPlayer
destroy(s) == [s EXCEPT !.players = <<>>, !.live = FALSE, !.destroyed = TRUE]
--------------------------------------------------------------------------------
(***************************************************************************)
(* VideoBumper.  Its own player is there while its stage is "playing".     *)
(***************************************************************************)
showMainVideoHandler(b) ==
    [b EXCEPT !.isBumperShown = TRUE, !.timers = @ + 1]

\* The save plugin of the bumper goes with its player.
bumper_saveState(b) ==
    IF b.stage # "playing" THEN b
    ELSE [b EXCEPT !.saved = @ \cup {"bumper_last_view_date"}
                               \cup IF b.doNotShowAgain THEN {"bumper_do_not_show_again"} ELSE {}]

skip(b) == showMainVideoHandler(b)
skipAndDoNotShowAgain(b) == skip([b EXCEPT !.doNotShowAgain = TRUE])

\* A timer that finds the player gone waits for the element's next "initialize".  That
\* is the main video's, on the same element; destroyAndResolve then raises, for want of
\* the bumper's videoPlayer, and resolves nothing.
showMainVideo_EachTime(b) == [b EXCEPT !.stage = "resolved", !.resolutions = @ + 1]
showMainVideo(b) ==
    IF b.stage = "playing" THEN [b EXCEPT !.stage = "resolved", !.resolutions = @ + 1] ELSE b
--------------------------------------------------------------------------------
Init ==
    /\ kind \in [Videos -> Kinds]
    /\ YT = "absent"
    /\ page = "shown"
    /\ video = [v \in Videos |-> NewVideo]
    /\ bumper = [v \in Videos |-> NewBumper]

Becomes(v, s) == video' = [video EXCEPT ![v] = s]

\* window.Video: a video with a bumper shows its poster, others start at once.
Video(v) ==
    /\ page = "shown"
    /\ video[v].stage = "unseen"
    /\ Becomes(v, IF kind[v].bumper THEN [video[v] EXCEPT !.stage = "poster"]
                  ELSE initialize(kind[v], video[v]))
    /\ UNCHANGED <<kind, YT, page, bumper>>

\* The click on the poster: the bumper, unless it has been shown in this visit.
onClick(v) ==
    /\ page = "shown"
    /\ video[v].stage = "poster"
    /\ bumper[v].stage = "none"
    /\ IF \E w \in Videos : bumper[w].isBumperShown
       THEN Becomes(v, initialize(kind[v], video[v])) /\ UNCHANGED bumper
       ELSE UNCHANGED video /\ bumper' = [bumper EXCEPT ![v].stage = "playing"]
    /\ UNCHANGED <<kind, YT, page>>

\* It ends, fails, lasts too long, or the learner skips it.
BumperOver(v) ==
    /\ bumper[v].stage = "playing"
    /\ bumper[v].timers < MaxTimers
    /\ \E b \in {showMainVideoHandler(bumper[v]), skip(bumper[v]),
                 skipAndDoNotShowAgain(bumper[v])} : bumper' = [bumper EXCEPT ![v] = b]
    /\ UNCHANGED <<kind, YT, page, video>>

\* The 20 ms are over.  The main video starts when the bumper is resolved.
BumperTimer(v) ==
    /\ bumper[v].timers > 0
    /\ LET b == showMainVideo(bumper_saveState([bumper[v] EXCEPT !.timers = @ - 1])) IN
       /\ bumper' = [bumper EXCEPT ![v] = b]
       /\ IF b.resolutions > bumper[v].resolutions
          THEN Becomes(v, initialize(kind[v], video[v])) ELSE UNCHANGED video
    /\ UNCHANGED <<kind, YT, page>>

(***************************************************************************)
(* The YouTube API and the script tag of each video.                       *)
(***************************************************************************)
ScriptLoads(v) ==
    /\ video[v].script = "loading"
    /\ Becomes(v, loadYoutubePlayer([video[v] EXCEPT !.script = "loaded"]))
    /\ YT' = IF YT = "absent" THEN "loading" ELSE YT
    /\ UNCHANGED <<kind, page, bumper>>

ScriptFails(v) ==
    /\ video[v].script = "loading"
    /\ LET s == [video[v] EXCEPT !.script = "failed"]
       IN  Becomes(v, IF s.htmlPlayerLoaded THEN s ELSE loadHtmlPlayer(kind[v], s))
    /\ UNCHANGED <<kind, YT, page, bumper>>

\* onYouTubeIframeAPIReady resolves the deferred all videos wait on.
ApiReady ==
    /\ YT = "loading"
    /\ YT' = "ready"
    /\ video' = [v \in Videos |-> IF video[v].waitsForApi THEN onYTApiReady(video[v])
                                  ELSE video[v]]
    /\ UNCHANGED <<kind, page, bumper>>

\* _waitForYoutubeApi
TestTimeout(v) ==
    /\ video[v].testing
    /\ LET s == [video[v] EXCEPT !.testing = FALSE]
           w == IF s.youtubeApiAvailable \/ s.htmlPlayerLoaded THEN s
                ELSE loadHtmlPlayer(kind[v], s)
       IN  Becomes(v, [w EXCEPT !.told = @ \cup {w.youtubeApiAvailable}])
    /\ UNCHANGED <<kind, YT, page, bumper>>

MetadataArrives(v) ==
    /\ video[v].metadata = "asked"
    /\ Becomes(v, [video[v] EXCEPT !.metadata = "received"])
    /\ UNCHANGED <<kind, YT, page, bumper>>

\* The learner goes to another sequence: players that are there are destroyed.
onSequenceChange ==
    /\ page = "shown"
    /\ page' = "changed"
    /\ video' = [v \in Videos |-> IF video[v].live THEN destroy(video[v]) ELSE video[v]]
    /\ UNCHANGED <<kind, YT, bumper>>

Next ==
    \/ \E v \in Videos : \/ Video(v) \/ onClick(v) \/ BumperOver(v) \/ BumperTimer(v)
                         \/ ScriptLoads(v) \/ ScriptFails(v) \/ TestTimeout(v)
                         \/ MetadataArrives(v)
    \/ ApiReady
    \/ onSequenceChange

\* Timers fire, a script loads or fails.  The API need not get ready.
Spec == Init /\ [][Next]_vars
        /\ \A v \in Videos : /\ WF_vars(BumperTimer(v)) /\ WF_vars(TestTimeout(v))
                             /\ WF_vars(ScriptLoads(v) \/ ScriptFails(v))
--------------------------------------------------------------------------------
TypeOK ==
    /\ kind \in [Videos -> Kinds]
    /\ YT \in {"absent", "loading", "ready"} /\ page \in {"shown", "changed"}
    /\ \A v \in Videos :
        /\ video[v].stage \in {"unseen", "poster", "started", "rejected"}
        /\ video[v].videoType \in {"none", "youtube", "html5"}
        /\ video[v].script \in {"none", "loading", "loaded", "failed"}
        /\ video[v].told \in {{}, {TRUE}, {FALSE}}
        /\ bumper[v].timers \in 0 .. MaxTimers
        /\ bumper[v].stage \in {"none", "playing", "resolved"}

(***************************************************************************)
(* A video gets one player, however the API, the timeout and the script    *)
(* race: "If the video is already loaded in _waitForYoutubeApi by the time *)
(* we get here, then we shouldn't load it again".  (Not when the API was   *)
(* there already, from another video, and this video's script fails: the   *)
(* error handler does not ask for youtubeApiAvailable.)                    *)
(***************************************************************************)
OnePlayer ==
    \A v \in Videos : Len(video[v].players) <= 1 \/ video[v].script = "failed"

(***************************************************************************)
(* A learner is recorded as being without YouTube only if the video did    *)
(* not come from YouTube when it was told.                                 *)
(***************************************************************************)
AvailabilityIsTrue ==
    [][\A v \in Videos : video'[v].told # video[v].told =>
           video'[v].told = {video'[v].players # <<>> /\ video'[v].players[1] = "youtube"}
           \/ video'[v].destroyed]_vars

(***************************************************************************)
(* The bumper hands over to the main video once, however often it ended    *)
(* and was skipped, and what the learner said of it has been saved by then.*)
(***************************************************************************)
BumperHandsOver ==
    \A v \in Videos :
        /\ bumper[v].stage = "resolved" <=> bumper[v].resolutions = 1
        /\ bumper[v].resolutions <= 1
        /\ bumper[v].stage = "resolved" =>
               /\ "bumper_last_view_date" \in bumper[v].saved
               /\ bumper[v].doNotShowAgain => "bumper_do_not_show_again" \in bumper[v].saved
               /\ video[v].stage # "poster"

(***************************************************************************)
(* A video with HTML5 sources comes up even if YouTube cannot be reached,  *)
(* and its bumper does not keep it.                                        *)
(***************************************************************************)
Playable(v) == kind[v].html5 /\ page = "shown"
ComesUp ==
    \A v \in Videos :
        /\ video[v].stage = "started" /\ Playable(v) ~> video[v].players # <<>> \/ page = "changed"
        /\ bumper[v].timers > 0 ~> bumper[v].stage = "resolved"

(***************************************************************************)
(* An API that comes after the timeout is not too late for a video that    *)
(* has nothing else to play.                                               *)
(***************************************************************************)
LateApiStillPlays ==
    \A v \in Videos :
        ( /\ video[v].stage = "started" /\ video[v].videoType = "youtube"
          /\ YT = "ready" /\ ~video[v].destroyed )
            => video[v].players # <<>>

(***************************************************************************)
(* A fallback that was loaded stays: YouTube does not come up over it.     *)
(***************************************************************************)
NoSwitchBack ==
    [][\A v \in Videos : video[v].players = <<"html5">> =>
           video'[v].players \in {<<"html5">>, <<>>}]_vars

(***************************************************************************)
(* What was started and is still under way when the learner leaves the     *)
(* sequence builds no player over the one that was destroyed.  (With the   *)
(* exception of OnePlayer, for the same reason.)                           *)
(***************************************************************************)
GoneStaysGone ==
    \A v \in Videos : video[v].destroyed => video[v].players = <<>> \/ video[v].script = "failed"
================================================================================
