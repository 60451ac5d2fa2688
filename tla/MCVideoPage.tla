------------------------------ MODULE MCVideoPage ------------------------------
(***************************************************************************)
(* The parts of a video's page that do not share state with one another:   *)
(* each behaviour is about one of them, focus, and leaves the others where *)
(* they start.                                                             *)
(***************************************************************************)
EXTENDS Integers, Sequences, FiniteSets

CONSTANTS Videos, MaxTimers, Languages, Google, MaxBuilds, MaxTime, MaxCaptions, Cookies, Slides,
          Html5Speeds, YoutubeRates, SavedSpeeds, Qualities, MaxRequests,
          TranscriptLanguages, Translated, Entries, Items, Captions, Kinds, Configs

\* What the parts ask of their constants.
ASSUME PageAssumption ==
    /\ IsFiniteSet(Videos) /\ MaxTimers \in Nat \ {0}
    /\ Kinds \subseteq [youtube : BOOLEAN, html5 : BOOLEAN, prioritizeHls : BOOLEAN, bumper : BOOLEAN]
    /\ IsFiniteSet(Languages) /\ Google \subseteq Languages
    /\ Configs \subseteq [languages : SUBSET Languages, lang : Languages, touch : BOOLEAN,
                          html5 : BOOLEAN, youtubeId : BOOLEAN, showCaptions : BOOLEAN,
                          show_transcript : {"none", "true", "false"}]
    /\ MaxTime \in Nat /\ MaxCaptions \in Nat /\ MaxRequests \in Nat \ {0}
    /\ Cookies \subseteq Int /\ Slides \subseteq 0 .. 100
    /\ 100 \in Html5Speeds \cap YoutubeRates /\ IsFiniteSet(YoutubeRates)
    /\ Html5Speeds \cup YoutubeRates \cup SavedSpeeds \subseteq Nat
    /\ \A speed \in Html5Speeds : speed > 25
    /\ "large" \in Qualities
    /\ "en" \in TranscriptLanguages /\ Translated \subseteq TranscriptLanguages
    /\ Entries \in Nat \ {0, 1} /\ Items \in Nat \ {0, 1} /\ Captions \in Nat /\ Captions > 4

VARIABLES focus, kind, YT, page, video, bumper, config, caption,
          start, startTime, endTime, time, currentIndex, vol, spd, screen, quality, fb, menu

Startup == INSTANCE VideoStartup
Caption == INSTANCE VideoCaption
Sjson == INSTANCE VideoSjson
Volume == INSTANCE VideoVolume
Speed == INSTANCE VideoSpeed
Screen == INSTANCE VideoScreen
Feedback == INSTANCE VideoFeedback
Menus == INSTANCE VideoMenus

startup == <<kind, YT, page, video, bumper>>
captions == <<config, caption>>
sjson == <<start, startTime, endTime, time, currentIndex>>
buttons == <<vol, spd, screen, quality, fb, menu>>
vars == <<focus, startup, captions, sjson, buttons>>

\* Where a part that is not in focus rests.
Init ==
    /\ focus \in {"startup", "caption", "sjson", "volume", "speed", "screen", "feedback", "menus"}
    /\ Startup!Init /\ (focus # "startup" => kind = [v \in Videos |-> CHOOSE k \in Kinds : TRUE])
    /\ Caption!Init /\ (focus # "caption" => config = CHOOSE c \in Configs : TRUE)
    /\ Sjson!Init /\ (focus # "sjson" => start = <<>> /\ startTime = 0 /\ endTime = 0)
    /\ Volume!Init /\ (focus # "volume" => vol.cookie = 50)
    /\ Speed!Init /\ (focus # "speed" => spd.html5 /\ spd.saved = 100 /\ ~spd.auto_advance)
    /\ Screen!Init /\ (focus # "screen" => screen.api /\ quality.playing = "large")
    /\ Feedback!Init
    /\ focus # "feedback" => fb.language = "en" /\ fb.given = [l \in TranscriptLanguages |-> "empty"]
    /\ Menus!Init /\ (focus # "menus" => menu.kind = "speed")

Next ==
    \/ focus = "startup" /\ Startup!Next /\ UNCHANGED <<focus, captions, sjson, buttons>>
    \/ focus = "caption" /\ Caption!Next /\ UNCHANGED <<focus, startup, sjson, buttons>>
    \/ focus = "sjson" /\ Sjson!Next /\ UNCHANGED <<focus, startup, captions, buttons>>
    \/ /\ focus = "volume" /\ Volume!Next
       /\ UNCHANGED <<focus, startup, captions, sjson, spd, screen, quality, fb, menu>>
    \/ /\ focus = "speed" /\ Speed!Next
       /\ UNCHANGED <<focus, startup, captions, sjson, vol, screen, quality, fb, menu>>
    \/ /\ focus = "screen" /\ Screen!Next
       /\ UNCHANGED <<focus, startup, captions, sjson, vol, spd, fb, menu>>
    \/ /\ focus = "feedback" /\ Feedback!Next
       /\ UNCHANGED <<focus, startup, captions, sjson, vol, spd, screen, quality, menu>>
    \/ /\ focus = "menus" /\ Menus!Next
       /\ UNCHANGED <<focus, startup, captions, sjson, vol, spd, screen, quality, fb>>

\* The fairness of the parts, while they are in focus.
Spec ==
    /\ Init /\ [][Next]_vars
    /\ \A v \in Videos :
          /\ WF_startup(focus = "startup" /\ Startup!BumperTimer(v))
          /\ WF_startup(focus = "startup" /\ Startup!TestTimeout(v))
          /\ WF_startup(focus = "startup" /\ (Startup!ScriptLoads(v) \/ Startup!ScriptFails(v)))
    /\ WF_captions(focus = "caption" /\ (Caption!FetchSucceeds \/ Caption!FetchFails))
    /\ WF_captions(focus = "caption" /\ Caption!BuildEnds)
    /\ WF_captions(focus = "caption"
                   /\ (Caption!AvailableTranslations \/ Caption!AvailableTranslationsFail))
    /\ WF_<<screen, quality>>(focus = "screen" /\ Screen!BrowserAnswers)
    /\ WF_<<screen, quality>>(focus = "screen" /\ Screen!FullscreenChange)
--------------------------------------------------------------------------------
(***************************************************************************)
(* A video gets one player and the bumper hands over to it once; the       *)
(* YouTube API that comes late still plays, unless the video was removed.  *)
(***************************************************************************)
StartupIsSound ==
    /\ Startup!TypeOK /\ Startup!OnePlayer /\ Startup!BumperHandsOver
    /\ Startup!LateApiStillPlays /\ Startup!GoneStaysGone

(***************************************************************************)
(* The transcript is that of the last captions that came, under a          *)
(* disclaimer only if they are Google's; a removed video asks for none.    *)
(***************************************************************************)
TranscriptIsRight ==
    /\ Caption!TypeOK /\ Caption!TranscriptFollowsLanguage /\ Caption!DisclaimerForGoogleOnly
    /\ Caption!NothingAskedWhenGone

(***************************************************************************)
(* What the controls show is what the player does: its volume, speed,      *)
(* auto-advance, full screen and quality.                                  *)
(***************************************************************************)
ControlsAgree ==
    /\ Volume!TypeOK /\ Volume!MutedIsSilent /\ Volume!PlayerIsAsLoud
    /\ Speed!TypeOK /\ Speed!ChosenIsPlayed /\ Speed!RateIsAvailable /\ Speed!AutoAdvanceAgrees
    /\ Screen!TypeOK /\ Screen!ScreenAgrees /\ Screen!HeightIsGivenBack /\ Screen!ButtonTellsQuality

\* The thumbs are those the service has of the language they were told of, one at most.
ThumbsAreTheServices == Feedback!TypeOK /\ Feedback!ThumbsAreTheServices /\ Feedback!OneThumb

(***************************************************************************)
(* Who uses the menus or reads the transcript by keyboard is always on     *)
(* something visible, gets to every entry and back, is not scrolled away,  *)
(* and leaves nothing half open; the caption that is lit is the one being  *)
(* spoken.                                                                 *)
(***************************************************************************)
PageIsUsable ==
    /\ Menus!TypeOK /\ Menus!FocusIsVisible /\ Menus!UpUndoesDown /\ Menus!ClosedIsClosed
    /\ Menus!TabbingDecidesScrolling /\ Sjson!CurrentIsPlaying

(***************************************************************************)
(* What was asked for comes: a video with HTML5 sources comes up, captions *)
(* that were loaded are rendered, and full screen left by the browser's    *)
(* means is left by the page.                                              *)
(***************************************************************************)
AskedForComes == Startup!ComesUp /\ Caption!LoadedIsRendered /\ Screen!LeavingIsNoticed

(***************************************************************************)
(* What was decided stands: a fallback is not replaced by YouTube, nobody  *)
(* is recorded as without YouTube who plays it, a transcript the learner   *)
(* closed stays closed but for a second try of its captions, and a speed   *)
(* is the same in both menus and in what is saved.                         *)
(***************************************************************************)
DecidedStands ==
    Startup!NoSwitchBack /\ Startup!AvailabilityIsTrue /\ Caption!ClosedPanelStaysClosed /\ Speed!MenusAgree
--------------------------------------------------------------------------------
MCCookies == {-999, -20, 0, 50, 130}  \* -999: no cookie

Kind(youtube, html5, hls, withBumper) ==
    [youtube |-> youtube, html5 |-> html5, prioritizeHls |-> hls, bumper |-> withBumper]
MCKinds == {Kind(TRUE, TRUE, FALSE, FALSE), Kind(TRUE, FALSE, FALSE, FALSE),
            Kind(TRUE, TRUE, TRUE, TRUE), Kind(TRUE, TRUE, FALSE, TRUE),
            Kind(FALSE, FALSE, FALSE, FALSE)}

Config(languages, touch, transcript) ==
    [languages |-> languages, lang |-> "en", touch |-> touch, html5 |-> TRUE,
     youtubeId |-> TRUE, showCaptions |-> TRUE, show_transcript |-> transcript]
MCConfigs == {Config({"en", "fr"}, FALSE, "none"), Config({"en", "fr"}, TRUE, "false"),
              Config({"en"}, FALSE, "true")}
================================================================================
