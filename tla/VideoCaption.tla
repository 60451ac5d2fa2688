------------------------------ MODULE VideoCaption ------------------------------
(***************************************************************************)
(* The transcript and the closed captions of a video (09_video_caption.js, *)
(* 00_async_process.js): captions are fetched per language,   *)
(* built in chunks by a timer, shown in a panel that scrolls with the      *)
(* video, and the current one over the video.  Answers, the chunks, the    *)
(* player's events and the learner's clicks come in any order.             *)
(***************************************************************************)
EXTENDS Integers, Sequences, FiniteSets, SequencesExt

CONSTANTS
    Languages,       \* languages a transcript may have
    Google,          \* those translated by Google, which need a disclaimer
    Configs,         \* what the author and the cookies say: records
    MaxBuilds        \* bound: lists being built at the same time


VARIABLES config, caption
vars == <<config, caption>>

None == "none"
--------------------------------------------------------------------------------
(***************************************************************************)
(* Showing and hiding.                                                     *)
(***************************************************************************)
toggleGoogleDisclaimer(c, show) == [c EXCEPT !.disclaimer = show /\ c.shouldShowGoogleDisclaimer]

hideCaptions(c, hide) ==
    toggleGoogleDisclaimer([c EXCEPT !.closed = hide, !.captionsHidden = hide], ~hide)

showClosedCaptions(c) == [c EXCEPT !.hasCaptions = TRUE]
hideClosedCaptions(c) == [c EXCEPT !.hasCaptions = FALSE]

toggleClosedCaptions(c) ==
    IF c.hasCaptions THEN toggleGoogleDisclaimer(hideClosedCaptions(c), FALSE)
    ELSE toggleGoogleDisclaimer(showClosedCaptions(c), TRUE)

toggleTranscript(c) ==
    [hideCaptions(c, ~c.closed) EXCEPT !.show_transcript = IF c.closed THEN "true" ELSE "false"]
--------------------------------------------------------------------------------
(***************************************************************************)
(* Building the list.                                                      *)
(***************************************************************************)
renderCaption_KeepsOld(c) ==
    [c EXCEPT !.rendered = FALSE, !.overlapped = @ \/ c.builds # <<>>,
              !.builds = Append(@, c.sjson)]

renderCaption(c) ==
    [c EXCEPT !.rendered = FALSE, !.list = <<>>,
              !.overlapped = @ \/ c.builds # <<>>, !.builds = Append(@, c.sjson)]

\* AsyncProcess is through with one of the builds; onRender.
onRender(c, i) ==
    [c EXCEPT !.builds = RemoveAt(@, i), !.list = Append(@, c.builds[i]), !.rendered = TRUE]

--------------------------------------------------------------------------------
(***************************************************************************)
(* Fetching.                                                               *)
(***************************************************************************)
getCurrentLanguage(c) ==
    IF c.lang \in c.languages THEN {c.lang}
    ELSE IF "en" \in c.languages THEN {"en"} ELSE c.languages

request(c, withYoutubeId) == [c EXCEPT !.fetchXHR = <<c.lang, withYoutubeId>>]

fetchFails(c) == hideClosedCaptions([hideCaptions(c, TRUE) EXCEPT !.chooser = FALSE])

\* Whoever fetches shows the panel, once captions were loaded.
showBeforeFetch(c) == IF c.loaded THEN hideCaptions(c, FALSE) ELSE c

\* The error handler, which an abort runs too.  It tries again with the YouTube id,
\* by fetchCaption(true); without one that hides the panel it has just shown.
error(c, withYoutubeId) ==
    IF Cardinality(c.languages) > 1 THEN [c EXCEPT !.availableTranslationsXHR = TRUE]
    ELSE IF ~withYoutubeId /\ config.html5 /\ config.youtubeId
    THEN request(showBeforeFetch(c), TRUE)
    ELSE fetchFails(c)

abortFetch(c) ==
    IF c.fetchXHR = <<>> THEN c ELSE error([c EXCEPT !.fetchXHR = <<>>], c.fetchXHR[2])

fetchCaption(c) ==
    LET e == abortFetch(showBeforeFetch(c))
    IN  IF config.html5 \/ config.youtubeId THEN request(e, FALSE) ELSE e

updateGoogleDisclaimer(c) ==
    toggleGoogleDisclaimer([c EXCEPT !.shouldShowGoogleDisclaimer = c.sjson \in Google],
                           ~c.hideCaptionsOnLoad /\ ~c.captionsHidden)

success_ShowsPanel(c) ==
    LET d == updateGoogleDisclaimer([c EXCEPT !.sjson = c.fetchXHR[1], !.fetchXHR = <<>>])
        e == IF ~d.loaded /\ config.touch THEN d ELSE renderCaption(d)
    IN  [hideCaptions(e, FALSE) EXCEPT !.loaded = TRUE]

\* When a list is still being built, the new captions are not rendered.
success(c) ==
    LET d == updateGoogleDisclaimer([c EXCEPT !.sjson = c.fetchXHR[1], !.fetchXHR = <<>>])
    IN  IF d.loaded
        THEN IF d.rendered THEN renderCaption(d) ELSE [d EXCEPT !.overlapped = TRUE]
        ELSE LET e == IF config.touch THEN d ELSE renderCaption(d)
             IN  [hideCaptions(e, e.hideCaptionsOnLoad) EXCEPT !.loaded = TRUE]

\* What is left of the languages; the one that was chosen may not be among them.
availableTranslations(c, response) ==
    LET d == [c EXCEPT !.availableTranslationsXHR = FALSE, !.languages = @ \cap response]
    IN  IF d.languages = {} THEN {d}
        ELSE {[d EXCEPT !.lang = l, !.chooser = @ /\ Cardinality(d.languages) > 1,
                        !.strayed = @ \/ l # c.lang] : l \in getCurrentLanguage(d)}

availableFails(c) ==
    [hideCaptions(c, TRUE) EXCEPT !.availableTranslationsXHR = FALSE, !.chooser = FALSE]

\* The requests are aborted in this order: the abort of the first may send the second.
destroy(c) ==
    LET d == abortFetch(c)
        e == IF d.availableTranslationsXHR THEN availableFails(d) ELSE d
    IN  [e EXCEPT !.destroyed = TRUE]
--------------------------------------------------------------------------------
setTranscriptVisibility(c) ==
    [c EXCEPT !.hideCaptionsOnLoad = CASE c.show_transcript = "true" -> FALSE
                                       [] c.show_transcript = "false" -> TRUE
                                       [] OTHER -> ~config.showCaptions,
              !.closed = @ \/ ~config.showCaptions \/ c.show_transcript = "false"]

NewCaption ==
    [languages |-> config.languages, lang |-> config.lang, chooser |-> TRUE,
     fetchXHR |-> <<>>, availableTranslationsXHR |-> FALSE, sjson |-> None,
     loaded |-> FALSE, rendered |-> FALSE, builds |-> <<>>, list |-> <<>>,
     playing |-> FALSE,
     closed |-> FALSE, captionsHidden |-> FALSE, hideCaptionsOnLoad |-> FALSE,
     show_transcript |-> config.show_transcript, hasCaptions |-> FALSE,
     shouldShowGoogleDisclaimer |-> FALSE, disclaimer |-> FALSE,
     destroyed |-> FALSE, overlapped |-> FALSE, strayed |-> FALSE]

Init ==
    /\ config \in Configs
    /\ caption = setTranscriptVisibility(fetchCaption(NewCaption))

Becomes(c) == caption' = c /\ UNCHANGED config
Here == ~caption.destroyed

FetchSucceeds ==
    /\ caption.fetchXHR # <<>>
    /\ Len(caption.builds) < MaxBuilds
    /\ Becomes(success(caption))

FetchFails ==
    /\ caption.fetchXHR # <<>>
    /\ Becomes(error([caption EXCEPT !.fetchXHR = <<>>], caption.fetchXHR[2]))

AvailableTranslations ==
    /\ caption.availableTranslationsXHR
    /\ \E response \in SUBSET caption.languages :
           \E c \in availableTranslations(caption, response) : Becomes(c)

AvailableTranslationsFail ==
    /\ caption.availableTranslationsXHR
    /\ Becomes(availableFails(caption))

BuildEnds == \E i \in DOMAIN caption.builds : Becomes(onRender(caption, i))

\* A click in the language menu, which is on the page once captions were loaded.
ChooseLanguage(l) ==
    /\ Here /\ caption.loaded /\ caption.chooser
    /\ l \in caption.languages \ {caption.lang}
    /\ Becomes(fetchCaption([caption EXCEPT !.lang = l]))

ToggleTranscript == Here /\ caption.loaded /\ Becomes(toggleTranscript(caption))
ToggleClosedCaptions == Here /\ caption.loaded /\ Becomes(toggleClosedCaptions(caption))

play_OnlyFlag == Here /\ caption.loaded /\ Becomes([caption EXCEPT !.playing = TRUE])
play ==
    /\ Here /\ caption.loaded
    /\ caption.rendered \/ Len(caption.builds) < MaxBuilds
    /\ Becomes([IF caption.rendered THEN caption ELSE renderCaption(caption)
                   EXCEPT !.playing = TRUE])

pause == Here /\ caption.loaded /\ Becomes([caption EXCEPT !.playing = FALSE])
Destroy == Here /\ Becomes(destroy(caption))

Next ==
    \/ FetchSucceeds \/ FetchFails \/ AvailableTranslations \/ AvailableTranslationsFail
    \/ BuildEnds
    \/ \E l \in Languages : ChooseLanguage(l)
    \/ ToggleTranscript \/ ToggleClosedCaptions
    \/ play \/ pause
    \/ Destroy

\* Requests are answered and timers fire.
Spec == Init /\ [][Next]_vars
        /\ WF_vars(FetchSucceeds \/ FetchFails) /\ WF_vars(BuildEnds)
        /\ WF_vars(AvailableTranslations \/ AvailableTranslationsFail)
--------------------------------------------------------------------------------
TypeOK ==
    /\ config \in Configs
    /\ caption.languages \subseteq Languages /\ caption.lang \in Languages
    /\ caption.builds \in Seq(Languages) /\ caption.list \in Seq(Languages)
    /\ caption.sjson \in Languages \cup {None}
    /\ caption.show_transcript \in {"none", "true", "false"}

Settled == Here /\ caption.fetchXHR = <<>> /\ caption.builds = <<>>

(***************************************************************************)
(* When nothing is under way the transcript is that of the last language   *)
(* whose captions came, once.  (Unless a list was still being built when   *)
(* they came or the video was started: what came is dropped, or a second   *)
(* list is added to the first.)                                            *)
(***************************************************************************)
TranscriptFollowsLanguage ==
    Settled /\ caption.rendered /\ ~caption.overlapped => caption.list = <<caption.sjson>>

(***************************************************************************)
(* The disclaimer is shown for no other captions than Google's.            *)
(***************************************************************************)
DisclaimerForGoogleOnly == caption.disclaimer => caption.sjson \in Google

(***************************************************************************)
(* A video that was removed sends no more requests.  (But one whose single *)
(* language is tried a second time with its YouTube id: the abort of the   *)
(* first request counts as its failure.)                                   *)
(***************************************************************************)
NothingAskedWhenGone ==
    caption.destroyed => /\ ~caption.availableTranslationsXHR
                         /\ \/ caption.fetchXHR = <<>>
                            \/ Cardinality(caption.languages) <= 1

(***************************************************************************)
(* The panel of a learner who closed it is opened by nothing but a click   *)
(* on its button or the choice of another language; and, although nobody   *)
(* asked for it, by the second try of captions that failed, which asks     *)
(* with the YouTube id.                                                    *)
(***************************************************************************)
TriedAgain ==
    /\ caption.fetchXHR # <<>> /\ ~caption.fetchXHR[2]
    /\ caption'.fetchXHR # <<>> /\ caption'.fetchXHR[2]

ClosedPanelStaysClosed ==
    [][(caption.loaded /\ caption.closed /\ caption.show_transcript = "false" /\ ~caption'.closed)
           => \/ caption'.show_transcript = "true" \/ caption'.lang # caption.lang
              \/ TriedAgain]_vars

(***************************************************************************)
(* Captions that are loaded get rendered, at the latest when the video is  *)
(* started.                                                                *)
(***************************************************************************)
LoadedIsRendered ==
    caption.loaded /\ (caption.playing \/ ~config.touch) ~> caption.rendered
================================================================================
