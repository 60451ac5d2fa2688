----------------------------- MODULE VideoFeedback -----------------------------
(***************************************************************************)
(* The thumbs under an AI-translated transcript                            *)
(* (037_video_transcript_feedback.js): shown for languages whose           *)
(* translation is complete, asked of a service per language and sent to it *)
(* by clicks; the answers come in any order, some do not come.             *)
(***************************************************************************)
EXTENDS Integers, FiniteSets

CONSTANTS TranscriptLanguages, Translated,   \* those the service translated
          MaxRequests                        \* bound: requests on their way


VARIABLE fb

Values == {"up", "down", "empty"}      \* true, false and null
--------------------------------------------------------------------------------
\* The icons and currentFeedback, from an answer.
mark(f, value) ==
    [f EXCEPT !.thumbsUp = value = "up", !.thumbsDown = value = "down", !.currentFeedback = value]

Request(f, value) == [language |-> f.language, value |-> value, id |-> f.sent]
ask(f, value) ==
    [f EXCEPT !.requests = @ \cup {Request(f, value)}, !.sent = (@ + 1) % (MaxRequests + 1),
              !.crossed = @ \/ f.requests # {}]

getFeedbackForCurrentTranscript(f) == ask(f, "get")
sendFeedbackForCurrentTranscript(f, value) == ask(f, value)

\* The service is asked synchronously whether it translated this language.
loadAndSetVisibility(f, answered) ==
    IF answered /\ f.language \in Translated
    THEN getFeedbackForCurrentTranscript([f EXCEPT !.shown = TRUE])
    ELSE [f EXCEPT !.shown = FALSE]

onHideLanguageMenu_NotAgain(f, answered) ==
    IF f.language = f.lang THEN f
    ELSE [f EXCEPT !.language = f.lang, !.shown = f.lang \in Translated]
onHideLanguageMenu(f, answered) ==
    IF f.language = f.lang THEN f ELSE loadAndSetVisibility([f EXCEPT !.language = f.lang], answered)

thumbsUpClickHandler(f) ==
    sendFeedbackForCurrentTranscript(f, IF f.currentFeedback = "up" THEN "empty" ELSE "up")
thumbsDownClickHandler(f) ==
    sendFeedbackForCurrentTranscript(f, IF f.currentFeedback = "down" THEN "empty" ELSE "down")
--------------------------------------------------------------------------------
Init ==
    \E lang \in TranscriptLanguages, answered \in BOOLEAN,
       given \in [TranscriptLanguages -> Values] :
        fb = loadAndSetVisibility(
                [lang |-> lang, unheard |-> FALSE, language |-> lang, shown |-> FALSE,
                 thumbsUp |-> FALSE, thumbsDown |-> FALSE,
                 currentFeedback |-> "none", requests |-> {}, sent |-> 0,
                 given |-> given, crossed |-> FALSE, failed |-> FALSE], answered)

Room == Cardinality(fb.requests) < MaxRequests

\* Another language is read, state.lang: it was chosen in the menu with the mouse or
\* a key, or it is left when the list shrinks.  The thumbs do not hear of it,
ChooseLanguage(lang) == lang # fb.lang /\ fb' = [fb EXCEPT !.lang = lang, !.unheard = TRUE]

\* but only when the pointer leaves the menu; a learner at the keyboard never does.
HideLanguageMenu ==
    /\ Room
    /\ \E answered \in BOOLEAN :
           fb' = [onHideLanguageMenu(fb, answered) EXCEPT !.unheard = FALSE]
ThumbsUp == fb.shown /\ Room /\ fb' = thumbsUpClickHandler(fb)
ThumbsDown == fb.shown /\ Room /\ fb' = thumbsDownClickHandler(fb)

\* The service keeps what it is sent; its answer is what it then has.
Answered(r) ==
    LET given == IF r.value = "get" THEN fb.given ELSE [fb.given EXCEPT ![r.language] = r.value]
    IN  fb' = mark([fb EXCEPT !.given = given, !.requests = @ \ {r}], given[r.language])

\* It, or the network, fails before or after it was kept.
Fails(r) ==
    \E given \in {fb.given} \cup (IF r.value = "get" THEN {}
                                  ELSE {[fb.given EXCEPT ![r.language] = r.value]}) :
        fb' = mark([fb EXCEPT !.given = given, !.requests = @ \ {r}, !.failed = TRUE], "empty")

Next == \/ \E lang \in TranscriptLanguages : ChooseLanguage(lang)
        \/ HideLanguageMenu \/ ThumbsUp \/ ThumbsDown
        \/ \E r \in fb.requests : Answered(r)
        \/ \E r \in fb.requests : Fails(r)

Spec == Init /\ [][Next]_fb
--------------------------------------------------------------------------------
TypeOK == /\ fb.lang \in TranscriptLanguages
          /\ fb.language \in TranscriptLanguages /\ fb.given \in [TranscriptLanguages -> Values]
          /\ fb.currentFeedback \in Values \cup {"none"}

(***************************************************************************)
(* When all was answered, the thumbs are those the service has for the     *)
(* language they were last told of, and a click is about; unless two       *)
(* requests crossed, or one failed: an answer does not say which language  *)
(* it is about.  That language is the one that is read if the pointer left *)
(* the menu since the choice, and may be another if it did not.            *)
(***************************************************************************)
ThumbsAreTheServices ==
    fb.shown /\ fb.requests = {} /\ ~fb.crossed /\ ~fb.failed
        => /\ fb.currentFeedback = fb.given[fb.language]
           /\ ~fb.unheard => fb.currentFeedback = fb.given[fb.lang]
           /\ fb.thumbsUp = (fb.currentFeedback = "up")
           /\ fb.thumbsDown = (fb.currentFeedback = "down")

(***************************************************************************)
(* Never two thumbs, and none is offered for a language that was not       *)
(* translated, in whatever order the answers come.                         *)
(***************************************************************************)
OneThumb == ~(fb.thumbsUp /\ fb.thumbsDown) /\ (fb.shown => fb.language \in Translated)
================================================================================
