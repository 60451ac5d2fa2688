# Formal models of xblocks-contrib

TLA+ modules, TLC configurations and TLAPS proofs for the XBlocks of this repository. The models follow the code line
by line where it decides something (`PROJECT.json`, "map") and abstract what it computes with: answers, scores, messages
and html are members of small sets. Paths below are relative to `src/xblocks_contrib/`.

Contents: [the system](#the-system) · [modules](#modules) · [runs](#runs) · [bounds](#bounds-and-why-they-are-enough) ·
[fairness](#fairness) · [proofs](#proofs) · [where the code departs from its texts](#where-the-code-departs-from-its-texts) ·
[what is left out](#what-is-left-out) · [plan](#plan)

## The system

The repository holds XBlocks: components of an online course, each a Python class whose fields an LMS stores per
learner (`user_state`), for all learners together (`user_state_summary`) or per course (`settings`, `content`), with
handlers called by scripts in the learner's browser. The LMS's runtime builds the block from the stored fields, calls
one handler, and stores the changed fields when the handler returns; a handler that raises stores nothing. Most of the
program's own logic is on the page: scripts that react to clicks, timers, media events and the answers of requests, in
any order, one handler at a time.

| component | state | operations | what is hard | correct when |
|---|---|---|---|---|
| **problem**: `problem/capa_block.py`, `capa/capa_problem.py` | attempts, done, seed, score, answers, correct map; histories of submissions, maps and scores | submit, save, reset, rescore, view; Studio edits | handlers that stop half-way; histories written in different places and zipped by position; eleven rules of when an answer is shown | no more attempts than allowed, histories that tell one story, a grade made of the attempts, nothing revealed early |
| **external grading**: `CodeResponse`, `xqueue_interface.py`, `xqueue_submission.py` | a queuekey and time in the correct map | send a job, take a reply | replies late, lost, twice, malformed; sends that half succeed | the grade is of what was submitted, and what waits can still be answered |
| **display.js**: the page of a problem | what is shown, enabled buttons, timers, requests in flight | submit, render, poll, save, reset, show, hint | responses out of order, timers against responses, one global for all Problems of a page | a waiting page keeps asking, a quiet page is current, the buttons come back |
| **inputs with scripts**: drag and drop, `jschannel.js` and `jsinput.js`, formula preview, `schematic.js`, annotation input | what the learner made | drag, draw, type, save, restore | icons, frames and previews that are late; arrays changed while they are gone through | what is sent is what is shown, and comes back as it was |
| **video**: player, start-up, captions, controls, menus, feedback | media position, flags, timers, cookies, requests | play, seek, choose, save, complete | a media element that tells everything later, a shared API script, late captions, destruction | what the page shows is what the player does, and what was watched is reported |
| **discussion**: the inline discussion | posts, responses, comments, votes, panels, editors | list, open, write, edit, delete, vote, moderate | optimistic changes that are undone, pages that shift, answers for a view that was left | the page says what the service keeps, and one view has the word |
| **poll**, **word_cloud** | a learner's vote or words, counters shared by all | vote or submit, reset, view | read-modify-write of a shared dict | each vote is counted once |
| **lti** | the published grade and a copy of it | LTI 1.1 and 2.0 result services | two copies written one after the other | grade, copy and comment belong together |
| **annotatable** | tips, visibility, per block | show, hide, reply, return | blocks of a page that bind each other's elements | buttons say what they do |
| response and input types, graders, math, sandbox; video handlers; html, pdf, utilities | none of their own | grade, render, parse, convert | arithmetic, parsing | not modelled |

Components talk by requests of the page to the handlers of its block (problem, poll, word cloud, video) or to services
of the LMS (forum, transcript feedback), by events on a shared DOM element (the parts of a video), by messages between
windows (jsinput), and through globals of the page (`window.queuePollerID`, `window.YT`, selectors of annotatable).

## Modules

| module | models | of |
|---|---|---|
| `GradingMethods`, `GradingMethodsCheck` | the four grading methods and the average rounded to the hundredth, a tie to either side (`TieUp`), as the binary float falls; a history that grows | `GradingMethodHandler` |
| `CapaAttempts` | **abstract specification**: attempts and grades, without answers, maps or histories | - |
| `CapaProblem` | one learner's state of one problem graded while the request is handled | `capa_block.py`, `capa_problem.py` |
| `CapaVisibility` | extends it: buttons and answers the page offers in each state | `capa_block.py` |
| `XQueueGrading` | a problem of several `CodeResponse`s, the queue, the grader, the callback | `responsetypes.py`, `xqueue_*.py` |
| `ProblemPage` | the page of an externally graded problem, the network, the server's answers | `display.js` |
| `ProblemButtons` | the page of a problem graded at once: Submit, Save, Reset, Show answer, Hint, marks, notifications | `display.js` |
| `JSChannel`, `JSInput` | a channel between two windows; a problem with an application in a frame | `jschannel.js`, `jsinput.js`, `display.js` |
| `DragAndDrop` | draggables, targets, the slider, saving and restoring | `drag_and_drop/*.js` |
| `FormulaPreview` | typing, rate limit, previews that cross | `formula_equation_preview.js` |
| `ProblemWidgets` | loading of scripts, collapsible outputs, the annotation input | `javascript_loader.js`, `collapsible.js`, `annotationinput.js` |
| `Schematic` | the diagram: wires split and merged, selection, clipboard, labels, loading | `schematic.js` |
| `VideoPlayback` | a video while it plays: player, slider, button, log, saved position, completion | `03_video_player.js`, `02_html5_video*.js`, `06_*`, `09_*` |
| `VideoStartup` | how videos of a page come up over one YouTube script, poster, bumper | `01_initialize.js`, `10_main.js`, `09_bumper.js` |
| `VideoCaption`, `VideoSjson` | fetching, building and showing captions; the search of the current one | `09_video_caption.js`, `00_sjson.js`, `00_async_process.js` |
| `VideoVolume`, `VideoSpeed`, `VideoScreen` | volume and mute; speed and auto-advance; full screen and quality | `07_*`, `08_*`, `04_*`, `05_*`, `00_resizer.js` |
| `VideoFeedback`, `VideoMenus` | thumbs of a translated transcript; keyboard and mouse in menus and transcript | `037_*`, `095_*`, `08_*`, `09_video_caption.js` |
| `DiscussionActions` | vote, follow, pin, close, report, endorse, and their undoing | `discussion_content_view.js`, `utils.js`, `content.js` |
| `DiscussionResponses`, `DiscussionEditing` | pages of responses and comments of posts; editors of a post, response and comments | `discussion_thread_view.js`, `thread_response_view.js`, ... |
| `DiscussionShell`, `DiscussionList` | panels of the inline discussion; the list of posts under its controls | `discussion_inline_view.js`, `discussion_thread_list_view.js`, `discussion.js` |
| `Poll`, `WordCloud` | pages of several learners over fields that are read and saved apart | `poll.py`, `poll.js`, `word_cloud.py`, `word_cloud.js` |
| `LTIResult` | results of a provider, overlapping or failing | `lti_2_util.py`, `lti.py` |
| `Annotatable` | blocks of a page whose handlers reach each other | `annotatable.js` |
| `MC...` | instances for TLC | - |
| `..._proofs` | the theorems | - |

Parts that share no state with one another are checked in one run: `MCVideoPage`, `MCDiscussion`, `MCExchanges` and
`MCPages` hold an INSTANCE of each; every behaviour is about one of them, `focus`, and leaves the others where they
start. Their invariants are conjunctions of named parts, each stated and explained in its own module.

Two conventions. A handler's operator takes the state and returns what the function makes of it, listeners included,
and bears the function's name; an action applies one. A definition named `Original_Change`, next to the original, is a
mutated form, such as a dropped guard: it is used by nothing, and "mutants" lists the property that it would break.

History variables (`graded`, `givenUp`, `overlapped`, `crossed`, `lost`, `raced`, `late`, ...) are not in the code;
they let a property say *unless two requests crossed*, and so make it say that nothing else breaks it. Each exception
is a case that TLC found and that is listed [below](#where-the-code-departs-from-its-texts).

### CapaProblem and CapaAttempts

One action is one handler call that returns. `submit_problem` has three outcomes and so three actions: `SubmitTooSoon`
(the learner must wait; only the answer history has changed), `SubmitMalformed` (a grader raised `StudentInputError`;
answers are kept, nothing is counted) and `SubmitGraded` (graded, counted, appended to the histories, published, and
then rendered: a rendering that fails replaces the problem by a fresh one inside the same call). `RecordSubmission` is
their common start. `Save`, `Reset`, `View` and `Rescore(only_if_higher)` are the other handlers; `DueDateChange`,
`WaitEnds` and `Publish` are time and the author. A correct map is a record of the points and of the answer they were
given for; the second field is not in the code and lets a property ask *whose* grade is on display. `graded` is a
history variable: the answers that were graded, in order. A learner starts new, or with one attempt from before the
histories existed (they then read as their default, empty lists). `Points(key, seed, answer)` stands for the response
types; `key` is the version of the problem, which the author may change and against which a rescore grades.

`CapaAttempts` states what learners and staff are promised: an attempt is spent only on an open problem, and on a fresh
one if it must be reset between attempts; no call spends two; the gradebook moves only with an attempt, a reset of an
open problem or a regrading, which may be told never to lower it. `CapaProblem` implements it under
`used <- attempts, fresh <- ~done, late <- pastDue, grade <- gradebook`: the property `KeepsThePromise`.

### XQueueGrading and ProblemPage

The state is the correct map (per input: queuestate, message, points), attempts, score and gradebook; the queue is a
set of jobs and a set of replies, so order is free, and `LoseReply`, `update_score_again` lose and repeat a reply.
`send_to_queue` has four outcomes per input: accepted, refused, accepted but reported as an error (the read timed out)
and failed but reported as success. `SubmitRaises` is a send that raises after earlier inputs' jobs are in the queue:
the handler saves nothing. A queuekey is the input and the second, since the other parts of the hash are fixed for one
learner and problem. Two fields of an entry, `by` and `of`, are history.

In `ProblemPage` the server is two numbers, attempts and queued inputs; requests are records that are sent, served and
delivered in separate steps; timers may fire at any step after they are set. `queuePollerID` is `window.queuePollerID`,
which other Problems of the page overwrite. A problem with a file input submits through `submit_fd`, with its 750 ms
gate; without one through `disableAllButtonsWhileRunning`. `SubmitComesBack` covers both: a submission has ended when
none is pending or, for files, when both halves of the gate are true.

### The video

`VideoPlayback` keeps what 03_video_player.js and its neighbours keep of one video and a media element that is paused
or not, has a position, and posts its events in order, later (`events`, handled by `HandleEvent`). A click may come
between any two of them. `VideoStartup` has two videos of one page: each inserts the YouTube script, waits for it with
a timer and falls back. `VideoCaption` follows each request and each chunk of a list being built. The
controls' modules apply the jQuery listeners of an event inside the call that triggers it, as jQuery does.

### The discussion, polls and word clouds

Requests of a page are records; an answer is a step of its own that may fail. `DiscussionActions` keeps what the page
shows, what the service keeps and what the undo of each request would restore. `Poll` and `WordCloud` keep, for each
request on the server, the fields as it read them; the runtime saves the changed ones when it ends, so two that overlap
lose what the other wrote.

### Schematic and drag and drop

`Schematic` is the list of components and the table of connection points, with `split_wire`, `clean_up_wires`,
`check_wires` and what calls them; a handler that raises stops half way and leaves what it has done. The grid's unit is
a part's height. `DragAndDrop` keeps the arrays of draggables and targets, the index each object remembers of its
place in them, the lists of the targets, the slider, and the answer; icons that load late call back later.

## Runs

| run | checks | shows |
|---|---|---|
| `capa_lifecycle` | `HistoriesAgree`, `DoneMeansGraded`, `ClosedIsFinal`, `OnlySkewedRescoreMislabels`, `AnswerTakenBackForCause` | every interleaving of handlers for a problem with a waiting time, the highest score counting: the histories agree with the map on display, a closed problem is only rescored, and only a rescore of histories of unequal length shows a grade next to other answers; under every `showanswer` rule an answer once shown is hidden only by a moved due date or for a score that falls, never by a rescore |
| `capa_visibility` | `CorrectIsEarned`, `AnswerStaysVisible`, `KeepsThePromise` | a problem randomized at every attempt, the last score counting: full points are earned, an answer shown for a number of attempts stays, under a rule for every number; and the refinement of `CapaAttempts` |
| `grading_methods` | `AverageIsNearest`, `AttemptMovesScore` | the methods against reference definitions for all histories of up to eight scores out of four values |
| `xqueue` | `GradebookFollowsMap`, `StaleOnlyWithinASecond`, `QueuedIsAnswered` | with every fault of the queue and of sending, the gradebook is the sum of the map and a grade is never of another second's submission; where the queue is reliable, a queued input does not stay queued |
| `problem_page` | `PageKeepsUp`, `SubmitComesBack`, `WaitingEnds` | no order of responses and timers leaves a waiting page unpolled, a quiet page old, or Submit disabled after a submission that has ended, of files or not |
| `VideoPlayback` | `PlaybackIsTold`, `ProgressIsKept`, `EndsAreReached` | an HLS and a YouTube video under clicks, seeks and late events: timer, button, overlay, log, saved position, completion and end time follow what the video does |
| `VideoPage` | `StartupIsSound`, `TranscriptIsRight`, `ControlsAgree`, `ThumbsAreTheServices`, `PageIsUsable`, `AskedForComes`, `DecidedStands` | the other parts of a video's page, one per behaviour |
| `Discussion` | `ShownIsKept`, `NothingSkipped`, `ViewsTakeTurns`, `ListIsAsAsked`, `CountsAreOfTheLearners` | the parts of a discussion, the poll and the word cloud, one per behaviour |
| `Exchanges` | `FrameIsHeard`, `ShownIsCurrent`, `GradebookAgrees`, `AskedIsAnswered` | what exchanges messages: the channel, the frame, the formula preview, the small scripts and the LTI results, one per behaviour |
| `Pages` | `PagesTell`, `DraggablesAgree`, `DiagramIsSound`, `EditsKeepConnections`, `ClicksDoWhatTheySay` | what a learner does by hand: the buttons of a problem, annotated texts, drag and drop and the schematic editor, one per behaviour |
| `capa_save_grades`, `VideoNotRetried` | `SavingDoesNotGrade`, `FailedPostIsRetried` | a violation each, see [below](#where-the-code-departs-from-its-texts) |

What is proved for all values (below) is not run again, except where the run is the example of the theorem.

### Bounds, and why they are enough

- *CapaProblem*: `HistoryBound` caps the submissions kept (4). A skew needs one ungraded submission, one graded and one
  rescore; each property relates at most two positions of the histories. The answers are one of each kind (good,
  malformed, not renderable) plus a second good one, and in `capa_visibility` one that is both malformed and not
  renderable; two versions swap which of them is worth more. `MaxAttempts` is reached within the bound.
- *XQueueGrading*: two inputs (one can answer while the other waits), `MaxClock` 3, so that submissions fall in the same
  and in different seconds, `MaxAttempts` 2 and `MaxSubmissions` 2 (sends that raise count there and not as attempts).
- *ProblemPage*: two inputs (queued, partly graded, graded), two attempts, `Ids`: two ids of timers and requests next to
  the page's own, enough for two chains of polls or two overlapping submissions. `AlertAfter` 4 instead of 60: polling
  gives up at the second doubling instead of the sixth.
- *GradingMethodsCheck*: eight scores out of 0, 50, 133 and 200, with which ties occur that go up and that go down
  (`MCTieUp`).
- *VideoPlayback*: `Duration` 2 and three positions; an excerpt that ends before the video, and one that starts late;
  up to `MaxEvents` 2 events of the media element that are not handled yet, so that one can be overtaken.
- *VideoPage*: two videos of every mix of sources; two languages, one translated by Google; four captions in three
  units of time, every start and end; cookies below, in and above the range, and none; rates of both players; menus of
  three entries, a submenu in the context menu, six captions of which the focus can be before, among and after; two
  requests at once.
- *Discussion*: two responses besides the post, three clicks on two kinds of buttons; two posts with pages of one and
  two; lists of pages of two over five posts, one of them new, one pinned; editors of a response and two comments, three
  saves; three pages of two learners with two requests at once (six requests in a poll, four in a word cloud).
- *Exchanges*: two calls each way; one change in the frame after what was saved, two clicks, three tries instead of five;
  four edits of a formula; three results, two at once, with scores above 1, rounded up, and (times a weight of 5) a tie.
- *Pages*: two draggables, one of them reusable, one with a late icon, each with a target of its own, two targets, two
  copies, three drops; three requests of a problem, two at once; two annotated blocks; a 3 × 3 grid with up to seven
  components and two edits, begun from an empty diagram and from two that have wires ending on and crossing others.

The bounds stop the behaviours of most modules, and a page may be left as it is, so deadlock is checked only where the
system cannot stop (`capa_*`, `problem_page`). Symmetry is not used: the runs that it could help check liveness.

### Fairness

- `XQueueGrading!FairSpec`: the queue hands its jobs to the grader, and replies reach the callback (weak fairness of
  each). XQueue retries until the callback answers. Learner and clock may stop for ever.
- `ProblemPage`: the server handles requests, the browser runs the timers that are due and the handlers of the responses
  that arrive. The grader may never answer: the page then gives up polling, and that is `givenUp`.
- `VideoPlayback`: the update timer and the timers of the page fire, the events of the media element are handled and
  its time goes on while it plays. The learner does nothing or anything.
- `MCVideoPage`: the bumper's timer and the test timeout fire, the YouTube script loads or fails, requests for captions
  are answered or fail, chunks of a list are built, and the browser answers a request for full screen.
- `MCExchanges`: channels are built and ping, messages between windows are delivered, calls are completed; the frame
  loads, the next try comes, answers are received; the rate limit ends, previews are served and arrive.
- All other modules state safety only: nobody has to click, and requests may stay on their way for ever.

## Proofs

Checked by `tlapm` from nothing, for every value of the constants that satisfies the named assumptions of the modules.
The assumptions say what the constants are (kinds of answers are answers, points lie between 0 and the maximum, the
settings are those the code knows), and where they say more the code does: polling is not given up at once (`AlertAfter`
is 60 in `display.js`, above 1 here); scores are whole points, no less than 0; a speed of an HTML5 video is above 25 %,
the least that `01_initialize.js` keeps; an editor of a comment is not that of the post. The theorems on the page of a
video, on the discussion and on the exchanges are about the specifications the runs check, `MCVideoPage!Spec`,
`MCDiscussion!Spec` and `MCExchanges!Spec`: for any number of videos, languages, learners and contents, of timers and of
requests on their way.

| module | theorems about properties of the runs | further theorems |
|---|---|---|
| `CapaProblem_proofs` | `AverageIsAlwaysNearest`, `AttemptAlwaysMovesScore`; `DoneIsGraded`, `HistoriesAlwaysAgree`, `OnlySkewedRescoreEverMislabels`, `ClosedIsAlwaysFinal`, `AnswerAlwaysStays`, `AnswerAlwaysTakenBackForCause`, `CorrectIsAlwaysEarned`; `BlockKeepsThePromise`, the refinement of `CapaAttempts` | `MethodInRange`, `TypeCorrect`, `AttemptsAreAccounted`, `SameLengthIsAligned`, `RescoreIsOfTheAttempts`, `ScoreAlwaysFollowsMap`, `AnswerAlwaysWaits`, `OfferedIsAlwaysAccepted` |
| `XQueueGrading_proofs` | `StaleIsWithinASecond`, `GradebookAlwaysFollowsMap` | `AnswerIsAlwaysOnItsWay` |
| `ProblemPage_proofs` | `PageAlwaysKeepsUp`, `SubmitAlwaysComesBack` | |
| `MCVideoPage_proofs` | `StartupIsAlwaysSound`, `TranscriptIsAlwaysRight`, `ControlsAlwaysAgree`, `ThumbsAreAlwaysTheServices`, `DecidedAlwaysStands` | `UnmuteIsAlwaysHeard`, `VolumeIsAlwaysRemembered` |
| `VideoPlayback_proofs` | `PlaybackIsAlwaysTold`, `ProgressIsAlwaysKept` | |
| `MCDiscussion_proofs` | `ShownIsAlwaysKept`, `ViewsAlwaysTakeTurns`, `CountsAlwaysOfTheLearners` | `VotedAlwaysHasAnswer` |
| `JSChannel_proofs` | | `ChannelIsSound` |
| `MCExchanges_proofs` | `GradebookAlwaysAgrees`, `ShownIsAlwaysCurrent`, `FrameIsAlwaysHeard` | `PreviewNeverGoesBack`, `WorkAlwaysStays` |

### The arguments

**Grading.**
- `MethodInRange` needs that the sum of a sequence in `0 .. m` lies in `0 .. n*m`, that dividing by `n` and rounding,
  a tie to either side, stays in `0 .. m`, and that a finite nonempty set of numbers has a maximum. `AverageIsNearest` and
  `AttemptMovesScore` follow from three lemmas on the rounding (it is nearest, and on the same side of every whole
  number as what it rounds), with the sum of the history carried in a history variable, `total`: `Kept` says that it
  grows with each attempt by the score of it.
- `AlignedWhenSameLength` is not inductive: from equal lengths alone nothing says that a graded answer lies at the same
  place in both histories. `HistoryInv` strengthens it: the map history is no longer than `graded`, `graded` no longer
  than the answer history and than the attempts, and *if `graded` and the answer history are equally long they are
  equal*. A submission that is recorded and not graded makes the answer history longer for good, a reset only shortens
  the map history, and a rescore cuts it to the length of a shorter one: equality is never regained by the wrong pairs.
- `DoneMeansGraded` needs `GradedInv`: a map without an answer is worth nothing, and where there is a graded map the
  problem is done. The refinement uses both: an `Attempt` happens only when the problem is open, `Renew` and `Regrade`
  are `Reset` and `Rescore`, `Save` and the failed submissions stutter or are `Recover`.
- `StoryInv` carries `HistoriesAgree`: the maps of the history are those of graded answers, and the last is the one on
  display. `ClosedIsFinal` and the two rescore theorems are step by step from the invariants. What the page offers and
  reveals are functions of the state, so each theorem about `CapaVisibility` is an invariant of `CapaProblem` behind a
  rule; `ScoreIsEarned` (what is not done has no score) carries `CorrectIsEarned` and, with `ScoreFallsForCause`,
  `AnswerTakenBackForCause`. `OfferedIsAccepted` is proved and not run: with the settings of one run it is propositional,
  and what it needs of the state, that a survey is never done, is `HistoryInv`'s.
- `StaleOnlyWithinASecond` holds by `Timed`: the second in a queuekey ties a job and its reply to the entry they were
  made for, so a reply that finds its key was made in the entry's second. For `GradebookFollowsMap` no handler changes
  an entry without publishing the sum; what remains is that a map of entries without points sums to 0. The sum is a
  fold over a set, and induction is out of reach: the proof takes a least set of inputs with another sum, and finds a
  smaller one.

**The page of a problem.** `PageKeepsUp`: whatever the page waits for, a timer or a poll that is on its way will bring
it, or an answer that has come and leaves something queued or is true by now (`KeptCurrent`, `NewsCome`). Only an answer
of the last kind ends the polling; a submission that makes it untrue brings an answer of its own. `SubmitComesBack` is
inductive with the types: every action that may disable the button belongs to a submission, whose end enables it again
for an answer that was filled in; for files either half of the gate finds the other true.

**The page of a video.**
- Playback: neither property is inductive, for both speak only of what holds when all was heard. `PlaybackInv` says what
  holds before that. The last event in the queue tells what the media element does by now (`LastTells`), so a video that
  runs has been told of or has a PLAYING on its way (`RunningIsTold`); a cued video's event is the first and nothing was
  played before it (`CuedUnplayed`); `Told` is the page after the last event, and `Steady` what no event disturbs: the
  event log's flag is its last word, the spinner turns for a video that is stalled or has a PLAYING on its way. `Knows`
  says that the player's time is within one unit of the video's, or will be when it hears that the video plays; `Bound`,
  that a video alone on its page which was played has the listener that saves. A lemma for each event and each function
  of the player says what it keeps; `update` may pause the video inside of any of them (`GoesOn`, `StopsAtEnd`).
- Start-up: `VideoInv` says that a video that was started waits for YouTube, plays from it, or has fallen back
  (`Waiting`, `OnYoutube`, `OnHtml`), with the players of that case and no others. Each function of `VideoStartup` keeps
  it for its video (`Steps`), and the one that calls the videos that wait keeps it for all of them. `BumperInv` says the
  same of the bumper's own player.
- Captions: `ListInv`, that the list on the page or being built is of the last captions that came; `DisclaimerInv`, that
  the disclaimer follows them; `GoneInv`, that a removed video asks only in place of what was aborted. `ClosedStays` is
  what each function does to a panel that was closed: only the second try (`Tried`) opens it. `Frame` says which fields the showing and hiding leave alone.
- Volume: `Together`, that volume, mute flag, label, cookie and stored volume change together, and once played the player
  with them. Speed: `PlaysAsTold`, that a player that is ready plays at one of its own speeds, and what was chosen since
  the start is what it was told. Full screen: `Layout` and `OneRequest`, that the page is laid out before the browser is
  asked and one request is under way. Quality: `Heard`, that the button is what YouTube said last.
- Thumbs: `AsksAlone` and `AnswerStands`, that while no two requests crossed the one under way is about the language the
  widget was told of, and an answer not yet seen is what the service keeps; `ToldOf`, that it was told of the language
  that is read, unless the choice is unheard.

**The discussion.**
- `ShownIsKept`: the requests of a button that the service has not seen tell a `Story` from what it keeps to what the page
  shows, each turning the one before around; a request on its own would be undone to what the service keeps (`Undoes`),
  any other knows that it was crossed (`Crossings`); and the number of votes is that of the voters when the answers under
  way are added (`VotesAdd`).
- `ViewsTakeTurns`: `ShellInv`, that the list, a post and the form are hidden when another is shown, whatever is asked
  of the service; `EditInv`, that two editors of a response are one, a save is of an open editor, and the form and the
  handlers are those of what is edited.

**Polls and word clouds.** `CountsAreOfTheLearners` speaks of fields between requests and of quiet pages; what leads
there, until two requests overlap on the server, is:
- Poll: `RequestAgrees`, that what a request will save tells one story. `PollCountsInv`: one request runs at most and has
  read the fields as they are, and the zeros of the answers are saved before any page has a button to press (`Zeroed` or
  `Fresh`), so that a vote adds one to what was read and a reset takes one from it (`VoterJoins`, `VoterLeaves`).
  `PollPagesInv`, whatever overlaps: a page alone for its learner waits for one request at most, and what the request will save is what the
  page shows, or will when the answer comes (`Reports`); a page that waits for none shows what is saved (`PollTells`).
- Word cloud: `CloudInv`, that the fields are those of words there are, and the top words are the top of all, whoever
  overlaps. `CloudCountsInv`: the one submission that runs has read what there is, so that the words of its learner, who
  had none, come on top of the others' (`AddedIs`, `GivenMore`). `CloudPagesInv`: a page shows words (`CloudShown`) or
  waits for them (`CloudWaits`) only where the learner has submitted, waits for one answer that draws (`CloudOnce`), and
  on its own has drawn them or will be told (`CloudAlone`).

**Exchanges.** The gradebook: `Copied` and `Commented`, over the requests that are between their two writes, and `Scored`,
that what is published is a score. The preview: `FormulaOrdered`, that what is shown started no later than what is asked
for next. `ShownIsCurrent` is about a quiet page only; before that, `FormulaCurrent` says that the last formula that was
typed is on its way, or its error waits, or it is what is shown (`OnItsWay`, `ErrorWaits`, `IsShown`), and no request is
heard twice. `ScriptsGood`: a placeholder is done unless its script is loading, what ran is what was first asked for and
has loaded, and the callback comes when nothing is loading. `AnnotationGood`: what would be sent has the tag that is
selected, and the comment unless that is being written.

**The frame of a jsinput.** `FrameIsHeard` speaks of both windows, their queues and who waits for what, and no part of it
is inductive.
- `ChannelInv` is about the channel alone. A step changes one window, what it sent and its history (`Changed`), and what
  must hold between the windows (`Good`) has two halves that do not depend on each other. `Flows`: until a window is
  ready the first message on its way to it is its peer's handshake (`ReadyGood`), and a call is kept, or is on its way,
  or is answered, and only one of these, once (`RequestsOf`). `Serves`: a request that is being served is not on its way
  and not answered, and a callback comes before the answer that will end its call (`ServiceOf`). There is a lemma for
  each thing that can be done with a message (`Dropped` to `IsEnded`), and `EndsOf` says of each window by itself that a
  call that ended does not wait. Once a window was loaded again or destroyed only `EndsOf` is left, as in the code.
- `FrameGood` adds the problem. Every message between the two belongs to a call that the page waits for (`Known`). The
  saved state is back, or `setState` is on its way, not both (`Restorable`, `Restored`); it is, then, before the `getGrade`
  of any click that was made with the channel ready (`Waits`), and so the frame answers with its saved state or later. A
  click has sent the problem or waits for an answer that will (`Counted`). What was sent keeps this (`SentGood`).
- `WorkAlwaysStays` follows from `Restored`: no `setState` is left once the saved state is back.

### Only model-checked

- Liveness (`QueuedIsAnswered`, `WaitingEnds`, `EndsAreReached`, `AskedForComes`, `AskedIsAnswered`): out of the prover's
  reach. The parts of `AskedIsAnswered` that are not liveness are proved: `NeverBackwards` and `WorkStays`, by
  `PreviewNeverGoesBack` and `WorkAlwaysStays`.
- `PagesTell`, `DraggablesAgree`, `DiagramIsSound`, `EditsKeepConnections`, `ClicksDoWhatTheySay`: `Schematic` and
  `DragAndDrop` have RECURSIVE operators, as the code has recursive functions, and `MCPages` reaches them.
- `PageIsUsable` goes through menus and captions with folds and a bisection, whose values for every length are an
  induction over data. `NothingSkipped` and `ListIsAsAsked` count and filter the elements of
  sequences, again by induction.


## Where the code departs from its texts

Two are runs that TLC violates; the text is quoted with its line in "findings".

1. *Saving grades* (`capa_save_grades`). `save_problem` replaces the score by the last correct map's points, whatever
   the grading method made of the attempts, and replies that the answers were "saved but not graded".
2. *A completion that is not retried* (`VideoNotRetried`). What the error handler of the request resets is not what the
   other functions read.

The others were met while modelling. They are visible in the actions; the properties name them as exceptions.

**Problem, server.**
- A rescore raises for ever after one malformed submission, which is recorded among the answers
  (`problem/capa_block.py:2383`, docstring 2268). `student_answers_history` is a "List of student answers for each
  attempt" (358) and holds refused and malformed ones; `score_history` (364) loses scores on a rescore and keeps the 0
  of externally graded attempts; `correct_map` (352) after a malformed submission is of the answers before.
- `rescore` with `only_if_higher` promises to update answer and grade only if the score is higher (2262); only the
  published event knows of it. "Unable to deliver your submission to grader ... Please try again later"
  (`capa/responsetypes.py:2729`) is said of an attempt that was counted, the last one too. A grader's points are
  bounded from below only (2765), where `calculate_score` promises a score up to the maximum (`capa_problem.py:382`).
- With `force_save_button` a page offers Save for a randomized problem that waits for its reset, and refuses it (1130,
  2177); with `show_reset_button` it offers Reset before anything was submitted, and refuses it (1120, 2223).
- `_send_to_queue` drops the error that `send_to_submission` returns (`xqueue_interface.py:167`), and the input waits
  for a job that does not exist. A malformed reply to one input ends the wait of all (`responsetypes.py:2752`, comment
  2759).

**Problem, page.**
- "Only one poller 'thread' per Problem" (`display.js:337`): a submission during a poll starts a second chain, and
  another Problem of the page ends this one's. Editing an answer, or html that a poll brings, enables Submit while a
  submission is running (997, comment 1270); what was typed during a submission is lost by its rendering.
- Files that the page refuses while a submission of files is pending start its gate anew and stop the timer
  (`display.js:573`, 648), so the answer leaves Submit disabled until an input is edited; so does a connection that
  fails, whose error handler raises (671).
- Show answer and Hint do not disable the buttons: crossing a Reset, Show answer shows the old seed's solution. A late
  hint takes shown hints back, and the hints wrap round. "Saved" is said of an answer that changed while being saved.
- `submit_save_waitfor` returns the flag of the last input: a jsinput followed by a text sends twice, several jsinputs
  send once each (493). It passes no error function, so after an error Submit does nothing. The answer and the state
  are two calls, and the frame may change between them.

**Inputs.**
- `jschannel.js`: messages queued before the handshake are sent last first (`pendingQueue.pop()`), so an early
  `getGrade` is answered before `setState`; after the frame is loaded again the page no longer listens for `__ready`, and
  the frame queues its answers for ever; a request with id 0 counts as none; timers are never cancelled.
- `jsinput.js`: after five tries the saved state is given up and the next Submit overwrites it; a late restoration
  overwrites work that was done.
- Drag and drop: a copy whose icon loads after the mouse was released sticks to the pointer, and a carrier can then be
  taken away from under another, or two put on each other, where `addTargetRecursively` does not end
  (`update_input.js:52`); a drop during the restoration overwrites the answer without what is not placed yet; deeper
  answers than three levels, and the same draggable twice on a target, are not put back; a draggable taken out while it
  waits for its icon is placed twice; `onePerTarget` is not checked for restored ones.
- Formula preview: a failing request leaves icon and old preview. `collapsible.js:53` compares the link's text
  with the untranslated one. An image's cross has coordinates of its own. `choicetextinput.js` calls `update` with
  another `this`.
- `schematic.js`: a wire that is split while it checks has no `sch` any more and `move_end` raises (5368): the rest of
  the handler is skipped, and in `drag_end` the component sticks to the pointer; a wire drawn over an existing one
  merges with it to length zero, and such a wire alone is removed twice (2379); `check_wires` goes through a list that
  `split_wire` changes, so a part may be left bare on a wire; pasting neither checks nor merges; turning a wire turns
  its ends and not what `bisect` and `json` use; new labels do not avoid the learner's, and a ground hides the alert for
  two conflicting ones.

**Video.**
- A speed chosen before the first play is applied twice (1.25× plays 1.5×: `03_video_player.js:433`,
  `01_initialize.js:671`), one chosen before the player is ready not at all; auto-advance clicked then is not heard.
  `play.seek` is never unbound (481); `update` pauses again past the end time, against its comment (398); YouTube's
  timer goes on after the end; `_.once` and `$(window).off('.video')` are shared by all videos
  (`09_save_state_plugin.js:67`).
- The error handler of a second video's script loads an HTML5 player over the YouTube one; a sequence change during a
  bumper does not destroy its player.
- Captions that come while others are built are dropped or doubled; an aborted request counts as failed, so a removed
  video may ask once more; the second try of captions that failed, with the YouTube id, opens a panel that the learner
  closed (`09_video_caption.js:664`, by 575); the disclaimer goes with the closed captions although the transcript is shown.
- Full screen clicked twice before the browser answers, or removed on it, leaves the page laid out for it
  (`04_video_full_screen.js:99`). The speed menu's click handler closes it at once and later prevents the default of
  every click (`08_video_speed_control.js:192`); the language menu hides a focused entry; the submenu's timers outlive
  the menu (`095_video_context_menu.js:501`); `Resizer.callbacks.once` removes nothing (`00_resizer.js:144`).
- An answer about a thumb does not say its language (`037_video_transcript_feedback.js:71`). Thumbs hear of another
  language only when the pointer leaves the menu (`09_video_caption.js:403`): after a choice with the keyboard (346), or
  when the list shrinks, they are the old language's, and a click is about that one. Unmuting after the slider
  went to 0 brings an older volume back.

**Discussion.**
- Undoing a vote restores the whole list of votes (`discussion_content_view.js:420`); drawing a response anew loses the
  disabled button (`thread_response_show_view.js:32`) and wipes an open editor; after a failed endorsement the question
  stays as answered.
- One's own response is shown twice after "load more", a deletion makes the next page skip one
  (`discussion_thread_view.js:190`), the responses of a post that was left are appended to the one that was opened (175),
  and a failed response stays shown and counted. Deleting a response with new comments subtracts too little
  (`content.js:96`).
- Two further pages of the list may cross and mix filters (`discussion.js:124`); a failed first page draws the old list
  under the new controls. After an edit the new view is not listened to (`discussion_inline_view.js:156`); a save that
  was given up and succeeds closes other editors and makes a second view (`discussion_thread_view.js:446`).

**Poll, word cloud, annotatable, LTI.**
- Overlapping requests lose votes and words, then a reset makes a count negative, a word is missing when a learner's
  own are looked up (`word_cloud.py:179`), or a learner's words count twice. A reset twice raises. A refused or lost vote
  stays marked. The last percent may be negative (`word_cloud.py:278`). A second svg is drawn because a selector lacks
  its `#`.
- Each annotatable block binds all buttons and spans of the page; one that comes after a click disagrees with it, and
  problems loaded later shift the ways back (`annotatable.js:42`, 211).
- LTI 2.0 answers a GET with the score times the weight, not what was put (`lti_2_util.py:180`), and rounds a tie down
  where the float is below it (0.285 to 0.28; docstring 162); a request that fails
  between publishing and saving, or two at once, leave gradebook and block apart; LTI 1.1 clears the comment.

## What is left out

- Concurrent requests of one learner to a problem: the runtime's field cache, which decides what they overwrite, is in
  the LMS. In polls, word clouds and LTI the fields shared by learners, or two requests of one, are modelled as read at
  the start and saved at the end.
- Of the problem: demand hints, reports, Studio editing, MATLAB's ungraded replies, file contents,
  `show_correctness` beyond a constant, the arithmetic of response types and graders, rendering.
- Of the page: geometry, styling, texts for screen readers, the circuit simulator and the dialogs of `schematic.js`
  (numeric code and user interface around the diagram), editors of molecules and genes (external applets), `imageinput`
  and `choicetextinput`, Flash (`autohideHtml5` is False in `video.py:428`).
- Of the discussion: search, topics and followed posts, which only the LMS's board calls; profiles.
- Bounded inside a module: drag and drop is loaded again when one drop is left and one drag is followed into the
  restoration; a drag in the schematic is one move per position, and parts with one point are not turned.
- Components with status `not_modelled` in `PROJECT.json`, each with its reason there.
- Wall-clock time: delays are orders of events, not durations. Only the second of a queuekey is a number.

## Plan

1. Done: the core (`GradingMethods`, `CapaAttempts`, `CapaProblem`, `CapaVisibility`, `XQueueGrading`, `ProblemPage`),
   the page's scripts (video, discussion, inputs, blocks), shared counters, LTI, and the theorems above.
2. Prove next: the parts of `PageIsUsable` that need no fold (closed menus, what tabbing decides), as an invariant of their own.
3. Model next: the circuit simulator's netlist, the transcripts of `video_handlers.py`, Studio's edits of a problem
   between two requests.
