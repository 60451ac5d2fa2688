-------------------------- MODULE VideoPlayback_proofs --------------------------
(***************************************************************************)
(* Proofs about a video while it plays, for every length of the video,     *)
(* every configuration and any number of events of the media element that  *)
(* are not handled yet.                                                    *)
(***************************************************************************)
EXTENDS VideoPlayback, SequenceTheorems, TLAPS
--------------------------------------------------------------------------------
MediaEvents == {"BUFFERING", "PLAYING", "PAUSED", "ENDED", "CUED"}
VideoState ==
    [paused : BOOLEAN, stalled : BOOLEAN, pos : Times, events : Seq(MediaEvents),
     playerState : PlayerStates, currentTime : Times, updateInterval : BOOLEAN,
     played : BOOLEAN, endTime : Times \cup {NoTime}, playSeek : Times \cup {NoTime},
     shown : Nat, frozen : BOOLEAN, unfreezing : BOOLEAN, lastSeekValue : Times \cup {NoTime},
     button : {"play", "pause"}, overlay : BOOLEAN, spinner : BOOLEAN,
     emitPlayVideoEvent : BOOLEAN,
     logged : {"none", "play_video", "pause_video", "stop_video", "seek_video"},
     lastSave : Times \cup {NoTime}, unloadBound : BOOLEAN, isComplete : BOOLEAN,
     postFailed : BOOLEAN]

\* The last event that is to be handled, and what else is among them.
LastOf(s) == s[Len(s)]
Has(s, e) == \E i \in DOMAIN s : s[i] = e
CuedIsFirst(s) == \A i \in DOMAIN s : s[i] = "CUED" => i = 1

(***************************************************************************)
(* The last event tells what the media element does.  The event of a cued  *)
(* video is the first, and the video has not been played.                  *)
(***************************************************************************)
LastTells(v) ==
    v.events # <<>> =>
        /\ LastOf(v.events) = "PLAYING" => ~v.paused
        /\ LastOf(v.events) = "BUFFERING" => v.stalled
        /\ LastOf(v.events) \in {"PAUSED", "ENDED", "CUED"} => v.paused
CuedUnplayed(v) ==
    /\ CuedIsFirst(v.events)
    /\ Has(v.events, "CUED") => isUnplayed(v) /\ isYoutubeType

\* What holds when all was told.
ToldPaused(v) ==
    /\ v.button = "play" /\ v.logged # "play_video" /\ v.playerState # "PLAYING"
    /\ v.updateInterval => v.playerState = "ENDED"
ToldPlaying(v) ==
    /\ v.button = "pause" /\ v.logged \in {"play_video", "seek_video"}
    /\ v.playerState = "PLAYING" /\ v.updateInterval /\ ~v.overlay
Told(v) ==
    v.events = <<>> => /\ v.paused => ToldPaused(v)
                       /\ ~v.paused /\ ~v.stalled => ToldPlaying(v)

\* What holds between two events, too.
Steady(v) ==
    /\ ~v.emitPlayVideoEvent <=> v.logged = "play_video"
    /\ v.stalled => ~v.paused
    /\ v.spinner => config.videoType = "hls" /\ (v.stalled \/ Has(v.events, "PLAYING"))
    /\ isUnplayed(v) => ~v.updateInterval /\ v.button = "play" /\ v.logged # "play_video"
    /\ v.playerState = "ENDED" => v.isComplete

(***************************************************************************)
(* The player knows where the video is, to one unit, or it will know when  *)
(* it hears that the video plays.                                          *)
(***************************************************************************)
Near(v) ==
    \/ v.pos - v.currentTime \in {-1, 0, 1}
    \/ v.currentTime >= Duration - 1 /\ v.pos = 0
Knows(v) ==
    v.playSeek = NoTime => Near(v) \/ (Has(v.events, "PLAYING") /\ ~v.updateInterval)

PlayInv(v) ==
    /\ v \in VideoState
    /\ LastTells(v) /\ CuedUnplayed(v) /\ Told(v) /\ Steady(v) /\ Knows(v)

Fresh ==
    [paused |-> TRUE, stalled |-> FALSE, pos |-> 0, events |-> <<>>,
     playerState |-> "UNSTARTED", currentTime |-> 0, updateInterval |-> FALSE,
     played |-> FALSE, endTime |-> NoTime, playSeek |-> NoTime,
     shown |-> config.startTime, frozen |-> FALSE,
     unfreezing |-> FALSE, lastSeekValue |-> NoTime,
     button |-> "play", overlay |-> FALSE, spinner |-> FALSE,
     emitPlayVideoEvent |-> TRUE, logged |-> "none", lastSave |-> NoTime,
     unloadBound |-> FALSE, isComplete |-> FALSE, postFailed |-> FALSE]

\* The listener that saves when the page is left, for a video alone on it.
Bound(v, spent) == ~config.othersOnPage => (v.played \/ spent => v.unloadBound)

PlaybackInv ==
    /\ config \in Configs /\ phase \in {"loading", "ready", "destroyed", "left"}
    /\ pendingSeek \in Nat \cup {NoTime} /\ onceSpent \in BOOLEAN /\ video \in VideoState
    /\ (phase = "loading" => video = Fresh /\ (~config.othersOnPage => ~onceSpent))
    /\ (phase = "ready" => PlayInv(video) /\ Bound(video, onceSpent))
    /\ LeavingSaves
--------------------------------------------------------------------------------
(***************************************************************************)
(* Queues of events.                                                       *)
(***************************************************************************)
\* An event is posted behind the others.
LEMMA OnePosted ==
    ASSUME NEW s \in Seq(MediaEvents), NEW e \in MediaEvents
    PROVE  LET t == s \o <<e>> IN
           /\ t \in Seq(MediaEvents) /\ t # <<>> /\ LastOf(t) = e
           /\ \A x : Has(t, x) <=> Has(s, x) \/ x = e
           /\ CuedIsFirst(s) /\ e # "CUED" => CuedIsFirst(t)
<1> DEFINE t == s \o <<e>>
<1>1. t \in Seq(MediaEvents) /\ Len(t) = Len(s) + 1
    OBVIOUS
<1>2. /\ \A i \in 1 .. Len(s) : t[i] = s[i]
      /\ t[Len(s) + 1] = e
    OBVIOUS
<1>3. DOMAIN t = DOMAIN s \cup {Len(s) + 1} /\ DOMAIN s = 1 .. Len(s) /\ Len(s) \in Nat
    BY <1>1
<1> HIDE DEF t
<1>4. t # <<>> /\ LastOf(t) = e
    BY <1>1, <1>2, <1>3 DEF LastOf
<1>5. \A x : Has(t, x) <=> Has(s, x) \/ x = e
    BY <1>2, <1>3 DEF Has
<1>6. CuedIsFirst(s) /\ e # "CUED" => CuedIsFirst(t)
    BY <1>2, <1>3 DEF CuedIsFirst
<1> QED
    BY <1>1, <1>4, <1>5, <1>6 DEF t

LEMMA TwoPosted ==
    ASSUME NEW S, NEW s \in Seq(S), NEW a \in S, NEW b \in S
    PROVE  (s \o <<a>>) \o <<b>> = s \o <<a, b>>
<1> DEFINE t == (s \o <<a>>) \o <<b>>
           u == s \o <<a, b>>
<1>1. /\ t \in Seq(S) /\ Len(t) = Len(s) + 2
      /\ \A i \in 1 .. Len(s) : t[i] = s[i]
      /\ t[Len(s) + 1] = a /\ t[Len(s) + 2] = b
    <2> DEFINE r == s \o <<a>>
    <2>1. /\ r \in Seq(S) /\ Len(r) = Len(s) + 1 /\ r[Len(s) + 1] = a
          /\ \A i \in 1 .. Len(s) : r[i] = s[i]
        OBVIOUS
    <2> HIDE DEF r
    <2>2. /\ r \o <<b>> \in Seq(S) /\ Len(r \o <<b>>) = Len(r) + 1
          /\ (r \o <<b>>)[Len(r) + 1] = b
          /\ \A i \in 1 .. Len(r) : (r \o <<b>>)[i] = r[i]
        BY <2>1
    <2> QED
        BY <2>1, <2>2 DEF r
<1>2. /\ u \in Seq(S) /\ Len(u) = Len(s) + 2
      /\ \A i \in 1 .. Len(s) : u[i] = s[i]
      /\ u[Len(s) + 1] = a /\ u[Len(s) + 2] = b
    OBVIOUS
<1>3. Len(s) \in Nat
    OBVIOUS
<1> HIDE DEF t, u
<1>4. \A i \in 1 .. Len(t) : t[i] = u[i]
    BY <1>1, <1>2, <1>3
<1>5. t = u
    BY <1>1, <1>2, <1>4, SeqEqual
<1> QED
    BY <1>5 DEF t, u

LEMMA NoneIsEmpty ==
    ASSUME NEW S, NEW s \in Seq(S)
    PROVE  s = <<>> <=> Len(s) = 0
OBVIOUS

\* The first event is taken out of the queue.
LEMMA FirstTaken ==
    ASSUME NEW s \in Seq(MediaEvents), s # <<>>
    PROVE  LET t == Tail(s) IN
           /\ t \in Seq(MediaEvents) /\ Head(s) \in MediaEvents
           /\ \A x : x # Head(s) /\ Has(s, x) => Has(t, x)
           /\ CuedIsFirst(s) => CuedIsFirst(t) /\ ~Has(t, "CUED")
           /\ Has(s, Head(s))
           /\ LastOf(s) = IF t = <<>> THEN Head(s) ELSE LastOf(t)
<1> DEFINE t == Tail(s)
<1>1. /\ t \in Seq(MediaEvents) /\ Len(t) = Len(s) - 1
      /\ Len(s) \in Nat \ {0} /\ DOMAIN s = 1 .. Len(s) /\ DOMAIN t = 1 .. Len(t)
    OBVIOUS
<1>2. \A i \in 1 .. Len(t) : t[i] = s[i + 1]
    OBVIOUS
<1>3. Head(s) = s[1] /\ Head(s) \in MediaEvents
    BY <1>1
<1> HIDE DEF t
<1>4. t = <<>> <=> Len(t) = 0
    BY <1>1, NoneIsEmpty
<1>5. ASSUME NEW x, x # Head(s), Has(s, x)
      PROVE  Has(t, x)
    <2>1. PICK i \in 1 .. Len(s) : s[i] = x
        BY <1>1, <1>5 DEF Has
    <2>2. i - 1 \in 1 .. Len(t) /\ t[i - 1] = x
        BY <1>1, <1>2, <1>3, <1>5, <2>1
    <2> QED
        BY <1>1, <2>2 DEF Has
<1>6. CuedIsFirst(s) => CuedIsFirst(t) /\ ~Has(t, "CUED")
    <2>1. \A i \in 1 .. Len(t) : i + 1 \in 1 .. Len(s) /\ i + 1 # 1
        BY <1>1
    <2> QED
        BY <1>1, <1>2, <2>1 DEF CuedIsFirst, Has
<1>7. Has(s, Head(s))
    BY <1>1, <1>3 DEF Has
<1>8. LastOf(s) = IF t = <<>> THEN Head(s) ELSE LastOf(t)
    BY <1>1, <1>2, <1>3, <1>4 DEF LastOf
<1> QED
    BY <1>1, <1>3, <1>5, <1>6, <1>7, <1>8 DEF t

\* The last event is one of them; of none, there is none.
LEMMA LastIsOne ==
    ASSUME NEW s \in Seq(MediaEvents)
    PROVE  /\ s # <<>> => LastOf(s) \in MediaEvents /\ Has(s, LastOf(s))
           /\ s = <<>> => \A x : ~Has(s, x)
           /\ s = <<>> => CuedIsFirst(s)
<1>1. Len(s) \in Nat /\ DOMAIN s = 1 .. Len(s) /\ (s = <<>> <=> Len(s) = 0)
    OBVIOUS
<1> QED
    BY <1>1 DEF LastOf, Has, CuedIsFirst
--------------------------------------------------------------------------------
(***************************************************************************)
(* What the functions of the player do with a video.                       *)
(***************************************************************************)
\* Nothing changed that an invariant reads, but that the video may be complete.
SameButComplete(v, w) ==
    /\ w.paused = v.paused /\ w.stalled = v.stalled /\ w.pos = v.pos /\ w.events = v.events
    /\ w.playerState = v.playerState /\ w.currentTime = v.currentTime
    /\ w.updateInterval = v.updateInterval /\ w.played = v.played
    /\ w.playSeek = v.playSeek /\ w.button = v.button
    /\ w.overlay = v.overlay /\ w.spinner = v.spinner /\ w.logged = v.logged
    /\ w.emitPlayVideoEvent = v.emitPlayVideoEvent /\ w.unloadBound = v.unloadBound
    /\ v.isComplete => w.isComplete

LEMMA SameKeeps ==
    ASSUME NEW v, NEW w \in VideoState, PlayInv(v), SameButComplete(v, w)
    PROVE  PlayInv(w)
BY DEF PlayInv, SameButComplete, LastTells, CuedUnplayed, isUnplayed, Told, ToldPaused,
       ToldPlaying, Steady, Knows, Near

LEMMA HandleTimeUpdateDoes ==
    ASSUME NEW v \in VideoState, NEW time
    PROVE  handleTimeUpdate(v, time) \in VideoState
           /\ SameButComplete(v, handleTimeUpdate(v, time))
<1>1. handleTimeUpdate(v, time) \in {v, [v EXCEPT !.isComplete = TRUE, !.postFailed = FALSE]}
    BY DEF handleTimeUpdate, markCompletion
<1>2. v.isComplete \in BOOLEAN /\ SameButComplete(v, v)
    BY DEF VideoState, SameButComplete
<1>3. ASSUME NEW w, w = [v EXCEPT !.isComplete = TRUE, !.postFailed = FALSE]
      PROVE  w \in VideoState /\ SameButComplete(v, w)
    BY <1>3 DEF VideoState, SameButComplete
<1> QED
    BY <1>1, <1>2, <1>3

LEMMA UpdatePlayTimeDoes ==
    ASSUME config \in Configs, NEW v \in VideoState, NEW time \in Nat
    PROVE  updatePlayTime(v, time) \in VideoState
           /\ SameButComplete(v, updatePlayTime(v, time))
<1>1. config.startTime \in Nat /\ config.endTime \in Nat \cup {NoTime} /\ Duration \in Nat
    BY PlaybackAssumption
<1>2. duration(v) \in Nat
    BY <1>1 DEF duration
<1>3. OnSlider(v, time) \in Nat
    BY <1>1, <1>2 DEF OnSlider, SliderEnd, LargerOf, SmallerOf
<1> QED
    BY <1>3 DEF updatePlayTime, VideoState, SameButComplete

\* update(w) keeps this of v whether it pauses the video or not.
UpdateKeeps(v, w) ==
    /\ w.currentTime = v.pos /\ w.pos = v.pos
    /\ w.playerState = v.playerState /\ w.updateInterval = v.updateInterval
    /\ w.played = v.played /\ w.playSeek = v.playSeek /\ w.button = v.button
    /\ w.overlay = v.overlay /\ w.unloadBound = v.unloadBound
    /\ v.isComplete => w.isComplete
GoesOn(v, w) ==
    /\ w.paused = v.paused /\ w.stalled = v.stalled /\ w.events = v.events
    /\ w.spinner = v.spinner /\ w.logged = v.logged
    /\ w.emitPlayVideoEvent = v.emitPlayVideoEvent
StopsAtEnd(v, w) ==
    /\ w.paused /\ (IF v.paused THEN w.stalled = v.stalled ELSE ~w.stalled)
    /\ w.events = IF v.paused THEN v.events ELSE v.events \o <<"PAUSED">>
    /\ w.spinner = IF config.videoType = "hls" THEN FALSE ELSE v.spinner
    /\ w.logged = "stop_video" /\ w.emitPlayVideoEvent

\* Only what the media element and its wrapper do.
ApartFromElement(v, w) ==
    /\ w.playerState = v.playerState /\ w.currentTime = v.currentTime
    /\ w.updateInterval = v.updateInterval /\ w.played = v.played
    /\ w.playSeek = v.playSeek /\ w.button = v.button /\ w.logged = v.logged
    /\ w.emitPlayVideoEvent = v.emitPlayVideoEvent /\ w.unloadBound = v.unloadBound
    /\ w.isComplete = v.isComplete

LEMMA PauseVideoDoes ==
    ASSUME NEW v \in VideoState
    PROVE  LET w == pauseVideo(v) IN
           /\ w \in VideoState
           /\ w.paused /\ (IF v.paused THEN w.stalled = v.stalled ELSE ~w.stalled)
           /\ w.events = IF v.paused THEN v.events ELSE v.events \o <<"PAUSED">>
           /\ w.spinner = IF config.videoType = "hls" THEN FALSE ELSE v.spinner
           /\ ApartFromElement(v, w) /\ w.pos = v.pos /\ w.overlay = v.overlay
<1> DEFINE w == pauseVideo(v)
           x == media_pause(v)
<1>1. v.events \o <<"PAUSED">> \in Seq(MediaEvents)
    BY OnePosted DEF VideoState, MediaEvents
<1>2. /\ x \in VideoState
      /\ x.paused /\ (IF v.paused THEN x.stalled = v.stalled ELSE ~x.stalled)
      /\ x.events = IF v.paused THEN v.events ELSE v.events \o <<"PAUSED">>
      /\ x.spinner = v.spinner /\ ApartFromElement(v, x)
      /\ x.pos = v.pos /\ x.overlay = v.overlay
    <2>1. CASE v.paused
        BY <2>1 DEF media_pause, ApartFromElement
    <2>2. CASE ~v.paused
        <3>1. x = [v EXCEPT !.paused = TRUE, !.stalled = FALSE,
                            !.events = v.events \o <<"PAUSED">>]
            BY <2>2 DEF media_pause, Posting, VideoState
        <3> HIDE DEF x
        <3> QED
            BY <1>1, <2>2, <3>1 DEF VideoState, ApartFromElement
    <2> QED
        BY <2>1, <2>2
<1>3. w = IF config.videoType = "hls" THEN [x EXCEPT !.spinner = FALSE] ELSE x
    BY DEF pauseVideo
<1> HIDE DEF w, x
<1> QED
    <2>1. /\ w \in VideoState
          /\ w.paused = x.paused /\ w.stalled = x.stalled /\ w.events = x.events
          /\ w.spinner = IF config.videoType = "hls" THEN FALSE ELSE x.spinner
          /\ ApartFromElement(x, w) /\ w.pos = x.pos /\ w.overlay = x.overlay
        <3>1. CASE config.videoType = "hls"
            <4>1. x \in VideoState /\ w = [x EXCEPT !.spinner = FALSE]
                BY <1>2, <1>3, <3>1
            <4>2. w \in VideoState /\ ~w.spinner
                BY <4>1 DEF VideoState
            <4>3. /\ w.paused = x.paused /\ w.stalled = x.stalled /\ w.events = x.events
                  /\ ApartFromElement(x, w) /\ w.pos = x.pos /\ w.overlay = x.overlay
                BY <4>1 DEF VideoState, ApartFromElement
            <4> QED
                BY <3>1, <4>2, <4>3 DEF VideoState
        <3>2. CASE config.videoType # "hls"
            BY <1>2, <1>3, <3>2 DEF ApartFromElement
        <3> QED
            BY <3>1, <3>2
    <2>2. ApartFromElement(v, w)
        BY <1>2, <2>1 DEF ApartFromElement
    <2> QED
        BY <1>2, <2>1, <2>2 DEF w

LEMMA UpdateDoes ==
    ASSUME config \in Configs, NEW v \in VideoState
    PROVE  LET w == update(v) IN
           w \in VideoState /\ UpdateKeeps(v, w) /\ (GoesOn(v, w) \/ StopsAtEnd(v, w))
<1> DEFINE w1 == [v EXCEPT !.currentTime = v.pos]
           w2 == updatePlayTime(w1, v.pos)
           stops == w2.endTime # NoTime /\ w2.endTime <= w2.currentTime
           w3 == pauseVideo(w2)
           w4 == trigger_stop(w3)
           w5 == IF stops THEN w4 ELSE w2
           w6 == handleTimeUpdate(w5, w2.currentTime)
<1>1. /\ w1 \in VideoState /\ w1 = [v EXCEPT !.currentTime = v.pos]
      /\ v.pos \in Nat
    <2>1. v.pos \in Times
        BY DEF VideoState
    <2>2. v.pos \in Nat
        BY <2>1, PlaybackAssumption DEF Times
    <2>3. w1 \in VideoState
        BY <2>1 DEF VideoState
    <2> QED
        BY <2>2, <2>3
<1>2. w2 \in VideoState /\ SameButComplete(w1, w2)
    <2> HIDE DEF w1
    <2> QED
        BY <1>1, UpdatePlayTimeDoes
<1>3. UpdateKeeps(v, w2) /\ GoesOn(v, w2)
    <2> HIDE DEF w2
    <2> QED
        BY <1>2 DEF UpdateKeeps, GoesOn, SameButComplete, VideoState
<1> HIDE DEF w1, w2, stops
<1>4. w4 \in VideoState /\ UpdateKeeps(v, w4) /\ StopsAtEnd(v, w4)
    <2> HIDE DEF w3
    <2>1. /\ w3 \in VideoState
          /\ w3.paused /\ (IF w2.paused THEN w3.stalled = w2.stalled ELSE ~w3.stalled)
          /\ w3.events = IF w2.paused THEN w2.events ELSE w2.events \o <<"PAUSED">>
          /\ w3.spinner = IF config.videoType = "hls" THEN FALSE ELSE w2.spinner
          /\ ApartFromElement(w2, w3) /\ w3.pos = w2.pos /\ w3.overlay = w2.overlay
        BY <1>2, PauseVideoDoes DEF w3
    <2>2. w4 = [w3 EXCEPT !.logged = "stop_video", !.emitPlayVideoEvent = TRUE]
        BY DEF trigger_stop, events_onEnded
    <2> HIDE DEF w4
    <2>3. /\ w4 \in VideoState /\ w4.logged = "stop_video" /\ w4.emitPlayVideoEvent
          /\ w4.paused = w3.paused /\ w4.stalled = w3.stalled /\ w4.events = w3.events
          /\ w4.spinner = w3.spinner /\ UpdateKeeps(w2, w4)
        <3>1. /\ w4 \in VideoState /\ w4.logged = "stop_video" /\ w4.emitPlayVideoEvent
              /\ w4.paused = w3.paused /\ w4.stalled = w3.stalled /\ w4.events = w3.events
              /\ w4.spinner = w3.spinner /\ w4.currentTime = w3.currentTime
              /\ w4.pos = w3.pos /\ w4.playerState = w3.playerState
              /\ w4.updateInterval = w3.updateInterval /\ w4.played = w3.played
              /\ w4.playSeek = w3.playSeek /\ w4.button = w3.button
              /\ w4.overlay = w3.overlay /\ w4.unloadBound = w3.unloadBound
              /\ w4.isComplete = w3.isComplete
            BY <2>1, <2>2 DEF VideoState
        <3> QED
            BY <1>3, <2>1, <3>1 DEF ApartFromElement, UpdateKeeps
    <2> QED
        BY <1>3, <2>1, <2>3 DEF GoesOn, StopsAtEnd, UpdateKeeps
<1> HIDE DEF w3, w4
<1>5. w5 \in VideoState /\ UpdateKeeps(v, w5) /\ (GoesOn(v, w5) \/ StopsAtEnd(v, w5))
    BY <1>2, <1>3, <1>4
<1> HIDE DEF w5
<1>6. w6 \in VideoState /\ SameButComplete(w5, w6)
    BY <1>5, HandleTimeUpdateDoes
<1>7. update(v) = w6
    BY DEF update, w1, w2, w3, w4, w5, w6, stops
<1> HIDE DEF w6
<1> QED
    BY <1>5, <1>6, <1>7 DEF SameButComplete, UpdateKeeps, GoesOn, StopsAtEnd

LEMMA PlayVideoDoes ==
    ASSUME NEW v \in VideoState
    PROVE  LET w == playVideo(v) IN
           /\ w \in VideoState
           /\ ~w.paused
           /\ IF v.paused
              THEN /\ w.stalled /\ w.events = v.events \o <<"BUFFERING">>
                   /\ w.pos = IF v.pos = Duration THEN 0 ELSE v.pos
              ELSE w.stalled = v.stalled /\ w.events = v.events /\ w.pos = v.pos
           /\ w.spinner = IF config.videoType = "hls" THEN TRUE ELSE v.spinner
           /\ w.overlay = IF config.videoType = "hls" THEN FALSE ELSE v.overlay
           /\ ApartFromElement(v, w)
<1> DEFINE w == playVideo(v)
           x == media_play(v)
<1>1. /\ v.events \o <<"BUFFERING">> \in Seq(MediaEvents)
      /\ (IF v.pos = Duration THEN 0 ELSE v.pos) \in Times
    BY OnePosted, PlaybackAssumption DEF VideoState, MediaEvents, Times
<1>2. /\ x \in VideoState
      /\ ~x.paused
      /\ IF v.paused
         THEN /\ x.stalled /\ x.events = v.events \o <<"BUFFERING">>
              /\ x.pos = IF v.pos = Duration THEN 0 ELSE v.pos
         ELSE x.stalled = v.stalled /\ x.events = v.events /\ x.pos = v.pos
      /\ x.spinner = v.spinner /\ x.overlay = v.overlay /\ ApartFromElement(v, x)
    <2>1. CASE ~v.paused
        BY <2>1 DEF media_play, ApartFromElement
    <2>2. CASE v.paused
        <3>1. x = [v EXCEPT !.paused = FALSE, !.stalled = TRUE,
                            !.pos = IF v.pos = Duration THEN 0 ELSE v.pos,
                            !.events = v.events \o <<"BUFFERING">>]
            BY <2>2 DEF media_play, Posting, VideoState
        <3> HIDE DEF x
        <3>2. x \in VideoState
            <4>1. PICK p \in Times : p = IF v.pos = Duration THEN 0 ELSE v.pos
                BY <1>1
            <4>2. x = [v EXCEPT !.paused = FALSE, !.stalled = TRUE, !.pos = p,
                                !.events = v.events \o <<"BUFFERING">>]
                BY <3>1, <4>1
            <4> QED
                BY <1>1, <4>2 DEF VideoState
        <3>3. /\ x.paused = FALSE /\ x.stalled = TRUE
              /\ x.events = v.events \o <<"BUFFERING">>
              /\ x.pos = IF v.pos = Duration THEN 0 ELSE v.pos
            BY <3>1 DEF VideoState
        <3>4. x.spinner = v.spinner /\ x.overlay = v.overlay /\ ApartFromElement(v, x)
            BY <3>1 DEF VideoState, ApartFromElement
        <3> QED
            BY <2>2, <3>2, <3>3, <3>4
    <2> QED
        BY <2>1, <2>2
<1>3. w = IF config.videoType = "hls" THEN [x EXCEPT !.spinner = TRUE, !.overlay = FALSE]
          ELSE x
    BY DEF playVideo
<1> HIDE DEF w, x
<1>4. /\ w \in VideoState
      /\ w.paused = x.paused /\ w.stalled = x.stalled /\ w.events = x.events
      /\ w.pos = x.pos
      /\ w.spinner = IF config.videoType = "hls" THEN TRUE ELSE x.spinner
      /\ w.overlay = IF config.videoType = "hls" THEN FALSE ELSE x.overlay
      /\ ApartFromElement(x, w)
    <2>1. CASE config.videoType = "hls"
        <3>1. x \in VideoState /\ w = [x EXCEPT !.spinner = TRUE, !.overlay = FALSE]
            BY <1>2, <1>3, <2>1
        <3>2. w \in VideoState /\ w.spinner = TRUE /\ w.overlay = FALSE
            BY <3>1 DEF VideoState
        <3>3. /\ w.paused = x.paused /\ w.stalled = x.stalled /\ w.events = x.events
              /\ w.pos = x.pos /\ ApartFromElement(x, w)
            BY <3>1 DEF VideoState, ApartFromElement
        <3> QED
            BY <2>1, <3>2, <3>3
    <2>2. CASE config.videoType # "hls"
        BY <1>2, <1>3, <2>2 DEF ApartFromElement
    <2> QED
        BY <2>1, <2>2
<1>5. ApartFromElement(v, w)
    BY <1>2, <1>4 DEF ApartFromElement
<1> QED
    BY <1>2, <1>4, <1>5 DEF w
--------------------------------------------------------------------------------
(***************************************************************************)
(* What the functions keep of the invariant.                               *)
(***************************************************************************)
\* A video that runs has been told of, or the event that tells of it waits.
LEMMA RunningIsTold ==
    ASSUME NEW v, PlayInv(v), ~v.paused, ~v.stalled
    PROVE  Has(v.events, "PLAYING") \/ (v.events = <<>> /\ ToldPlaying(v))
<1>1. v.events \in Seq(MediaEvents)
    BY DEF PlayInv, VideoState
<1>2. CASE v.events = <<>>
    BY <1>2 DEF PlayInv, Told
<1>3. CASE v.events # <<>>
    <2>1. LastOf(v.events) \in MediaEvents /\ Has(v.events, LastOf(v.events))
        BY <1>1, <1>3, LastIsOne
    <2>2. LastOf(v.events) = "PLAYING"
        BY <1>3, <2>1 DEF PlayInv, LastTells, MediaEvents
    <2> QED
        BY <2>1, <2>2
<1> QED
    BY <1>2, <1>3

\* A click may write the state it expects before it asks the element for it.
Clicked(v, u, state) ==
    /\ u \in VideoState /\ u.playerState \in {v.playerState, state}
    /\ isYoutubeType => u.playerState = v.playerState
    /\ u.paused = v.paused /\ u.stalled = v.stalled /\ u.pos = v.pos /\ u.events = v.events
    /\ u.spinner = v.spinner /\ u.overlay = v.overlay
    /\ u.currentTime = v.currentTime /\ u.updateInterval = v.updateInterval
    /\ u.played = v.played /\ u.playSeek = v.playSeek /\ u.button = v.button
    /\ u.logged = v.logged /\ u.emitPlayVideoEvent = v.emitPlayVideoEvent
    /\ u.unloadBound = v.unloadBound /\ u.isComplete = v.isComplete

LEMMA PlayKeeps ==
    ASSUME NEW v, NEW u, PlayInv(v), ~isPlaying(v), Clicked(v, u, "PLAYING")
    PROVE  LET w == playVideo(u) IN
           /\ PlayInv(w) /\ w.playerState = u.playerState
           /\ w.played = v.played /\ w.unloadBound = v.unloadBound
<1> DEFINE w == playVideo(u)
<1>1. /\ w \in VideoState
      /\ ~w.paused
      /\ IF u.paused
         THEN /\ w.stalled /\ w.events = u.events \o <<"BUFFERING">>
              /\ w.pos = IF u.pos = Duration THEN 0 ELSE u.pos
         ELSE w.stalled = u.stalled /\ w.events = u.events /\ w.pos = u.pos
      /\ w.spinner = IF config.videoType = "hls" THEN TRUE ELSE u.spinner
      /\ w.overlay = IF config.videoType = "hls" THEN FALSE ELSE u.overlay
      /\ ApartFromElement(u, w)
    BY PlayVideoDoes DEF Clicked
<1> HIDE DEF w
<1>2. /\ v \in VideoState /\ v.events \in Seq(MediaEvents)
      /\ v.pos \in Nat /\ v.currentTime \in Nat /\ Duration \in Nat \ {0}
    BY PlaybackAssumption DEF PlayInv, VideoState, Times
<1>3. v.paused =>
        /\ w.events # <<>> /\ LastOf(w.events) = "BUFFERING"
        /\ \A x : Has(w.events, x) <=> Has(v.events, x) \/ x = "BUFFERING"
        /\ CuedIsFirst(v.events) => CuedIsFirst(w.events)
    <2>1. v.paused => w.events = v.events \o <<"BUFFERING">>
        BY <1>1 DEF Clicked
    <2>2. "BUFFERING" \in MediaEvents
        BY DEF MediaEvents
    <2> DEFINE t == v.events \o <<"BUFFERING">>
    <2>3. /\ t # <<>> /\ LastOf(t) = "BUFFERING"
          /\ \A x : Has(t, x) <=> Has(v.events, x) \/ x = "BUFFERING"
          /\ CuedIsFirst(v.events) => CuedIsFirst(t)
        BY <1>2, <2>2, OnePosted
    <2> HIDE DEF t
    <2> QED
        BY <2>1, <2>3 DEF t
<1>4. ~v.paused => w.events = v.events /\ w.stalled = v.stalled /\ w.pos = v.pos
    BY <1>1 DEF Clicked
<1>5. /\ w.playerState \in {v.playerState, "PLAYING"} /\ w.playerState = u.playerState
      /\ isYoutubeType => w.playerState = v.playerState
      /\ w.currentTime = v.currentTime /\ w.updateInterval = v.updateInterval
      /\ w.played = v.played /\ w.playSeek = v.playSeek /\ w.button = v.button
      /\ w.logged = v.logged /\ w.emitPlayVideoEvent = v.emitPlayVideoEvent
      /\ w.unloadBound = v.unloadBound /\ w.isComplete = v.isComplete
    BY <1>1 DEF Clicked, ApartFromElement
<1>6. LastTells(w)
    BY <1>1, <1>3, <1>4 DEF PlayInv, LastTells, Clicked
<1>7. CuedUnplayed(w)
    BY <1>3, <1>4, <1>5 DEF PlayInv, CuedUnplayed, isUnplayed
<1>8. Told(w)
    BY <1>1, <1>3, <1>4 DEF PlayInv, Told, ToldPlaying, isPlaying
<1>9. Steady(w)
    <2>1. v.stalled => w.stalled
        BY <1>1, <1>4 DEF Clicked
    <2>2. Has(v.events, "PLAYING") => Has(w.events, "PLAYING")
        BY <1>3, <1>4
    <2>3. w.spinner => config.videoType = "hls"
        BY <1>1 DEF Clicked, PlayInv, Steady
    <2>4. w.stalled \/ Has(w.events, "PLAYING")
        <3>1. CASE v.paused
            BY <1>1, <3>1 DEF Clicked
        <3>2. CASE ~v.paused
            BY <2>1, <2>2, <3>2, RunningIsTold DEF ToldPlaying, isPlaying
        <3> QED
            BY <3>1, <3>2
    <2> QED
        BY <1>1, <1>5, <2>3, <2>4 DEF PlayInv, Steady, isUnplayed
<1>10. Knows(w)
    <2>1. Has(v.events, "PLAYING") => Has(w.events, "PLAYING")
        BY <1>3, <1>4
    <2>2. w.pos = v.pos \/ (v.pos = Duration /\ w.pos = 0)
        BY <1>1, <1>4 DEF Clicked
    <2>3. Near(v) => Near(w)
        BY <1>2, <1>5, <2>2 DEF Near
    <2> QED
        BY <1>5, <2>1, <2>3 DEF PlayInv, Knows
<1> QED
    BY <1>1, <1>5, <1>6, <1>7, <1>8, <1>9, <1>10 DEF PlayInv, w

LEMMA PauseKeeps ==
    ASSUME NEW v, NEW u, PlayInv(v), isPlaying(v), Clicked(v, u, "PAUSED")
    PROVE  LET w == pauseVideo(u) IN
           PlayInv(w) /\ w.played = v.played /\ w.unloadBound = v.unloadBound
<1> DEFINE w == pauseVideo(u)
<1>1. /\ w \in VideoState
      /\ w.paused /\ (IF u.paused THEN w.stalled = u.stalled ELSE ~w.stalled)
      /\ w.events = IF u.paused THEN u.events ELSE u.events \o <<"PAUSED">>
      /\ w.spinner = IF config.videoType = "hls" THEN FALSE ELSE u.spinner
      /\ ApartFromElement(u, w) /\ w.pos = u.pos /\ w.overlay = u.overlay
    BY PauseVideoDoes DEF Clicked
<1> HIDE DEF w
<1>2. v \in VideoState /\ v.events \in Seq(MediaEvents)
    BY DEF PlayInv, VideoState
<1>3. ~v.paused =>
        /\ w.events # <<>> /\ LastOf(w.events) = "PAUSED"
        /\ \A x : Has(w.events, x) <=> Has(v.events, x) \/ x = "PAUSED"
        /\ CuedIsFirst(v.events) => CuedIsFirst(w.events)
    BY <1>1, <1>2, OnePosted DEF MediaEvents, Clicked
<1>4. v.paused => w.events = v.events /\ w.stalled = v.stalled
    BY <1>1 DEF Clicked
<1>5. /\ w.playerState \in {v.playerState, "PAUSED"} /\ w.pos = v.pos
      /\ isYoutubeType => w.playerState = v.playerState
      /\ w.currentTime = v.currentTime /\ w.updateInterval = v.updateInterval
      /\ w.played = v.played /\ w.playSeek = v.playSeek /\ w.button = v.button
      /\ w.logged = v.logged /\ w.emitPlayVideoEvent = v.emitPlayVideoEvent
      /\ w.unloadBound = v.unloadBound /\ w.isComplete = v.isComplete
    BY <1>1 DEF Clicked, ApartFromElement
<1>6. LastTells(w)
    BY <1>1, <1>3, <1>4 DEF PlayInv, LastTells, Clicked
<1>7. CuedUnplayed(w)
    BY <1>3, <1>4, <1>5 DEF PlayInv, CuedUnplayed, isUnplayed
<1>8. Told(w)
    BY <1>1, <1>3, <1>4 DEF PlayInv, Told, ToldPaused, isPlaying
<1>9. Steady(w)
    <2>1. ~w.spinner
        BY <1>1 DEF Clicked, PlayInv, Steady
    <2>2. ~w.stalled
        BY <1>1, <1>4 DEF PlayInv, Steady, Clicked
    <2> QED
        BY <1>5, <2>1, <2>2 DEF PlayInv, Steady, isUnplayed, isPlaying
<1>10. Knows(w)
    <2>1. Has(v.events, "PLAYING") => Has(w.events, "PLAYING")
        BY <1>3, <1>4
    <2> QED
        BY <1>5, <2>1 DEF PlayInv, Knows, Near
<1> QED
    BY <1>1, <1>5, <1>6, <1>7, <1>8, <1>9, <1>10 DEF PlayInv, w

\* The player goes on or stops at the end time; the events still tell.
LEMMA StillTells ==
    ASSUME NEW v \in VideoState, NEW w, LastTells(v), GoesOn(v, w) \/ StopsAtEnd(v, w)
    PROVE  /\ LastTells(w)
           /\ \A x : Has(v.events, x) => Has(w.events, x)
           /\ Has(w.events, "CUED") => Has(v.events, "CUED")
           /\ CuedIsFirst(v.events) => CuedIsFirst(w.events)
           /\ w.events = <<>> => v.events = <<>> /\ (GoesOn(v, w) \/ v.paused)
<1>1. CASE GoesOn(v, w)
    BY <1>1 DEF GoesOn, LastTells
<1>2. CASE StopsAtEnd(v, w) /\ v.paused
    BY <1>2 DEF StopsAtEnd, LastTells
<1>3. CASE StopsAtEnd(v, w) /\ ~v.paused
    <2> DEFINE t == v.events \o <<"PAUSED">>
    <2>1. v.events \in Seq(MediaEvents) /\ "PAUSED" \in MediaEvents
        BY DEF VideoState, MediaEvents
    <2>2. /\ t # <<>> /\ LastOf(t) = "PAUSED"
          /\ \A x : Has(t, x) <=> Has(v.events, x) \/ x = "PAUSED"
          /\ CuedIsFirst(v.events) => CuedIsFirst(t)
        BY <2>1, OnePosted
    <2>3. w.events = t /\ w.paused
        BY <1>3 DEF StopsAtEnd
    <2> HIDE DEF t
    <2> QED
        BY <2>2, <2>3 DEF LastTells
<1> QED
    BY <1>1, <1>2, <1>3

LEMMA RunTimerDoes ==
    ASSUME config \in Configs, NEW v \in VideoState
    PROVE  LET w == runTimer(v) IN
           /\ w \in VideoState /\ w.updateInterval /\ w.pos = v.pos
           /\ w.currentTime = IF v.updateInterval THEN v.currentTime ELSE v.pos
           /\ w.playerState = v.playerState /\ w.played = v.played
           /\ w.playSeek = v.playSeek /\ w.button = v.button
           /\ w.overlay = v.overlay /\ w.unloadBound = v.unloadBound
           /\ v.isComplete => w.isComplete
           /\ GoesOn(v, w) \/ StopsAtEnd(v, w)
<1>1. CASE v.updateInterval
    BY <1>1 DEF runTimer, GoesOn
<1>2. CASE ~v.updateInterval
    <2> DEFINE u == [v EXCEPT !.updateInterval = TRUE]
               w == update(u)
    <2>1. /\ u \in VideoState /\ u.updateInterval = TRUE /\ u.pos = v.pos
          /\ u.playerState = v.playerState /\ u.played = v.played
          /\ u.playSeek = v.playSeek /\ u.button = v.button
          /\ u.overlay = v.overlay /\ u.unloadBound = v.unloadBound
          /\ u.isComplete = v.isComplete
        BY DEF VideoState
    <2>2. /\ u.paused = v.paused /\ u.stalled = v.stalled /\ u.events = v.events
          /\ u.spinner = v.spinner /\ u.logged = v.logged
          /\ u.emitPlayVideoEvent = v.emitPlayVideoEvent
        BY DEF VideoState
    <2> HIDE DEF u
    <2>3. w \in VideoState /\ UpdateKeeps(u, w) /\ (GoesOn(u, w) \/ StopsAtEnd(u, w))
        BY <2>1, UpdateDoes
    <2>4. runTimer(v) = w
        BY <1>2 DEF runTimer, u
    <2> HIDE DEF w
    <2>5. GoesOn(v, w) \/ StopsAtEnd(v, w)
        BY <2>2, <2>3 DEF GoesOn, StopsAtEnd
    <2> QED
        BY <1>2, <2>1, <2>3, <2>4, <2>5 DEF UpdateKeeps
<1> QED
    BY <1>1, <1>2

LEMMA UpdateKeepsInv ==
    ASSUME config \in Configs, NEW v, PlayInv(v), v.updateInterval
    PROVE  LET w == update(v) IN
           PlayInv(w) /\ w.played = v.played /\ w.unloadBound = v.unloadBound
<1> DEFINE w == update(v)
<1>1. /\ v \in VideoState /\ LastTells(v)
      /\ v.pos \in Nat
    BY PlaybackAssumption DEF PlayInv, VideoState, Times
<1>2. w \in VideoState /\ UpdateKeeps(v, w) /\ (GoesOn(v, w) \/ StopsAtEnd(v, w))
    BY <1>1, UpdateDoes
<1> HIDE DEF w
<1>3. /\ LastTells(w)
      /\ \A x : Has(v.events, x) => Has(w.events, x)
      /\ Has(w.events, "CUED") => Has(v.events, "CUED")
      /\ CuedIsFirst(v.events) => CuedIsFirst(w.events)
      /\ w.events = <<>> => v.events = <<>> /\ (GoesOn(v, w) \/ v.paused)
    BY <1>1, <1>2, StillTells
<1>4. CuedUnplayed(w)
    BY <1>2, <1>3 DEF PlayInv, CuedUnplayed, isUnplayed, UpdateKeeps
<1>5. Told(w)
    <2>1. CASE GoesOn(v, w)
        BY <1>2, <2>1 DEF PlayInv, Told, ToldPaused, ToldPlaying, GoesOn, UpdateKeeps
    <2>2. CASE StopsAtEnd(v, w)
        BY <1>2, <1>3, <2>2
           DEF PlayInv, Told, ToldPaused, GoesOn, StopsAtEnd, UpdateKeeps
    <2> QED
        BY <1>2, <2>1, <2>2
<1>6. Steady(w)
    <2>1. CASE GoesOn(v, w)
        BY <1>2, <2>1 DEF PlayInv, Steady, isUnplayed, GoesOn, UpdateKeeps
    <2>2. CASE StopsAtEnd(v, w)
        BY <1>2, <2>2 DEF PlayInv, Steady, isUnplayed, StopsAtEnd, UpdateKeeps
    <2> QED
        BY <1>2, <2>1, <2>2
<1>7. Knows(w)
    BY <1>1, <1>2 DEF Knows, Near, UpdateKeeps
<1> QED
    BY <1>2, <1>3, <1>4, <1>5, <1>6, <1>7 DEF PlayInv, UpdateKeeps, w
--------------------------------------------------------------------------------
(***************************************************************************)
(* A seek.                                                                 *)
(***************************************************************************)
\* What seekTo keeps, whatever it does with the element.
SeekRest(v, w) ==
    /\ w.playerState = v.playerState /\ w.played = v.played /\ w.button = v.button
    /\ w.overlay = v.overlay /\ w.unloadBound = v.unloadBound
    /\ v.isComplete => w.isComplete

\* The player is told where the video is after the slider was moved.
LEMMA SeekEnds ==
    ASSUME config \in Configs, NEW x \in VideoState, NEW time \in Times, ~isPlaying(x)
    PROVE  LET y == updatePlayTime(x, time)
               w == [y EXCEPT !.currentTime = time] IN
           /\ ~isPlaying(y) /\ w \in VideoState /\ w.currentTime = time
           /\ w.paused = x.paused /\ w.stalled = x.stalled /\ w.pos = x.pos
           /\ w.events = x.events /\ w.updateInterval = x.updateInterval
           /\ w.playSeek = x.playSeek /\ w.spinner = x.spinner /\ w.logged = x.logged
           /\ w.emitPlayVideoEvent = x.emitPlayVideoEvent
           /\ SeekRest(x, w)
<1> DEFINE y == updatePlayTime(x, time)
           w == [y EXCEPT !.currentTime = time]
<1>1. time \in Nat
    BY PlaybackAssumption DEF Times
<1>2. y \in VideoState /\ SameButComplete(x, y)
    BY <1>1, UpdatePlayTimeDoes
<1> HIDE DEF y
<1>3. ~isPlaying(y)
    BY <1>2 DEF isPlaying, SameButComplete
<1>4. /\ w \in VideoState /\ w.currentTime = time
      /\ w.paused = y.paused /\ w.stalled = y.stalled /\ w.pos = y.pos
      /\ w.events = y.events /\ w.updateInterval = y.updateInterval
      /\ w.playSeek = y.playSeek /\ w.spinner = y.spinner /\ w.logged = y.logged
      /\ w.emitPlayVideoEvent = y.emitPlayVideoEvent
    BY <1>2 DEF VideoState
<1>5. SeekRest(y, w)
    BY <1>2 DEF VideoState, SeekRest
<1> HIDE DEF w
<1> QED
    BY <1>2, <1>3, <1>4, <1>5 DEF SameButComplete, SeekRest, y, w

LEMMA SeekKeeps ==
    ASSUME config \in Configs, NEW v, PlayInv(v), NEW time \in Nat
    PROVE  LET w == seekTo(v, time) IN
           /\ PlayInv(w) /\ w.playerState = v.playerState
           /\ w.played = v.played /\ w.unloadBound = v.unloadBound
<1> DEFINE w0 == [IF isPlaying(v) THEN stopTimer(v) ELSE v EXCEPT !.playSeek = NoTime]
           x == IF isUnplayed(v) /\ isYoutubeType
                THEN cueVideoById(w0, time)
                ELSE IF isYoutubeType /\ v.playerState = "BUFFERING"
                THEN [w0 EXCEPT !.playSeek = time]
                ELSE player_seekTo(w0, time)
           y == updatePlayTime(x, time)
           z == IF isPlaying(y) THEN runTimer(y) ELSE y
           w == [z EXCEPT !.currentTime = time]
<1>1. v \in VideoState /\ v.events \in Seq(MediaEvents) /\ LastTells(v)
    BY DEF PlayInv, VideoState
<1>2. CASE time < 0 \/ time > duration(v)
    BY <1>2 DEF seekTo
<1>3. CASE ~(time < 0 \/ time > duration(v))
    <2>1. seekTo(v, time) = w
        BY <1>3 DEF seekTo
    <2>2. time \in Times
        BY <1>3, PlaybackAssumption DEF duration, Times
    <2>3. CASE isUnplayed(v) /\ isYoutubeType
        <3>1. x = [v EXCEPT !.playSeek = NoTime, !.pos = time, !.paused = TRUE,
                            !.stalled = FALSE, !.events = <<"CUED">>]
            BY <1>1, <2>3 DEF cueVideoById, isUnplayed, isPlaying, VideoState
        <3>2. <<"CUED">> \in Seq(MediaEvents) /\ "CUED" \in MediaEvents
            BY DEF MediaEvents
        <3> HIDE DEF x
        <3>3. /\ x \in VideoState /\ x.playSeek = NoTime /\ x.pos = time
              /\ x.paused = TRUE /\ x.stalled = FALSE /\ x.events = <<"CUED">>
            BY <1>1, <2>2, <3>1, <3>2 DEF VideoState
        <3>4. /\ x.updateInterval = v.updateInterval /\ x.spinner = v.spinner
              /\ x.logged = v.logged /\ x.emitPlayVideoEvent = v.emitPlayVideoEvent
              /\ SeekRest(v, x)
            BY <1>1, <3>1 DEF VideoState, SeekRest
        <3>5. ~isPlaying(x)
            BY <2>3, <3>4 DEF isPlaying, isUnplayed, SeekRest
        <3> DEFINE u == [y EXCEPT !.currentTime = time]
        <3>6. /\ ~isPlaying(y) /\ u \in VideoState /\ u.currentTime = time
              /\ u.paused = x.paused /\ u.stalled = x.stalled /\ u.pos = x.pos
              /\ u.events = x.events /\ u.updateInterval = x.updateInterval
              /\ u.playSeek = x.playSeek /\ u.spinner = x.spinner /\ u.logged = x.logged
              /\ u.emitPlayVideoEvent = x.emitPlayVideoEvent
              /\ SeekRest(x, u)
            BY <2>2, <3>3, <3>5, SeekEnds
        <3>7. w = u
            BY <3>6
        <3> HIDE DEF u, w
        <3>8. LastOf(u.events) = "CUED" /\ CuedIsFirst(u.events) /\ u.events # <<>>
            BY <3>3, <3>6 DEF LastOf, CuedIsFirst
        <3>9. LastTells(u) /\ CuedUnplayed(u) /\ Told(u)
            BY <2>3, <3>3, <3>4, <3>6, <3>8
               DEF LastTells, CuedUnplayed, Told, isUnplayed, SeekRest
        <3>10. Steady(u)
            <4>1. ~u.spinner
                BY <2>3, <3>4, <3>6 DEF PlayInv, Steady, isYoutubeType
            <4> QED
                BY <2>3, <3>3, <3>4, <3>6, <4>1 DEF PlayInv, Steady, isUnplayed, SeekRest
        <3>11. Knows(u)
            BY <2>2, <3>3, <3>6, PlaybackAssumption DEF Knows, Near, Times
        <3> QED
            BY <2>1, <3>4, <3>6, <3>7, <3>9, <3>10, <3>11 DEF PlayInv, SeekRest
    <2>4. CASE ~(isUnplayed(v) /\ isYoutubeType) /\ isYoutubeType /\ v.playerState = "BUFFERING"
        <3>1. x = [v EXCEPT !.playSeek = time]
            BY <1>1, <2>4 DEF isPlaying, VideoState
        <3> HIDE DEF x
        <3>2. /\ x \in VideoState /\ x.playSeek = time /\ x.pos = v.pos
              /\ x.paused = v.paused /\ x.stalled = v.stalled /\ x.events = v.events
              /\ x.updateInterval = v.updateInterval /\ x.spinner = v.spinner
              /\ x.logged = v.logged /\ x.emitPlayVideoEvent = v.emitPlayVideoEvent
            BY <1>1, <2>2, <3>1 DEF VideoState
        <3>3. SeekRest(v, x)
            BY <1>1, <3>1 DEF VideoState, SeekRest
        <3>4. ~isPlaying(x)
            BY <2>4, <3>3 DEF isPlaying, SeekRest
        <3> DEFINE u == [y EXCEPT !.currentTime = time]
        <3>5. /\ ~isPlaying(y) /\ u \in VideoState /\ u.currentTime = time
              /\ u.paused = x.paused /\ u.stalled = x.stalled /\ u.pos = x.pos
              /\ u.events = x.events /\ u.updateInterval = x.updateInterval
              /\ u.playSeek = x.playSeek /\ u.spinner = x.spinner /\ u.logged = x.logged
              /\ u.emitPlayVideoEvent = x.emitPlayVideoEvent
              /\ SeekRest(x, u)
            BY <2>2, <3>2, <3>4, SeekEnds
        <3>6. w = u
            BY <3>5
        <3> HIDE DEF u, w
        <3>7. LastTells(u) /\ CuedUnplayed(u)
            BY <3>2, <3>3, <3>5
               DEF PlayInv, LastTells, CuedUnplayed, isUnplayed, SeekRest
        <3>8. Told(u)
            BY <3>2, <3>3, <3>5 DEF PlayInv, Told, ToldPaused, ToldPlaying, SeekRest
        <3>9. Steady(u)
            BY <3>2, <3>3, <3>5 DEF PlayInv, Steady, isUnplayed, SeekRest
        <3>10. Knows(u)
            BY <3>2, <3>5 DEF Knows, NoTime
        <3> QED
            BY <2>1, <3>3, <3>5, <3>6, <3>7, <3>8, <3>9, <3>10 DEF PlayInv, SeekRest
    <2>5. CASE /\ ~(isUnplayed(v) /\ isYoutubeType)
               /\ ~(isYoutubeType /\ v.playerState = "BUFFERING")
               /\ ~isPlaying(v)
        <3>1. x = [v EXCEPT !.playSeek = NoTime, !.pos = time]
            BY <1>1, <2>5 DEF player_seekTo, VideoState
        <3> HIDE DEF x
        <3>2. /\ x \in VideoState /\ x.playSeek = NoTime /\ x.pos = time
              /\ x.paused = v.paused /\ x.stalled = v.stalled /\ x.events = v.events
              /\ x.updateInterval = v.updateInterval /\ x.spinner = v.spinner
              /\ x.logged = v.logged /\ x.emitPlayVideoEvent = v.emitPlayVideoEvent
            BY <1>1, <2>2, <3>1 DEF VideoState
        <3>3. SeekRest(v, x)
            BY <1>1, <3>1 DEF VideoState, SeekRest
        <3>4. ~isPlaying(x)
            BY <2>5, <3>3 DEF isPlaying, SeekRest
        <3> DEFINE u == [y EXCEPT !.currentTime = time]
        <3>5. /\ ~isPlaying(y) /\ u \in VideoState /\ u.currentTime = time
              /\ u.paused = x.paused /\ u.stalled = x.stalled /\ u.pos = x.pos
              /\ u.events = x.events /\ u.updateInterval = x.updateInterval
              /\ u.playSeek = x.playSeek /\ u.spinner = x.spinner /\ u.logged = x.logged
              /\ u.emitPlayVideoEvent = x.emitPlayVideoEvent
              /\ SeekRest(x, u)
            BY <2>2, <3>2, <3>4, SeekEnds
        <3>6. w = u
            BY <3>5
        <3> HIDE DEF u, w
        <3>7. LastTells(u) /\ CuedUnplayed(u)
            BY <3>2, <3>3, <3>5
               DEF PlayInv, LastTells, CuedUnplayed, isUnplayed, SeekRest
        <3>8. Told(u)
            BY <3>2, <3>3, <3>5 DEF PlayInv, Told, ToldPaused, ToldPlaying, SeekRest
        <3>9. Steady(u)
            BY <3>2, <3>3, <3>5 DEF PlayInv, Steady, isUnplayed, SeekRest
        <3>10. Knows(u)
            BY <2>2, <3>2, <3>5, PlaybackAssumption DEF Knows, Near, Times
        <3> QED
            BY <2>1, <3>3, <3>5, <3>6, <3>7, <3>8, <3>9, <3>10 DEF PlayInv, SeekRest
    <2>6. CASE isPlaying(v)
        <3>1. x = [v EXCEPT !.updateInterval = FALSE, !.playSeek = NoTime, !.pos = time]
            BY <1>1, <2>6 DEF player_seekTo, stopTimer, isPlaying, isUnplayed, VideoState
        <3> HIDE DEF x
        <3>2. /\ x \in VideoState /\ x.playSeek = NoTime /\ x.pos = time
              /\ x.updateInterval = FALSE
            BY <1>1, <2>2, <3>1 DEF VideoState
        <3>3. GoesOn(v, x) /\ SeekRest(v, x)
            BY <1>1, <3>1 DEF VideoState, GoesOn, SeekRest
        <3>4. y \in VideoState /\ SameButComplete(x, y)
            BY <2>2, <3>2, UpdatePlayTimeDoes
        <3> HIDE DEF y
        <3>5. isPlaying(y)
            BY <2>6, <3>3, <3>4 DEF isPlaying, SeekRest, SameButComplete
        <3>6. /\ z \in VideoState /\ z.updateInterval /\ z.pos = y.pos
              /\ z.currentTime = IF y.updateInterval THEN y.currentTime ELSE y.pos
              /\ z.playerState = y.playerState /\ z.played = y.played
              /\ z.playSeek = y.playSeek /\ z.button = y.button
              /\ z.overlay = y.overlay /\ z.unloadBound = y.unloadBound
              /\ y.isComplete => z.isComplete
              /\ GoesOn(y, z) \/ StopsAtEnd(y, z)
            BY <3>4, <3>5, RunTimerDoes
        <3> HIDE DEF z
        <3>7. /\ SeekRest(v, z) /\ z.playSeek = NoTime /\ z.pos = time
              /\ GoesOn(v, z) \/ StopsAtEnd(v, z)
            <4>1. GoesOn(v, y) /\ SeekRest(v, y) /\ y.playSeek = NoTime /\ y.pos = time
                BY <3>2, <3>3, <3>4 DEF SeekRest, SameButComplete, GoesOn
            <4>2. SeekRest(v, z) /\ z.playSeek = NoTime /\ z.pos = time
                BY <3>6, <4>1 DEF SeekRest
            <4>3. GoesOn(v, z) \/ StopsAtEnd(v, z)
                BY <3>6, <4>1 DEF GoesOn, StopsAtEnd
            <4> QED
                BY <4>2, <4>3
        <3>8. /\ w \in VideoState /\ w.currentTime = time /\ w.pos = z.pos
              /\ w.playSeek = z.playSeek /\ w.updateInterval = z.updateInterval
              /\ SeekRest(z, w)
            BY <2>2, <3>6 DEF VideoState, SeekRest
        <3>9. /\ w.paused = z.paused /\ w.stalled = z.stalled /\ w.events = z.events
              /\ w.spinner = z.spinner /\ w.logged = z.logged
              /\ w.emitPlayVideoEvent = z.emitPlayVideoEvent
            BY <3>6 DEF VideoState
        <3> HIDE DEF w
        <3>10. SeekRest(v, w) /\ (GoesOn(v, w) \/ StopsAtEnd(v, w))
            BY <3>7, <3>8, <3>9 DEF SeekRest, GoesOn, StopsAtEnd
        <3>11. /\ LastTells(w)
               /\ \A e : Has(v.events, e) => Has(w.events, e)
               /\ Has(w.events, "CUED") => Has(v.events, "CUED")
               /\ CuedIsFirst(v.events) => CuedIsFirst(w.events)
               /\ w.events = <<>> => v.events = <<>> /\ (GoesOn(v, w) \/ v.paused)
            BY <1>1, <3>10, StillTells
        <3>12. CuedUnplayed(w)
            BY <3>10, <3>11 DEF PlayInv, CuedUnplayed, isUnplayed, SeekRest
        <3>13. Told(w)
            <4> SUFFICES ASSUME w.events = <<>>
                         PROVE  ~w.paused /\ (~w.stalled => ToldPlaying(w))
                BY DEF Told
            <4>1. v.events = <<>> /\ ~v.paused /\ GoesOn(v, w)
                BY <2>6, <3>11 DEF PlayInv, Told, ToldPaused, isPlaying
            <4> QED
                BY <2>6, <3>6, <3>8, <3>10, <4>1
                   DEF PlayInv, Told, ToldPlaying, Steady, GoesOn, SeekRest, isPlaying
        <3>14. Steady(w)
            <4>1. CASE GoesOn(v, w)
                BY <2>6, <3>10, <4>1 DEF PlayInv, Steady, isUnplayed, isPlaying, GoesOn, SeekRest
            <4>2. CASE StopsAtEnd(v, w)
                BY <2>6, <3>10, <4>2
                   DEF PlayInv, Steady, isUnplayed, isPlaying, StopsAtEnd, SeekRest
            <4> QED
                BY <3>10, <4>1, <4>2
        <3>15. Knows(w)
            BY <2>2, <3>7, <3>8, PlaybackAssumption DEF Knows, Near, Times
        <3> QED
            BY <2>1, <3>8, <3>10, <3>11, <3>12, <3>13, <3>14, <3>15 DEF PlayInv, SeekRest
    <2> QED
        BY <2>3, <2>4, <2>5, <2>6
<1> QED
    BY <1>2, <1>3

LEMMA OnSeekKeeps ==
    ASSUME config \in Configs, NEW v, PlayInv(v), NEW time \in Nat
    PROVE  LET w == onSeek(v, time) IN
           PlayInv(w) /\ w.played = v.played /\ w.unloadBound = v.unloadBound
<1> DEFINE u == seekTo(v, time)
           w == events_onSeek(u)
<1>1. PlayInv(u) /\ u.played = v.played /\ u.unloadBound = v.unloadBound
    BY SeekKeeps
<1> HIDE DEF u
<1>2. w = [u EXCEPT !.logged = "seek_video", !.emitPlayVideoEvent = TRUE] /\ u \in VideoState
    BY <1>1 DEF events_onSeek, PlayInv
<1> HIDE DEF w
<1>3. /\ w \in VideoState /\ w.logged = "seek_video" /\ w.emitPlayVideoEvent = TRUE
      /\ w.paused = u.paused /\ w.stalled = u.stalled /\ w.pos = u.pos
      /\ w.events = u.events /\ w.spinner = u.spinner /\ w.overlay = u.overlay
    BY <1>2 DEF VideoState
<1>4. /\ w.playerState = u.playerState /\ w.currentTime = u.currentTime
      /\ w.updateInterval = u.updateInterval /\ w.played = u.played
      /\ w.playSeek = u.playSeek /\ w.button = u.button
      /\ w.unloadBound = u.unloadBound /\ w.isComplete = u.isComplete
    BY <1>2 DEF VideoState
<1>5. PlayInv(w)
    BY <1>1, <1>3, <1>4 DEF PlayInv, LastTells, CuedUnplayed, isUnplayed, Told, ToldPaused,
                            ToldPlaying, Steady, Knows, Near
<1> QED
    BY <1>1, <1>4, <1>5 DEF onSeek, u, w
--------------------------------------------------------------------------------
(***************************************************************************)
(* An event of the media element is heard.                                 *)
(***************************************************************************)
\* The event e was taken out of the queue of u: what then holds of the video v.
Heard(u, v, e) ==
    /\ v \in VideoState
    /\ LastTells(v) /\ CuedIsFirst(v.events) /\ ~Has(v.events, "CUED")
    /\ e # "PLAYING" /\ Has(u.events, "PLAYING") => Has(v.events, "PLAYING")
    /\ v.events = <<>> => /\ e = "PLAYING" => ~v.paused
                          /\ e = "BUFFERING" => v.stalled
                          /\ e \in {"PAUSED", "ENDED", "CUED"} => v.paused
    /\ e = "CUED" => isUnplayed(u)
    /\ v.paused = u.paused /\ v.stalled = u.stalled /\ v.pos = u.pos
    /\ v.spinner = u.spinner /\ v.overlay = u.overlay
    /\ ApartFromElement(u, v)

LEMMA FirstIsHeard ==
    ASSUME NEW u, PlayInv(u), u.events # <<>>
    PROVE  /\ Heard(u, [u EXCEPT !.events = Tail(@)], Head(u.events))
           /\ Head(u.events) \in MediaEvents
<1> DEFINE s == u.events
           e == Head(s)
           v == [u EXCEPT !.events = Tail(@)]
<1>1. u \in VideoState /\ s \in Seq(MediaEvents) /\ s # <<>>
    BY DEF PlayInv, VideoState
<1>2. /\ Tail(s) \in Seq(MediaEvents) /\ e \in MediaEvents
      /\ \A x : x # e /\ Has(s, x) => Has(Tail(s), x)
      /\ CuedIsFirst(s) => CuedIsFirst(Tail(s)) /\ ~Has(Tail(s), "CUED")
      /\ Has(s, e)
      /\ LastOf(s) = IF Tail(s) = <<>> THEN e ELSE LastOf(Tail(s))
    <2> HIDE DEF s
    <2> QED
        BY <1>1, FirstTaken
<1> HIDE DEF e
<1>3. v = [u EXCEPT !.events = Tail(s)]
    OBVIOUS
<1> HIDE DEF v
<1>4. /\ v \in VideoState /\ v.events = Tail(s)
      /\ v.paused = u.paused /\ v.stalled = u.stalled /\ v.pos = u.pos
      /\ v.spinner = u.spinner /\ v.overlay = u.overlay
    BY <1>1, <1>2, <1>3 DEF VideoState
<1>5. ApartFromElement(u, v)
    BY <1>1, <1>3 DEF VideoState, ApartFromElement
<1>6. CuedIsFirst(v.events) /\ ~Has(v.events, "CUED") /\ (e = "CUED" => isUnplayed(u))
    BY <1>2, <1>4 DEF PlayInv, CuedUnplayed
<1>7. LastTells(v)
    BY <1>1, <1>2, <1>4 DEF PlayInv, LastTells
<1>8. v.events = <<>> => /\ e = "PLAYING" => ~v.paused
                         /\ e = "BUFFERING" => v.stalled
                         /\ e \in {"PAUSED", "ENDED", "CUED"} => v.paused
    BY <1>1, <1>2, <1>4 DEF PlayInv, LastTells
<1>9. e # "PLAYING" /\ Has(u.events, "PLAYING") => Has(v.events, "PLAYING")
    BY <1>2, <1>4
<1> QED
    BY <1>2, <1>4, <1>5, <1>6, <1>7, <1>8, <1>9 DEF Heard, e, v

LEMMA BufferingKeeps ==
    ASSUME NEW u, PlayInv(u), NEW v, Heard(u, v, "BUFFERING")
    PROVE  LET w == onStateChange(v, "BUFFERING") IN
           PlayInv(w) /\ w.played = v.played /\ w.unloadBound = v.unloadBound
<1> DEFINE w == onStateChange(v, "BUFFERING")
<1>1. w = [v EXCEPT !.playerState = "BUFFERING", !.overlay = FALSE]
    BY DEF onStateChange
<1> HIDE DEF w
<1>2. /\ w \in VideoState /\ w.playerState = "BUFFERING"
      /\ w.paused = v.paused /\ w.stalled = v.stalled /\ w.pos = v.pos
      /\ w.events = v.events /\ w.spinner = v.spinner
    BY <1>1 DEF Heard, VideoState, PlayerStates
<1>3. /\ w.currentTime = v.currentTime /\ w.updateInterval = v.updateInterval
      /\ w.played = v.played /\ w.playSeek = v.playSeek /\ w.button = v.button
      /\ w.logged = v.logged /\ w.emitPlayVideoEvent = v.emitPlayVideoEvent
      /\ w.unloadBound = v.unloadBound
    BY <1>1 DEF Heard, VideoState
<1>4. LastTells(w) /\ CuedUnplayed(w)
    BY <1>2 DEF Heard, LastTells, CuedUnplayed
<1>5. Told(w) /\ Steady(w)
    BY <1>2, <1>3 DEF Heard, PlayInv, Told, Steady, isUnplayed, ApartFromElement
<1>6. Knows(w)
    BY <1>2, <1>3 DEF Heard, PlayInv, Knows, Near, ApartFromElement
<1> QED
    BY <1>2, <1>3, <1>4, <1>5, <1>6 DEF PlayInv, w

LEMMA CuedKeeps ==
    ASSUME NEW u, PlayInv(u), NEW v, Heard(u, v, "CUED")
    PROVE  LET w == onStateChange(v, "CUED") IN
           PlayInv(w) /\ w.played = v.played /\ w.unloadBound = v.unloadBound
<1> DEFINE w == onStateChange(v, "CUED")
<1>1. w = [v EXCEPT !.playerState = "CUED"]
    BY DEF onStateChange
<1> HIDE DEF w
<1>2. /\ w \in VideoState /\ w.playerState = "CUED"
      /\ w.paused = v.paused /\ w.stalled = v.stalled /\ w.pos = v.pos
      /\ w.events = v.events /\ w.spinner = v.spinner
    BY <1>1 DEF Heard, VideoState, PlayerStates
<1>3. /\ w.currentTime = v.currentTime /\ w.updateInterval = v.updateInterval
      /\ w.played = v.played /\ w.playSeek = v.playSeek /\ w.button = v.button
      /\ w.logged = v.logged /\ w.emitPlayVideoEvent = v.emitPlayVideoEvent
      /\ w.unloadBound = v.unloadBound
    BY <1>1 DEF Heard, VideoState
<1>4. LastTells(w) /\ CuedUnplayed(w)
    BY <1>2 DEF Heard, LastTells, CuedUnplayed
<1>5. ~v.updateInterval /\ v.button = "play" /\ v.logged # "play_video"
    BY DEF Heard, PlayInv, Steady, ApartFromElement
<1>6. Told(w) /\ Steady(w)
    BY <1>2, <1>3, <1>5
       DEF Heard, PlayInv, Told, ToldPaused, Steady, isUnplayed, ApartFromElement
<1>7. Knows(w)
    BY <1>2, <1>3 DEF Heard, PlayInv, Knows, Near, ApartFromElement
<1> QED
    BY <1>2, <1>3, <1>4, <1>6, <1>7 DEF PlayInv, w

LEMMA PausedKeeps ==
    ASSUME NEW u, PlayInv(u), NEW v, Heard(u, v, "PAUSED")
    PROVE  LET w == onStateChange(v, "PAUSED") IN
           PlayInv(w) /\ w.played = v.played /\ w.unloadBound = v.unloadBound
<1> DEFINE w == onStateChange(v, "PAUSED")
<1>1. v \in VideoState
    BY DEF Heard
<1>2. w = [v EXCEPT !.playerState = "PAUSED", !.updateInterval = FALSE, !.button = "play",
                    !.lastSave = v.currentTime, !.logged = "pause_video",
                    !.emitPlayVideoEvent = TRUE, !.overlay = ~isYoutubeType]
    BY <1>1 DEF onStateChange, onPause, stopTimer, trigger_pause, saveState, events_onPause,
                VideoState
<1> HIDE DEF w
<1>3. isYoutubeType \in BOOLEAN
    BY DEF isYoutubeType
<1>4. w \in VideoState
    <2>1. PICK b \in BOOLEAN : b = ~isYoutubeType
        BY <1>3
    <2>2. PICK t \in Times \cup {NoTime} : t = v.currentTime
        BY <1>1 DEF VideoState
    <2>3. [v EXCEPT !.playerState = "PAUSED", !.updateInterval = FALSE] \in VideoState
        BY <1>1 DEF VideoState, PlayerStates
    <2>4. PICK x \in VideoState : x = [v EXCEPT !.playerState = "PAUSED",
                                              !.updateInterval = FALSE]
        BY <2>3
    <2>5. w = [x EXCEPT !.button = "play", !.lastSave = t, !.logged = "pause_video",
                        !.emitPlayVideoEvent = TRUE, !.overlay = b]
        BY <1>1, <1>2, <2>1, <2>2, <2>4 DEF VideoState
    <2> QED
        BY <2>5 DEF VideoState
<1>5. /\ w.playerState = "PAUSED" /\ w.updateInterval = FALSE /\ w.button = "play"
      /\ w.logged = "pause_video" /\ w.emitPlayVideoEvent = TRUE
    BY <1>1, <1>2 DEF VideoState
<1>6. /\ w.paused = v.paused /\ w.stalled = v.stalled /\ w.pos = v.pos
      /\ w.events = v.events /\ w.spinner = v.spinner /\ w.currentTime = v.currentTime
      /\ w.played = v.played /\ w.playSeek = v.playSeek /\ w.unloadBound = v.unloadBound
    BY <1>1, <1>2 DEF VideoState
<1>7. LastTells(w) /\ CuedUnplayed(w)
    BY <1>6 DEF Heard, LastTells, CuedUnplayed
<1>8. Told(w) /\ Steady(w)
    BY <1>5, <1>6
       DEF Heard, PlayInv, Told, ToldPaused, Steady, isUnplayed, ApartFromElement
<1>9. Knows(w)
    BY <1>5, <1>6 DEF Heard, PlayInv, Knows, Near, ApartFromElement
<1> QED
    BY <1>4, <1>6, <1>7, <1>8, <1>9 DEF PlayInv, w

\* What an event keeps that only changes the player's state and what is told of it.
ElementAndTimes(v, w) ==
    /\ w.paused = v.paused /\ w.stalled = v.stalled /\ w.pos = v.pos
    /\ w.events = v.events /\ w.spinner = v.spinner
    /\ w.currentTime = v.currentTime /\ w.updateInterval = v.updateInterval
    /\ w.played = v.played /\ w.playSeek = v.playSeek /\ w.unloadBound = v.unloadBound

LEMMA EndedKeeps ==
    ASSUME config \in Configs, NEW u, PlayInv(u), NEW v, Heard(u, v, "ENDED")
    PROVE  LET w == onStateChange(v, "ENDED") IN
           PlayInv(w) /\ w.played = v.played /\ w.unloadBound = v.unloadBound
<1> DEFINE a == [v EXCEPT !.playerState = "ENDED"]
           b == updatePlayTime(a, duration(a))
           c == IF isYoutubeType THEN trigger_pause(b) ELSE b
           d == events_onEnded([c EXCEPT !.button = "play"])
           w == handleEnded(d)
<1>1. onStateChange(v, "ENDED") = w
    BY DEF onStateChange, onEnded, trigger_ended
<1>2. a \in VideoState /\ a.playerState = "ENDED" /\ ElementAndTimes(v, a)
    BY DEF Heard, VideoState, PlayerStates, ElementAndTimes
<1> HIDE DEF a
<1>3. duration(a) \in Nat
    BY PlaybackAssumption DEF duration
<1>4. b \in VideoState /\ SameButComplete(a, b)
    BY <1>2, <1>3, UpdatePlayTimeDoes
<1> HIDE DEF b
<1>5. b.playerState = "ENDED" /\ ElementAndTimes(v, b)
    BY <1>2, <1>4 DEF SameButComplete, ElementAndTimes
<1>6. c \in VideoState /\ c.playerState = "ENDED" /\ ElementAndTimes(v, c)
    <2>1. CASE ~isYoutubeType
        BY <1>4, <1>5, <2>1
    <2>2. CASE isYoutubeType
        <3>1. c = [b EXCEPT !.button = "play", !.lastSave = b.currentTime,
                            !.logged = "pause_video", !.emitPlayVideoEvent = TRUE]
            BY <1>4, <2>2 DEF trigger_pause, saveState, events_onPause, VideoState
        <3> HIDE DEF c
        <3>2. PICK t \in Times \cup {NoTime} : t = b.currentTime
            BY <1>4 DEF VideoState
        <3>3. c = [b EXCEPT !.button = "play", !.lastSave = t,
                            !.logged = "pause_video", !.emitPlayVideoEvent = TRUE]
            BY <3>1, <3>2
        <3>4. c \in VideoState /\ c.playerState = b.playerState /\ ElementAndTimes(b, c)
            BY <1>4, <3>3 DEF VideoState, ElementAndTimes
        <3> QED
            BY <1>5, <3>4 DEF ElementAndTimes
    <2> QED
        BY <2>1, <2>2
<1> HIDE DEF c
<1>7. /\ d \in VideoState /\ d.playerState = "ENDED" /\ ElementAndTimes(v, d)
      /\ d.button = "play" /\ d.logged = "stop_video" /\ d.emitPlayVideoEvent = TRUE
    <2>1. d = [c EXCEPT !.button = "play", !.logged = "stop_video",
                        !.emitPlayVideoEvent = TRUE]
        BY <1>6 DEF events_onEnded, VideoState
    <2> HIDE DEF d
    <2>2. /\ d \in VideoState /\ d.playerState = c.playerState /\ ElementAndTimes(c, d)
          /\ d.button = "play" /\ d.logged = "stop_video" /\ d.emitPlayVideoEvent = TRUE
        BY <1>6, <2>1 DEF VideoState, ElementAndTimes
    <2> QED
        BY <1>6, <2>2 DEF ElementAndTimes
<1> HIDE DEF d
<1>8. /\ w \in VideoState /\ w.playerState = "ENDED" /\ ElementAndTimes(v, w)
      /\ w.button = "play" /\ w.logged = "stop_video" /\ w.emitPlayVideoEvent = TRUE
      /\ w.isComplete
    <2>1. CASE d.isComplete
        BY <1>7, <2>1 DEF handleEnded
    <2>2. CASE ~d.isComplete
        <3>1. w = [d EXCEPT !.isComplete = TRUE, !.postFailed = FALSE]
            BY <2>2 DEF handleEnded, markCompletion
        <3> HIDE DEF w
        <3>2. /\ w \in VideoState /\ w.playerState = d.playerState /\ ElementAndTimes(d, w)
              /\ w.button = d.button /\ w.logged = d.logged
              /\ w.emitPlayVideoEvent = d.emitPlayVideoEvent /\ w.isComplete = TRUE
            BY <1>7, <3>1 DEF VideoState, ElementAndTimes
        <3> QED
            BY <1>7, <3>2 DEF ElementAndTimes
    <2> QED
        BY <2>1, <2>2
<1> HIDE DEF w
<1>9. LastTells(w) /\ CuedUnplayed(w)
    BY <1>8 DEF Heard, LastTells, CuedUnplayed, ElementAndTimes
<1>10. Told(w) /\ Steady(w)
    BY <1>8 DEF Heard, PlayInv, Told, ToldPaused, Steady, isUnplayed, ApartFromElement,
                ElementAndTimes
<1>11. Knows(w)
    BY <1>8 DEF Heard, PlayInv, Knows, Near, ApartFromElement, ElementAndTimes
<1> QED
    BY <1>1, <1>8, <1>9, <1>10, <1>11 DEF PlayInv, ElementAndTimes

LEMMA PlayingKeeps ==
    ASSUME config \in Configs, onceSpent \in BOOLEAN,
           NEW u, PlayInv(u), NEW v, Heard(u, v, "PLAYING")
    PROVE  LET w == onStateChange(v, "PLAYING") IN
           PlayInv(w) /\ w.played /\ w.unloadBound = (v.unloadBound \/ ~onceSpent)
<1> DEFINE a == [v EXCEPT !.playerState = "PLAYING"]
           b == runTimer(a)
           c == IF b.playSeek = NoTime THEN b ELSE player_seekTo(b, b.playSeek)
           d == [c EXCEPT !.button = "pause", !.played = TRUE,
                          !.unloadBound = @ \/ ~onceSpent]
           e == events_onPlay(d)
           w == [e EXCEPT !.overlay = FALSE,
                          !.spinner = IF config.videoType = "hls" THEN FALSE ELSE @]
<1>1. onStateChange(v, "PLAYING") = w
    BY DEF onStateChange, onPlay, trigger_play
<1>2. /\ a \in VideoState /\ a.playerState = "PLAYING" /\ GoesOn(v, a)
      /\ a.pos = v.pos /\ a.currentTime = v.currentTime
      /\ a.updateInterval = v.updateInterval /\ a.playSeek = v.playSeek
      /\ a.unloadBound = v.unloadBound
    BY DEF Heard, VideoState, PlayerStates, GoesOn
<1> HIDE DEF a
<1>3. /\ b \in VideoState /\ b.updateInterval /\ b.pos = a.pos
      /\ b.currentTime = IF a.updateInterval THEN a.currentTime ELSE a.pos
      /\ b.playerState = a.playerState /\ b.playSeek = a.playSeek
      /\ b.unloadBound = a.unloadBound
      /\ GoesOn(a, b) \/ StopsAtEnd(a, b)
    BY <1>2, RunTimerDoes
<1> HIDE DEF b
<1>4. /\ b.playerState = "PLAYING" /\ b.playSeek = v.playSeek
      /\ b.unloadBound = v.unloadBound /\ b.pos = v.pos
      /\ b.currentTime = IF v.updateInterval THEN v.currentTime ELSE v.pos
      /\ GoesOn(v, b) \/ StopsAtEnd(v, b)
    BY <1>2, <1>3 DEF GoesOn, StopsAtEnd
<1>5. /\ LastTells(b)
      /\ Has(b.events, "CUED") => Has(v.events, "CUED")
      /\ CuedIsFirst(v.events) => CuedIsFirst(b.events)
      /\ b.events = <<>> => v.events = <<>> /\ (GoesOn(v, b) \/ v.paused)
    BY <1>4, StillTells DEF Heard
<1>6. /\ c \in VideoState /\ GoesOn(b, c) /\ c.playerState = b.playerState
      /\ c.updateInterval = b.updateInterval /\ c.currentTime = b.currentTime
      /\ c.playSeek = b.playSeek /\ c.unloadBound = b.unloadBound
      /\ b.playSeek = NoTime => c.pos = b.pos
    <2>1. CASE b.playSeek = NoTime
        BY <1>3, <2>1 DEF GoesOn
    <2>2. CASE b.playSeek # NoTime
        <3>1. PICK t \in Times : t = b.playSeek
            BY <1>3, <2>2 DEF VideoState
        <3>2. c = [b EXCEPT !.pos = t]
            BY <2>2, <3>1 DEF player_seekTo
        <3> HIDE DEF c
        <3>3. /\ c \in VideoState /\ GoesOn(b, c) /\ c.playerState = b.playerState
              /\ c.updateInterval = b.updateInterval /\ c.currentTime = b.currentTime
              /\ c.playSeek = b.playSeek /\ c.unloadBound = b.unloadBound
            BY <1>3, <3>2 DEF VideoState, GoesOn
        <3> QED
            BY <2>2, <3>3
    <2> QED
        BY <2>1, <2>2
<1> HIDE DEF c
<1>7. /\ d \in VideoState /\ GoesOn(c, d) /\ d.playerState = c.playerState
      /\ d.updateInterval = c.updateInterval /\ d.currentTime = c.currentTime
      /\ d.playSeek = c.playSeek /\ d.pos = c.pos
      /\ d.button = "pause" /\ d.played = TRUE
      /\ d.unloadBound = (c.unloadBound \/ ~onceSpent)
    <2>1. PICK q \in BOOLEAN : q = (c.unloadBound \/ ~onceSpent)
        BY <1>6 DEF VideoState
    <2>2. d = [c EXCEPT !.button = "pause", !.played = TRUE, !.unloadBound = q]
        BY <2>1
    <2> HIDE DEF d
    <2> QED
        <3>1. /\ d \in VideoState /\ d.playerState = c.playerState
              /\ d.updateInterval = c.updateInterval /\ d.currentTime = c.currentTime
              /\ d.playSeek = c.playSeek /\ d.pos = c.pos
              /\ d.button = "pause" /\ d.played = TRUE /\ d.unloadBound = q
            BY <1>6, <2>2 DEF VideoState
        <3>2. GoesOn(c, d)
            BY <1>6, <2>2 DEF VideoState, GoesOn
        <3> QED
            BY <2>1, <3>1, <3>2
<1> HIDE DEF d
<1>8. /\ e \in VideoState /\ e.paused = d.paused /\ e.stalled = d.stalled
      /\ e.events = d.events /\ e.spinner = d.spinner /\ e.playerState = d.playerState
      /\ e.updateInterval = d.updateInterval /\ e.currentTime = d.currentTime
      /\ e.playSeek = d.playSeek /\ e.pos = d.pos
      /\ e.button = d.button /\ e.played = d.played /\ e.unloadBound = d.unloadBound
      /\ IF d.emitPlayVideoEvent THEN e.logged = "play_video" /\ ~e.emitPlayVideoEvent
         ELSE e.logged = d.logged /\ ~e.emitPlayVideoEvent
    <2>1. CASE ~d.emitPlayVideoEvent
        BY <1>7, <2>1 DEF events_onPlay
    <2>2. CASE d.emitPlayVideoEvent
        <3>1. e = [d EXCEPT !.logged = "play_video", !.emitPlayVideoEvent = FALSE]
            BY <2>2 DEF events_onPlay
        <3> HIDE DEF e
        <3>2. /\ e \in VideoState /\ e.paused = d.paused /\ e.stalled = d.stalled
              /\ e.events = d.events /\ e.spinner = d.spinner /\ e.playerState = d.playerState
              /\ e.updateInterval = d.updateInterval /\ e.currentTime = d.currentTime
            BY <1>7, <3>1 DEF VideoState
        <3>3. /\ e.playSeek = d.playSeek /\ e.pos = d.pos
              /\ e.button = d.button /\ e.played = d.played /\ e.unloadBound = d.unloadBound
              /\ e.logged = "play_video" /\ e.emitPlayVideoEvent = FALSE
            BY <1>7, <3>1 DEF VideoState
        <3> QED
            BY <2>2, <3>2, <3>3
    <2> QED
        BY <2>1, <2>2
<1> HIDE DEF e
<1>9. /\ w \in VideoState /\ w.overlay = FALSE
      /\ w.spinner = IF config.videoType = "hls" THEN FALSE ELSE e.spinner
      /\ w.paused = e.paused /\ w.stalled = e.stalled
      /\ w.events = e.events /\ w.playerState = e.playerState
      /\ w.updateInterval = e.updateInterval /\ w.currentTime = e.currentTime
      /\ w.playSeek = e.playSeek /\ w.pos = e.pos
      /\ w.button = e.button /\ w.played = e.played /\ w.unloadBound = e.unloadBound
      /\ w.logged = e.logged /\ w.emitPlayVideoEvent = e.emitPlayVideoEvent
    <2>1. PICK q \in BOOLEAN : q = IF config.videoType = "hls" THEN FALSE ELSE e.spinner
        BY <1>8 DEF VideoState
    <2>2. w = [e EXCEPT !.overlay = FALSE, !.spinner = q]
        BY <2>1
    <2> HIDE DEF w
    <2>3. /\ w \in VideoState /\ w.overlay = FALSE /\ w.spinner = q
          /\ w.paused = e.paused /\ w.stalled = e.stalled
          /\ w.events = e.events /\ w.playerState = e.playerState
          /\ w.updateInterval = e.updateInterval /\ w.currentTime = e.currentTime
        BY <1>8, <2>2 DEF VideoState
    <2>4. /\ w.playSeek = e.playSeek /\ w.pos = e.pos
          /\ w.button = e.button /\ w.played = e.played /\ w.unloadBound = e.unloadBound
          /\ w.logged = e.logged /\ w.emitPlayVideoEvent = e.emitPlayVideoEvent
        BY <1>8, <2>2 DEF VideoState
    <2> QED
        BY <2>1, <2>3, <2>4
<1> HIDE DEF w
<1>10. /\ w.playerState = "PLAYING" /\ w.updateInterval /\ w.button = "pause" /\ w.played
       /\ w.currentTime = IF v.updateInterval THEN v.currentTime ELSE v.pos
       /\ w.playSeek = v.playSeek /\ (v.playSeek = NoTime => w.pos = v.pos)
       /\ w.unloadBound = (v.unloadBound \/ ~onceSpent)
    BY <1>3, <1>4, <1>6, <1>7, <1>8, <1>9
<1>11. /\ w.paused = b.paused /\ w.stalled = b.stalled /\ w.events = b.events
       /\ w.spinner = IF config.videoType = "hls" THEN FALSE ELSE b.spinner
       /\ ~w.emitPlayVideoEvent /\ (b.emitPlayVideoEvent => w.logged = "play_video")
       /\ ~b.emitPlayVideoEvent => w.logged = b.logged
    BY <1>6, <1>7, <1>8, <1>9 DEF GoesOn
<1>12. v.emitPlayVideoEvent \/ v.logged = "play_video"
    BY DEF Heard, PlayInv, Steady, ApartFromElement
<1>13. w.logged = "play_video"
    <2>1. CASE GoesOn(v, b)
        BY <1>11, <1>12, <2>1 DEF GoesOn
    <2>2. CASE StopsAtEnd(v, b)
        BY <1>11, <2>2 DEF StopsAtEnd
    <2> QED
        BY <1>4, <2>1, <2>2
<1>14. LastTells(w) /\ CuedUnplayed(w)
    BY <1>5, <1>11 DEF Heard, LastTells, CuedUnplayed
<1>15. Told(w)
    <2> SUFFICES ASSUME w.events = <<>> PROVE ~w.paused /\ ToldPlaying(w)
        BY DEF Told
    <2>1. v.events = <<>> /\ ~v.paused /\ GoesOn(v, b)
        BY <1>5, <1>11 DEF Heard
    <2> QED
        BY <1>9, <1>10, <1>11, <1>13, <2>1 DEF GoesOn, ToldPlaying
<1>16. Steady(w)
    <2>1. ~w.spinner
        <3>1. v.spinner => config.videoType = "hls"
            BY DEF Heard, PlayInv, Steady
        <3>2. config.videoType # "hls" => b.spinner = v.spinner
            BY <1>4 DEF GoesOn, StopsAtEnd
        <3> QED
            BY <1>11, <3>1, <3>2
    <2>2. w.stalled => ~w.paused
        <3>1. v.stalled => ~v.paused
            BY DEF Heard, PlayInv, Steady
        <3> QED
            BY <1>4, <1>11, <3>1 DEF GoesOn, StopsAtEnd
    <2> QED
        BY <1>10, <1>11, <1>13, <2>1, <2>2 DEF Steady, isUnplayed
<1>17. Knows(w)
    <2> SUFFICES ASSUME w.playSeek = NoTime PROVE Near(w)
        BY DEF Knows
    <2>1. w.pos = v.pos
        BY <1>10
    <2>2. CASE v.updateInterval
        <3>1. Near(u) /\ w.currentTime = u.currentTime /\ w.pos = u.pos
            BY <1>10, <2>1, <2>2 DEF Heard, PlayInv, Knows, ApartFromElement
        <3> QED
            BY <3>1 DEF Near
    <2>3. CASE ~v.updateInterval
        <3>1. w.currentTime = v.pos /\ v.pos \in Nat
            BY <1>10, <2>3, PlaybackAssumption DEF Heard, VideoState, Times
        <3> QED
            BY <2>1, <3>1 DEF Near
    <2> QED
        BY <2>2, <2>3
<1> QED
    BY <1>1, <1>9, <1>10, <1>14, <1>15, <1>16, <1>17 DEF PlayInv
--------------------------------------------------------------------------------
(***************************************************************************)
(* The invariant.                                                          *)
(***************************************************************************)
\* What the player makes of a video when its length is known.
LEMMA LoadedMetadataKeeps ==
    ASSUME config \in Configs
    PROVE  LET w == onLoadedMetadata(Fresh) IN
           PlayInv(w) /\ w.played = FALSE /\ w.unloadBound = FALSE
<1> DEFINE a == [Fresh EXCEPT !.playerState = IF isYoutubeType THEN "CUED" ELSE "PAUSED"]
           time == figureOutStartingTime(duration(a))
           b == [a EXCEPT !.endTime = figureOutStartEndTime(duration(a)).endTime]
           c == IF time > 0 THEN seekTo(b, time) ELSE b
           d == IF config.autoplay THEN play(c) ELSE c
           w == [d EXCEPT !.overlay = ~isYoutubeType]
<1>1. onLoadedMetadata(Fresh) = w
    BY DEF onLoadedMetadata, onReady
<1>2. /\ config.startTime \in Nat /\ config.endTime \in Nat \cup {NoTime}
      /\ config.savedVideoPosition \in Nat /\ Duration \in Nat \ {0}
    BY PlaybackAssumption
<1>3. Fresh \in VideoState
    <2>1. <<>> \in Seq(MediaEvents)
        OBVIOUS
    <2> QED
        BY <1>2, <2>1 DEF Fresh, VideoState, Times, PlayerStates
<1>4. /\ Fresh.paused = TRUE /\ Fresh.stalled = FALSE /\ Fresh.pos = 0 /\ Fresh.events = <<>>
      /\ Fresh.currentTime = 0 /\ Fresh.updateInterval = FALSE /\ Fresh.played = FALSE
      /\ Fresh.button = "play" /\ Fresh.spinner = FALSE /\ Fresh.emitPlayVideoEvent = TRUE
      /\ Fresh.logged = "none" /\ Fresh.unloadBound = FALSE
    BY DEF Fresh
<1>5. PICK st \in {"CUED", "PAUSED"} : st = IF isYoutubeType THEN "CUED" ELSE "PAUSED"
    OBVIOUS
<1>6. a \in VideoState /\ a.playerState = st
    <2>1. a = [Fresh EXCEPT !.playerState = st]
        BY <1>5
    <2> HIDE DEF a
    <2> QED
        BY <1>3, <2>1 DEF VideoState, PlayerStates
<1>7. /\ a.paused = TRUE /\ a.stalled = FALSE /\ a.pos = 0 /\ a.events = <<>>
      /\ a.currentTime = 0 /\ a.updateInterval = FALSE /\ a.played = FALSE
      /\ a.button = "play" /\ a.spinner = FALSE /\ a.emitPlayVideoEvent = TRUE
      /\ a.logged = "none" /\ a.unloadBound = FALSE
    BY <1>4 DEF Fresh
<1>8. duration(a) = Duration
    BY <1>6 DEF duration
<1> HIDE DEF a
<1>9. time \in Nat
    BY <1>2, <1>8 DEF figureOutStartingTime, figureOutStartEndTime
<1>10. PICK end \in Times \cup {NoTime} : end = figureOutStartEndTime(duration(a)).endTime
    <2>1. figureOutStartEndTime(Duration).endTime \in Times \cup {NoTime}
        BY <1>2 DEF figureOutStartEndTime, Times, NoTime
    <2> QED
        BY <1>8, <2>1
<1>11. /\ b \in VideoState /\ b.playerState = st
       /\ b.paused = TRUE /\ b.stalled = FALSE /\ b.pos = 0 /\ b.events = <<>>
       /\ b.currentTime = 0 /\ b.updateInterval = FALSE /\ b.played = FALSE
       /\ b.button = "play" /\ b.spinner = FALSE /\ b.emitPlayVideoEvent = TRUE
       /\ b.logged = "none" /\ b.unloadBound = FALSE
    <2>1. b = [a EXCEPT !.endTime = end]
        BY <1>10
    <2> HIDE DEF b
    <2> QED
        BY <1>6, <1>7, <2>1 DEF VideoState
<1> HIDE DEF time, b
<1>12. PlayInv(b)
    <2>1. b.events \in Seq(MediaEvents)
        BY <1>11 DEF VideoState
    <2>2. CuedIsFirst(b.events) /\ ~Has(b.events, "CUED")
        BY <1>11, <2>1, LastIsOne
    <2>3. LastTells(b) /\ CuedUnplayed(b)
        BY <1>11, <2>2 DEF LastTells, CuedUnplayed
    <2>4. Told(b) /\ Steady(b)
        BY <1>11 DEF Told, ToldPaused, Steady
    <2>5. Knows(b)
        BY <1>11 DEF Knows, Near
    <2> QED
        BY <1>11, <2>3, <2>4, <2>5 DEF PlayInv
<1>13. /\ PlayInv(c) /\ c.playerState = st
       /\ c.played = FALSE /\ c.unloadBound = FALSE
    BY <1>9, <1>11, <1>12, SeekKeeps
<1> HIDE DEF c
<1>14. /\ PlayInv(d) /\ d.playerState = st
       /\ d.played = FALSE /\ d.unloadBound = FALSE
    <2>1. CASE ~config.autoplay
        BY <1>13, <2>1
    <2>2. CASE config.autoplay
        <3>1. d = playVideo(c)
            BY <2>2 DEF play
        <3>2. ~isPlaying(c)
            BY <1>13 DEF isPlaying
        <3>3. Clicked(c, c, "PLAYING")
            BY <1>13 DEF Clicked, PlayInv
        <3> QED
            BY <1>13, <3>1, <3>2, <3>3, PlayKeeps
    <2> QED
        BY <2>1, <2>2
<1> HIDE DEF d
<1>15. PICK q \in BOOLEAN : q = ~isYoutubeType
    OBVIOUS
<1>16. w = [d EXCEPT !.overlay = q] /\ d \in VideoState
    BY <1>14, <1>15 DEF PlayInv
<1> HIDE DEF w
<1>17. /\ w \in VideoState /\ w.playerState = d.playerState
       /\ w.button = d.button /\ w.logged = d.logged
       /\ w.emitPlayVideoEvent = d.emitPlayVideoEvent /\ w.isComplete = d.isComplete
       /\ w.unloadBound = d.unloadBound
    BY <1>16 DEF VideoState
<1>18. ElementAndTimes(d, w)
    BY <1>16 DEF VideoState, ElementAndTimes
<1>19. LastTells(w) /\ CuedUnplayed(w)
    BY <1>14, <1>17, <1>18 DEF PlayInv, LastTells, CuedUnplayed, isUnplayed, ElementAndTimes
<1>20. Told(w)
    BY <1>14, <1>17, <1>18 DEF PlayInv, Told, ToldPaused, ToldPlaying, ElementAndTimes
<1>21. Steady(w) /\ Knows(w)
    BY <1>14, <1>17, <1>18
       DEF PlayInv, Steady, isUnplayed, Knows, Near, ElementAndTimes
<1> QED
    BY <1>1, <1>14, <1>17, <1>18, <1>19, <1>20, <1>21 DEF PlayInv, ElementAndTimes

\* A step that makes v of the video, which is still to be played.
LEMMA StaysReady ==
    ASSUME PlaybackInv, phase' = "ready", NEW v, Becomes(v), PlayInv(v),
           Bound(v, onceSpent \/ v.unloadBound), pendingSeek' \in Nat \cup {NoTime}
    PROVE  PlaybackInv'
<1>1. config' = config /\ video' = v /\ onceSpent' = (onceSpent \/ v.unloadBound)
    BY DEF Becomes
<1>2. onceSpent' \in BOOLEAN /\ v \in VideoState /\ config' \in Configs
    BY <1>1 DEF PlayInv, VideoState, PlaybackInv
<1>3. PlayInv(video)'
    BY <1>1 DEF PlayInv, LastTells, CuedUnplayed, isUnplayed, isYoutubeType, Told, ToldPaused,
                ToldPlaying, Steady, Knows, Near
<1>4. Bound(video, onceSpent)'
    BY <1>1 DEF Bound
<1>5. LeavingSaves'
    BY DEF LeavingSaves
<1> QED
    BY <1>1, <1>2, <1>3, <1>4, <1>5 DEF PlaybackInv

\* So it is when the video has not begun to play in the step.
LEMMA StaysBound ==
    ASSUME PlaybackInv, phase = "ready", phase' = "ready", NEW v, Becomes(v), PlayInv(v),
           v.played = video.played, v.unloadBound = video.unloadBound,
           pendingSeek' \in Nat \cup {NoTime}
    PROVE  PlaybackInv'
<1>1. Bound(v, onceSpent \/ v.unloadBound)
    BY DEF PlaybackInv, Bound
<1> QED
    BY <1>1, StaysReady

\* Nothing happens to what the invariant reads.
LEMMA StaysSame ==
    ASSUME PlaybackInv, phase = "ready", phase' = "ready", NEW v \in VideoState, Becomes(v),
           SameButComplete(video, v), pendingSeek' \in Nat \cup {NoTime}
    PROVE  PlaybackInv'
<1>1. PlayInv(v)
    BY SameKeeps DEF PlaybackInv
<1> QED
    BY <1>1, StaysBound DEF SameButComplete

LEMMA Initially == Init => PlaybackInv
<1> SUFFICES ASSUME Init PROVE PlaybackInv
    OBVIOUS
<1>1. config \in Configs /\ phase = "loading" /\ video = Fresh
      /\ pendingSeek = NoTime /\ onceSpent = FALSE
    BY DEF Init, Fresh
<1>2. Fresh \in VideoState
    <2>1. config.startTime \in Nat /\ Duration \in Nat \ {0} /\ <<>> \in Seq(MediaEvents)
        BY <1>1, PlaybackAssumption
    <2> QED
        BY <2>1 DEF Fresh, VideoState, Times, PlayerStates
<1>3. LeavingSaves
    BY <1>1 DEF LeavingSaves
<1> QED
    BY <1>1, <1>2, <1>3 DEF PlaybackInv

\* The media element acts by itself.
LEMMA MediaKeeps ==
    ASSUME PlaybackInv, MediaStarts \/ MediaStalls \/ MediaAdvances
    PROVE  PlaybackInv'
<1> USE DEF Ready
<1>1. /\ phase = "ready" /\ phase' = "ready" /\ pendingSeek' \in Nat \cup {NoTime}
      /\ PlayInv(video) /\ video \in VideoState /\ video.events \in Seq(MediaEvents)
      /\ video.pos \in Nat /\ video.currentTime \in Nat /\ Duration \in Nat \ {0}
      /\ video.pos <= Duration
    BY PlaybackAssumption
       DEF PlaybackInv, PlayInv, VideoState, MediaStarts, MediaStalls, MediaAdvances, Times
<1>2. CASE MediaStarts
    <2> DEFINE t == video.events \o <<"PLAYING">>
               w == [video EXCEPT !.stalled = FALSE, !.events = t]
    <2>1. Becomes(w) /\ video.stalled /\ ~video.paused
        <3>1. video.stalled /\ ~video.paused
            BY <1>1, <1>2 DEF MediaStarts, PlayInv, Steady
        <3>2. Posting([video EXCEPT !.stalled = FALSE], <<"PLAYING">>) = w
            BY <1>1 DEF Posting, VideoState
        <3> QED
            BY <1>2, <3>1, <3>2 DEF MediaStarts
    <2>2. /\ t \in Seq(MediaEvents) /\ t # <<>> /\ LastOf(t) = "PLAYING"
          /\ \A x : Has(t, x) <=> Has(video.events, x) \/ x = "PLAYING"
          /\ CuedIsFirst(video.events) => CuedIsFirst(t)
        BY <1>1, OnePosted DEF MediaEvents
    <2> HIDE DEF t
    <2>3. w \in VideoState /\ w.events = t /\ w.stalled = FALSE
        BY <1>1, <2>2 DEF VideoState
    <2>4. /\ w.paused = video.paused /\ w.pos = video.pos /\ w.spinner = video.spinner
          /\ ApartFromElement(video, w)
        BY <1>1 DEF VideoState, ApartFromElement
    <2> HIDE DEF w
    <2>5. LastTells(w) /\ CuedUnplayed(w)
        BY <1>1, <2>1, <2>2, <2>3, <2>4
           DEF PlayInv, LastTells, CuedUnplayed, isUnplayed, ApartFromElement
    <2>6. Told(w) /\ Steady(w)
        BY <1>1, <2>2, <2>3, <2>4 DEF PlayInv, Told, Steady, isUnplayed, ApartFromElement
    <2>7. Knows(w)
        BY <1>1, <2>2, <2>3, <2>4 DEF PlayInv, Knows, Near, ApartFromElement
    <2>8. PlayInv(w)
        BY <2>3, <2>5, <2>6, <2>7 DEF PlayInv
    <2> QED
        BY <1>1, <2>1, <2>4, <2>8, StaysBound DEF ApartFromElement
<1>3. CASE MediaStalls
    <2>1. ~video.paused /\ ~video.stalled
        BY <1>3 DEF MediaStalls
    <2>2. PICK t \in Seq(MediaEvents) :
             /\ Becomes([video EXCEPT !.stalled = TRUE, !.events = t])
             /\ t = video.events \/ (t # <<>> /\ LastOf(t) = "BUFFERING")
             /\ \A x : Has(t, x) => Has(video.events, x) \/ x = "BUFFERING"
             /\ \A x : Has(video.events, x) => Has(t, x)
             /\ CuedIsFirst(video.events) => CuedIsFirst(t)
        <3>1. CASE isYoutubeType
            <4> DEFINE t == video.events \o <<"BUFFERING">>
            <4>1. /\ t \in Seq(MediaEvents) /\ t # <<>> /\ LastOf(t) = "BUFFERING"
                  /\ \A x : Has(t, x) <=> Has(video.events, x) \/ x = "BUFFERING"
                  /\ CuedIsFirst(video.events) => CuedIsFirst(t)
                BY <1>1, OnePosted DEF MediaEvents
            <4>2. Posting([video EXCEPT !.stalled = TRUE], <<"BUFFERING">>)
                    = [video EXCEPT !.stalled = TRUE, !.events = t]
                BY <1>1 DEF Posting, VideoState
            <4>3. Becomes([video EXCEPT !.stalled = TRUE, !.events = t])
                BY <1>3, <3>1, <4>2 DEF MediaStalls
            <4> HIDE DEF t
            <4> QED
                BY <4>1, <4>3
        <3>2. CASE ~isYoutubeType
            <4>1. video.events \o <<>> = video.events
                BY <1>1
            <4>2. Posting([video EXCEPT !.stalled = TRUE], <<>>)
                    = [video EXCEPT !.stalled = TRUE, !.events = video.events]
                BY <1>1, <4>1 DEF Posting, VideoState
            <4>3. Becomes([video EXCEPT !.stalled = TRUE, !.events = video.events])
                BY <1>3, <3>2, <4>2 DEF MediaStalls
            <4> QED
                BY <1>1, <4>3
        <3> QED
            BY <3>1, <3>2
    <2> DEFINE w == [video EXCEPT !.stalled = TRUE, !.events = t]
    <2>3. w \in VideoState /\ w.events = t /\ w.stalled = TRUE
        BY <1>1 DEF VideoState
    <2>4. /\ w.paused = video.paused /\ w.pos = video.pos /\ w.spinner = video.spinner
          /\ ApartFromElement(video, w)
        BY <1>1 DEF VideoState, ApartFromElement
    <2>5. Becomes(w)
        BY <2>2
    <2> HIDE DEF w
    <2>6. LastTells(w)
        BY <1>1, <2>1, <2>2, <2>3, <2>4 DEF PlayInv, LastTells
    <2>7. CuedUnplayed(w)
        BY <1>1, <2>2, <2>3, <2>4 DEF PlayInv, CuedUnplayed, isUnplayed, ApartFromElement
    <2>8. Told(w) /\ Steady(w)
        BY <1>1, <2>1, <2>2, <2>3, <2>4
           DEF PlayInv, Told, Steady, isUnplayed, ApartFromElement
    <2>9. Knows(w)
        BY <1>1, <2>2, <2>3, <2>4 DEF PlayInv, Knows, Near, ApartFromElement
    <2>10. PlayInv(w)
        BY <2>3, <2>6, <2>7, <2>8, <2>9 DEF PlayInv
    <2> QED
        BY <1>1, <2>4, <2>5, <2>10, StaysBound DEF ApartFromElement
<1>4. CASE MediaAdvances
    <2>1. /\ ~video.paused /\ ~video.stalled
          /\ video.updateInterval => video.currentTime = video.pos
        BY <1>4 DEF MediaAdvances
    <2>2. Has(video.events, "PLAYING") \/ video.updateInterval
        BY <1>1, <2>1, RunningIsTold DEF ToldPlaying
    <2>3. CASE video.pos < Duration
        <3> DEFINE w == [video EXCEPT !.pos = video.pos + 1]
        <3>1. Becomes(w) /\ video.pos + 1 \in Times
            BY <1>1, <1>4, <2>3 DEF MediaAdvances, Times
        <3>2. w \in VideoState /\ w.pos = video.pos + 1
            BY <1>1, <3>1 DEF VideoState
        <3>3. /\ w.events = video.events /\ w.paused = video.paused
              /\ w.stalled = video.stalled /\ w.spinner = video.spinner
              /\ w.overlay = video.overlay /\ ApartFromElement(video, w)
            BY <1>1 DEF VideoState, ApartFromElement
        <3> HIDE DEF w
        <3>4. LastTells(w) /\ CuedUnplayed(w)
            BY <1>1, <3>3 DEF PlayInv, LastTells, CuedUnplayed, isUnplayed, ApartFromElement
        <3>5. Told(w) /\ Steady(w)
            BY <1>1, <3>3 DEF PlayInv, Told, ToldPaused, ToldPlaying, Steady, isUnplayed,
                              ApartFromElement
        <3>6. Knows(w)
            <4>1. CASE video.updateInterval
                BY <1>1, <2>1, <3>2, <3>3, <4>1 DEF Knows, Near, ApartFromElement
            <4>2. CASE ~video.updateInterval
                BY <2>2, <3>3, <4>2 DEF Knows, ApartFromElement
            <4> QED
                BY <4>1, <4>2
        <3>7. PlayInv(w)
            BY <3>2, <3>4, <3>5, <3>6 DEF PlayInv
        <3> QED
            BY <1>1, <3>1, <3>3, <3>7, StaysBound DEF ApartFromElement
    <2>4. CASE ~(video.pos < Duration)
        <3>1. PICK t \in Seq(MediaEvents) :
                 /\ Becomes([video EXCEPT !.paused = TRUE, !.events = t])
                 /\ t # <<>> /\ LastOf(t) = "ENDED"
                 /\ \A x : Has(t, x) => Has(video.events, x) \/ x \in {"PAUSED", "ENDED"}
                 /\ \A x : Has(video.events, x) => Has(t, x)
                 /\ CuedIsFirst(video.events) => CuedIsFirst(t)
            <4>1. CASE isYoutubeType
                <5> DEFINE t == video.events \o <<"ENDED">>
                <5>1. /\ t \in Seq(MediaEvents) /\ t # <<>> /\ LastOf(t) = "ENDED"
                      /\ \A x : Has(t, x) <=> Has(video.events, x) \/ x = "ENDED"
                      /\ CuedIsFirst(video.events) => CuedIsFirst(t)
                    BY <1>1, OnePosted DEF MediaEvents
                <5>2. Posting([video EXCEPT !.paused = TRUE], <<"ENDED">>)
                        = [video EXCEPT !.paused = TRUE, !.events = t]
                    BY <1>1 DEF Posting, VideoState
                <5>3. Becomes([video EXCEPT !.paused = TRUE, !.events = t])
                    BY <1>4, <2>4, <4>1, <5>2 DEF MediaAdvances
                <5> HIDE DEF t
                <5> QED
                    BY <5>1, <5>3
            <4>2. CASE ~isYoutubeType
                <5> DEFINE r == video.events \o <<"PAUSED">>
                           t == r \o <<"ENDED">>
                <5>1. /\ r \in Seq(MediaEvents)
                      /\ \A x : Has(r, x) <=> Has(video.events, x) \/ x = "PAUSED"
                      /\ CuedIsFirst(video.events) => CuedIsFirst(r)
                    BY <1>1, OnePosted DEF MediaEvents
                <5>2. t = video.events \o <<"PAUSED", "ENDED">>
                    <6>1. "PAUSED" \in MediaEvents /\ "ENDED" \in MediaEvents
                        BY DEF MediaEvents
                    <6> QED
                        BY <1>1, <6>1, TwoPosted
                <5> HIDE DEF r
                <5>3. /\ t \in Seq(MediaEvents) /\ t # <<>> /\ LastOf(t) = "ENDED"
                      /\ \A x : Has(t, x) <=> Has(r, x) \/ x = "ENDED"
                      /\ CuedIsFirst(r) => CuedIsFirst(t)
                    BY <5>1, OnePosted DEF MediaEvents
                <5>4. Posting([video EXCEPT !.paused = TRUE], <<"PAUSED", "ENDED">>)
                        = [video EXCEPT !.paused = TRUE, !.events = t]
                    BY <1>1, <5>2 DEF Posting, VideoState
                <5>5. Becomes([video EXCEPT !.paused = TRUE, !.events = t])
                    BY <1>4, <2>4, <4>2, <5>4 DEF MediaAdvances
                <5> HIDE DEF t
                <5> QED
                    BY <5>1, <5>3, <5>5
            <4> QED
                BY <4>1, <4>2
        <3> DEFINE w == [video EXCEPT !.paused = TRUE, !.events = t]
        <3>2. w \in VideoState /\ w.events = t /\ w.paused = TRUE
            BY <1>1 DEF VideoState
        <3>3. /\ w.stalled = video.stalled /\ w.pos = video.pos /\ w.spinner = video.spinner
              /\ ApartFromElement(video, w)
            BY <1>1 DEF VideoState, ApartFromElement
        <3>4. Becomes(w)
            BY <3>1
        <3> HIDE DEF w
        <3>5. LastTells(w)
            BY <3>1, <3>2 DEF LastTells
        <3>6. CuedUnplayed(w)
            BY <1>1, <3>1, <3>2, <3>3
               DEF PlayInv, CuedUnplayed, isUnplayed, ApartFromElement
        <3>7. Told(w) /\ Steady(w)
            BY <1>1, <2>1, <3>1, <3>2, <3>3
               DEF PlayInv, Told, Steady, isUnplayed, ApartFromElement
        <3>8. Knows(w)
            BY <1>1, <3>1, <3>2, <3>3 DEF PlayInv, Knows, Near, ApartFromElement
        <3>9. PlayInv(w)
            BY <3>2, <3>5, <3>6, <3>7, <3>8 DEF PlayInv
        <3> QED
            BY <1>1, <3>3, <3>4, <3>9, StaysBound DEF ApartFromElement
    <2> QED
        BY <2>3, <2>4
<1> QED
    BY <1>2, <1>3, <1>4

\* The learner acts, or a timer fires.
LEMMA PageKeeps ==
    ASSUME PlaybackInv,
           Learner \/ SeekIsDue \/ SliderUnfreezes \/ UpdateIsDue \/ PostFails
    PROVE  PlaybackInv'
<1> USE DEF Ready
<1>1. config \in Configs /\ pendingSeek \in Nat \cup {NoTime} /\ onceSpent \in BOOLEAN
    BY DEF PlaybackInv
<1>2. ASSUME phase = "ready"
      PROVE  PlayInv(video) /\ video \in VideoState
    BY <1>2 DEF PlaybackInv, PlayInv
<1>3. CASE TogglePlayback
    <2>1. phase = "ready" /\ phase' = "ready" /\ pendingSeek' = pendingSeek
          /\ Becomes(togglePlayback(video))
        BY <1>3 DEF TogglePlayback
    <2>2. CASE isPlaying(video)
        <3>1. Clicked(video, video, "PAUSED")
            BY <1>2, <2>1 DEF Clicked
        <3>2. togglePlayback(video) = pauseVideo(video)
            BY <2>2 DEF togglePlayback, pause
        <3> QED
            BY <1>1, <1>2, <2>1, <2>2, <3>1, <3>2, PauseKeeps, StaysBound
    <2>3. CASE ~isPlaying(video)
        <3>1. Clicked(video, video, "PLAYING")
            BY <1>2, <2>1 DEF Clicked
        <3>2. togglePlayback(video) = playVideo(video)
            BY <2>3 DEF togglePlayback, play
        <3> QED
            BY <1>1, <1>2, <2>1, <2>3, <3>1, <3>2, PlayKeeps, StaysBound
    <2> QED
        BY <2>2, <2>3
<1>4. CASE ClickVideo
    <2>1. phase = "ready" /\ phase' = "ready" /\ pendingSeek' = pendingSeek /\ ~isYoutubeType
        BY <1>4 DEF ClickVideo
    <2>2. CASE isPlaying(video)
        <3> DEFINE u == [video EXCEPT !.playerState = "PAUSED"]
        <3>1. Clicked(video, u, "PAUSED")
            BY <1>2, <2>1 DEF Clicked, VideoState, PlayerStates
        <3>2. Becomes(pauseVideo(u))
            BY <1>4, <2>2 DEF ClickVideo
        <3> HIDE DEF u
        <3> QED
            BY <1>1, <1>2, <2>1, <2>2, <3>1, <3>2, PauseKeeps, StaysBound
    <2>3. CASE ~isPlaying(video)
        <3> DEFINE u == [video EXCEPT !.playerState = "PLAYING"]
        <3>1. Clicked(video, u, "PLAYING")
            BY <1>2, <2>1 DEF Clicked, VideoState, PlayerStates
        <3>2. Becomes(playVideo(u))
            BY <1>4, <2>3 DEF ClickVideo
        <3> HIDE DEF u
        <3> QED
            BY <1>1, <1>2, <2>1, <2>3, <3>1, <3>2, PlayKeeps, StaysBound
    <2> QED
        BY <2>2, <2>3
<1>5. CASE onStop
    <2> DEFINE w == [video EXCEPT !.frozen = TRUE, !.unfreezing = TRUE]
    <2>1. /\ phase = "ready" /\ phase' = "ready" /\ Becomes(w)
          /\ pendingSeek' = IF video.lastSeekValue # video.shown THEN video.shown ELSE pendingSeek
        BY <1>5 DEF onStop
    <2>2. video.shown \in Nat
        BY <1>2, <2>1 DEF VideoState
    <2>3. w \in VideoState /\ SameButComplete(video, w)
        BY <1>2, <2>1 DEF VideoState, SameButComplete
    <2> HIDE DEF w
    <2> QED
        BY <1>1, <2>1, <2>2, <2>3, StaysSame
<1>6. ASSUME NEW time \in SlideTo, onSlide(time)
      PROVE  PlaybackInv'
    <2> DEFINE w == [video EXCEPT !.frozen = TRUE, !.shown = time, !.lastSeekValue = time]
    <2>1. phase = "ready" /\ phase' = "ready" /\ Becomes(w) /\ pendingSeek' = time
        BY <1>6 DEF onSlide
    <2>2. time \in Times /\ time \in Nat
        BY PlaybackAssumption DEF Times
    <2>3. w \in VideoState /\ SameButComplete(video, w)
        BY <1>2, <2>1, <2>2 DEF VideoState, SameButComplete
    <2> HIDE DEF w
    <2> QED
        BY <2>1, <2>2, <2>3, StaysSame
<1>7. ASSUME NEW time \in CaptionAt, CaptionSeek(time)
      PROVE  PlaybackInv'
    <2>1. /\ phase = "ready" /\ phase' = "ready" /\ config' = config /\ video' = video
          /\ onceSpent' = onceSpent /\ pendingSeek' \in Nat
        BY <1>7, PlaybackAssumption DEF CaptionSeek
    <2>2. PlayInv(video)'
        BY <1>2, <2>1 DEF PlayInv, LastTells, CuedUnplayed, isUnplayed, isYoutubeType, Told,
                          ToldPaused, ToldPlaying, Steady, Knows, Near
    <2>3. Bound(video, onceSpent)'
        BY <2>1 DEF PlaybackInv, Bound
    <2>4. LeavingSaves'
        BY <2>1 DEF LeavingSaves
    <2> QED
        BY <1>1, <1>2, <2>1, <2>2, <2>3, <2>4 DEF PlaybackInv
<1>8. CASE SeekIsDue
    <2>1. /\ phase = "ready" /\ phase' = "ready" /\ pendingSeek' = NoTime
          /\ Becomes(onSeek(video, pendingSeek)) /\ pendingSeek \in Nat
        BY <1>1, <1>8 DEF SeekIsDue
    <2> QED
        BY <1>1, <1>2, <2>1, OnSeekKeeps, StaysBound
<1>9. CASE SliderUnfreezes
    <2> DEFINE w == [video EXCEPT !.frozen = FALSE, !.unfreezing = FALSE]
    <2>1. phase = "ready" /\ phase' = "ready" /\ Becomes(w) /\ pendingSeek' = pendingSeek
        BY <1>9 DEF SliderUnfreezes
    <2>2. w \in VideoState
        BY <1>2, <2>1 DEF VideoState
    <2>3. SameButComplete(video, w)
        BY <1>2, <2>1 DEF VideoState, SameButComplete
    <2> HIDE DEF w
    <2> QED
        BY <1>1, <2>1, <2>2, <2>3, StaysSame
<1>10. CASE UpdateIsDue
    <2>1. /\ phase = "ready" /\ phase' = "ready" /\ Becomes(update(video))
          /\ pendingSeek' = pendingSeek /\ video.updateInterval
        BY <1>10 DEF UpdateIsDue
    <2> QED
        BY <1>1, <1>2, <2>1, UpdateKeepsInv, StaysBound
<1>11. CASE PostFails
    <2> DEFINE w == [video EXCEPT !.postFailed = TRUE]
    <2>1. phase = "ready" /\ phase' = "ready" /\ Becomes(w) /\ pendingSeek' = pendingSeek
        BY <1>11 DEF PostFails
    <2>2. w \in VideoState /\ SameButComplete(video, w)
        BY <1>2, <2>1 DEF VideoState, SameButComplete
    <2> HIDE DEF w
    <2> QED
        BY <1>1, <2>1, <2>2, StaysSame
<1> QED
    BY <1>3, <1>4, <1>5, <1>6, <1>7, <1>8, <1>9, <1>10, <1>11 DEF Learner

\* The media element is ready, or an event of it is heard.
LEMMA EventsKeep ==
    ASSUME PlaybackInv, MetadataLoads \/ HandleEvent
    PROVE  PlaybackInv'
<1>1. config \in Configs /\ pendingSeek \in Nat \cup {NoTime} /\ onceSpent \in BOOLEAN
    BY DEF PlaybackInv
<1>2. CASE MetadataLoads
    <2> DEFINE w == onLoadedMetadata(Fresh)
    <2>1. /\ phase' = "ready" /\ Becomes(w) /\ pendingSeek' = pendingSeek
          /\ ~config.othersOnPage => ~onceSpent
        BY <1>2 DEF MetadataLoads, PlaybackInv
    <2>2. PlayInv(w) /\ w.played = FALSE /\ w.unloadBound = FALSE
        BY <1>1, LoadedMetadataKeeps
    <2> HIDE DEF w
    <2>3. Bound(w, onceSpent \/ w.unloadBound)
        BY <2>1, <2>2 DEF Bound
    <2> QED
        BY <1>1, <2>1, <2>2, <2>3, StaysReady
<1>3. CASE HandleEvent
    <2> DEFINE v == [video EXCEPT !.events = Tail(@)]
               e == Head(video.events)
               w == onStateChange(v, e)
    <2>1. /\ phase = "ready" /\ phase' = "ready" /\ Becomes(w) /\ pendingSeek' = pendingSeek
          /\ PlayInv(video) /\ video.events # <<>> /\ Bound(video, onceSpent)
        BY <1>3 DEF HandleEvent, Ready, PlaybackInv
    <2>2. Heard(video, v, e) /\ e \in MediaEvents
        BY <2>1, FirstIsHeard
    <2> HIDE DEF v, e
    <2>3. v.played = video.played /\ v.unloadBound = video.unloadBound
        BY <2>2 DEF Heard, ApartFromElement
    <2>4. CASE e = "PLAYING"
        <3>1. PlayInv(w) /\ w.played /\ w.unloadBound = (v.unloadBound \/ ~onceSpent)
            BY <1>1, <2>1, <2>2, <2>4, PlayingKeeps
        <3> HIDE DEF w
        <3>2. Bound(w, onceSpent \/ w.unloadBound)
            BY <1>1, <2>1, <2>3, <3>1 DEF Bound
        <3> QED
            BY <1>1, <2>1, <3>1, <3>2, StaysReady
    <2>5. CASE e # "PLAYING"
        <3>1. PlayInv(w) /\ w.played = v.played /\ w.unloadBound = v.unloadBound
            <4>1. CASE e = "BUFFERING"
                BY <2>1, <2>2, <4>1, BufferingKeeps
            <4>2. CASE e = "PAUSED"
                BY <2>1, <2>2, <4>2, PausedKeeps
            <4>3. CASE e = "ENDED"
                BY <1>1, <2>1, <2>2, <4>3, EndedKeeps
            <4>4. CASE e = "CUED"
                BY <2>1, <2>2, <4>4, CuedKeeps
            <4> QED
                BY <2>2, <2>5, <4>1, <4>2, <4>3, <4>4 DEF MediaEvents
        <3> HIDE DEF w
        <3> QED
            BY <1>1, <2>1, <2>3, <3>1, StaysBound
    <2> QED
        BY <2>4, <2>5
<1> QED
    BY <1>2, <1>3

\* The position is saved when the video is left.
LEMMA LeavingKeeps ==
    ASSUME PlaybackInv, destroy \/ onUnload
    PROVE  PlaybackInv'
<1>1. /\ phase = "ready" /\ PlayInv(video) /\ video \in VideoState
      /\ Bound(video, onceSpent) /\ config \in Configs
      /\ onceSpent \in BOOLEAN
    BY DEF PlaybackInv, PlayInv, destroy, onUnload, Ready
<1>2. /\ config' = config /\ phase' \in {"destroyed", "left"} /\ pendingSeek' = pendingSeek
      /\ video' \in VideoState /\ onceSpent' \in BOOLEAN
      /\ video'.played = video.played /\ video'.playSeek = video.playSeek
      /\ video'.events = video.events /\ video'.pos = video.pos
      /\ phase' = "destroyed" \/ video.unloadBound => video'.lastSave = video.currentTime
    <2> DEFINE s == saveState(video)
    <2>1. PICK t \in Times \cup {NoTime} : t = video.currentTime
        BY <1>1 DEF VideoState
    <2>2. s = [video EXCEPT !.lastSave = t]
        BY <2>1 DEF saveState
    <2> HIDE DEF s
    <2>3. /\ s \in VideoState /\ s.lastSave = t /\ s.played = video.played
          /\ s.playSeek = video.playSeek /\ s.events = video.events /\ s.pos = video.pos
        BY <1>1, <2>2 DEF VideoState
    <2>4. CASE destroy
        <3> DEFINE w == [stopTimer(s) EXCEPT !.unloadBound = FALSE]
        <3>1. Becomes(w) /\ phase' = "destroyed" /\ pendingSeek' = pendingSeek
            BY <2>4 DEF destroy, s
        <3>2. w = [s EXCEPT !.updateInterval = FALSE, !.unloadBound = FALSE]
            BY <2>3 DEF stopTimer, VideoState
        <3> HIDE DEF w
        <3>3. /\ w \in VideoState /\ w.lastSave = s.lastSave /\ w.played = s.played
              /\ w.playSeek = s.playSeek /\ w.events = s.events /\ w.pos = s.pos
              /\ w.unloadBound = FALSE
            BY <2>3, <3>2 DEF VideoState
        <3> QED
            BY <1>1, <2>1, <2>3, <3>1, <3>3 DEF Becomes
    <2>5. CASE onUnload
        <3>1. /\ Becomes(IF video.unloadBound THEN s ELSE video)
              /\ phase' = "left" /\ pendingSeek' = pendingSeek
            BY <2>5 DEF onUnload, s
        <3>2. s.unloadBound \in BOOLEAN /\ video.unloadBound \in BOOLEAN
            BY <1>1, <2>3 DEF VideoState
        <3> QED
            BY <1>1, <2>1, <2>3, <3>1, <3>2 DEF Becomes
    <2> QED
        BY <2>4, <2>5
<1>3. LeavingSaves'
    <2> SUFFICES ASSUME /\ video.events = <<>> /\ video.played /\ video.playSeek = NoTime
                        /\ phase' = "destroyed" \/ ~config.othersOnPage
                 PROVE  /\ video'.lastSave # NoTime
                        /\ \/ video.pos - video'.lastSave \in {-1, 0, 1}
                           \/ video'.lastSave >= Duration - 1 /\ video.pos = 0
        BY <1>2 DEF LeavingSaves, Quiet
    <2>1. video'.lastSave = video.currentTime
        BY <1>1, <1>2 DEF Bound
    <2>2. Near(video)
        <3>1. ~Has(video.events, "PLAYING")
            BY <1>1, LastIsOne DEF VideoState
        <3> QED
            BY <1>1, <3>1 DEF PlayInv, Knows
    <2>3. video.currentTime # NoTime
        BY <1>1, PlaybackAssumption DEF VideoState, Times, NoTime
    <2> QED
        BY <2>1, <2>2, <2>3 DEF Near
<1> QED
    BY <1>1, <1>2, <1>3 DEF PlaybackInv

\* What the invariant reads, apart from the listener that saves.
ElementAndButton(v, w) ==
    /\ w.paused = v.paused /\ w.stalled = v.stalled /\ w.pos = v.pos /\ w.events = v.events
    /\ w.playerState = v.playerState /\ w.currentTime = v.currentTime
    /\ w.updateInterval = v.updateInterval /\ w.played = v.played
    /\ w.playSeek = v.playSeek /\ w.button = v.button
    /\ w.overlay = v.overlay /\ w.spinner = v.spinner /\ w.logged = v.logged
    /\ w.emitPlayVideoEvent = v.emitPlayVideoEvent /\ w.isComplete = v.isComplete

\* Another video of the page plays or goes.
LEMMA OthersKeep ==
    ASSUME PlaybackInv, OtherVideoPlays \/ OtherVideoDestroyed
    PROVE  PlaybackInv'
<1>1. /\ config.othersOnPage /\ config' = config /\ phase' = phase
      /\ pendingSeek' = pendingSeek /\ onceSpent' \in BOOLEAN
      /\ video' = video \/ video' = [video EXCEPT !.unloadBound = FALSE]
      /\ video \in VideoState
    BY DEF PlaybackInv, OtherVideoPlays, OtherVideoDestroyed
<1>2. /\ video' \in VideoState /\ video'.lastSave = video.lastSave
      /\ ElementAndButton(video, video')
    <2>1. CASE video' = video
        BY <1>1, <2>1 DEF ElementAndButton
    <2>2. ASSUME NEW w, w = [video EXCEPT !.unloadBound = FALSE]
          PROVE  w \in VideoState /\ w.lastSave = video.lastSave /\ ElementAndButton(video, w)
        BY <1>1, <2>2 DEF VideoState, ElementAndButton
    <2> QED
        BY <1>1, <2>1, <2>2
<1>3. phase = "loading" => video' = Fresh'
    <2> SUFFICES ASSUME phase = "loading" PROVE video' = Fresh'
        OBVIOUS
    <2>1. video = Fresh /\ Fresh' = Fresh
        BY <1>1 DEF PlaybackInv, Fresh
    <2>2. [video EXCEPT !.unloadBound = FALSE] = video
        <3>1. video.unloadBound = FALSE
            BY <2>1 DEF Fresh
        <3> QED
            BY <1>1, <3>1 DEF VideoState
    <2> QED
        BY <1>1, <2>1, <2>2
<1>4. phase = "ready" => PlayInv(video)'
    BY <1>1, <1>2 DEF PlaybackInv, PlayInv, LastTells, CuedUnplayed, isUnplayed, isYoutubeType,
                      Told, ToldPaused, ToldPlaying, Steady, Knows, Near, ElementAndButton
<1>5. Bound(video, onceSpent)'
    BY <1>1 DEF Bound
<1>6. LeavingSaves'
    BY <1>1, <1>2 DEF PlaybackInv, LeavingSaves, Quiet, ElementAndButton
<1> QED
    BY <1>1, <1>2, <1>3, <1>4, <1>5, <1>6 DEF PlaybackInv

LEMMA Inductive == PlaybackInv /\ [Next]_vars => PlaybackInv'
<1> SUFFICES ASSUME PlaybackInv, [Next]_vars PROVE PlaybackInv'
    OBVIOUS
<1>1. CASE Next
    BY <1>1, EventsKeep, PageKeeps, MediaKeeps, LeavingKeeps, OthersKeep DEF Next
<1>2. CASE UNCHANGED vars
    BY <1>2 DEF vars, PlaybackInv, LeavingSaves, Quiet, Bound, Fresh, PlayInv, LastTells,
                CuedUnplayed, isUnplayed, isYoutubeType, Told, ToldPaused, ToldPlaying, Steady,
                Knows, Near
<1> QED
    BY <1>1, <1>2

LEMMA InvIsType == PlaybackInv => TypeOK
<1> SUFFICES ASSUME PlaybackInv PROVE TypeOK
    OBVIOUS
<1>1. video \in VideoState
    BY DEF PlaybackInv
<1>2. video.events \in Seq(PlayerStates)
    <2>1. video.events \in Seq(MediaEvents) /\ MediaEvents \subseteq PlayerStates
        BY <1>1 DEF VideoState, MediaEvents, PlayerStates
    <2> QED
        BY <2>1
<1> QED
    BY <1>1, <1>2 DEF PlaybackInv, TypeOK, VideoState

LEMMA InvIsTold == PlaybackInv => PlaybackIsTold
<1> SUFFICES ASSUME PlaybackInv, Settled
             PROVE  TimerFollowsPlayback /\ ControlsTellTheTruth /\ LogTellsPlayback
    BY InvIsType
       DEF PlaybackIsTold, TimerFollowsPlayback, ControlsTellTheTruth, LogTellsPlayback
<1>1. PlayInv(video) /\ video \in VideoState /\ video.events = <<>> /\ ~video.stalled
    BY DEF PlaybackInv, PlayInv, Settled, Ready, Quiet
<1>2. IF video.paused THEN ToldPaused(video) ELSE ToldPlaying(video)
    BY <1>1 DEF PlayInv, Told
<1>3. ~video.spinner
    <2>1. ~Has(video.events, "PLAYING")
        BY <1>1, LastIsOne DEF VideoState
    <2> QED
        BY <1>1, <2>1 DEF PlayInv, Steady
<1>4. TimerFollowsPlayback
    BY <1>2 DEF TimerFollowsPlayback, ToldPaused, ToldPlaying
<1>5. ControlsTellTheTruth
    BY <1>2, <1>3 DEF ControlsTellTheTruth, ToldPaused, ToldPlaying
<1>6. LogTellsPlayback
    BY <1>2 DEF LogTellsPlayback, ToldPaused, ToldPlaying
<1> QED
    BY <1>4, <1>5, <1>6

LEMMA InvIsProgress == PlaybackInv => ProgressIsKept
BY DEF PlaybackInv, PlayInv, Steady, ProgressIsKept, EndIsReported, Settled, Ready
--------------------------------------------------------------------------------
(***************************************************************************)
(* Whatever the learner clicks, drags or seeks, however late the events of *)
(* the media element come and however many are waiting, once they are all  *)
(* heard the update timer, the play button, the overlay, the spinner and   *)
(* the event log agree with what the video does.                           *)
(***************************************************************************)
THEOREM PlaybackIsAlwaysTold == Spec => []PlaybackIsTold
<1>1. PlaybackInv => PlaybackIsTold
    BY InvIsTold
<1> QED
    BY <1>1, Initially, Inductive, PTL DEF Spec

(***************************************************************************)
(* A video that was played to its end has its completion reported, and the *)
(* position that is saved when it is removed or the page is left is within *)
(* one unit of time of where the video was.                                *)
(***************************************************************************)
THEOREM ProgressIsAlwaysKept == Spec => []ProgressIsKept
<1>1. PlaybackInv => ProgressIsKept
    BY InvIsProgress
<1> QED
    BY <1>1, Initially, Inductive, PTL DEF Spec
================================================================================
