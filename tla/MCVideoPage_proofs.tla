-------------------------- MODULE MCVideoPage_proofs --------------------------
(***************************************************************************)
(* Proofs about the page of a video, for any videos, languages, speeds,    *)
(* qualities and cookies, and any number of steps: how a video comes up,   *)
(* its transcript, its volume, speed, full screen and quality, and the     *)
(* thumbs under a translated transcript.  Each part has an inductive       *)
(* invariant of its own, which the steps of the other parts do not touch.  *)
(***************************************************************************)
EXTENDS MCVideoPage, FiniteSetTheorems, SequenceTheorems, TLAPS

(***************************************************************************)
(* Coming up.  A video that was started waits for YouTube, plays from it,  *)
(* or has fallen back to its HTML5 sources; and has one player in each.    *)
(***************************************************************************)
Stages == {"unseen", "poster", "started", "rejected"}
Types == {"none", "youtube", "html5"}
Both == Append(<<"youtube">>, "html5")
Lists == {<<>>, <<"youtube">>, <<"html5">>, Both}
Scripts == {"none", "loading", "loaded", "failed"}
Tellings == {{}, {TRUE}, {FALSE}}
VideoState ==
    [stage : Stages, videoType : Types, players : Lists, live : BOOLEAN,
     htmlPlayerLoaded : BOOLEAN, youtubeApiAvailable : BOOLEAN, waitsForApi : BOOLEAN,
     testing : BOOLEAN, script : Scripts, metadata : {"none", "asked", "received"},
     told : Tellings, destroyed : BOOLEAN]

Clean(s) ==
    /\ s.videoType = "none" /\ s.players = <<>> /\ ~s.live /\ ~s.htmlPlayerLoaded
    /\ ~s.youtubeApiAvailable /\ ~s.waitsForApi /\ ~s.testing /\ s.script = "none"
    /\ s.told = {} /\ ~s.destroyed
Waiting(s) ==
    /\ s.videoType = "youtube" /\ s.players = <<>> /\ ~s.live /\ ~s.htmlPlayerLoaded
    /\ ~s.youtubeApiAvailable /\ s.waitsForApi /\ ~s.destroyed
OnYoutube(s) ==
    /\ s.videoType = "youtube" /\ ~s.htmlPlayerLoaded /\ s.youtubeApiAvailable /\ ~s.waitsForApi
    /\ s.destroyed => s.players = <<>> /\ ~s.live
    /\ ~s.destroyed => s.players = <<"youtube">> /\ s.live
OnHtml(s) ==
    /\ s.videoType = "html5" /\ s.htmlPlayerLoaded
    /\ s.destroyed => \/ s.players = <<>> /\ ~s.live
                      \/ s.players = <<"html5">> /\ s.live /\ s.script = "failed"
    /\ ~s.destroyed => /\ s.live
                       /\ \/ s.players = <<"html5">> /\ ~s.youtubeApiAvailable
                          \/ /\ s.players = Both /\ s.youtubeApiAvailable
                             /\ s.script = "failed"

\* What a video that was started does; ready: the API of YouTube is there.
Started(s, api) ==
    /\ (Waiting(s) /\ api # "ready") \/ OnYoutube(s) \/ OnHtml(s)
    /\ s.testing => s.told = {}
VideoInv(s, api) ==
    /\ s \in VideoState
    /\ IF s.stage = "started" THEN Started(s, api) ELSE Clean(s)

\* What the handlers leave alone.
Others(s, t) ==
    /\ t.stage = s.stage /\ t.script = s.script /\ (t.testing <=> s.testing) /\ t.told = s.told

\* Members and lists, for the provers.
LEMMA Names ==
    /\ "unseen" \in Stages /\ "poster" \in Stages /\ "started" \in Stages /\ "rejected" \in Stages
    /\ "youtube" \in Types /\ "html5" \in Types
    /\ "loading" \in Scripts /\ "loaded" \in Scripts /\ "failed" \in Scripts
    /\ <<>> \in Lists /\ <<"youtube">> \in Lists /\ <<"html5">> \in Lists
    /\ Both \in Lists
BY DEF Stages, Types, Scripts, Lists
\* What the lists of players become.
LEMMA Appended ==
    /\ Append(<<>>, "youtube") = <<"youtube">> /\ Append(<<>>, "html5") = <<"html5">>
    /\ Both # <<>> /\ Both[1] = "youtube" /\ Both # <<"html5">>
<1>1. Append(<<>>, "youtube") = <<"youtube">> /\ Append(<<>>, "html5") = <<"html5">>
  OBVIOUS
<1>2. Both # <<>> /\ Both[1] = "youtube"
  BY DEF Both
<1>3. Both # <<"html5">>
  <2>1. <<"html5">>[1] # "youtube"
    OBVIOUS
  <2> QED
    BY <1>2, <2>1
<1> QED
  BY <1>1, <1>2, <1>3

\* The API is there: a video that waits plays from YouTube.
LEMMA ApiPlays ==
    ASSUME NEW s \in VideoState, Waiting(s), NEW t, t = Startup!onYTApiReady(s)
    PROVE  t \in VideoState /\ OnYoutube(t) /\ Others(s, t)
<1>1. t = [s EXCEPT !.players = <<"youtube">>, !.live = TRUE, !.youtubeApiAvailable = TRUE,
                    !.waitsForApi = FALSE]
  BY Appended DEF Startup!onYTApiReady, Startup!VideoPlayer, Waiting, VideoState
<1>2. t \in VideoState
  BY <1>1, Names DEF VideoState
<1> QED
  BY <1>1, <1>2 DEF VideoState, Waiting, OnYoutube, Others

\* A fallback is loaded, if the video has one; else the metadata are asked for.
LEMMA FallbackPlays ==
    ASSUME NEW k \in Kinds, NEW s \in VideoState, NEW t, t = Startup!loadHtmlPlayer(k, s),
           NEW players \in Lists, k.html5 => players = Append(s.players, "html5"),
           ~s.htmlPlayerLoaded
    PROVE  /\ t \in VideoState /\ Others(s, t) /\ (t.destroyed <=> s.destroyed)
           /\ (t.youtubeApiAvailable <=> s.youtubeApiAvailable)
           /\ (t.waitsForApi <=> s.waitsForApi)
           /\ k.html5 => /\ t.videoType = "html5" /\ t.htmlPlayerLoaded /\ t.live
                         /\ t.players = players
           /\ ~k.html5 => /\ t.videoType = s.videoType /\ ~t.htmlPlayerLoaded
                          /\ (t.live <=> s.live) /\ t.players = s.players
<1>1. CASE k.html5
  <2>1. t = [s EXCEPT !.videoType = "html5", !.players = players, !.live = TRUE,
                      !.htmlPlayerLoaded = TRUE]
    BY <1>1 DEF Startup!loadHtmlPlayer, Startup!_renderElements, Startup!_prepareHTML5Video,
                Startup!VideoPlayer, VideoState
  <2>2. t \in VideoState
    BY <2>1, Names DEF VideoState
  <2> QED
    BY <1>1, <2>1, <2>2 DEF VideoState, Others
<1>2. CASE ~k.html5
  <2>1. t = [s EXCEPT !.metadata = "asked"]
    BY <1>2 DEF Startup!loadHtmlPlayer, Startup!loadYoutubePlayer
  <2>2. t \in VideoState
    BY <2>1 DEF VideoState
  <2> QED
    BY <1>2, <2>1, <2>2 DEF VideoState, Others
<1> QED
  BY <1>1, <1>2

\* A video is started: it waits for YouTube, plays from it or from its own sources.
LEMMA VideoStarts ==
    ASSUME NEW k \in Kinds, NEW s \in VideoState, Clean(s), NEW t, t = Startup!initialize(k, s)
    PROVE  VideoInv(t, YT) /\ t.stage \in {"started", "rejected"} /\ t.told = {}
<1>1. CASE (k.prioritizeHls \/ ~k.youtube) /\ ~k.html5
  <2>1. t = [s EXCEPT !.stage = "rejected"]
    BY <1>1 DEF Startup!initialize
  <2>2. t \in VideoState
    BY <2>1, Names DEF VideoState
  <2> QED
    BY <2>1, <2>2 DEF VideoState, VideoInv, Clean
<1>2. CASE (k.prioritizeHls \/ ~k.youtube) /\ k.html5
  <2>1. t = [s EXCEPT !.videoType = "html5", !.players = <<"html5">>, !.live = TRUE,
                      !.htmlPlayerLoaded = TRUE, !.stage = "started"]
    BY <1>2, Appended DEF Startup!initialize, Startup!_renderElements, Startup!_prepareHTML5Video,
                          Startup!VideoPlayer, VideoState, Clean
  <2>2. t \in VideoState
    BY <2>1, Names DEF VideoState
  <2> QED
    BY <2>1, <2>2 DEF VideoState, VideoInv, Clean, Started, OnHtml
<1>3. CASE ~(k.prioritizeHls \/ ~k.youtube)
  <2> DEFINE w == [s EXCEPT !.videoType = "youtube", !.youtubeApiAvailable = FALSE,
                            !.waitsForApi = TRUE]
             u == IF YT = "ready" THEN Startup!onYTApiReady(w) ELSE w
  <2>1. t = [u EXCEPT !.stage = "started", !.testing = TRUE, !.script = "loading"]
    <3>1. [[s EXCEPT !.videoType = "youtube"] EXCEPT !.youtubeApiAvailable = FALSE,
                                                    !.waitsForApi = TRUE] = w
      BY DEF VideoState
    <3>2. Startup!_renderElements([s EXCEPT !.videoType = "youtube"]) = u
      <4>1. [s EXCEPT !.videoType = "youtube"].videoType = "youtube"
        BY DEF VideoState
      <4> HIDE DEF w
      <4> QED
        BY <3>1, <4>1 DEF Startup!_renderElements
    <3> HIDE DEF u
    <3> QED
      BY <1>3, <3>2 DEF Startup!initialize
  <2>2. w \in VideoState /\ Waiting(w) /\ w.told = {}
    <3>1. w \in VideoState
      BY Names DEF VideoState
    <3> QED
      BY <3>1 DEF VideoState, Waiting, Clean
  <2> HIDE DEF w
  <2>3. u \in VideoState /\ ((Waiting(u) /\ YT # "ready") \/ OnYoutube(u)) /\ u.told = {}
    <3>1. CASE YT = "ready"
      <4> HIDE DEF u
      <4>1. u = Startup!onYTApiReady(w)
        BY <3>1 DEF u
      <4> QED
        BY <2>2, <4>1, ApiPlays DEF Others
    <3>2. CASE YT # "ready"
      BY <2>2, <3>2
    <3> QED
      BY <3>1, <3>2
  <2> HIDE DEF u
  <2>4. t \in VideoState
    BY <2>1, <2>3, Names DEF VideoState
  <2>5. /\ t.stage = "started" /\ t.told = {} /\ t.videoType = u.videoType /\ t.players = u.players
        /\ (t.live <=> u.live) /\ (t.htmlPlayerLoaded <=> u.htmlPlayerLoaded)
        /\ (t.youtubeApiAvailable <=> u.youtubeApiAvailable)
        /\ (t.waitsForApi <=> u.waitsForApi) /\ (t.destroyed <=> u.destroyed)
    BY <2>1, <2>3 DEF VideoState
  <2> QED
    BY <2>3, <2>4, <2>5 DEF VideoInv, Started, Waiting, OnYoutube
<1> QED
  BY <1>1, <1>2, <1>3

\* What a video does from one step to the next, and what it tells.
Tells(t) == t.told = {t.players # <<>> /\ t.players[1] = "youtube"} \/ t.destroyed
Steps(s, t) ==
    /\ VideoInv(t, YT') /\ (t.stage = s.stage)
    /\ s.players = <<"html5">> => t.players \in {<<"html5">>, <<>>}
    /\ t.told # s.told => Tells(t)

\* The script of the video loads, or it does not.
LEMMA ScriptSteps ==
    ASSUME NEW s, VideoInv(s, YT), s.script = "loading", YT' = "ready" => YT = "ready",
           NEW t, t = Startup!loadYoutubePlayer([s EXCEPT !.script = "loaded"])
    PROVE  Steps(s, t)
<1>1. s \in VideoState /\ s.stage = "started" /\ Started(s, YT)
  BY DEF VideoInv, Clean
<1>2. PICK metadata \in {"none", "asked", "received"} :
          t = [s EXCEPT !.script = "loaded", !.metadata = metadata]
  <2>1. s.metadata \in {"none", "asked", "received"}
    BY <1>1 DEF VideoState
  <2>2. CASE s.htmlPlayerLoaded
    <3>1. t = [s EXCEPT !.script = "loaded", !.metadata = s.metadata]
      BY <1>1, <2>2 DEF Startup!loadYoutubePlayer, VideoState
    <3> QED
      BY <2>1, <3>1
  <2>3. CASE ~s.htmlPlayerLoaded
    <3>1. t = [s EXCEPT !.script = "loaded", !.metadata = "asked"]
      BY <1>1, <2>3 DEF Startup!loadYoutubePlayer, VideoState
    <3> QED
      BY <3>1
  <2> QED
    BY <2>2, <2>3
<1>3. t \in VideoState
  BY <1>1, <1>2, Names DEF VideoState
<1>4. /\ t.stage = s.stage /\ t.players = s.players /\ t.told = s.told /\ (t.testing <=> s.testing)
      /\ t.videoType = s.videoType /\ (t.live <=> s.live)
      /\ (t.htmlPlayerLoaded <=> s.htmlPlayerLoaded)
      /\ (t.youtubeApiAvailable <=> s.youtubeApiAvailable)
      /\ (t.waitsForApi <=> s.waitsForApi) /\ (t.destroyed <=> s.destroyed)
  BY <1>1, <1>2 DEF VideoState
<1>5. Started(t, YT')
  BY <1>1, <1>4 DEF Started, Waiting, OnYoutube, OnHtml
<1> QED
  BY <1>1, <1>3, <1>4, <1>5 DEF Steps, VideoInv

\* It does not load: a video that is not on its own sources yet falls back to them.
LEMMA FailureSteps ==
    ASSUME NEW k \in Kinds, NEW s, VideoInv(s, YT), s.script = "loading", YT' = YT,
           NEW t, t = LET w == [s EXCEPT !.script = "failed"]
                      IN  IF w.htmlPlayerLoaded THEN w ELSE Startup!loadHtmlPlayer(k, w)
    PROVE  Steps(s, t)
<1> DEFINE w == [s EXCEPT !.script = "failed"]
<1>1. s \in VideoState /\ s.stage = "started" /\ Started(s, YT)
  BY DEF VideoInv, Clean
<1>2. w \in VideoState
  BY <1>1, Names DEF VideoState
<1>3. /\ w.stage = s.stage /\ w.players = s.players /\ w.told = s.told /\ (w.testing <=> s.testing)
      /\ w.script = "failed" /\ w.videoType = s.videoType /\ (w.live <=> s.live)
      /\ (w.htmlPlayerLoaded <=> s.htmlPlayerLoaded)
      /\ (w.youtubeApiAvailable <=> s.youtubeApiAvailable)
      /\ (w.waitsForApi <=> s.waitsForApi) /\ (w.destroyed <=> s.destroyed)
  BY <1>1 DEF VideoState
<1>4. t = IF w.htmlPlayerLoaded THEN w ELSE Startup!loadHtmlPlayer(k, w)
  OBVIOUS
<1> HIDE DEF w
<1>5. CASE w.htmlPlayerLoaded
  <2>1. t = w
    BY <1>4, <1>5
  <2>2. Started(t, YT')
    BY <1>1, <1>3, <1>5, <2>1 DEF Started, Waiting, OnYoutube, OnHtml
  <2> QED
    BY <1>1, <1>2, <1>3, <2>1, <2>2 DEF Steps, VideoInv
<1>6. CASE ~w.htmlPlayerLoaded
  <2> DEFINE players == IF w.players = <<>> THEN <<"html5">> ELSE Both
  <2>1. w.players \in {<<>>, <<"youtube">>}
    BY <1>1, <1>3, <1>6 DEF Started, Waiting, OnYoutube, OnHtml
  <2>2. players \in Lists /\ players = Append(w.players, "html5")
    <3>1. <<"youtube">> # <<>>
      OBVIOUS
    <3> QED
      BY <2>1, <3>1, Names, Appended DEF Both
  <2>4. w.players # <<>> => players = Both
    OBVIOUS
  <2>5. w.players = <<>> => players = <<"html5">>
    OBVIOUS
  <2> HIDE DEF players
  <2>6. /\ t \in VideoState /\ Others(w, t) /\ (t.destroyed <=> w.destroyed)
        /\ (t.youtubeApiAvailable <=> w.youtubeApiAvailable)
        /\ (t.waitsForApi <=> w.waitsForApi)
        /\ k.html5 => t.videoType = "html5" /\ t.htmlPlayerLoaded /\ t.live /\ t.players = players
        /\ ~k.html5 => /\ t.videoType = w.videoType /\ ~t.htmlPlayerLoaded
                       /\ (t.live <=> w.live) /\ t.players = w.players
    <3>1. t = Startup!loadHtmlPlayer(k, w)
      BY <1>4, <1>6
    <3>2. k.html5 => players = Append(w.players, "html5")
      BY <2>2
    <3>3. players \in Lists
      BY <2>2
    <3> QED
      BY ONLY <1>2, <1>6, <3>1, <3>2, <3>3, k \in Kinds, FallbackPlays, SMT
  <2>7. /\ s.players # <<"html5">> /\ t.told = s.told /\ t.stage = s.stage
        /\ (t.testing <=> s.testing) /\ t.script = "failed"
    <3>1. <<>> # <<"html5">> /\ <<"youtube">> # <<"html5">>
      OBVIOUS
    <3> QED
      BY <1>3, <2>1, <2>6, <3>1 DEF Others
  <2>8. (Waiting(s) /\ YT # "ready") \/ OnYoutube(s)
    BY <1>1, <1>3, <1>6 DEF Started, OnHtml
  <2>9. Started(t, YT')
    <3>1. CASE k.html5
      <4>1. <<"youtube">> # <<>>
        OBVIOUS
      <4>2. OnHtml(t)
        BY <1>3, <2>4, <2>5, <2>6, <2>7, <2>8, <3>1, <4>1 DEF Waiting, OnYoutube, OnHtml
      <4> QED
        BY <1>1, <2>7, <4>2 DEF Started
    <3>2. CASE ~k.html5
      BY <1>1, <1>3, <2>6, <2>7, <2>8, <3>2 DEF Started, Waiting, OnYoutube
    <3> QED
      BY <3>1, <3>2
  <2> QED
    BY <1>1, <2>6, <2>7, <2>9 DEF Steps, VideoInv
<1> QED
  BY <1>5, <1>6

\* What is told by then: sets of one truth value, for the provers.
LEMMA Told ==
    ASSUME NEW b \in BOOLEAN, NEW c \in BOOLEAN, b <=> c
    PROVE  {} \cup {b} = {c} /\ {} \cup {b} \in Tellings
BY Zenon DEF Tellings

\* The time to wait for YouTube is over.
LEMMA TimeoutSteps ==
    ASSUME NEW k \in Kinds, NEW s, VideoInv(s, YT), s.testing, YT' = YT,
           NEW w, w = LET u == [s EXCEPT !.testing = FALSE]
                      IN  IF u.youtubeApiAvailable \/ u.htmlPlayerLoaded THEN u
                          ELSE Startup!loadHtmlPlayer(k, u),
           NEW t, t = [w EXCEPT !.told = w.told \cup {w.youtubeApiAvailable}]
    PROVE  Steps(s, t)
<1> DEFINE u == [s EXCEPT !.testing = FALSE]
           told == w.told \cup {w.youtubeApiAvailable}
<1>1. s \in VideoState /\ s.stage = "started" /\ Started(s, YT) /\ s.told = {}
  BY DEF VideoInv, Clean, Started
<1>2. u \in VideoState
  BY <1>1 DEF VideoState
<1>3. /\ u.stage = s.stage /\ u.players = s.players /\ u.told = s.told /\ ~u.testing
      /\ u.script = s.script /\ u.videoType = s.videoType /\ (u.live <=> s.live)
      /\ (u.htmlPlayerLoaded <=> s.htmlPlayerLoaded)
      /\ (u.youtubeApiAvailable <=> s.youtubeApiAvailable)
      /\ (u.waitsForApi <=> s.waitsForApi) /\ (u.destroyed <=> s.destroyed)
  BY <1>1 DEF VideoState
<1>4. w = IF u.youtubeApiAvailable \/ u.htmlPlayerLoaded THEN u ELSE Startup!loadHtmlPlayer(k, u)
  OBVIOUS
<1> HIDE DEF u
<1>5. Started(u, YT)
  BY <1>1, <1>3 DEF Started, Waiting, OnYoutube, OnHtml
<1>6. /\ w \in VideoState /\ Started(w, YT) /\ Others(u, w)
      /\ s.players = <<"html5">> => w.players = <<"html5">>
  <2>1. CASE u.youtubeApiAvailable \/ u.htmlPlayerLoaded
    BY <1>2, <1>3, <1>4, <1>5, <2>1 DEF Others
  <2>2. CASE ~(u.youtubeApiAvailable \/ u.htmlPlayerLoaded)
    <3>1. Waiting(u) /\ YT # "ready"
      BY <1>5, <2>2 DEF Started, OnYoutube, OnHtml
    <3>2. w = Startup!loadHtmlPlayer(k, u) /\ u.players = <<>>
      BY <1>4, <2>2, <3>1 DEF Waiting
    <3>3. /\ w \in VideoState /\ Others(u, w) /\ (w.destroyed <=> u.destroyed)
          /\ (w.youtubeApiAvailable <=> u.youtubeApiAvailable)
          /\ (w.waitsForApi <=> u.waitsForApi)
          /\ k.html5 => /\ w.videoType = "html5" /\ w.htmlPlayerLoaded /\ w.live
                        /\ w.players = <<"html5">>
          /\ ~k.html5 => /\ w.videoType = u.videoType /\ ~w.htmlPlayerLoaded
                         /\ (w.live <=> u.live) /\ w.players = u.players
      <4>1. <<"html5">> = Append(u.players, "html5") /\ <<"html5">> \in Lists
        BY <3>2, Appended, Names
      <4> QED
        BY <1>2, <2>2, <3>2, <4>1, FallbackPlays
    <3>4. Waiting(w) \/ OnHtml(w)
      BY <3>1, <3>3 DEF Waiting, OnHtml
    <3>5. s.players # <<"html5">>
      <4>1. <<>> # <<"html5">>
        OBVIOUS
      <4> QED
        BY <1>3, <3>2, <4>1
    <3> QED
      BY <1>5, <3>1, <3>3, <3>4, <3>5 DEF Started, Others
  <2> QED
    BY <2>1, <2>2
<1>7. w.told = {} /\ ~w.testing /\ w.stage = "started"
  BY <1>1, <1>3, <1>6 DEF Others
<1>8. ~w.destroyed => (w.youtubeApiAvailable <=> (w.players # <<>> /\ w.players[1] = "youtube"))
  <2>1. <<"youtube">> # <<>> /\ <<"youtube">>[1] = "youtube" /\ <<"html5">>[1] # "youtube"
    OBVIOUS
  <2> QED
    BY <1>6, <2>1, Appended DEF Started, Waiting, OnYoutube, OnHtml
<1>9. told \in Tellings /\ (~w.destroyed => told = {w.players # <<>> /\ w.players[1] = "youtube"})
  <2> DEFINE b == w.youtubeApiAvailable
             c == w.players # <<>> /\ w.players[1] = "youtube"
  <2>1. b \in BOOLEAN /\ c \in BOOLEAN
    BY <1>6 DEF VideoState
  <2>2. told = {} \cup {b}
    BY <1>7
  <2>3. ~w.destroyed => (b <=> c)
    BY <1>8
  <2> HIDE DEF b, c, told
  <2>4. {} \cup {b} \in Tellings
    BY <2>1, Told
  <2>5. (b <=> c) => {} \cup {b} = {c}
    BY <2>1, Told
  <2>6. ~w.destroyed => told = {c}
    BY <2>2, <2>3, <2>5
  <2> QED
    BY <2>2, <2>4, <2>6 DEF c
<1> HIDE DEF told
<1>10. t \in VideoState
  <2>1. t = [w EXCEPT !.told = told]
    BY DEF told
  <2> QED
    BY <1>6, <1>9, <2>1 DEF VideoState
<1>11. /\ t.stage = w.stage /\ t.players = w.players /\ t.told = told /\ (t.testing <=> w.testing)
       /\ t.script = w.script /\ t.videoType = w.videoType /\ (t.live <=> w.live)
       /\ (t.htmlPlayerLoaded <=> w.htmlPlayerLoaded)
       /\ (t.youtubeApiAvailable <=> w.youtubeApiAvailable)
       /\ (t.waitsForApi <=> w.waitsForApi) /\ (t.destroyed <=> w.destroyed)
  BY <1>6 DEF VideoState, told
<1>12. Started(t, YT)
  BY <1>6, <1>7, <1>11 DEF Started, Waiting, OnYoutube, OnHtml
<1>13. Tells(t)
  BY <1>9, <1>11 DEF Tells
<1> QED
  BY <1>1, <1>6, <1>7, <1>10, <1>11, <1>12, <1>13 DEF Steps, VideoInv

\* Its metadata arrive.
LEMMA MetadataSteps ==
    ASSUME NEW s, VideoInv(s, YT), YT' = YT, NEW t, t = [s EXCEPT !.metadata = "received"]
    PROVE  Steps(s, t)
<1>1. s \in VideoState
  BY DEF VideoInv
<1>2. t \in VideoState
  BY <1>1 DEF VideoState
<1>3. /\ t.stage = s.stage /\ t.players = s.players /\ t.told = s.told /\ (t.testing <=> s.testing)
      /\ t.script = s.script /\ t.videoType = s.videoType /\ (t.live <=> s.live)
      /\ (t.htmlPlayerLoaded <=> s.htmlPlayerLoaded)
      /\ (t.youtubeApiAvailable <=> s.youtubeApiAvailable)
      /\ (t.waitsForApi <=> s.waitsForApi) /\ (t.destroyed <=> s.destroyed)
  BY <1>1 DEF VideoState
<1> QED
  BY <1>2, <1>3 DEF Steps, VideoInv, Clean, Started, Waiting, OnYoutube, OnHtml

\* The API gets ready for the videos that wait for it.
LEMMA ReadySteps ==
    ASSUME NEW s, VideoInv(s, YT),
           NEW t, t = IF s.waitsForApi THEN Startup!onYTApiReady(s) ELSE s
    PROVE  Steps(s, t)
<1>1. s \in VideoState
  BY DEF VideoInv
<1>2. CASE ~s.waitsForApi
  BY <1>2 DEF Steps, VideoInv, Started, Waiting
<1>3. CASE s.waitsForApi /\ Waiting(s)
  <2>1. t \in VideoState /\ OnYoutube(t) /\ Others(s, t)
    BY <1>1, <1>3, ApiPlays
  <2>2. s.players # <<"html5">>
    <3>1. <<>> # <<"html5">>
      OBVIOUS
    <3> QED
      BY <1>3, <3>1 DEF Waiting
  <2>3. s.stage = "started"
    BY <1>3 DEF VideoInv, Clean
  <2> QED
    BY <2>1, <2>2, <2>3 DEF Steps, VideoInv, Started, Others
<1>4. CASE s.waitsForApi /\ ~Waiting(s)
  <2>1. s.stage = "started" /\ OnHtml(s)
    BY <1>4 DEF VideoInv, Clean, Started, OnYoutube
  <2>2. t = [s EXCEPT !.waitsForApi = FALSE]
    BY <1>4, <2>1 DEF Startup!onYTApiReady, OnHtml
  <2>3. t \in VideoState
    BY <1>1, <2>2 DEF VideoState
  <2>4. /\ t.stage = s.stage /\ t.players = s.players /\ t.told = s.told
        /\ (t.testing <=> s.testing) /\ t.script = s.script /\ t.videoType = s.videoType
        /\ (t.live <=> s.live) /\ (t.htmlPlayerLoaded <=> s.htmlPlayerLoaded)
        /\ (t.youtubeApiAvailable <=> s.youtubeApiAvailable) /\ (t.destroyed <=> s.destroyed)
    BY <1>1, <2>2 DEF VideoState
  <2> QED
    BY <2>1, <2>3, <2>4 DEF Steps, VideoInv, Started, OnHtml
<1> QED
  BY <1>2, <1>3, <1>4

\* The learner leaves the sequence.
LEMMA LeavingSteps ==
    ASSUME NEW s, VideoInv(s, YT), YT' = YT,
           NEW t, t = IF s.live THEN Startup!destroy(s) ELSE s
    PROVE  Steps(s, t)
<1>1. s \in VideoState
  BY DEF VideoInv
<1>2. CASE ~s.live
  BY <1>2 DEF Steps
<1>3. CASE s.live
  <2>1. t = [s EXCEPT !.players = <<>>, !.live = FALSE, !.destroyed = TRUE]
    BY <1>3 DEF Startup!destroy
  <2>2. t \in VideoState
    BY <1>1, <2>1, Names DEF VideoState
  <2>3. /\ t.stage = s.stage /\ t.players = <<>> /\ t.told = s.told /\ (t.testing <=> s.testing)
        /\ t.script = s.script /\ t.videoType = s.videoType /\ ~t.live /\ t.destroyed
        /\ (t.htmlPlayerLoaded <=> s.htmlPlayerLoaded)
        /\ (t.youtubeApiAvailable <=> s.youtubeApiAvailable) /\ (t.waitsForApi <=> s.waitsForApi)
    BY <1>1, <2>1 DEF VideoState
  <2>4. s.stage = "started" /\ ~Waiting(s)
    BY <1>3 DEF VideoInv, Clean, Waiting
  <2> QED
    BY <2>2, <2>3, <2>4 DEF Steps, VideoInv, Started, OnYoutube, OnHtml
<1> QED
  BY <1>2, <1>3

(***************************************************************************)
(* The bumper: it is played on the poster, and hands over when it is       *)
(* resolved, once, with what the learner said of it saved.                 *)
(***************************************************************************)
Sayings == {"bumper_last_view_date", "bumper_do_not_show_again"}
BumperState ==
    [stage : {"none", "playing", "resolved"}, isBumperShown : BOOLEAN, doNotShowAgain : BOOLEAN,
     timers : 0 .. MaxTimers, saved : SUBSET Sayings, resolutions : {0, 1}]
BumperInv(b, stage) ==
    /\ b \in BumperState
    /\ b.stage = "none" => b.timers = 0 /\ b.resolutions = 0
    /\ b.stage = "playing" => b.resolutions = 0 /\ stage = "poster"
    /\ b.stage = "resolved" => /\ b.resolutions = 1 /\ stage \in {"started", "rejected"}
                               /\ "bumper_last_view_date" \in b.saved
                               /\ b.doNotShowAgain => "bumper_do_not_show_again" \in b.saved
StartupInv ==
    /\ kind \in [Videos -> Kinds] /\ YT \in {"absent", "loading", "ready"}
    /\ page \in {"shown", "changed"}
    /\ video \in [Videos -> VideoState] /\ bumper \in [Videos -> BumperState]
    /\ \A v \in Videos : VideoInv(video[v], YT) /\ BumperInv(bumper[v], video[v].stage)

\* What the steps do to every video.
AllStep ==
    \A v \in Videos :
        /\ video[v].players = <<"html5">> => video'[v].players \in {<<"html5">>, <<>>}
        /\ video'[v].told # video[v].told => Tells(video'[v])

\* Steps of each of the videos that keep the stages keep the invariant.
LEMMA HandlersKeep ==
    ASSUME StartupInv, YT' \in {"absent", "loading", "ready"}, page' \in {"shown", "changed"},
           kind' = kind, bumper' = bumper, NEW f, video' = [v \in Videos |-> f[v]],
           \A v \in Videos : Steps(video[v], f[v])
    PROVE  StartupInv' /\ AllStep
<1>1. \A v \in Videos : video'[v] = f[v] /\ Steps(video[v], video'[v])
  OBVIOUS
<1>2. video' \in [Videos -> VideoState]
  BY <1>1 DEF Steps, VideoInv
<1>3. \A v \in Videos : VideoInv(video'[v], YT') /\ BumperInv(bumper'[v], video'[v].stage)
  BY <1>1 DEF StartupInv, Steps
<1>4. AllStep
  BY <1>1 DEF AllStep, Steps
<1> QED
  BY <1>2, <1>3, <1>4 DEF StartupInv

\* One video's handler keeps the invariant, when the API is as it was for the others.
LEMMA HandlerKeeps ==
    ASSUME StartupInv, YT' \in {"absent", "loading", "ready"}, YT' = "ready" => YT = "ready",
           page' = page, kind' = kind, bumper' = bumper, NEW v \in Videos, NEW t,
           Startup!Becomes(v, t), Steps(video[v], t)
    PROVE  StartupInv' /\ AllStep
<1>1. video' = [w \in Videos |-> video'[w]]
  BY DEF StartupInv, Startup!Becomes
<1>2. ASSUME NEW w \in Videos
      PROVE  Steps(video[w], video'[w])
  <2>1. CASE w = v
    BY <2>1 DEF StartupInv, Startup!Becomes
  <2>2. CASE w # v
    <3>1. video'[w] = video[w] /\ VideoInv(video[w], YT)
      BY <2>2 DEF StartupInv, Startup!Becomes
    <3>2. VideoInv(video[w], YT')
      BY <3>1 DEF VideoInv, Started
    <3> QED
      BY <3>1, <3>2 DEF Steps
  <2> QED
    BY <2>1, <2>2
<1>3. page' \in {"shown", "changed"}
  BY DEF StartupInv
<1> DEFINE f == video'
<1>4. video' = [w \in Videos |-> f[w]] /\ \A w \in Videos : Steps(video[w], f[w])
  BY <1>1, <1>2
<1> HIDE DEF f
<1> QED
  BY <1>3, <1>4, HandlersKeep

\* A video that is begun, with what its bumper says by then.
LEMMA BeginningKeeps ==
    ASSUME StartupInv, UNCHANGED <<kind, YT, page>>, NEW v \in Videos,
           video[v].stage \in {"unseen", "poster"}, NEW t, Startup!Becomes(v, t),
           VideoInv(t, YT), t.told = video[v].told \/ Tells(t),
           bumper' \in [Videos -> BumperState], BumperInv(bumper'[v], t.stage),
           \A w \in Videos \ {v} : bumper'[w] = bumper[w]
    PROVE  StartupInv' /\ AllStep
<1>1. \A w \in Videos : video'[w] = IF w = v THEN t ELSE video[w]
  BY DEF StartupInv, Startup!Becomes
<1>2. video' \in [Videos -> VideoState]
  BY <1>1 DEF StartupInv, VideoInv, Startup!Becomes
<1>3. \A w \in Videos : VideoInv(video'[w], YT') /\ BumperInv(bumper'[w], video'[w].stage)
  BY <1>1 DEF StartupInv
<1>4. video[v].players # <<"html5">>
  <2>1. video[v].players = <<>>
    BY DEF StartupInv, VideoInv, Clean
  <2>2. <<>> # <<"html5">>
    OBVIOUS
  <2> QED
    BY <2>1, <2>2
<1>5. AllStep
  BY <1>1, <1>4 DEF AllStep
<1> QED
  BY <1>2, <1>3, <1>5 DEF StartupInv

\* Every step of the page keeps the invariant.
LEMMA StartupInductive ==
    /\ Startup!Init => StartupInv
    /\ StartupInv /\ Startup!Next => StartupInv' /\ AllStep
<1>1. ASSUME Startup!Init
      PROVE  StartupInv
  <2>1. Startup!NewVideo \in VideoState /\ Clean(Startup!NewVideo)
    <3>1. {} \in Tellings /\ "none" \in Types /\ "none" \in Scripts
      BY DEF Tellings, Types, Scripts
    <3> QED
      BY <3>1, Names DEF VideoState, Clean, Startup!NewVideo
  <2>2. VideoInv(Startup!NewVideo, YT) /\ Startup!NewVideo.stage = "unseen"
    BY <2>1 DEF VideoInv, Startup!NewVideo
  <2>3. BumperInv(Startup!NewBumper, "unseen")
    BY PageAssumption DEF BumperInv, BumperState, Startup!NewBumper
  <2>4. Startup!NewBumper \in BumperState
    BY <2>3 DEF BumperInv
  <2> HIDE DEF Startup!NewBumper, Startup!NewVideo
  <2> QED
    BY <1>1, <2>1, <2>2, <2>3, <2>4 DEF Startup!Init, StartupInv
<1>2. ASSUME StartupInv, NEW v \in Videos, Startup!Video(v)
      PROVE  StartupInv' /\ AllStep
  <2>1. /\ video[v].stage = "unseen" /\ VideoInv(video[v], YT) /\ Clean(video[v])
        /\ video[v] \in VideoState /\ bumper[v].stage = "none"
    BY <1>2 DEF Startup!Video, StartupInv, VideoInv, BumperInv, BumperState
  <2>2. PICK t : /\ Startup!Becomes(v, t)
                 /\ t = IF kind[v].bumper THEN [video[v] EXCEPT !.stage = "poster"]
                        ELSE Startup!initialize(kind[v], video[v])
    BY <1>2 DEF Startup!Video
  <2>3. VideoInv(t, YT) /\ t.told = {}
    <3>1. CASE kind[v].bumper
      <4>1. t = [video[v] EXCEPT !.stage = "poster"]
        BY <2>2, <3>1
      <4>2. t \in VideoState
        BY <2>1, <4>1, Names DEF VideoState
      <4>3. t.stage = "poster" /\ Clean(t)
        BY <2>1, <4>1 DEF VideoState, Clean
      <4> QED
        BY <4>2, <4>3 DEF VideoInv, Clean
    <3>2. CASE ~kind[v].bumper
      <4>1. kind[v] \in Kinds /\ t = Startup!initialize(kind[v], video[v])
        BY <1>2, <2>2, <3>2 DEF StartupInv
      <4> QED
        BY <2>1, <4>1, VideoStarts
    <3> QED
      BY <3>1, <3>2
  <2>4. BumperInv(bumper'[v], t.stage)
    BY <1>2, <2>1 DEF Startup!Video, StartupInv, BumperInv
  <2> QED
    BY <1>2, <2>1, <2>2, <2>3, <2>4, BeginningKeeps DEF Startup!Video, StartupInv, Clean
<1>3. ASSUME StartupInv, NEW v \in Videos, Startup!onClick(v)
      PROVE  StartupInv' /\ AllStep
  <2>1. /\ video[v].stage = "poster" /\ bumper[v].stage = "none" /\ Clean(video[v])
        /\ video[v] \in VideoState /\ VideoInv(video[v], YT) /\ bumper[v] \in BumperState
        /\ UNCHANGED <<kind, YT, page>>
    BY <1>3 DEF Startup!onClick, StartupInv, VideoInv
  <2>2. CASE \E w \in Videos : bumper[w].isBumperShown
    <3>1. PICK t : Startup!Becomes(v, t) /\ t = Startup!initialize(kind[v], video[v])
      BY <1>3, <2>2 DEF Startup!onClick
    <3>2. kind[v] \in Kinds /\ bumper' = bumper
      BY <1>3, <2>2 DEF Startup!onClick, StartupInv
    <3>3. VideoInv(t, YT) /\ t.told = {}
      BY <2>1, <3>1, <3>2, VideoStarts
    <3>4. BumperInv(bumper'[v], t.stage)
      BY <1>3, <2>1, <3>2 DEF StartupInv, BumperInv
    <3> QED
      BY <1>3, <2>1, <3>1, <3>2, <3>3, <3>4, BeginningKeeps DEF StartupInv, Clean
  <2>3. CASE ~\E w \in Videos : bumper[w].isBumperShown
    <3>1. video' = video /\ bumper' = [bumper EXCEPT ![v].stage = "playing"]
      BY <1>3, <2>3 DEF Startup!onClick
    <3>2. /\ bumper'[v] = [bumper[v] EXCEPT !.stage = "playing"]
          /\ \A w \in Videos \ {v} : bumper'[w] = bumper[w]
      BY <1>3, <3>1 DEF StartupInv
    <3>3. BumperInv(bumper'[v], "poster")
      BY <1>3, <2>1, <3>2 DEF StartupInv, BumperInv, BumperState
    <3>4. bumper' \in [Videos -> BumperState]
      BY <1>3, <3>1, <3>2, <3>3 DEF StartupInv, BumperInv
    <3>5. Startup!Becomes(v, video[v])
      BY <1>3, <3>1 DEF Startup!Becomes, StartupInv
    <3> QED
      BY <1>3, <2>1, <3>2, <3>3, <3>4, <3>5, BeginningKeeps
  <2> QED
    BY <2>2, <2>3
<1>4. ASSUME StartupInv, NEW v \in Videos, Startup!BumperOver(v)
      PROVE  StartupInv' /\ AllStep
  <2>1. /\ bumper[v].stage = "playing" /\ bumper[v].timers < MaxTimers /\ bumper[v] \in BumperState
        /\ BumperInv(bumper[v], video[v].stage) /\ UNCHANGED <<kind, YT, page, video>>
    BY <1>4 DEF Startup!BumperOver, StartupInv
  <2>2. PICK b : bumper' = [bumper EXCEPT ![v] = b]
                 /\ \/ b = Startup!showMainVideoHandler(bumper[v])
                    \/ b = Startup!skipAndDoNotShowAgain(bumper[v])
    BY <1>4 DEF Startup!BumperOver, Startup!skip
  <2>3. bumper[v].timers + 1 \in 0 .. MaxTimers
    BY <2>1, PageAssumption DEF BumperState
  <2>4. PICK doNotShowAgain \in BOOLEAN :
            b = [bumper[v] EXCEPT !.isBumperShown = TRUE, !.doNotShowAgain = doNotShowAgain,
                                  !.timers = bumper[v].timers + 1]
    <3>1. CASE b = Startup!showMainVideoHandler(bumper[v])
      <4>1. b = [bumper[v] EXCEPT !.isBumperShown = TRUE,
                                  !.doNotShowAgain = bumper[v].doNotShowAgain,
                                  !.timers = bumper[v].timers + 1]
        BY <2>1, <3>1 DEF Startup!showMainVideoHandler, BumperState
      <4>2. bumper[v].doNotShowAgain \in BOOLEAN
        BY <2>1 DEF BumperState
      <4> QED
        BY <4>1, <4>2
    <3>2. CASE b = Startup!skipAndDoNotShowAgain(bumper[v])
      <4>1. b = [bumper[v] EXCEPT !.isBumperShown = TRUE, !.doNotShowAgain = TRUE,
                                  !.timers = bumper[v].timers + 1]
        BY <2>1, <3>2 DEF Startup!skipAndDoNotShowAgain, Startup!skip,
                          Startup!showMainVideoHandler, BumperState
      <4> QED
        BY <4>1
    <3> QED
      BY <2>2, <3>1, <3>2
  <2>5. b \in BumperState /\ BumperInv(b, video[v].stage)
    BY <2>1, <2>3, <2>4 DEF BumperState, BumperInv
  <2>6. \A w \in Videos : bumper'[w] = IF w = v THEN b ELSE bumper[w]
    BY <1>4, <2>2 DEF StartupInv
  <2>7. bumper' \in [Videos -> BumperState]
    BY <1>4, <2>2, <2>5 DEF StartupInv
  <2> QED
    BY <1>4, <2>1, <2>5, <2>6, <2>7 DEF StartupInv, AllStep
<1>5. ASSUME StartupInv, NEW v \in Videos, Startup!BumperTimer(v)
      PROVE  StartupInv' /\ AllStep
  <2> DEFINE d == [bumper[v] EXCEPT !.timers = bumper[v].timers - 1]
             b == Startup!showMainVideo(Startup!bumper_saveState(d))
  <2>1. /\ bumper[v].timers > 0 /\ bumper[v] \in BumperState
        /\ BumperInv(bumper[v], video[v].stage) /\ VideoInv(video[v], YT)
        /\ video[v] \in VideoState /\ kind[v] \in Kinds /\ UNCHANGED <<kind, YT, page>>
    BY <1>5 DEF Startup!BumperTimer, StartupInv
  <2>2. /\ bumper' = [bumper EXCEPT ![v] = b]
        /\ IF b.resolutions > bumper[v].resolutions
           THEN Startup!Becomes(v, Startup!initialize(kind[v], video[v])) ELSE UNCHANGED video
    <3>1. [bumper[v] EXCEPT !.timers = @ - 1] = d
      OBVIOUS
    <3> HIDE DEF d
    <3> QED
      BY <1>5, <3>1 DEF Startup!BumperTimer
  <2>3. d \in BumperState /\ d.stage = bumper[v].stage /\ d.resolutions = bumper[v].resolutions
        /\ d.saved = bumper[v].saved /\ (d.doNotShowAgain <=> bumper[v].doNotShowAgain)
    <3>1. bumper[v].timers - 1 \in 0 .. MaxTimers
      BY <2>1, PageAssumption DEF BumperState
    <3> QED
      BY <2>1, <3>1 DEF BumperState
  <2> HIDE DEF d
  <2>4. \A w \in Videos : bumper'[w] = IF w = v THEN b ELSE bumper[w]
    BY <1>5, <2>2 DEF StartupInv
  <2>5. CASE bumper[v].stage = "playing"
    <3> DEFINE saved == d.saved \cup {"bumper_last_view_date"}
                  \cup IF d.doNotShowAgain THEN {"bumper_do_not_show_again"} ELSE {}
    <3>1. b = [d EXCEPT !.saved = saved, !.stage = "resolved", !.resolutions = 1]
      <4> DEFINE e == [d EXCEPT !.saved = saved]
      <4>1. Startup!bumper_saveState(d) = e
        BY <2>3, <2>5 DEF Startup!bumper_saveState
      <4>2. e.stage = "playing" /\ e.resolutions + 1 = 1
        BY <2>1, <2>3, <2>5 DEF BumperState, BumperInv
      <4>3. [e EXCEPT !.stage = "resolved", !.resolutions = 1]
               = [d EXCEPT !.saved = saved, !.stage = "resolved", !.resolutions = 1]
        BY <2>3 DEF BumperState
      <4> HIDE DEF e, saved
      <4> QED
        BY <4>1, <4>2, <4>3 DEF Startup!showMainVideo
    <3>2. /\ saved \in SUBSET Sayings /\ "bumper_last_view_date" \in saved
          /\ d.doNotShowAgain => "bumper_do_not_show_again" \in saved
      BY <2>3 DEF BumperState, Sayings
    <3> HIDE DEF saved, b
    <3>3. /\ b \in BumperState /\ b.stage = "resolved" /\ b.resolutions = 1 /\ b.saved = saved
          /\ (b.doNotShowAgain <=> d.doNotShowAgain)
      BY <2>3, <3>1, <3>2 DEF BumperState
    <3>4. Clean(video[v]) /\ bumper[v].resolutions = 0 /\ video[v].stage = "poster"
      BY <2>1, <2>5 DEF BumperInv, VideoInv
    <3>5. PICK t : Startup!Becomes(v, t) /\ t = Startup!initialize(kind[v], video[v])
      BY <2>2, <3>3, <3>4
    <3>6. VideoInv(t, YT) /\ t.stage \in {"started", "rejected"} /\ t.told = {}
      BY <2>1, <3>4, <3>5, VideoStarts
    <3>7. BumperInv(bumper'[v], t.stage)
      BY <2>4, <3>2, <3>3, <3>6 DEF BumperInv
    <3>8. bumper' \in [Videos -> BumperState]
      BY <1>5, <2>2, <3>3 DEF StartupInv
    <3> QED
      BY <1>5, <2>1, <2>4, <3>4, <3>5, <3>6, <3>7, <3>8, BeginningKeeps DEF Clean
  <2>6. CASE bumper[v].stage # "playing"
    <3>1. b = d
      BY <2>3, <2>6 DEF Startup!showMainVideo, Startup!bumper_saveState
    <3>2. UNCHANGED video
      BY <2>2, <2>3, <3>1 DEF BumperState
    <3>3. BumperInv(d, video[v].stage)
      BY <2>1, <2>3 DEF BumperInv, BumperState
    <3> HIDE DEF b
    <3>4. bumper' \in [Videos -> BumperState]
      BY <1>5, <2>2, <2>3, <3>1 DEF StartupInv
    <3> QED
      BY <1>5, <2>1, <2>4, <3>1, <3>2, <3>3, <3>4 DEF StartupInv, AllStep
  <2> QED
    BY <2>5, <2>6
<1>6. ASSUME StartupInv, NEW v \in Videos, Startup!ScriptLoads(v)
      PROVE  StartupInv' /\ AllStep
  <2>1. PICK t : /\ Startup!Becomes(v, t)
                 /\ t = Startup!loadYoutubePlayer([video[v] EXCEPT !.script = "loaded"])
    BY <1>6 DEF Startup!ScriptLoads
  <2>2. /\ VideoInv(video[v], YT) /\ video[v].script = "loading"
        /\ YT' \in {"absent", "loading", "ready"} /\ (YT' = "ready" => YT = "ready")
        /\ UNCHANGED <<kind, page, bumper>>
    BY <1>6 DEF Startup!ScriptLoads, StartupInv
  <2>3. Steps(video[v], t)
    BY <2>1, <2>2, ScriptSteps
  <2> QED
    BY <1>6, <2>1, <2>2, <2>3, HandlerKeeps
<1>7. ASSUME StartupInv, NEW v \in Videos, Startup!ScriptFails(v)
      PROVE  StartupInv' /\ AllStep
  <2>1. PICK t : /\ Startup!Becomes(v, t)
                 /\ t = LET w == [video[v] EXCEPT !.script = "failed"]
                        IN  IF w.htmlPlayerLoaded THEN w ELSE Startup!loadHtmlPlayer(kind[v], w)
    BY <1>7 DEF Startup!ScriptFails
  <2>2. /\ VideoInv(video[v], YT) /\ video[v].script = "loading" /\ kind[v] \in Kinds
        /\ YT \in {"absent", "loading", "ready"} /\ UNCHANGED <<kind, YT, page, bumper>>
    BY <1>7 DEF Startup!ScriptFails, StartupInv
  <2>3. Steps(video[v], t)
    BY <2>1, <2>2, FailureSteps
  <2> QED
    BY <1>7, <2>1, <2>2, <2>3, HandlerKeeps
<1>8. ASSUME StartupInv, NEW v \in Videos, Startup!TestTimeout(v)
      PROVE  StartupInv' /\ AllStep
  <2>1. PICK w : /\ w = LET u == [video[v] EXCEPT !.testing = FALSE]
                        IN  IF u.youtubeApiAvailable \/ u.htmlPlayerLoaded THEN u
                            ELSE Startup!loadHtmlPlayer(kind[v], u)
                 /\ Startup!Becomes(v, [w EXCEPT !.told = @ \cup {w.youtubeApiAvailable}])
    BY <1>8 DEF Startup!TestTimeout
  <2>2. PICK t : /\ Startup!Becomes(v, t)
                 /\ t = [w EXCEPT !.told = w.told \cup {w.youtubeApiAvailable}]
    BY <2>1
  <2>3. /\ VideoInv(video[v], YT) /\ video[v].testing /\ kind[v] \in Kinds
        /\ YT \in {"absent", "loading", "ready"} /\ UNCHANGED <<kind, YT, page, bumper>>
    BY <1>8 DEF Startup!TestTimeout, StartupInv
  <2>4. Steps(video[v], t)
    BY <2>1, <2>2, <2>3, TimeoutSteps
  <2> QED
    BY <1>8, <2>2, <2>3, <2>4, HandlerKeeps
<1>9. ASSUME StartupInv, NEW v \in Videos, Startup!MetadataArrives(v)
      PROVE  StartupInv' /\ AllStep
  <2>1. PICK t : Startup!Becomes(v, t) /\ t = [video[v] EXCEPT !.metadata = "received"]
    BY <1>9 DEF Startup!MetadataArrives
  <2>2. /\ VideoInv(video[v], YT) /\ YT \in {"absent", "loading", "ready"}
        /\ UNCHANGED <<kind, YT, page, bumper>>
    BY <1>9 DEF Startup!MetadataArrives, StartupInv
  <2>3. Steps(video[v], t)
    BY <2>1, <2>2, MetadataSteps
  <2> QED
    BY <1>9, <2>1, <2>2, <2>3, HandlerKeeps
<1>10. ASSUME StartupInv, Startup!ApiReady
       PROVE  StartupInv' /\ AllStep
  <2> DEFINE f == [v \in Videos |-> IF video[v].waitsForApi THEN Startup!onYTApiReady(video[v])
                                    ELSE video[v]]
  <2>1. \A v \in Videos : Steps(video[v], f[v])
    BY <1>10, ReadySteps DEF StartupInv
  <2>2. video' = [v \in Videos |-> f[v]]
    BY <1>10 DEF Startup!ApiReady
  <2> HIDE DEF f
  <2> QED
    BY <1>10, <2>1, <2>2, HandlersKeep DEF Startup!ApiReady, StartupInv
<1>11. ASSUME StartupInv, Startup!onSequenceChange
       PROVE  StartupInv' /\ AllStep
  <2> DEFINE f == [v \in Videos |-> IF video[v].live THEN Startup!destroy(video[v]) ELSE video[v]]
  <2>1. \A v \in Videos : Steps(video[v], f[v])
    BY <1>11, LeavingSteps DEF StartupInv, Startup!onSequenceChange
  <2>2. video' = [v \in Videos |-> f[v]]
    BY <1>11 DEF Startup!onSequenceChange
  <2> HIDE DEF f
  <2> QED
    BY <1>11, <2>1, <2>2, HandlersKeep DEF Startup!onSequenceChange, StartupInv
<1> QED
  BY <1>1, <1>2, <1>3, <1>4, <1>5, <1>6, <1>7, <1>8, <1>9, <1>10, <1>11 DEF Startup!Next

(***************************************************************************)
(* A video gets one player, its bumper hands over to it once, the API that *)
(* comes late still plays, and a video that was removed stays removed.     *)
(***************************************************************************)
THEOREM StartupIsAlwaysSound == Spec => []StartupIsSound
<1>1. Init => StartupInv
  BY StartupInductive DEF Init
<1>2. StartupInv /\ [Next]_vars => StartupInv'
  <2> SUFFICES ASSUME StartupInv, [Next]_vars
               PROVE  StartupInv'
    OBVIOUS
  <2>1. [Startup!Next]_startup
    BY DEF Next, vars
  <2>2. CASE Startup!Next
    BY <2>2, StartupInductive
  <2>3. CASE UNCHANGED startup
    BY <2>3 DEF startup, StartupInv, VideoInv, VideoState, BumperInv, BumperState
  <2> QED
    BY <2>1, <2>2, <2>3
<1>3. StartupInv => StartupIsSound
  <2> SUFFICES ASSUME StartupInv
               PROVE  StartupIsSound
    OBVIOUS
  <2>1. Startup!TypeOK
    BY DEF StartupInv, VideoState, BumperState, Stages, Types, Scripts, Tellings, Startup!TypeOK
  <2>2. ASSUME NEW v \in Videos
        PROVE  /\ Len(video[v].players) <= 1 \/ video[v].script = "failed"
               /\ video[v].destroyed => video[v].players = <<>> \/ video[v].script = "failed"
               /\ video[v].stage = "started" /\ video[v].videoType = "youtube" /\ YT = "ready"
                     /\ ~video[v].destroyed => video[v].players # <<>>
    <3>1. VideoInv(video[v], YT)
      BY DEF StartupInv
    <3>2. /\ Len(<<>>) <= 1 /\ Len(<<"youtube">>) <= 1 /\ Len(<<"html5">>) <= 1
          /\ <<"youtube">> # <<>>
      OBVIOUS
    <3> QED
      BY <3>1, <3>2 DEF VideoInv, Clean, Started, Waiting, OnYoutube, OnHtml
  <2>3. ASSUME NEW v \in Videos
        PROVE  /\ bumper[v].stage = "resolved" <=> bumper[v].resolutions = 1
               /\ bumper[v].resolutions <= 1
               /\ bumper[v].stage = "resolved" =>
                     /\ "bumper_last_view_date" \in bumper[v].saved
                     /\ bumper[v].doNotShowAgain => "bumper_do_not_show_again" \in bumper[v].saved
                     /\ video[v].stage # "poster"
    <3>1. BumperInv(bumper[v], video[v].stage)
      BY DEF StartupInv
    <3> QED
      BY <3>1 DEF BumperInv, BumperState
  <2> QED
    BY <2>1, <2>2, <2>3 DEF StartupIsSound, Startup!OnePlayer, Startup!BumperHandsOver,
                            Startup!LateApiStillPlays, Startup!GoneStaysGone
<1> QED
  BY <1>1, <1>2, <1>3, PTL DEF Spec
--------------------------------------------------------------------------------
(***************************************************************************)
(* The transcript.  What is on the page, or being built, is the list of    *)
(* the last captions that came, unless builds overlapped; what is asked    *)
(* for after the video is gone is the second try of its only language.     *)
(***************************************************************************)
Requests == {<<>>} \cup (Languages \X BOOLEAN)
Transcripts == {"none", "true", "false"}
CaptionState ==
    [languages : SUBSET Languages, lang : Languages, chooser : BOOLEAN, fetchXHR : Requests,
     availableTranslationsXHR : BOOLEAN, sjson : Languages \cup {Caption!None},
     loaded : BOOLEAN, rendered : BOOLEAN, builds : Seq(Languages), list : Seq(Languages),
     playing : BOOLEAN, closed : BOOLEAN, captionsHidden : BOOLEAN, hideCaptionsOnLoad : BOOLEAN,
     show_transcript : Transcripts, hasCaptions : BOOLEAN,
     shouldShowGoogleDisclaimer : BOOLEAN, disclaimer : BOOLEAN,
     destroyed : BOOLEAN, overlapped : BOOLEAN, strayed : BOOLEAN]

ListInv(c) ==
    /\ ~c.loaded => c.builds = <<>> /\ ~c.rendered /\ c.list = <<>>
    /\ c.loaded => c.sjson \in Languages
    /\ ~c.overlapped /\ c.rendered => c.builds = <<>> /\ c.list = <<c.sjson>>
    /\ ~c.overlapped /\ ~c.rendered => c.builds \in {<<>>, <<c.sjson>>} /\ c.list = <<>>
DisclaimerInv(c) ==
    /\ c.disclaimer => c.shouldShowGoogleDisclaimer
    /\ c.shouldShowGoogleDisclaimer => c.sjson \in Google
GoneInv(c) ==
    c.destroyed => /\ ~c.availableTranslationsXHR
                   /\ c.fetchXHR = <<>> \/ Caption!Cardinality(c.languages) <= 1
CaptionInv(c) == c \in CaptionState /\ ListInv(c) /\ DisclaimerInv(c) /\ GoneInv(c)

\* What no step of this kind does: it leaves the list and the languages alone.
Frame(c, d) ==
    /\ d \in CaptionState /\ d.languages = c.languages /\ d.lang = c.lang /\ d.sjson = c.sjson
    /\ d.builds = c.builds /\ d.list = c.list /\ (d.loaded <=> c.loaded)
    /\ (d.rendered <=> c.rendered) /\ (d.overlapped <=> c.overlapped)
    /\ (d.destroyed <=> c.destroyed)
    /\ (d.shouldShowGoogleDisclaimer <=> c.shouldShowGoogleDisclaimer)
    /\ d.disclaimer => c.disclaimer \/ c.shouldShowGoogleDisclaimer
    /\ d.show_transcript = c.show_transcript

\* Two steps of the kind are one.
LEMMA FrameTwice ==
    ASSUME NEW c, NEW d, NEW e, Frame(c, d), Frame(d, e)
    PROVE  Frame(c, e)
BY DEF Frame
\* The invariant stands such steps, if what is asked for does.
LEMMA FrameKeeps ==
    ASSUME NEW c, NEW d, CaptionInv(c), Frame(c, d), GoneInv(d)
    PROVE  CaptionInv(d)
BY DEF CaptionInv, Frame, ListInv, DisclaimerInv

\* There are finitely many languages, one or more.
LEMMA OneOrMore ==
    ASSUME NEW languages \in SUBSET Languages
    PROVE  Caption!Cardinality(languages) \in Nat
<1>1. Cardinality(languages) \in Nat
  BY PageAssumption, FS_Subset, FS_CardinalityType
<1>2. Caption!Cardinality(languages) = Cardinality(languages)
  BY DEF Caption!Cardinality, Cardinality
<1> QED
  BY <1>1, <1>2

\* A request is for a language, with the YouTube id or without it.
LEMMA RequestIsMade ==
    ASSUME NEW l \in Languages
    PROVE  <<l, TRUE>> \in Requests /\ <<l, FALSE>> \in Requests /\ <<>> \in Requests
BY DEF Requests
\* It is told by its first part.
LEMMA RequestIsFor ==
    ASSUME NEW r \in Requests, r # <<>>
    PROVE  r[1] \in Languages /\ r[2] \in BOOLEAN
BY DEF Requests

\* The panel is hidden or shown.
LEMMA HideFrames ==
    ASSUME NEW c \in CaptionState, NEW hide \in BOOLEAN, NEW d, d = Caption!hideCaptions(c, hide)
    PROVE  /\ Frame(c, d) /\ (d.closed <=> hide) /\ d.fetchXHR = c.fetchXHR
           /\ (d.availableTranslationsXHR <=> c.availableTranslationsXHR)
<1> DEFINE disclaimer == ~hide /\ c.shouldShowGoogleDisclaimer
<1>1. d = [c EXCEPT !.closed = hide, !.captionsHidden = hide, !.disclaimer = disclaimer]
  BY DEF Caption!hideCaptions, Caption!toggleGoogleDisclaimer, CaptionState
<1>2. disclaimer \in BOOLEAN /\ (disclaimer => c.shouldShowGoogleDisclaimer)
  BY DEF CaptionState
<1> HIDE DEF disclaimer
<1>3. d \in CaptionState
  BY <1>1, <1>2, ZenonT(60) DEF CaptionState
<1> QED
  BY <1>1, <1>2, <1>3 DEF CaptionState, Frame

\* Whoever fetches shows the panel first.
LEMMA ShowFrames ==
    ASSUME NEW c \in CaptionState, NEW d, d = Caption!showBeforeFetch(c)
    PROVE  /\ Frame(c, d) /\ d.fetchXHR = c.fetchXHR
           /\ (d.availableTranslationsXHR <=> c.availableTranslationsXHR)
<1>1. CASE c.loaded
  BY <1>1, HideFrames DEF Caption!showBeforeFetch
<1>2. CASE ~c.loaded
  BY <1>2 DEF Caption!showBeforeFetch, Frame
<1> QED
  BY <1>1, <1>2

\* A request was not yet made with the YouTube id, and now it is.
Tried(withYoutubeId, d) == ~withYoutubeId /\ d.fetchXHR # <<>> /\ d.fetchXHR[2]

\* All attempts failed.
LEMMA FailFrames ==
    ASSUME NEW c \in CaptionState, NEW d, d = Caption!fetchFails(c)
    PROVE  /\ Frame(c, d) /\ d.closed /\ d.fetchXHR = c.fetchXHR
           /\ (d.availableTranslationsXHR <=> c.availableTranslationsXHR)
<1> DEFINE h == Caption!hideCaptions(c, TRUE)
<1>1. /\ Frame(c, h) /\ h.closed /\ h.fetchXHR = c.fetchXHR
      /\ (h.availableTranslationsXHR <=> c.availableTranslationsXHR)
  BY HideFrames
<1>2. h \in CaptionState
  BY <1>1 DEF Frame
<1> HIDE DEF h
<1>3. d = [h EXCEPT !.chooser = FALSE, !.hasCaptions = FALSE]
  BY <1>2 DEF Caption!fetchFails, Caption!hideClosedCaptions, h, CaptionState
<1>4. d \in CaptionState
  BY <1>2, <1>3 DEF CaptionState
<1>5. /\ Frame(h, d) /\ d.closed /\ d.fetchXHR = h.fetchXHR
      /\ (d.availableTranslationsXHR <=> h.availableTranslationsXHR)
  BY <1>1, <1>2, <1>3, <1>4 DEF CaptionState, Frame
<1> QED
  BY <1>1, <1>5, FrameTwice

\* The error handler: more languages are looked for, or the only one once more.
LEMMA ErrorFrames ==
    ASSUME NEW c \in CaptionState, NEW withYoutubeId \in BOOLEAN,
           NEW d, d = Caption!error(c, withYoutubeId)
    PROVE  /\ Frame(c, d) /\ (c.closed => d.closed \/ Tried(withYoutubeId, d))
           /\ Caption!Cardinality(c.languages) > 1 => d.fetchXHR = c.fetchXHR
           /\ Caption!Cardinality(c.languages) <= 1 =>
                 (d.availableTranslationsXHR <=> c.availableTranslationsXHR)
<1>0. Caption!Cardinality(c.languages) \in Nat /\ c.lang \in Languages
  BY OneOrMore DEF CaptionState
<1>1. CASE Caption!Cardinality(c.languages) > 1
  <2>1. d = [c EXCEPT !.availableTranslationsXHR = TRUE]
    BY <1>1 DEF Caption!error
  <2>2. d \in CaptionState
    BY <2>1 DEF CaptionState
  <2> QED
    BY <1>0, <1>1, <2>1, <2>2, SMTT(40) DEF CaptionState, Frame
<1>2. CASE /\ d = Caption!request(Caption!showBeforeFetch(c), TRUE)
           /\ ~withYoutubeId /\ Caption!Cardinality(c.languages) <= 1
  <2> DEFINE s == Caption!showBeforeFetch(c)
  <2>1. /\ Frame(c, s)
        /\ (s.availableTranslationsXHR <=> c.availableTranslationsXHR)
    BY ShowFrames
  <2>2. d = [s EXCEPT !.fetchXHR = <<s.lang, TRUE>>]
    BY <1>2 DEF Caption!request
  <2> HIDE DEF s
  <2>3. s \in CaptionState /\ s.lang \in Languages
    BY <2>1 DEF Frame, CaptionState
  <2>4. <<s.lang, TRUE>> \in Requests /\ <<s.lang, TRUE>> # <<>> /\ <<s.lang, TRUE>>[2]
    BY <2>3, RequestIsMade
  <2>5. d \in CaptionState
    BY <2>2, <2>3, <2>4 DEF CaptionState
  <2>6. Frame(s, d) /\ (d.availableTranslationsXHR <=> s.availableTranslationsXHR)
    <3>1. /\ d.languages = s.languages /\ d.lang = s.lang /\ d.sjson = s.sjson
          /\ d.builds = s.builds /\ d.list = s.list /\ d.loaded = s.loaded
          /\ d.rendered = s.rendered /\ d.overlapped = s.overlapped
          /\ d.destroyed = s.destroyed /\ d.disclaimer = s.disclaimer
          /\ d.shouldShowGoogleDisclaimer = s.shouldShowGoogleDisclaimer
          /\ d.show_transcript = s.show_transcript
          /\ d.availableTranslationsXHR = s.availableTranslationsXHR
      BY <2>2, <2>3 DEF CaptionState
    <3> QED
      BY <2>5, <3>1 DEF Frame
  <2>7. d.fetchXHR = <<s.lang, TRUE>>
    BY <2>2, <2>3 DEF CaptionState
  <2>8. Tried(withYoutubeId, d)
    BY <1>2, <2>4, <2>7 DEF Tried
  <2>9. ~(Caption!Cardinality(c.languages) > 1)
    BY ONLY <1>0, <1>2
  <2> QED
    BY <2>1, <2>6, <2>8, <2>9, FrameTwice
<1>3. CASE d = Caption!fetchFails(c) /\ Caption!Cardinality(c.languages) <= 1
  BY <1>0, <1>3, FailFrames
<1>4. Caption!Cardinality(c.languages) <= 1 =>
          \/ d = Caption!request(Caption!showBeforeFetch(c), TRUE) /\ ~withYoutubeId
          \/ d = Caption!fetchFails(c)
  <2>1. Caption!Cardinality(c.languages) <= 1 => ~(Caption!Cardinality(c.languages) > 1)
    BY <1>0
  <2> QED
    BY <2>1 DEF Caption!error
<1>5. Caption!Cardinality(c.languages) > 1 \/ Caption!Cardinality(c.languages) <= 1
  BY <1>0
<1> QED
  BY <1>1, <1>2, <1>3, <1>4, <1>5

\* An abort is a failure of the request that is under way.
LEMMA AbortFrames ==
    ASSUME NEW c \in CaptionState, NEW d, d = Caption!abortFetch(c)
    PROVE  /\ Frame(c, d)
           /\ c.closed => d.closed \/ (c.fetchXHR # <<>> /\ Tried(c.fetchXHR[2], d))
           /\ Caption!Cardinality(c.languages) > 1 => d.fetchXHR = <<>>
           /\ Caption!Cardinality(c.languages) <= 1 =>
                 (d.availableTranslationsXHR <=> c.availableTranslationsXHR)
<1>1. CASE c.fetchXHR = <<>>
  <2>1. d = c
    BY <1>1 DEF Caption!abortFetch
  <2> QED
    BY <1>1, <2>1 DEF Frame
<1>2. CASE c.fetchXHR # <<>>
  <2> DEFINE e == [c EXCEPT !.fetchXHR = <<>>]
  <2>1. e \in CaptionState
    <3>1. <<>> \in Requests
      BY DEF Requests
    <3> QED
      BY <3>1 DEF CaptionState
  <2>2. /\ Frame(c, e) /\ (e.closed <=> c.closed) /\ e.fetchXHR = <<>>
        /\ (e.availableTranslationsXHR <=> c.availableTranslationsXHR)
    BY <2>1 DEF CaptionState, Frame
  <2> HIDE DEF e
  <2>3. d = Caption!error(e, c.fetchXHR[2])
    BY <1>2 DEF Caption!abortFetch, e
  <2>4. /\ Frame(e, d) /\ (e.closed => d.closed \/ Tried(c.fetchXHR[2], d))
        /\ Caption!Cardinality(e.languages) > 1 => d.fetchXHR = e.fetchXHR
        /\ Caption!Cardinality(e.languages) <= 1 =>
              (d.availableTranslationsXHR <=> e.availableTranslationsXHR)
    <3>1. c.fetchXHR[2] \in BOOLEAN
      BY <1>2, RequestIsFor DEF CaptionState
    <3> QED
      BY <2>1, <2>3, <3>1, ErrorFrames
  <2>5. e.languages = c.languages
    BY <2>2 DEF Frame
  <2>6. Frame(c, d)
    BY <2>2, <2>4, FrameTwice
  <2> QED
    BY <1>2, <2>2, <2>4, <2>5, <2>6
<1> QED
  BY <1>1, <1>2

\* A fetch aborts the one before.
LEMMA FetchFrames ==
    ASSUME NEW c \in CaptionState, NEW d, d = Caption!fetchCaption(c)
    PROVE  Frame(c, d)
<1> DEFINE h == Caption!showBeforeFetch(c)
           e == Caption!abortFetch(h)
<1>1. Frame(c, h)
  BY ShowFrames
<1>2. d = IF config.html5 \/ config.youtubeId THEN Caption!request(e, FALSE) ELSE e
  BY DEF Caption!fetchCaption
<1> HIDE DEF h
<1>3. Frame(h, e)
  <2>1. h \in CaptionState
    BY <1>1 DEF Frame
  <2> QED
    BY <2>1, AbortFrames
<1> HIDE DEF e
<1>4. Frame(e, d)
  <2>1. e \in CaptionState
    BY <1>3 DEF Frame
  <2>2. CASE d = e
    BY <2>1, <2>2 DEF Frame
  <2>3. CASE d = Caption!request(e, FALSE)
    <3>1. d = [e EXCEPT !.fetchXHR = <<e.lang, FALSE>>]
      BY <2>3 DEF Caption!request
    <3>2. <<e.lang, FALSE>> \in Requests
      BY <2>1, RequestIsMade DEF CaptionState
    <3>3. d \in CaptionState
      BY <2>1, <3>1, <3>2 DEF CaptionState
    <3> QED
      BY <2>1, <3>1, <3>3 DEF CaptionState, Frame
  <2> QED
    BY <1>2, <2>2, <2>3
<1> QED
  BY <1>1, <1>3, <1>4, FrameTwice

\* The languages could not be found out: the panel is hidden.
LEMMA UnavailableFrames ==
    ASSUME NEW c \in CaptionState, NEW d, d = Caption!availableFails(c)
    PROVE  Frame(c, d) /\ d.closed /\ d.fetchXHR = c.fetchXHR /\ ~d.availableTranslationsXHR
<1> DEFINE h == Caption!hideCaptions(c, TRUE)
<1>1. Frame(c, h) /\ h.closed /\ h.fetchXHR = c.fetchXHR
  BY HideFrames
<1>2. h \in CaptionState
  BY <1>1 DEF Frame
<1> HIDE DEF h
<1>3. d = [h EXCEPT !.availableTranslationsXHR = FALSE, !.chooser = FALSE]
  BY DEF Caption!availableFails, h
<1>4. d \in CaptionState
  BY <1>2, <1>3 DEF CaptionState
<1>5. Frame(h, d) /\ d.closed /\ d.fetchXHR = h.fetchXHR /\ ~d.availableTranslationsXHR
  BY <1>1, <1>2, <1>3, <1>4 DEF CaptionState, Frame
<1> QED
  BY <1>1, <1>5, FrameTwice

\* A list is begun for the captions that came last.
LEMMA RenderKeeps ==
    ASSUME NEW c \in CaptionState, c.sjson \in Languages, NEW d, d = Caption!renderCaption(c)
    PROVE  /\ d \in CaptionState /\ d.languages = c.languages /\ d.lang = c.lang
           /\ d.sjson = c.sjson /\ d.list = <<>> /\ (d.loaded <=> c.loaded) /\ ~d.rendered
           /\ (d.overlapped <=> c.overlapped \/ c.builds # <<>>)
           /\ d.builds = Append(c.builds, c.sjson)
           /\ (d.destroyed <=> c.destroyed) /\ (d.closed <=> c.closed)
           /\ (d.shouldShowGoogleDisclaimer <=> c.shouldShowGoogleDisclaimer)
           /\ (d.disclaimer <=> c.disclaimer) /\ d.show_transcript = c.show_transcript
           /\ (d.hideCaptionsOnLoad <=> c.hideCaptionsOnLoad)
           /\ d.fetchXHR = c.fetchXHR
           /\ (d.availableTranslationsXHR <=> c.availableTranslationsXHR)
<1> DEFINE overlapped == c.overlapped \/ c.builds # <<>>
           builds == Append(c.builds, c.sjson)
<1>1. d = [c EXCEPT !.rendered = FALSE, !.list = <<>>, !.overlapped = overlapped,
                    !.builds = builds]
  BY DEF Caption!renderCaption
<1>2. overlapped \in BOOLEAN /\ (overlapped <=> c.overlapped \/ c.builds # <<>>)
  BY DEF CaptionState
<1>3. builds \in Seq(Languages)
  BY DEF CaptionState
<1>4. builds = Append(c.builds, c.sjson) /\ <<>> \in Seq(Languages)
  OBVIOUS
<1> HIDE DEF overlapped, builds
<1>5. d \in CaptionState
  BY <1>1, <1>2, <1>3, <1>4, ZenonT(60) DEF CaptionState
<1> QED
  BY <1>1, <1>2, <1>4, <1>5 DEF CaptionState

(***************************************************************************)
(* The steps.  None opens the panel of a learner who closed it, but the    *)
(* second try, with the YouTube id.                                        *)
(***************************************************************************)
ClosedStays(c, d) ==
    (c.loaded /\ c.closed /\ c.show_transcript = "false" /\ ~d.closed)
        => \/ d.show_transcript = "true" \/ d.lang # c.lang
           \/ c.fetchXHR # <<>> /\ Tried(c.fetchXHR[2], d)
CaptionSteps(c, d) == CaptionInv(d) /\ ClosedStays(c, d)

\* The captions have come.
LEMMA SuccessSteps ==
    ASSUME NEW c, CaptionInv(c), c.fetchXHR # <<>>, NEW t, t = Caption!success(c)
    PROVE  CaptionSteps(c, t)
<1> DEFINE should == c.fetchXHR[1] \in Google
           show == ~c.hideCaptionsOnLoad /\ ~c.captionsHidden
           d == [c EXCEPT !.sjson = c.fetchXHR[1], !.fetchXHR = <<>>,
                          !.shouldShowGoogleDisclaimer = should, !.disclaimer = show /\ should]
<1>1. c \in CaptionState /\ c.fetchXHR[1] \in Languages
  BY RequestIsFor DEF CaptionInv, CaptionState
<1>2. Caption!updateGoogleDisclaimer([c EXCEPT !.sjson = c.fetchXHR[1], !.fetchXHR = <<>>]) = d
  BY <1>1 DEF Caption!updateGoogleDisclaimer, Caption!toggleGoogleDisclaimer, CaptionState
<1>3. d \in CaptionState
  <2>1. <<>> \in Requests /\ should \in BOOLEAN /\ (show /\ should) \in BOOLEAN
    BY DEF Requests
  <2> HIDE DEF should, show
  <2> QED
    BY <1>1, <2>1 DEF CaptionState
<1>4. /\ d.sjson \in Languages /\ d.fetchXHR = <<>> /\ DisclaimerInv(d)
      /\ d.languages = c.languages /\ d.lang = c.lang /\ d.builds = c.builds /\ d.list = c.list
      /\ (d.loaded <=> c.loaded) /\ (d.rendered <=> c.rendered)
      /\ (d.overlapped <=> c.overlapped) /\ (d.destroyed <=> c.destroyed)
      /\ (d.closed <=> c.closed) /\ (d.hideCaptionsOnLoad <=> c.hideCaptionsOnLoad)
      /\ d.show_transcript = c.show_transcript
      /\ (d.availableTranslationsXHR <=> c.availableTranslationsXHR)
  BY <1>1 DEF CaptionState, DisclaimerInv
<1>5. t = IF d.loaded
          THEN IF d.rendered THEN Caption!renderCaption(d) ELSE [d EXCEPT !.overlapped = TRUE]
          ELSE LET e == IF config.touch THEN d ELSE Caption!renderCaption(d)
               IN  [Caption!hideCaptions(e, e.hideCaptionsOnLoad) EXCEPT !.loaded = TRUE]
  <2> HIDE DEF d
  <2> QED
    BY <1>2 DEF Caption!success
<1> HIDE DEF d, should, show
<1>6. CASE d.loaded /\ ~d.rendered
  <2>1. t = [d EXCEPT !.overlapped = TRUE]
    BY <1>5, <1>6
  <2>2. t \in CaptionState
    BY <1>3, <2>1 DEF CaptionState
  <2>3. /\ t.sjson = d.sjson /\ t.fetchXHR = d.fetchXHR /\ t.overlapped /\ t.loaded
        /\ (t.closed <=> d.closed) /\ (t.destroyed <=> d.destroyed)
        /\ (t.disclaimer <=> d.disclaimer) /\ t.languages = d.languages
        /\ (t.shouldShowGoogleDisclaimer <=> d.shouldShowGoogleDisclaimer)
        /\ (t.availableTranslationsXHR <=> d.availableTranslationsXHR)
    BY <1>3, <1>6, <2>1 DEF CaptionState
  <2> QED
    BY <1>4, <2>2, <2>3
       DEF CaptionSteps, CaptionInv, ClosedStays, ListInv, DisclaimerInv, GoneInv
<1>7. CASE d.loaded /\ d.rendered
  <2>1. t = Caption!renderCaption(d)
    BY <1>5, <1>7
  <2>2. /\ t \in CaptionState /\ t.languages = d.languages
        /\ t.sjson = d.sjson /\ t.list = <<>> /\ (t.loaded <=> d.loaded) /\ ~t.rendered
        /\ (t.overlapped <=> d.overlapped \/ d.builds # <<>>)
        /\ t.builds = Append(d.builds, d.sjson)
        /\ (t.destroyed <=> d.destroyed) /\ (t.closed <=> d.closed)
        /\ (t.shouldShowGoogleDisclaimer <=> d.shouldShowGoogleDisclaimer)
        /\ (t.disclaimer <=> d.disclaimer)
        /\ t.fetchXHR = d.fetchXHR
        /\ (t.availableTranslationsXHR <=> d.availableTranslationsXHR)
    BY <1>3, <1>4, <2>1, RenderKeeps
  <2>3. Append(<<>>, d.sjson) = <<d.sjson>>
    OBVIOUS
  <2>4. ListInv(t)
    BY <1>4, <1>7, <2>2, <2>3 DEF ListInv
  <2> QED
    BY <1>4, <2>2, <2>4 DEF CaptionSteps, CaptionInv, ClosedStays, DisclaimerInv, GoneInv
<1>8. CASE ~d.loaded
  <2> DEFINE e == IF config.touch THEN d ELSE Caption!renderCaption(d)
             h == Caption!hideCaptions(e, e.hideCaptionsOnLoad)
  <2>1. /\ e \in CaptionState /\ e.languages = d.languages /\ e.sjson = d.sjson
        /\ e.list = <<>> /\ ~e.loaded /\ ~e.rendered /\ (e.overlapped <=> d.overlapped)
        /\ e.builds \in {<<>>, <<d.sjson>>} /\ (e.destroyed <=> d.destroyed)
        /\ (e.shouldShowGoogleDisclaimer <=> d.shouldShowGoogleDisclaimer)
        /\ (e.disclaimer <=> d.disclaimer) /\ e.fetchXHR = d.fetchXHR
        /\ (e.availableTranslationsXHR <=> d.availableTranslationsXHR)
    <3>1. d.builds = <<>> /\ ~d.rendered /\ d.list = <<>>
      BY <1>4, <1>8 DEF CaptionInv, ListInv
    <3>2. Append(<<>>, d.sjson) = <<d.sjson>>
      OBVIOUS
    <3>3. CASE config.touch
      BY <1>3, <1>8, <3>1, <3>3
    <3>4. CASE ~config.touch
      <4>1. e = Caption!renderCaption(d)
        BY <3>4
      <4> HIDE DEF e
      <4>2. /\ e \in CaptionState /\ e.languages = d.languages /\ e.sjson = d.sjson
            /\ e.list = <<>> /\ (e.loaded <=> d.loaded) /\ ~e.rendered
            /\ (e.overlapped <=> d.overlapped \/ d.builds # <<>>)
            /\ e.builds = Append(d.builds, d.sjson) /\ (e.destroyed <=> d.destroyed)
            /\ (e.shouldShowGoogleDisclaimer <=> d.shouldShowGoogleDisclaimer)
            /\ (e.disclaimer <=> d.disclaimer) /\ e.fetchXHR = d.fetchXHR
            /\ (e.availableTranslationsXHR <=> d.availableTranslationsXHR)
        BY <1>3, <1>4, <4>1, RenderKeeps
      <4> QED
        BY <1>8, <3>1, <3>2, <4>2
    <3> QED
      BY <3>3, <3>4
  <2>2. t = [h EXCEPT !.loaded = TRUE]
    BY <1>5, <1>8
  <2> HIDE DEF e
  <2>3. Frame(e, h) /\ h.fetchXHR = e.fetchXHR
        /\ (h.availableTranslationsXHR <=> e.availableTranslationsXHR)
    <3>1. e.hideCaptionsOnLoad \in BOOLEAN
      BY <2>1 DEF CaptionState
    <3> QED
      BY <2>1, <3>1, HideFrames
  <2>4. h \in CaptionState
    BY <2>3 DEF Frame
  <2> HIDE DEF h
  <2>5. t \in CaptionState
    BY <2>2, <2>4 DEF CaptionState
  <2>6. /\ t.languages = h.languages /\ t.sjson = h.sjson /\ t.list = h.list /\ t.loaded
        /\ (t.rendered <=> h.rendered) /\ (t.overlapped <=> h.overlapped) /\ t.builds = h.builds
        /\ (t.destroyed <=> h.destroyed) /\ (t.disclaimer <=> h.disclaimer)
        /\ (t.shouldShowGoogleDisclaimer <=> h.shouldShowGoogleDisclaimer)
        /\ t.fetchXHR = h.fetchXHR
        /\ (t.availableTranslationsXHR <=> h.availableTranslationsXHR)
    BY <2>2, <2>4 DEF CaptionState
  <2>7. ListInv(t)
    BY <1>4, <2>1, <2>3, <2>6 DEF ListInv, Frame
  <2>8. DisclaimerInv(t)
    BY <1>4, <2>1, <2>3, <2>6 DEF DisclaimerInv, Frame
  <2>9. GoneInv(t)
    BY <1>4, <2>1, <2>3, <2>6 DEF CaptionInv, GoneInv, Frame
  <2> QED
    BY <1>4, <1>8, <2>5, <2>7, <2>8, <2>9 DEF CaptionSteps, CaptionInv, ClosedStays
<1> QED
  BY <1>6, <1>7, <1>8

\* One of the builds is through.
LEMMA RenderSteps ==
    ASSUME NEW c, CaptionInv(c), NEW i \in DOMAIN c.builds, NEW t, t = Caption!onRender(c, i)
    PROVE  CaptionSteps(c, t)
<1> DEFINE builds == Caption!RemoveAt(c.builds, i)
           list == Append(c.list, c.builds[i])
<1>1. c \in CaptionState /\ c.builds \in Seq(Languages) /\ c.list \in Seq(Languages)
  BY DEF CaptionInv, CaptionState
<1>2. i \in 1 .. Len(c.builds) /\ c.builds[i] \in Languages /\ Len(c.builds) \in Nat
  BY <1>1
<1>3. builds \in Seq(Languages)
  <2> DEFINE n == Len(c.builds)
  <2>1. SubSeq(c.builds, 1, i - 1) \in Seq(Languages)
    BY <1>1, <1>2
  <2>2. SubSeq(c.builds, i + 1, n) \in Seq(Languages)
    BY <1>1, <1>2
  <2> QED
    BY <2>1, <2>2, ConcatProperties DEF Caption!RemoveAt
<1>4. list \in Seq(Languages)
  BY <1>1, <1>2
<1>5. c.builds = <<c.sjson>> => builds = <<>> /\ list = Append(c.list, c.sjson)
  <2> SUFFICES ASSUME c.builds = <<c.sjson>>
               PROVE  builds = <<>> /\ list = Append(c.list, c.sjson)
    OBVIOUS
  <2>1. i = 1 /\ Len(c.builds) = 1 /\ c.builds[1] = c.sjson
    BY <1>2
  <2>2. SubSeq(c.builds, 1, 0) = <<>> /\ SubSeq(c.builds, 2, 1) = <<>>
    BY <1>1
  <2>3. <<>> \o <<>> = <<>>
    OBVIOUS
  <2>4. builds = SubSeq(c.builds, 1, 0) \o SubSeq(c.builds, 2, 1)
    BY <2>1 DEF Caption!RemoveAt
  <2> QED
    BY <2>1, <2>2, <2>3, <2>4
<1>6. t = [c EXCEPT !.builds = builds, !.list = list, !.rendered = TRUE]
  BY DEF Caption!onRender
<1>7. c.builds # <<>>
  BY <1>1, <1>2
<1> HIDE DEF builds, list
<1>8. t \in CaptionState
  BY <1>1, <1>3, <1>4, <1>6 DEF CaptionState
<1>9. /\ t.languages = c.languages /\ t.sjson = c.sjson /\ t.list = list /\ t.builds = builds
      /\ t.rendered /\ (t.loaded <=> c.loaded) /\ (t.overlapped <=> c.overlapped)
      /\ (t.destroyed <=> c.destroyed) /\ (t.disclaimer <=> c.disclaimer)
      /\ (t.shouldShowGoogleDisclaimer <=> c.shouldShowGoogleDisclaimer)
      /\ t.fetchXHR = c.fetchXHR /\ (t.closed <=> c.closed)
      /\ (t.availableTranslationsXHR <=> c.availableTranslationsXHR)
  BY <1>1, <1>6 DEF CaptionState
<1>10. Append(<<>>, c.sjson) = <<c.sjson>>
  OBVIOUS
<1>11. ListInv(t)
  BY <1>5, <1>7, <1>9, <1>10 DEF CaptionInv, ListInv
<1> QED
  BY <1>8, <1>9, <1>11 DEF CaptionSteps, CaptionInv, ClosedStays, DisclaimerInv, GoneInv

\* The languages are known that there are, and one of them is taken.
LEMMA TranslationsStep ==
    ASSUME NEW c, CaptionInv(c), c.availableTranslationsXHR, NEW response,
           NEW t \in Caption!availableTranslations(c, response)
    PROVE  CaptionSteps(c, t)
<1> DEFINE languages == c.languages \cap response
           d == [c EXCEPT !.availableTranslationsXHR = FALSE, !.languages = languages]
<1>1. c \in CaptionState /\ ~c.destroyed
  BY DEF CaptionInv, CaptionState, GoneInv
<1>2. languages \in SUBSET Languages
  BY <1>1 DEF CaptionState
<1>3. \/ t = d
      \/ \E l \in Caption!getCurrentLanguage(d) :
             t = [d EXCEPT !.lang = l, !.chooser = @ /\ Caption!Cardinality(d.languages) > 1,
                           !.strayed = @ \/ l # c.lang]
  BY DEF Caption!availableTranslations
<1> HIDE DEF languages
<1>4. d \in CaptionState
  BY <1>1, <1>2 DEF CaptionState
<1>5. /\ d.languages = languages /\ d.sjson = c.sjson /\ d.list = c.list /\ d.builds = c.builds
      /\ (d.rendered <=> c.rendered) /\ (d.loaded <=> c.loaded)
      /\ (d.overlapped <=> c.overlapped) /\ ~d.destroyed /\ (d.disclaimer <=> c.disclaimer)
      /\ (d.shouldShowGoogleDisclaimer <=> c.shouldShowGoogleDisclaimer)
      /\ (d.closed <=> c.closed)
  BY <1>1 DEF CaptionState
<1> HIDE DEF d
<1>6. PICK lang \in Languages, chooser \in BOOLEAN, strayed \in BOOLEAN :
          t = [d EXCEPT !.lang = lang, !.chooser = chooser, !.strayed = strayed]
  <2>1. d.lang \in Languages /\ d.chooser \in BOOLEAN /\ d.strayed \in BOOLEAN
    BY <1>4 DEF CaptionState
  <2>2. CASE t = d
    <3>1. d = [d EXCEPT !.lang = d.lang, !.chooser = d.chooser, !.strayed = d.strayed]
      BY <1>4 DEF CaptionState
    <3> QED
      BY <2>1, <2>2, <3>1
  <2>3. CASE t # d
    <3>1. PICK l \in Caption!getCurrentLanguage(d) :
              t = [d EXCEPT !.lang = l, !.chooser = @ /\ Caption!Cardinality(d.languages) > 1,
                            !.strayed = @ \/ l # c.lang]
      BY <1>3, <2>3
    <3>2. l \in Languages
      <4>1. d.languages \subseteq Languages
        BY <1>2, <1>5
      <4> QED
        BY <2>1, <4>1 DEF Caption!getCurrentLanguage
    <3> DEFINE chooser == d.chooser /\ Caption!Cardinality(d.languages) > 1
               strayed == d.strayed \/ l # c.lang
    <3>3. t = [d EXCEPT !.lang = l, !.chooser = chooser, !.strayed = strayed]
      BY <3>1
    <3>4. chooser \in BOOLEAN /\ strayed \in BOOLEAN
      BY <2>1
    <3> HIDE DEF chooser, strayed
    <3> QED
      BY <3>2, <3>3, <3>4
  <2> QED
    BY <2>2, <2>3
<1>7. t \in CaptionState
  BY <1>4, <1>6, ZenonT(60) DEF CaptionState
<1>8. /\ t.sjson = d.sjson /\ t.list = d.list /\ t.builds = d.builds
      /\ (t.rendered <=> d.rendered) /\ (t.loaded <=> d.loaded)
      /\ (t.overlapped <=> d.overlapped) /\ ~t.destroyed /\ (t.disclaimer <=> d.disclaimer)
      /\ (t.shouldShowGoogleDisclaimer <=> d.shouldShowGoogleDisclaimer)
      /\ (t.closed <=> d.closed)
  BY <1>4, <1>5, <1>6 DEF CaptionState
<1> QED
  BY <1>5, <1>7, <1>8 DEF CaptionSteps, CaptionInv, ClosedStays, ListInv, DisclaimerInv, GoneInv

\* The other steps leave the list alone.
LEMMA OtherSteps ==
    ASSUME CaptionInv(caption), Caption!FetchFails \/ Caption!AvailableTranslationsFail
                                \/ Caption!Destroy
    PROVE  CaptionSteps(caption, caption')
<1>0. caption \in CaptionState
  BY DEF CaptionInv
<1>1. CASE Caption!FetchFails
  <2> DEFINE c == [caption EXCEPT !.fetchXHR = <<>>]
  <2>1. caption.fetchXHR # <<>> /\ caption' = Caption!error(c, caption.fetchXHR[2])
    BY <1>1 DEF Caption!FetchFails, Caption!Becomes
  <2>2. c \in CaptionState
    <3>1. <<>> \in Requests
      BY DEF Requests
    <3> QED
      BY <1>0, <3>1 DEF CaptionState
  <2>3. /\ Frame(caption, c) /\ (c.closed <=> caption.closed)
        /\ (c.availableTranslationsXHR <=> caption.availableTranslationsXHR)
    BY <1>0, <2>2 DEF CaptionState, Frame
  <2> HIDE DEF c
  <2>4. /\ Frame(c, caption')
        /\ c.closed => caption'.closed \/ Tried(caption.fetchXHR[2], caption')
        /\ Caption!Cardinality(c.languages) <= 1 =>
              (caption'.availableTranslationsXHR <=> c.availableTranslationsXHR)
    <3>1. caption.fetchXHR[2] \in BOOLEAN
      BY <1>0, <2>1, RequestIsFor DEF CaptionState
    <3> QED
      BY <2>1, <2>2, <3>1, ErrorFrames
  <2>5. GoneInv(caption')
    <3>1. /\ caption'.languages = caption.languages /\ c.languages = caption.languages
          /\ (caption'.destroyed <=> caption.destroyed)
      BY <2>3, <2>4 DEF Frame
    <3> QED
      BY <2>1, <2>3, <2>4, <3>1 DEF CaptionInv, GoneInv
  <2> QED
    BY <2>1, <2>3, <2>4, <2>5, FrameTwice, FrameKeeps DEF CaptionSteps, ClosedStays
<1>2. CASE Caption!AvailableTranslationsFail
  <2>1. caption.availableTranslationsXHR /\ caption' = Caption!availableFails(caption)
    BY <1>2 DEF Caption!AvailableTranslationsFail, Caption!Becomes
  <2>2. Frame(caption, caption') /\ caption'.closed /\ caption'.fetchXHR = caption.fetchXHR
        /\ ~caption'.availableTranslationsXHR
    BY <1>0, <2>1, UnavailableFrames
  <2>3. GoneInv(caption')
    BY <2>2 DEF CaptionInv, GoneInv, Frame
  <2> QED
    BY <2>2, <2>3, FrameKeeps DEF CaptionSteps, ClosedStays
<1>3. CASE Caption!Destroy
  <2> DEFINE d == Caption!abortFetch(caption)
             e == IF d.availableTranslationsXHR THEN Caption!availableFails(d) ELSE d
  <2>1. caption' = [e EXCEPT !.destroyed = TRUE]
    BY <1>3 DEF Caption!Destroy, Caption!Becomes, Caption!destroy
  <2>2. /\ Frame(caption, d)
        /\ caption.closed =>
              d.closed \/ (caption.fetchXHR # <<>> /\ Tried(caption.fetchXHR[2], d))
        /\ Caption!Cardinality(caption.languages) > 1 => d.fetchXHR = <<>>
    BY <1>0, AbortFrames
  <2> HIDE DEF d
  <2>3. /\ Frame(d, e) /\ (d.closed => e.closed) /\ e.fetchXHR = d.fetchXHR
        /\ ~e.availableTranslationsXHR
    <3>1. d \in CaptionState
      BY <2>2 DEF Frame
    <3>2. CASE d.availableTranslationsXHR
      <4>1. e = Caption!availableFails(d)
        BY <3>2
      <4> HIDE DEF e
      <4> QED
        BY <3>1, <4>1, UnavailableFrames
    <3>3. CASE ~d.availableTranslationsXHR
      BY <3>1, <3>3 DEF Frame
    <3> QED
      BY <3>2, <3>3
  <2> HIDE DEF e
  <2>4. Frame(caption, e) /\ e \in CaptionState
    BY <2>2, <2>3, FrameTwice DEF Frame
  <2>5. Caption!Cardinality(caption.languages) > 1 \/ Caption!Cardinality(caption.languages) <= 1
    BY <1>0, OneOrMore DEF CaptionState
  <2>6. caption' \in CaptionState
    BY <2>1, <2>4 DEF CaptionState
  <2>7. /\ caption'.languages = e.languages /\ caption'.sjson = e.sjson
        /\ caption'.list = e.list /\ caption'.builds = e.builds /\ caption'.fetchXHR = e.fetchXHR
        /\ (caption'.rendered <=> e.rendered) /\ (caption'.loaded <=> e.loaded)
        /\ (caption'.overlapped <=> e.overlapped) /\ (caption'.closed <=> e.closed)
        /\ (caption'.disclaimer <=> e.disclaimer)
        /\ (caption'.shouldShowGoogleDisclaimer <=> e.shouldShowGoogleDisclaimer)
        /\ (caption'.availableTranslationsXHR <=> e.availableTranslationsXHR)
    BY <2>1, <2>4 DEF CaptionState
  <2>8. ListInv(caption')
    BY <2>4, <2>7 DEF CaptionInv, ListInv, Frame
  <2>9. DisclaimerInv(caption')
    BY <2>4, <2>7 DEF CaptionInv, DisclaimerInv, Frame
  <2>10. GoneInv(caption')
    BY <2>2, <2>3, <2>4, <2>5, <2>7 DEF GoneInv, Frame
  <2>11. ClosedStays(caption, caption')
    BY <2>2, <2>3, <2>7 DEF ClosedStays, Tried
  <2> QED
    BY <2>6, <2>8, <2>9, <2>10, <2>11 DEF CaptionSteps, CaptionInv
<1> QED
  BY <1>1, <1>2, <1>3

\* The clicks of the learner.
LEMMA LanguageSteps ==
    ASSUME CaptionInv(caption), NEW l \in Languages, Caption!ChooseLanguage(l)
    PROVE  CaptionSteps(caption, caption')
<1> DEFINE c == [caption EXCEPT !.lang = l]
<1>1. /\ caption \in CaptionState /\ ~caption.destroyed /\ l # caption.lang
      /\ caption' = Caption!fetchCaption(c)
  BY DEF CaptionInv, Caption!ChooseLanguage, Caption!Here, Caption!Becomes
<1>2. c \in CaptionState
  BY <1>1 DEF CaptionState
<1>3. /\ c.lang = l /\ c.languages = caption.languages /\ c.sjson = caption.sjson
      /\ c.builds = caption.builds /\ c.list = caption.list
      /\ (c.loaded <=> caption.loaded) /\ (c.rendered <=> caption.rendered)
      /\ (c.overlapped <=> caption.overlapped) /\ (c.destroyed <=> caption.destroyed)
      /\ (c.disclaimer <=> caption.disclaimer)
      /\ (c.shouldShowGoogleDisclaimer <=> caption.shouldShowGoogleDisclaimer)
  BY <1>1 DEF CaptionState
<1> HIDE DEF c
<1>4. CaptionInv(c)
  BY <1>1, <1>2, <1>3 DEF CaptionInv, ListInv, DisclaimerInv, GoneInv
<1>5. Frame(c, caption')
  BY <1>1, <1>2, FetchFrames
<1>6. caption'.lang = l /\ GoneInv(caption')
  BY <1>1, <1>3, <1>5 DEF Frame, GoneInv
<1> QED
  BY <1>1, <1>4, <1>5, <1>6, FrameKeeps DEF CaptionSteps, ClosedStays

\* The panel is toggled.
LEMMA ToggleSteps ==
    ASSUME CaptionInv(caption), Caption!ToggleTranscript
    PROVE  CaptionSteps(caption, caption')
<1> DEFINE hide == ~caption.closed
           c == Caption!hideCaptions(caption, hide)
           show == IF caption.closed THEN "true" ELSE "false"
<1>1. caption \in CaptionState /\ ~caption.destroyed
  BY DEF CaptionInv, Caption!ToggleTranscript, Caption!Here
<1>2. hide \in BOOLEAN
  OBVIOUS
<1>3. caption' = [c EXCEPT !.show_transcript = show]
  BY DEF Caption!ToggleTranscript, Caption!toggleTranscript, Caption!Becomes
<1>4. show \in Transcripts /\ (caption.closed => show = "true")
  BY DEF Transcripts
<1> HIDE DEF hide, show
<1>5. Frame(caption, c)
  BY <1>1, <1>2, HideFrames
<1>6. c \in CaptionState
  BY <1>5 DEF Frame
<1> HIDE DEF c
<1>7. caption' \in CaptionState
  BY <1>3, <1>4, <1>6 DEF CaptionState
<1>8. /\ caption'.languages = c.languages /\ caption'.sjson = c.sjson
      /\ caption'.list = c.list /\ caption'.builds = c.builds
      /\ (caption'.rendered <=> c.rendered) /\ (caption'.loaded <=> c.loaded)
      /\ (caption'.overlapped <=> c.overlapped) /\ (caption'.destroyed <=> c.destroyed)
      /\ (caption'.disclaimer <=> c.disclaimer) /\ caption'.show_transcript = show
      /\ (caption'.shouldShowGoogleDisclaimer <=> c.shouldShowGoogleDisclaimer)
  BY <1>3, <1>6 DEF CaptionState
<1>9. ListInv(caption')
  BY <1>5, <1>8 DEF CaptionInv, ListInv, Frame
<1>10. DisclaimerInv(caption') /\ GoneInv(caption')
  BY <1>1, <1>5, <1>8 DEF CaptionInv, DisclaimerInv, GoneInv, Frame
<1> QED
  BY <1>4, <1>7, <1>8, <1>9, <1>10 DEF CaptionSteps, CaptionInv, ClosedStays

\* The closed captions are toggled.
LEMMA ClosedCaptionsSteps ==
    ASSUME CaptionInv(caption), Caption!ToggleClosedCaptions
    PROVE  CaptionSteps(caption, caption')
<1> DEFINE has == ~caption.hasCaptions
           disclaimer == has /\ caption.shouldShowGoogleDisclaimer
<1>1. caption \in CaptionState /\ ~caption.destroyed
  BY DEF CaptionInv, Caption!ToggleClosedCaptions, Caption!Here
<1>2. caption' = Caption!toggleClosedCaptions(caption)
  BY DEF Caption!ToggleClosedCaptions, Caption!Becomes
<1>3. PICK b \in BOOLEAN, shown \in BOOLEAN :
          /\ caption' = [caption EXCEPT !.hasCaptions = b, !.disclaimer = shown]
          /\ shown => caption.shouldShowGoogleDisclaimer
  <2>1. CASE caption.hasCaptions
    <3>1. caption' = [caption EXCEPT !.hasCaptions = FALSE, !.disclaimer = FALSE]
      BY <1>1, <1>2, <2>1 DEF Caption!toggleClosedCaptions, Caption!hideClosedCaptions,
                              Caption!toggleGoogleDisclaimer, CaptionState
    <3> QED
      BY <3>1
  <2>2. CASE ~caption.hasCaptions
    <3>1. caption' = [caption EXCEPT !.hasCaptions = TRUE,
                                     !.disclaimer = caption.shouldShowGoogleDisclaimer]
      BY <1>1, <1>2, <2>2 DEF Caption!toggleClosedCaptions, Caption!showClosedCaptions,
                              Caption!toggleGoogleDisclaimer, CaptionState
    <3>2. caption.shouldShowGoogleDisclaimer \in BOOLEAN
      BY <1>1 DEF CaptionState
    <3> QED
      BY <3>1, <3>2
  <2> QED
    BY <2>1, <2>2
<1>4. caption' \in CaptionState
  BY <1>1, <1>3, ZenonT(60) DEF CaptionState
<1>5. Frame(caption, caption') /\ (caption'.closed <=> caption.closed)
  BY <1>1, <1>3, <1>4 DEF CaptionState, Frame
<1>6. GoneInv(caption')
  BY <1>1, <1>5 DEF Frame, GoneInv
<1> QED
  BY <1>5, <1>6, FrameKeeps DEF CaptionSteps, ClosedStays

\* The player starts and pauses.
LEMMA PlayingSteps ==
    ASSUME CaptionInv(caption), NEW c, CaptionInv(c), (c.closed <=> caption.closed),
           NEW b \in BOOLEAN, caption' = [c EXCEPT !.playing = b]
    PROVE  CaptionSteps(caption, caption')
<1>1. c \in CaptionState
  BY DEF CaptionInv
<1>2. caption' \in CaptionState
  BY <1>1 DEF CaptionState
<1>3. /\ caption'.languages = c.languages /\ caption'.sjson = c.sjson
      /\ caption'.list = c.list /\ caption'.builds = c.builds /\ caption'.fetchXHR = c.fetchXHR
      /\ (caption'.rendered <=> c.rendered) /\ (caption'.loaded <=> c.loaded)
      /\ (caption'.overlapped <=> c.overlapped) /\ (caption'.closed <=> c.closed)
      /\ (caption'.disclaimer <=> c.disclaimer) /\ (caption'.destroyed <=> c.destroyed)
      /\ (caption'.shouldShowGoogleDisclaimer <=> c.shouldShowGoogleDisclaimer)
      /\ (caption'.availableTranslationsXHR <=> c.availableTranslationsXHR)
  BY <1>1 DEF CaptionState
<1> QED
  BY <1>2, <1>3 DEF CaptionSteps, CaptionInv, ClosedStays, ListInv, DisclaimerInv, GoneInv

\* Playing renders what was not rendered.
LEMMA PlaySteps ==
    ASSUME CaptionInv(caption), Caption!play \/ Caption!pause
    PROVE  CaptionSteps(caption, caption')
<1>1. CASE Caption!pause
  BY <1>1, PlayingSteps DEF Caption!pause, Caption!Becomes
<1>2. CASE Caption!play
  <2> DEFINE c == IF caption.rendered THEN caption ELSE Caption!renderCaption(caption)
  <2>1. /\ caption \in CaptionState /\ caption.loaded /\ ~caption.destroyed
        /\ caption.sjson \in Languages /\ caption' = [c EXCEPT !.playing = TRUE]
    BY <1>2 DEF Caption!play, Caption!Becomes, Caption!Here, CaptionInv, ListInv
  <2>2. CASE caption.rendered
    <3>1. caption' = [caption EXCEPT !.playing = TRUE]
      BY <2>1, <2>2
    <3> QED
      BY <3>1, PlayingSteps
  <2>3. CASE ~caption.rendered
    <3>1. c = Caption!renderCaption(caption)
      BY <2>3
    <3> HIDE DEF c
    <3>2. /\ c \in CaptionState /\ c.languages = caption.languages
          /\ c.sjson = caption.sjson /\ c.list = <<>> /\ (c.loaded <=> caption.loaded)
          /\ ~c.rendered /\ (c.overlapped <=> caption.overlapped \/ caption.builds # <<>>)
          /\ c.builds = Append(caption.builds, caption.sjson)
          /\ (c.destroyed <=> caption.destroyed) /\ (c.closed <=> caption.closed)
          /\ (c.shouldShowGoogleDisclaimer <=> caption.shouldShowGoogleDisclaimer)
          /\ (c.disclaimer <=> caption.disclaimer)
      BY <2>1, <3>1, RenderKeeps
    <3>3. Append(<<>>, caption.sjson) = <<caption.sjson>>
      OBVIOUS
    <3>4. CaptionInv(c)
      BY <2>1, <3>2, <3>3 DEF CaptionInv, ListInv, DisclaimerInv, GoneInv
    <3> QED
      BY <2>1, <3>2, <3>4, PlayingSteps
  <2> QED
    BY <2>2, <2>3
<1> QED
  BY <1>1, <1>2

\* A visit begins with the request for the captions.
LEMMA CaptionBegins ==
    ASSUME Caption!Init
    PROVE  CaptionInv(caption)
<1> DEFINE c == Caption!NewCaption
           d == Caption!fetchCaption(c)
<1>1. /\ config.languages \in SUBSET Languages /\ config.lang \in Languages
      /\ config.showCaptions \in BOOLEAN /\ config.show_transcript \in Transcripts
  BY PageAssumption DEF Caption!Init, Transcripts
<1>2. c \in CaptionState
  <2>1. <<>> \in Requests /\ <<>> \in Seq(Languages)
    BY DEF Requests
  <2> QED
    BY <1>1, <2>1 DEF CaptionState, Caption!NewCaption
<1>3. /\ c.builds = <<>> /\ c.list = <<>> /\ ~c.loaded /\ ~c.rendered /\ ~c.destroyed
      /\ ~c.disclaimer /\ ~c.shouldShowGoogleDisclaimer
  BY DEF Caption!NewCaption
<1> HIDE DEF c
<1>4. Frame(c, d)
  BY <1>2, FetchFrames
<1>5. CaptionInv(d)
  <2>1. CaptionInv(c)
    BY <1>2, <1>3 DEF CaptionInv, ListInv, DisclaimerInv, GoneInv
  <2>2. GoneInv(d)
    BY <1>3, <1>4 DEF Frame, GoneInv
  <2> QED
    BY <1>4, <2>1, <2>2, FrameKeeps
<1> HIDE DEF d
<1> DEFINE onLoad == CASE d.show_transcript = "true" -> FALSE
                       [] d.show_transcript = "false" -> TRUE
                       [] OTHER -> ~config.showCaptions
           closed == d.closed \/ ~config.showCaptions \/ d.show_transcript = "false"
<1>6. caption = [d EXCEPT !.hideCaptionsOnLoad = onLoad, !.closed = closed]
  BY DEF Caption!Init, Caption!setTranscriptVisibility, c, d
<1>7. onLoad \in BOOLEAN /\ closed \in BOOLEAN
  BY <1>1
<1> HIDE DEF onLoad, closed
<1>8. d \in CaptionState
  BY <1>5 DEF CaptionInv
<1>9. caption \in CaptionState
  BY <1>6, <1>7, <1>8 DEF CaptionState
<1>10. /\ caption.languages = d.languages /\ caption.sjson = d.sjson
       /\ caption.list = d.list /\ caption.builds = d.builds /\ caption.fetchXHR = d.fetchXHR
       /\ (caption.rendered <=> d.rendered) /\ (caption.loaded <=> d.loaded)
       /\ (caption.overlapped <=> d.overlapped)
       /\ (caption.disclaimer <=> d.disclaimer) /\ (caption.destroyed <=> d.destroyed)
       /\ (caption.shouldShowGoogleDisclaimer <=> d.shouldShowGoogleDisclaimer)
       /\ (caption.availableTranslationsXHR <=> d.availableTranslationsXHR)
  BY <1>6, <1>7, <1>8 DEF CaptionState
<1> QED
  BY <1>5, <1>9, <1>10 DEF CaptionInv, ListInv, DisclaimerInv, GoneInv

\* Every step of the captions.
LEMMA CaptionInductive ==
    ASSUME CaptionInv(caption), Caption!Next
    PROVE  CaptionSteps(caption, caption')
<1>1. CASE Caption!FetchSucceeds
  BY <1>1, SuccessSteps DEF Caption!FetchSucceeds, Caption!Becomes
<1>2. CASE Caption!AvailableTranslations
  BY <1>2, TranslationsStep DEF Caption!AvailableTranslations, Caption!Becomes
<1>3. CASE Caption!BuildEnds
  BY <1>3, RenderSteps DEF Caption!BuildEnds, Caption!Becomes
<1> QED
  BY <1>1, <1>2, <1>3, OtherSteps, LanguageSteps, ToggleSteps, ClosedCaptionsSteps, PlaySteps
     DEF Caption!Next
--------------------------------------------------------------------------------
VolumeState ==
    [volume : 0 .. 100, storedVolume : 1 .. 100, cookie : Int, isMuted : BOOLEAN,
     isMutedOnce : BOOLEAN, label : BOOLEAN, player : 0 .. 100, ready : BOOLEAN,
     played : BOOLEAN]

(***************************************************************************)
(* What holds between two events: the icon is muted only by what takes it  *)
(* back, a player that played is listening, and the next visit reads the   *)
(* volume of now from the cookie.                                          *)
(***************************************************************************)
Together(v) ==
    /\ v.isMuted <=> v.volume = 0
    /\ v.isMuted => v.isMutedOnce
    /\ v.label <=> v.volume = 0
    /\ v.played => v.ready /\ v.player = v.volume
    /\ Volume!getVolume(v.cookie) = v.volume
VolumeInv == vol \in VolumeState /\ Together(vol)
--------------------------------------------------------------------------------
\* What the cookie holds becomes a volume.
LEMMA VolumeInRange ==
    ASSUME NEW cookie \in Int
    PROVE  Volume!getVolume(cookie) \in 0 .. 100
BY DEF Volume!getVolume, Volume!Least, Volume!Greatest, Volume!NoCookie, Volume!Min, Volume!Max

\* Two fields of a state may be given any values of theirs.
LEMMA VolumeAndCookie ==
    ASSUME NEW v \in VolumeState, NEW volume \in 0 .. 100, NEW cookie \in Int
    PROVE  [v EXCEPT !.volume = volume, !.cookie = cookie] \in VolumeState
<1> DEFINE louder == [v EXCEPT !.volume = volume]
<1>1. louder \in VolumeState
  BY DEF VolumeState
<1>2. [v EXCEPT !.volume = volume, !.cookie = cookie] = [louder EXCEPT !.cookie = cookie]
  BY DEF VolumeState
<1> HIDE DEF louder
<1> QED
  BY <1>1, <1>2 DEF VolumeState

\* The icon and its mark.
LEMMA MutedAndOnce ==
    ASSUME NEW v \in VolumeState, NEW muted \in BOOLEAN, NEW once \in BOOLEAN
    PROVE  [v EXCEPT !.isMuted = muted, !.isMutedOnce = once] \in VolumeState
<1> DEFINE icon == [v EXCEPT !.isMuted = muted]
<1>1. icon \in VolumeState
  BY DEF VolumeState
<1>2. [v EXCEPT !.isMuted = muted, !.isMutedOnce = once] = [icon EXCEPT !.isMutedOnce = once]
  BY DEF VolumeState
<1> HIDE DEF icon
<1> QED
  BY <1>1, <1>2 DEF VolumeState

\* The icon and the volume to come back to.
LEMMA MutedAndStored ==
    ASSUME NEW v \in VolumeState, NEW muted \in BOOLEAN, NEW stored \in 1 .. 100
    PROVE  [v EXCEPT !.isMuted = muted, !.storedVolume = stored] \in VolumeState
<1> DEFINE icon == [v EXCEPT !.isMuted = muted]
<1>1. icon \in VolumeState
  BY DEF VolumeState
<1>2. [v EXCEPT !.isMuted = muted, !.storedVolume = stored] = [icon EXCEPT !.storedVolume = stored]
  BY DEF VolumeState
<1> HIDE DEF icon
<1> QED
  BY <1>1, <1>2 DEF VolumeState

\* To set a volume brings all together again, also when Volume!mute has just turned the icon.
LEMMA SetVolumeKeeps ==
    ASSUME NEW v \in VolumeState, NEW volume \in 0 .. 100,
           v.isMuted => v.isMutedOnce \/ volume = 0,
           v.label <=> v.volume = 0,
           v.played => v.ready /\ v.player = v.volume,
           Volume!getVolume(v.cookie) = v.volume,
           volume # v.volume
    PROVE  /\ Volume!setVolume(v, volume) \in VolumeState /\ Together(Volume!setVolume(v, volume))
           /\ Volume!setVolume(v, volume).volume = volume
<1> DEFINE set == [v EXCEPT !.volume = volume, !.cookie = volume]
           seen == IF set.isMutedOnce
                   THEN [set EXCEPT !.isMuted = FALSE, !.isMutedOnce = FALSE] ELSE set
           checked == Volume!checkMuteButtonStatus(seen, volume)
           labelled == [checked EXCEPT !.label = Volume!getMuteStatus(set)]
<1>1. /\ set \in VolumeState /\ set.volume = volume /\ set.cookie = volume
      /\ (set.isMuted <=> v.isMuted)
      /\ (set.isMutedOnce <=> v.isMutedOnce) /\ (set.ready <=> v.ready) /\ (set.played <=> v.played)
  <2>1. volume \in Int
    OBVIOUS
  <2>2. set \in VolumeState
    BY <2>1, VolumeAndCookie
  <2> QED
    BY <2>2 DEF VolumeState
<1>2. /\ seen \in VolumeState /\ seen.volume = volume /\ seen.cookie = volume
      /\ (seen.ready <=> v.ready) /\ (seen.played <=> v.played) /\ (seen.isMuted => volume = 0)
  <2>1. CASE v.isMutedOnce
    <3>1. seen = [set EXCEPT !.isMuted = FALSE, !.isMutedOnce = FALSE]
      BY <1>1, <2>1
    <3> HIDE DEF set, seen
    <3>2. seen \in VolumeState
      BY <1>1, <3>1, MutedAndOnce
    <3> QED
      BY <1>1, <3>1, <3>2 DEF VolumeState
  <2>2. CASE ~v.isMutedOnce
    BY <1>1, <2>2
  <2> QED
    BY <2>1, <2>2
<1>3. /\ checked \in VolumeState /\ checked.volume = volume /\ checked.cookie = volume
      /\ (checked.ready <=> v.ready) /\ (checked.played <=> v.played)
      /\ (checked.isMuted <=> volume = 0) /\ (checked.isMuted => checked.isMutedOnce)
  <2>1. CASE volume = 0
    <3> HIDE DEF seen
    <3>1. checked = [seen EXCEPT !.isMuted = TRUE, !.isMutedOnce = TRUE]
      BY <2>1 DEF Volume!checkMuteButtonStatus, Volume!Min
    <3>2. checked \in VolumeState
      BY <1>2, <3>1, MutedAndOnce
    <3> QED
      BY <1>2, <2>1, <3>1, <3>2 DEF VolumeState
  <2>2. CASE volume # 0
    <3>1. checked = seen
      BY <2>2 DEF Volume!checkMuteButtonStatus, Volume!Min
    <3>2. ~seen.isMuted
      BY <1>2, <2>2
    <3> QED
      BY <1>2, <2>2, <3>1, <3>2
  <2> QED
    BY <2>1, <2>2
<1>4. /\ labelled \in VolumeState /\ labelled.volume = volume /\ labelled.cookie = volume
      /\ (labelled.ready <=> v.ready) /\ (labelled.played <=> v.played)
      /\ (labelled.isMuted <=> volume = 0) /\ (labelled.isMuted => labelled.isMutedOnce)
      /\ (labelled.label <=> volume = 0)
  BY <1>1, <1>3 DEF VolumeState, Volume!getMuteStatus
<1>5. Volume!setVolume(v, volume) = Volume!tellPlayer(labelled)
  BY <1>1 DEF Volume!setVolume, Volume!volumechange
<1>6. Volume!getVolume(volume) = volume
  BY DEF Volume!getVolume, Volume!Least, Volume!Greatest, Volume!NoCookie, Volume!Min, Volume!Max
<1> HIDE DEF labelled
<1>7. /\ Volume!tellPlayer(labelled) \in VolumeState /\ Volume!tellPlayer(labelled).volume = volume
      /\ Together(Volume!tellPlayer(labelled))
  <2>1. CASE labelled.ready
    <3>1. Volume!tellPlayer(labelled) = [labelled EXCEPT !.player = labelled.volume]
      BY <2>1 DEF Volume!tellPlayer
    <3> QED
      BY <1>4, <1>6, <2>1, <3>1 DEF VolumeState, Together
  <2>2. CASE ~labelled.ready
    BY <1>4, <1>6, <2>2 DEF VolumeState, Together, Volume!tellPlayer
  <2> QED
    BY <2>1, <2>2
<1> QED
  BY <1>5, <1>7

\* Nothing happens when the volume is the one set already.
LEMMA StepKeeps ==
    ASSUME NEW v \in VolumeState, Together(v), NEW volume \in 0 .. 100
    PROVE  Volume!setVolume(v, volume) \in VolumeState /\ Together(Volume!setVolume(v, volume))
<1>1. CASE volume = v.volume
  BY <1>1 DEF Volume!setVolume
<1>2. CASE volume # v.volume
  BY <1>2, SetVolumeKeeps DEF Together
<1> QED
  BY <1>1, <1>2

\* A visit begins with all together.
LEMMA VisitBegins ==
    ASSUME NEW cookie \in Int
    PROVE  /\ Volume!initialize(cookie) \in VolumeState /\ Together(Volume!initialize(cookie))
           /\ Volume!initialize(cookie).volume = Volume!getVolume(cookie)
<1> DEFINE v == [volume |-> Volume!getVolume(cookie), storedVolume |-> 100, cookie |-> cookie,
                 isMuted |-> FALSE, isMutedOnce |-> FALSE, label |-> Volume!getVolume(cookie) = 0,
                 player |-> 100, ready |-> FALSE, played |-> FALSE]
<1>1. v \in VolumeState
  BY VolumeInRange DEF VolumeState
<1>2. Volume!initialize(cookie) = Volume!checkMuteButtonStatus(v, Volume!getVolume(cookie))
  BY DEF Volume!initialize, Volume!Max
<1>3. CASE Volume!getVolume(cookie) = 0
  <2>1. Volume!initialize(cookie) = [v EXCEPT !.isMuted = TRUE, !.isMutedOnce = TRUE]
    BY <1>2, <1>3 DEF Volume!checkMuteButtonStatus, Volume!Min
  <2>2. /\ v.volume = Volume!getVolume(cookie) /\ v.cookie = cookie
        /\ (v.label <=> Volume!getVolume(cookie) = 0)
        /\ v.played = FALSE
    OBVIOUS
  <2> HIDE DEF v
  <2>3. Volume!initialize(cookie) \in VolumeState
    BY <1>1, <2>1, MutedAndOnce
  <2> QED
    BY <1>1, <1>3, <2>1, <2>2, <2>3 DEF VolumeState, Together
<1>4. CASE Volume!getVolume(cookie) # 0
  <2>1. Volume!initialize(cookie) = v
    BY <1>2, <1>4, VolumeInRange DEF Volume!checkMuteButtonStatus, Volume!Min
  <2>2. Together(v)
    BY <1>4 DEF Together
  <2> QED
    BY <1>1, <2>1, <2>2
<1> QED
  BY <1>3, <1>4

\* Muting goes to silence, and unmuting to the volume that was stored.
LEMMA MuteKeeps ==
    ASSUME NEW v \in VolumeState, Together(v)
    PROVE  LET now == Volume!mute(v, ~Volume!getMuteStatus(v))
           IN  now \in VolumeState /\ Together(now) /\ (v.volume = 0 => now.volume > 0)
<1>1. CASE v.volume = 0
  <2> DEFINE w == [v EXCEPT !.isMuted = FALSE, !.storedVolume = v.storedVolume]
  <2>1. Volume!mute(v, ~Volume!getMuteStatus(v)) = Volume!setVolume(w, w.storedVolume)
    BY <1>1 DEF Volume!mute, Volume!getMuteStatus
  <2>2. w \in VolumeState /\ w.volume = v.volume /\ w.storedVolume \in 1 .. 100 /\ ~w.isMuted
        /\ (w.label <=> v.label) /\ (w.played <=> v.played) /\ (w.ready <=> v.ready)
        /\ w.player = v.player /\ w.cookie = v.cookie
    <3>1. v.storedVolume \in 1 .. 100
      BY DEF VolumeState
    <3>2. w \in VolumeState
      BY <3>1, MutedAndStored
    <3> QED
      BY <3>2 DEF VolumeState
  <2> HIDE DEF w
  <2>3. /\ Volume!setVolume(w, w.storedVolume) \in VolumeState
        /\ Together(Volume!setVolume(w, w.storedVolume))
        /\ Volume!setVolume(w, w.storedVolume).volume = w.storedVolume
    <3>1. w.storedVolume \in 0 .. 100 /\ w.storedVolume # w.volume
      BY <1>1, <2>2
    <3>2. w.played => w.ready /\ w.player = w.volume
      BY <2>2 DEF Together
    <3>3. Volume!getVolume(w.cookie) = w.volume /\ (w.label <=> w.volume = 0)
      BY <2>2 DEF Together
    <3> QED
      BY <2>2, <3>1, <3>2, <3>3, SetVolumeKeeps
  <2> QED
    BY <2>1, <2>2, <2>3
<1>2. CASE v.volume # 0
  <2> DEFINE w == [v EXCEPT !.isMuted = TRUE, !.storedVolume = v.volume]
  <2>1. Volume!mute(v, ~Volume!getMuteStatus(v)) = Volume!setVolume(w, 0)
    BY <1>2 DEF Volume!mute, Volume!getMuteStatus
  <2>2. w \in VolumeState /\ w.volume = v.volume /\ (w.label <=> v.label) /\ (w.played <=> v.played)
        /\ (w.ready <=> v.ready) /\ w.player = v.player /\ w.cookie = v.cookie
    <3>1. v.volume \in 1 .. 100
      BY <1>2 DEF VolumeState
    <3>2. w \in VolumeState
      BY <3>1, MutedAndStored
    <3> QED
      BY <3>2 DEF VolumeState
  <2> HIDE DEF w
  <2> QED
    BY <1>2, <2>1, <2>2, SetVolumeKeeps DEF Together
<1> QED
  BY <1>1, <1>2
--------------------------------------------------------------------------------
\* Every event leaves all together.
LEMMA VolumeInductive ==
    /\ Volume!Init => VolumeInv
    /\ VolumeInv /\ [Volume!Next]_vol => VolumeInv'
<1>1. Volume!Init => VolumeInv
  BY VisitBegins, PageAssumption DEF Volume!Init, VolumeInv
<1>2. ASSUME VolumeInv, [Volume!Next]_vol
      PROVE  VolumeInv'
  <2>1. CASE Volume!toggleMute
    BY <1>2, <2>1, MuteKeeps DEF Volume!toggleMute, VolumeInv
  <2>2. CASE Volume!IncreaseVolume
    <3>1. Volume!Least(vol.volume + Volume!Step, Volume!Max) \in 0 .. 100
      BY <1>2 DEF VolumeInv, VolumeState, Volume!Least, Volume!Step, Volume!Max
    <3> QED
      BY <1>2, <2>2, <3>1, StepKeeps DEF Volume!IncreaseVolume, Volume!increaseVolume, VolumeInv
  <2>3. CASE Volume!DecreaseVolume
    <3>1. Volume!Greatest(vol.volume - Volume!Step, Volume!Min) \in 0 .. 100
      BY <1>2 DEF VolumeInv, VolumeState, Volume!Greatest, Volume!Step, Volume!Min
    <3> QED
      BY <1>2, <2>3, <3>1, StepKeeps DEF Volume!DecreaseVolume, Volume!decreaseVolume, VolumeInv
  <2>4. CASE Volume!onSlideHandler
    BY <1>2, <2>4, StepKeeps, PageAssumption
       DEF Volume!onSlideHandler, VolumeInv, Volume!Min, Volume!Max
  <2>5. CASE Volume!PlayerIsReady
    BY <1>2, <2>5 DEF Volume!PlayerIsReady, VolumeInv, VolumeState, Together
  <2>6. CASE Volume!updateVolumeSilently
    BY <1>2, <2>6 DEF Volume!updateVolumeSilently, Volume!tellPlayer, VolumeInv, VolumeState,
                      Together
  <2>7. CASE Volume!Reload
    BY <1>2, <2>7, VisitBegins DEF Volume!Reload, VolumeInv, VolumeState
  <2>8. CASE UNCHANGED vol
    BY <1>2, <2>8 DEF VolumeInv
  <2> QED
    BY <1>2, <2>1, <2>2, <2>3, <2>4, <2>5, <2>6, <2>7, <2>8 DEF Volume!Next
<1> QED
  BY <1>1, <1>2
--------------------------------------------------------------------------------
(***************************************************************************)
(* The speed.  A player that is ready plays at one of the speeds it has,   *)
(* and what was chosen since the start is what it was told.                *)
(***************************************************************************)
SpeedState ==
    [html5 : BOOLEAN, speeds : SUBSET Nat, speed : Nat, currentSpeed : Nat, active : Nat,
     selected : Nat, rate : Nat, saved : Nat, ready : BOOLEAN, played : BOOLEAN, chosen : BOOLEAN,
     auto_advance : BOOLEAN, autoActive : BOOLEAN, autoSaved : BOOLEAN, early : BOOLEAN]
Offered(s) == 100 \in s.speeds /\ \A speed \in s.speeds : speed > 25
PlaysAsTold(s) ==
    /\ s.html5 \/ s.ready => s.speed \in s.speeds
    /\ s.ready => s.rate \in s.speeds
    /\ s.played => s.ready
    /\ s.chosen => s.played /\ s.rate = s.currentSpeed
AdvancesAsTold(s) ==
    /\ s.autoActive <=> s.autoSaved
    /\ ~s.early => (s.autoActive <=> s.auto_advance)
SpeedInv(s) == s \in SpeedState /\ Offered(s) /\ PlaysAsTold(s) /\ AdvancesAsTold(s)

\* setSpeed finds a speed there is.
LEMMA SpeedIsThere ==
    ASSUME NEW speeds \in SUBSET Nat, 100 \in speeds, NEW newSpeed \in Nat, NEW isString \in BOOLEAN
    PROVE  Speed!setSpeed(speeds, newSpeed, isString) \in speeds
BY DEF Speed!setSpeed

\* A visit begins.
LEMMA SpeedStarts ==
    ASSUME NEW html5 \in BOOLEAN, NEW saved \in Nat, NEW auto \in BOOLEAN,
           NEW s, s = Speed!initialize(html5, saved, auto)
    PROVE  SpeedInv(s)
<1> DEFINE speeds == IF html5 THEN Html5Speeds ELSE {100}
           speed == IF html5 THEN Speed!setSpeed(speeds, saved, TRUE) ELSE saved
<1>1. s = [html5 |-> html5, speeds |-> speeds, speed |-> speed, currentSpeed |-> speed,
           active |-> speed, selected |-> speed, rate |-> 100, saved |-> saved,
           ready |-> FALSE, played |-> FALSE, chosen |-> FALSE,
           auto_advance |-> auto, autoActive |-> auto, autoSaved |-> auto, early |-> FALSE]
  BY DEF Speed!initialize
<1>2. /\ speeds \in SUBSET Nat /\ 100 \in speeds
      /\ \A x \in speeds : x > 25
  BY PageAssumption
<1>3. speed \in Nat /\ (html5 => speed \in speeds)
  <2> HIDE DEF speeds
  <2>1. Speed!setSpeed(speeds, saved, TRUE) \in speeds
    BY <1>2, SpeedIsThere
  <2> QED
    BY <1>2, <2>1
<1> HIDE DEF speeds, speed
<1>4. s \in SpeedState
  BY <1>1, <1>2, <1>3 DEF SpeedState
<1>5. Offered(s)
  <2>1. s.speeds = speeds
    BY <1>1
  <2> QED
    BY <1>2, <2>1 DEF Offered
<1>6. PlaysAsTold(s)
  BY <1>1, <1>3 DEF PlaysAsTold
<1>7. AdvancesAsTold(s)
  BY <1>1 DEF AdvancesAsTold
<1> QED
  BY <1>4, <1>5, <1>6, <1>7 DEF SpeedInv

\* A speed is chosen, in whichever menu.
LEMMA ChooseKeeps ==
    ASSUME SpeedInv(spd), Speed!ChooseSpeed
    PROVE  /\ SpeedInv(spd)'
           /\ spd'.active = spd'.currentSpeed
           /\ spd'.currentSpeed # spd.currentSpeed
                => spd'.saved = spd'.active /\ spd'.selected = spd'.active
<1>1. PICK newSpeed \in spd.speeds :
         spd' = [Speed!VideoSpeedControl_setSpeed(spd, newSpeed)
                   EXCEPT !.chosen = @ \/ (spd.played /\ newSpeed # spd.currentSpeed)]
  BY DEF Speed!ChooseSpeed
<1>2. spd \in SpeedState /\ newSpeed \in Nat
  BY DEF SpeedInv, SpeedState
<1>3. CASE newSpeed = spd.currentSpeed
  <2>1. Speed!VideoSpeedControl_setSpeed(spd, newSpeed) = [spd EXCEPT !.active = newSpeed]
    BY <1>3 DEF Speed!VideoSpeedControl_setSpeed
  <2> DEFINE t == [spd EXCEPT !.active = newSpeed]
  <2>2. /\ t \in SpeedState /\ t.active = newSpeed /\ (t.chosen <=> spd.chosen)
        /\ t = [spd EXCEPT !.active = newSpeed]
    BY <1>2 DEF SpeedState
  <2> HIDE DEF t
  <2>3. t.chosen \in BOOLEAN /\ (t.chosen \/ (spd.played /\ newSpeed # spd.currentSpeed)) = t.chosen
    BY <1>3, <2>2 DEF SpeedState
  <2>4. spd' = [t EXCEPT !.chosen = t.chosen]
    BY <1>1, <2>1, <2>2, <2>3
  <2>5. spd' = [spd EXCEPT !.active = newSpeed]
    BY <2>2, <2>4 DEF SpeedState
  <2>6. SpeedInv(spd')
    BY <1>2, <2>5 DEF SpeedInv, SpeedState, Offered, PlaysAsTold, AdvancesAsTold
  <2> QED
    BY <1>2, <1>3, <2>5, <2>6 DEF SpeedState
<1>4. CASE newSpeed # spd.currentSpeed
  <2> DEFINE t == [spd EXCEPT !.currentSpeed = newSpeed, !.saved = newSpeed, !.selected = newSpeed]
             u == IF spd.ready THEN Speed!onSpeedChange(t, newSpeed) ELSE t
             speed == IF spd.ready THEN Speed!setSpeed(spd.speeds, newSpeed, FALSE) ELSE spd.speed
             rate == IF spd.ready THEN newSpeed ELSE spd.rate
             chosen == spd.chosen \/ spd.played
  <2>1. t.ready = spd.ready /\ t.speeds = spd.speeds
    BY <1>2 DEF SpeedState
  <2>2. Speed!VideoSpeedControl_setSpeed(spd, newSpeed) = [u EXCEPT !.active = newSpeed]
    BY <1>2, <1>4 DEF Speed!VideoSpeedControl_setSpeed, Speed!speedchange, SpeedState
  <2>3. u = [spd EXCEPT !.currentSpeed = newSpeed, !.saved = newSpeed, !.selected = newSpeed,
                        !.speed = speed, !.rate = rate]
    <3>1. CASE spd.ready
      BY <1>2, <2>1, <3>1 DEF Speed!onSpeedChange, Speed!setPlaybackRate, SpeedState
    <3>2. CASE ~spd.ready
      BY <1>2, <3>2 DEF SpeedState
    <3> QED
      BY <3>1, <3>2
  <2>4. 100 \in spd.speeds /\ spd.speeds \in SUBSET Nat
    BY <1>2 DEF SpeedInv, Offered, SpeedState
  <2>5. /\ speed \in Nat /\ (spd.ready => speed \in spd.speeds) /\ (~spd.ready => speed = spd.speed)
        /\ rate \in Nat /\ (spd.ready => rate = newSpeed) /\ (~spd.ready => rate = spd.rate)
    <3>1. Speed!setSpeed(spd.speeds, newSpeed, FALSE) \in spd.speeds
      BY <1>2, <2>4, SpeedIsThere
    <3> QED
      BY <1>2, <2>4, <3>1 DEF SpeedState
  <2> HIDE DEF t, u, speed, rate
  <2>6. chosen \in BOOLEAN /\ (chosen <=> spd.chosen \/ spd.played)
    BY <1>2 DEF SpeedState
  <2>7. spd' = [spd EXCEPT !.currentSpeed = newSpeed, !.saved = newSpeed, !.selected = newSpeed,
                           !.speed = speed, !.rate = rate, !.active = newSpeed, !.chosen = chosen]
    BY <1>1, <1>2, <1>4, <2>2, <2>3 DEF SpeedState
  <2> HIDE DEF chosen
  <2>8. /\ spd' \in SpeedState /\ spd'.currentSpeed = newSpeed /\ spd'.saved = newSpeed
        /\ spd'.selected = newSpeed /\ spd'.speed = speed /\ spd'.rate = rate
        /\ spd'.active = newSpeed /\ (spd'.chosen <=> chosen) /\ spd'.speeds = spd.speeds
        /\ (spd'.html5 <=> spd.html5) /\ (spd'.ready <=> spd.ready) /\ (spd'.played <=> spd.played)
        /\ (spd'.autoActive <=> spd.autoActive) /\ (spd'.autoSaved <=> spd.autoSaved)
        /\ (spd'.auto_advance <=> spd.auto_advance) /\ (spd'.early <=> spd.early)
    BY <1>2, <2>5, <2>6, <2>7 DEF SpeedState
  <2>9. Offered(spd') /\ AdvancesAsTold(spd')
    BY <2>8 DEF SpeedInv, Offered, AdvancesAsTold
  <2>10. PlaysAsTold(spd')
    BY <2>5, <2>6, <2>8 DEF SpeedInv, PlaysAsTold
  <2> QED
    BY <2>8, <2>9, <2>10 DEF SpeedInv
<1> QED
  BY <1>3, <1>4

\* YouTube's rates replace the speeds.
LEMMA ReadyKeeps ==
    ASSUME SpeedInv(spd), Speed!onReady
    PROVE  SpeedInv(spd)'
<1> DEFINE speeds == IF spd.html5 THEN spd.speeds ELSE {r \in YoutubeRates : r > 25 /\ r <= 500}
           speed == IF spd.html5 THEN spd.speed ELSE Speed!setSpeed(speeds, spd.speed, TRUE)
           active == IF spd.html5 THEN spd.active ELSE speed
<1>1. spd \in SpeedState /\ ~spd.ready
  BY DEF SpeedInv, Speed!onReady
<1>2. speeds \in SUBSET Nat /\ 100 \in speeds /\ \A x \in speeds : x > 25
  <2>1. CASE spd.html5
    BY <1>1, <2>1 DEF SpeedInv, Offered, SpeedState
  <2>2. CASE ~spd.html5
    BY <2>2, PageAssumption
  <2> QED
    BY <2>1, <2>2
<1>3. speed \in speeds /\ active \in Nat
  <2> HIDE DEF speeds
  <2>1. Speed!setSpeed(speeds, spd.speed, TRUE) \in speeds
    BY <1>1, <1>2, SpeedIsThere DEF SpeedState
  <2>2. spd.html5 => spd.speed \in speeds
    BY DEF speeds, SpeedInv, PlaysAsTold
  <2> QED
    BY <1>1, <1>2, <2>1, <2>2 DEF SpeedState
<1>4. spd' = [spd EXCEPT !.ready = TRUE, !.speeds = speeds, !.speed = speed, !.active = active,
                         !.rate = speed]
  BY <1>1 DEF Speed!onReady, Speed!setPlaybackRate, SpeedState
<1> HIDE DEF speeds, speed, active
<1>5. /\ spd' \in SpeedState /\ spd'.ready /\ spd'.speeds = speeds /\ spd'.speed = speed
      /\ spd'.rate = speed /\ (spd'.played <=> spd.played) /\ (spd'.chosen <=> spd.chosen)
      /\ (spd'.html5 <=> spd.html5)
      /\ (spd'.autoActive <=> spd.autoActive) /\ (spd'.autoSaved <=> spd.autoSaved)
      /\ (spd'.auto_advance <=> spd.auto_advance) /\ (spd'.early <=> spd.early)
  BY <1>1, <1>2, <1>3, <1>4 DEF SpeedState
<1>6. Offered(spd') /\ AdvancesAsTold(spd')
  BY <1>2, <1>5 DEF SpeedInv, Offered, AdvancesAsTold
<1>7. PlaysAsTold(spd')
  BY <1>1, <1>3, <1>5 DEF SpeedInv, PlaysAsTold
<1> QED
  BY <1>5, <1>6, <1>7 DEF SpeedInv

\* Every step of the speed and auto-advance.
LEMMA SpeedInductive ==
    /\ Speed!Init => SpeedInv(spd)
    /\ SpeedInv(spd) /\ [Speed!Next]_spd => SpeedInv(spd)'
<1>1. ASSUME Speed!Init
      PROVE  SpeedInv(spd)
  BY <1>1, SpeedStarts, PageAssumption DEF Speed!Init
<1>2. ASSUME SpeedInv(spd), [Speed!Next]_spd
      PROVE  SpeedInv(spd)'
  <2>0. spd \in SpeedState
    BY <1>2 DEF SpeedInv
  <2>1. CASE Speed!ChooseSpeed
    BY <1>2, <2>1, ChooseKeeps
  <2>2. CASE Speed!onReady
    BY <1>2, <2>2, ReadyKeeps
  <2>3. CASE Speed!ready
    <3> DEFINE rate == IF spd.speed # 100 THEN spd.speed ELSE spd.rate
    <3>1. spd.ready /\ ~spd.played /\ spd' = [spd EXCEPT !.rate = rate, !.played = TRUE]
      BY <2>0, <2>3 DEF Speed!ready, Speed!setPlaybackRate, SpeedState
    <3>2. rate \in Nat /\ rate \in spd.speeds
      BY <1>2, <2>0, <3>1 DEF SpeedInv, SpeedState, PlaysAsTold
    <3> HIDE DEF rate
    <3>3. /\ spd' \in SpeedState /\ (spd'.ready <=> spd.ready) /\ spd'.speeds = spd.speeds
          /\ spd'.speed = spd.speed /\ spd'.rate = rate /\ (spd'.chosen <=> spd.chosen)
          /\ (spd'.html5 <=> spd.html5)
          /\ (spd'.autoActive <=> spd.autoActive) /\ (spd'.autoSaved <=> spd.autoSaved)
          /\ (spd'.auto_advance <=> spd.auto_advance) /\ (spd'.early <=> spd.early)
      BY <2>0, <3>1, <3>2 DEF SpeedState
    <3>4. Offered(spd') /\ AdvancesAsTold(spd')
      BY <1>2, <3>3 DEF SpeedInv, Offered, AdvancesAsTold
    <3>5. PlaysAsTold(spd')
      BY <1>2, <3>1, <3>2, <3>3 DEF SpeedInv, PlaysAsTold
    <3> QED
      BY <3>3, <3>4, <3>5 DEF SpeedInv
  <2>4. CASE Speed!onClick
    <3> DEFINE enabled == ~spd.auto_advance
               auto == IF spd.ready THEN enabled ELSE spd.auto_advance
               early == ~spd.ready
    <3>1. spd' = [spd EXCEPT !.autoActive = enabled, !.autoSaved = enabled, !.auto_advance = auto,
                             !.early = early]
      BY <2>0, <2>4 DEF Speed!onClick, SpeedState
    <3>2. enabled \in BOOLEAN /\ auto \in BOOLEAN /\ early \in BOOLEAN
      BY <2>0 DEF SpeedState
    <3>3. ~early => (enabled <=> auto)
      OBVIOUS
    <3> HIDE DEF enabled, auto, early
    <3>4. /\ spd' \in SpeedState /\ (spd'.ready <=> spd.ready) /\ spd'.speeds = spd.speeds
          /\ spd'.speed = spd.speed /\ spd'.rate = spd.rate /\ (spd'.chosen <=> spd.chosen)
          /\ (spd'.html5 <=> spd.html5) /\ (spd'.played <=> spd.played)
          /\ spd'.currentSpeed = spd.currentSpeed
          /\ (spd'.autoActive <=> enabled) /\ (spd'.autoSaved <=> enabled)
          /\ (spd'.auto_advance <=> auto) /\ (spd'.early <=> early)
      BY <2>0, <3>1, <3>2, ZenonT(60) DEF SpeedState
    <3>5. Offered(spd') /\ PlaysAsTold(spd')
      BY <1>2, <3>4 DEF SpeedInv, Offered, PlaysAsTold
    <3>6. AdvancesAsTold(spd')
      BY <3>3, <3>4 DEF AdvancesAsTold
    <3> QED
      BY <3>4, <3>5, <3>6 DEF SpeedInv
  <2>5. CASE Speed!Reload
    BY <2>0, <2>5, SpeedStarts DEF Speed!Reload, SpeedState
  <2>6. CASE UNCHANGED spd
    BY <1>2, <2>6
  <2> QED
    BY <1>2, <2>1, <2>2, <2>3, <2>4, <2>5, <2>6 DEF Speed!Next
<1> QED
  BY <1>1, <1>2

\* The invariant is what the checks ask of the speed.
LEMMA SpeedIsSound ==
    ASSUME SpeedInv(spd)
    PROVE  /\ Speed!TypeOK /\ Speed!ChosenIsPlayed /\ Speed!RateIsAvailable
           /\ Speed!AutoAdvanceAgrees
<1>1. Speed!TypeOK
  BY DEF SpeedInv, SpeedState, Speed!TypeOK
<1>2. Speed!ChosenIsPlayed /\ Speed!RateIsAvailable
  BY DEF SpeedInv, PlaysAsTold, Offered, Speed!ChosenIsPlayed, Speed!RateIsAvailable
<1>3. Speed!AutoAdvanceAgrees
  <2>1. spd.autoActive \in BOOLEAN /\ spd.autoSaved \in BOOLEAN /\ spd.auto_advance \in BOOLEAN
    BY DEF SpeedInv, SpeedState
  <2> QED
    BY <2>1 DEF SpeedInv, AdvancesAsTold, Speed!AutoAdvanceAgrees
<1> QED
  BY <1>1, <1>2, <1>3
--------------------------------------------------------------------------------
(***************************************************************************)
(* The full screen.  As long as the learner waits for the browser's        *)
(* answers, one request is under way, and the page is laid out for the     *)
(* full screen before the browser is asked for it.                         *)
(***************************************************************************)
Labels == {"Fill browser", "Exit full browser"}
ScreenState ==
    [api : BOOLEAN, isFullScreen : BOOLEAN, element : BOOLEAN, requests : Seq({"enter", "exit"}),
     changes : 0 .. MaxRequests, delta : {-1, 0}, mode : {"width", "both"}, parent : BOOLEAN,
     label : Labels, menu : Labels, raced : BOOLEAN, destroyed : BOOLEAN]
Layout(s) ==
    /\ s.isFullScreen => s.delta = -1 /\ s.mode = "both"
    /\ ~s.isFullScreen => s.delta = 0 /\ s.mode = "width"
OneRequest(s) ==
    ~s.raced /\ ~s.destroyed =>
        /\ s.requests \in {<<>>, <<"enter">>, <<"exit">>}
        /\ s.requests = <<"enter">> => s.isFullScreen /\ ~s.element /\ s.changes = 0
        /\ s.element => s.isFullScreen
ScreenInv(s) == s \in ScreenState /\ Layout(s) /\ OneRequest(s)

\* What the page does of its own: it enters, or leaves, its full screen.
Turned(s, t, on) ==
    /\ t \in ScreenState /\ Layout(t) /\ (t.isFullScreen <=> on)
    /\ (t.api <=> s.api) /\ (t.element <=> s.element) /\ t.requests = s.requests
    /\ t.changes = s.changes /\ (t.raced <=> s.raced) /\ (t.destroyed <=> s.destroyed)
\* Entering and leaving lay the page out.
LEMMA PageTurns ==
    ASSUME NEW s \in ScreenState, Layout(s)
    PROVE  Turned(s, Screen!handleEnter(s), TRUE) /\ Turned(s, Screen!handleExit(s), FALSE)
<1>1. Turned(s, Screen!handleEnter(s), TRUE)
  <2>1. CASE s.isFullScreen
    BY <2>1 DEF Screen!handleEnter, Turned
  <2>2. CASE ~s.isFullScreen
    <3> DEFINE t == [s EXCEPT !.isFullScreen = TRUE, !.delta = -1, !.mode = "both",
                              !.parent = TRUE, !.label = "Exit full browser",
                              !.menu = "Exit full browser"]
    <3>1. Screen!handleEnter(s) = t
      <4>1. s.delta - 1 = -1
        BY <2>2 DEF Layout
      <4> QED
        BY <2>2, <4>1 DEF Screen!handleEnter
    <3>2. t \in ScreenState
      <4> DEFINE u == [s EXCEPT !.isFullScreen = TRUE, !.delta = -1, !.mode = "both"]
      <4>1. u \in ScreenState
        BY DEF ScreenState
      <4>2. t = [u EXCEPT !.parent = TRUE, !.label = "Exit full browser",
                          !.menu = "Exit full browser"]
        BY DEF ScreenState
      <4>3. "Exit full browser" \in Labels
        BY DEF Labels
      <4> HIDE DEF u, t
      <4> QED
        BY <4>1, <4>2, <4>3 DEF ScreenState
    <3>3. Turned(s, t, TRUE)
      BY <3>2 DEF ScreenState, Layout, Turned
    <3> QED
      BY <3>1, <3>3
  <2> QED
    BY <2>1, <2>2
<1>2. Turned(s, Screen!handleExit(s), FALSE)
  <2>1. CASE ~s.isFullScreen
    BY <2>1 DEF Screen!handleExit, Turned
  <2>2. CASE s.isFullScreen
    <3> DEFINE t == [s EXCEPT !.isFullScreen = FALSE, !.delta = 0, !.mode = "width",
                              !.parent = FALSE, !.label = "Fill browser", !.menu = "Fill browser"]
    <3>1. Screen!handleExit(s) = t
      BY <2>2 DEF Screen!handleExit
    <3>2. t \in ScreenState
      <4> DEFINE u == [s EXCEPT !.isFullScreen = FALSE, !.delta = 0, !.mode = "width"]
      <4>1. u \in ScreenState
        BY DEF ScreenState
      <4>2. t = [u EXCEPT !.parent = FALSE, !.label = "Fill browser", !.menu = "Fill browser"]
        BY DEF ScreenState
      <4>3. "Fill browser" \in Labels
        BY DEF Labels
      <4> HIDE DEF u, t
      <4> QED
        BY <4>1, <4>2, <4>3 DEF ScreenState
    <3>3. Turned(s, t, FALSE)
      BY <3>2 DEF ScreenState, Layout, Turned
    <3> QED
      BY <3>1, <3>3
  <2> QED
    BY <2>1, <2>2
<1> QED
  BY <1>1, <1>2

\* The browser is asked, if it has a full screen.
LEMMA PageAsks ==
    ASSUME NEW s \in ScreenState, Layout(s), NEW request \in {"enter", "exit"},
           NEW t, t = Screen!ask(s, request)
    PROVE  /\ t \in ScreenState /\ Layout(t) /\ (t.isFullScreen <=> s.isFullScreen)
           /\ (t.element <=> s.element) /\ t.changes = s.changes
           /\ (t.raced <=> s.raced) /\ (t.destroyed <=> s.destroyed)
           /\ t.requests = s.requests \/ t.requests = Append(s.requests, request)
<1>1. CASE s.api
  <2> DEFINE requests == Append(s.requests, request)
  <2>1. requests \in Seq({"enter", "exit"})
    BY DEF ScreenState
  <2>2. t = [s EXCEPT !.requests = requests]
    BY <1>1 DEF Screen!ask
  <2> HIDE DEF requests
  <2>3. t \in ScreenState /\ t.requests = requests
    BY <2>1, <2>2 DEF ScreenState
  <2> QED
    BY <2>2, <2>3 DEF ScreenState, Layout, requests
<1>2. CASE ~s.api
  BY <1>2 DEF Screen!ask
<1> QED
  BY <1>1, <1>2

\* A click of the learner, who waited or not.
LEMMA ToggleKeeps ==
    ASSUME ScreenInv(screen), Screen!Toggle
    PROVE  ScreenInv(screen)'
<1> DEFINE raced == screen.raced \/ screen.requests # <<>> \/ screen.changes > 0
           s == [screen EXCEPT !.raced = raced]
<1>1. screen' = IF screen.isFullScreen THEN Screen!exit(s) ELSE Screen!enter(s)
  BY DEF Screen!Toggle, Screen!InScreen, Screen!toggle
<1>2. raced \in BOOLEAN /\ screen \in ScreenState
  BY DEF ScreenInv, ScreenState
<1>3. ~raced => ~screen.raced /\ screen.requests = <<>> /\ screen.changes = 0
  BY <1>2 DEF ScreenState
<1> HIDE DEF raced
<1>4. /\ s \in ScreenState /\ Layout(s) /\ (s.isFullScreen <=> screen.isFullScreen)
      /\ (s.element <=> screen.element) /\ s.changes = screen.changes
      /\ s.requests = screen.requests
      /\ (s.raced <=> raced) /\ (s.destroyed <=> screen.destroyed)
  BY <1>2 DEF ScreenInv, ScreenState, Layout
<1> HIDE DEF s
<1>5. ~s.raced /\ ~s.destroyed => s.requests = <<>> /\ s.changes = 0 /\ (s.element => s.isFullScreen)
  BY <1>3, <1>4 DEF ScreenInv, OneRequest
<1>6. CASE screen.isFullScreen /\ screen.element
  <2>1. screen' = Screen!ask(s, "exit")
    BY <1>1, <1>4, <1>6 DEF Screen!exit
  <2>2. /\ screen' \in ScreenState /\ Layout(screen') /\ (screen'.isFullScreen <=> s.isFullScreen)
        /\ (screen'.element <=> s.element) /\ screen'.changes = s.changes
        /\ (screen'.raced <=> s.raced) /\ (screen'.destroyed <=> s.destroyed)
        /\ screen'.requests = s.requests \/ screen'.requests = Append(s.requests, "exit")
    BY <1>4, <2>1, PageAsks
  <2>3. Append(<<>>, "exit") = <<"exit">> /\ <<"exit">> # <<"enter">> /\ <<>> # <<"enter">>
    OBVIOUS
  <2> QED
    BY <1>5, <2>2, <2>3 DEF ScreenInv, OneRequest
<1>7. CASE screen.isFullScreen /\ ~screen.element
  <2>1. screen' = Screen!handleExit(s)
    BY <1>1, <1>4, <1>7 DEF Screen!exit
  <2>2. Turned(s, screen', FALSE)
    BY <1>4, <2>1, PageTurns
  <2>3. <<>> # <<"enter">>
    OBVIOUS
  <2> QED
    BY <1>4, <1>5, <1>7, <2>2, <2>3 DEF ScreenInv, OneRequest, Turned
<1>8. CASE ~screen.isFullScreen
  <2> DEFINE t == Screen!handleEnter(s)
  <2>1. screen' = Screen!ask(t, "enter")
    BY <1>1, <1>8 DEF Screen!enter
  <2>2. Turned(s, t, TRUE)
    BY <1>4, PageTurns
  <2> HIDE DEF t
  <2>3. /\ screen' \in ScreenState /\ Layout(screen') /\ (screen'.isFullScreen <=> t.isFullScreen)
        /\ (screen'.element <=> t.element) /\ screen'.changes = t.changes
        /\ (screen'.raced <=> t.raced) /\ (screen'.destroyed <=> t.destroyed)
        /\ screen'.requests = t.requests \/ screen'.requests = Append(t.requests, "enter")
    BY <2>1, <2>2, PageAsks DEF Turned
  <2>4. Append(<<>>, "enter") = <<"enter">>
    OBVIOUS
  <2> QED
    BY <1>4, <1>5, <1>8, <2>2, <2>3, <2>4 DEF ScreenInv, OneRequest, Turned
<1> QED
  BY <1>6, <1>7, <1>8

\* The video is removed.
LEMMA DestroyKeeps ==
    ASSUME ScreenInv(screen), Screen!Destroy
    PROVE  ScreenInv(screen)'
<1> DEFINE t == IF screen.isFullScreen THEN Screen!exit(screen) ELSE screen
<1>1. screen' = [t EXCEPT !.destroyed = TRUE]
  BY DEF Screen!Destroy, Screen!InScreen, Screen!destroy
<1>2. screen \in ScreenState /\ Layout(screen)
  BY DEF ScreenInv
<1>3. t \in ScreenState /\ Layout(t)
  <2>1. Screen!handleExit(screen) \in ScreenState /\ Layout(Screen!handleExit(screen))
    BY <1>2, PageTurns DEF Turned
  <2>2. Screen!ask(screen, "exit") \in ScreenState /\ Layout(Screen!ask(screen, "exit"))
    BY <1>2, PageAsks
  <2> QED
    BY <1>2, <2>1, <2>2 DEF Screen!exit
<1> HIDE DEF t
<1>4. screen' \in ScreenState /\ screen'.destroyed /\ Layout(screen')
  BY <1>1, <1>3 DEF ScreenState, Layout
<1> QED
  BY <1>4 DEF ScreenInv, OneRequest

\* The browser answers, or the learner leaves by its means.
LEMMA BrowserKeeps ==
    ASSUME ScreenInv(screen), Screen!BrowserAnswers \/ Screen!BrowserLeaves
    PROVE  ScreenInv(screen)'
<1>1. screen \in ScreenState /\ MaxRequests \in Nat
  BY PageAssumption DEF ScreenInv
<1>2. ASSUME NEW element \in BOOLEAN, NEW requests \in Seq({"enter", "exit"}),
             NEW changes \in 0 .. MaxRequests,
             screen' = [screen EXCEPT !.element = element, !.requests = requests, !.changes = changes]
      PROVE  /\ screen' \in ScreenState /\ Layout(screen') /\ (screen'.element <=> element)
             /\ screen'.requests = requests /\ screen'.changes = changes
             /\ (screen'.isFullScreen <=> screen.isFullScreen)
             /\ (screen'.raced <=> screen.raced) /\ (screen'.destroyed <=> screen.destroyed)
  BY <1>1, <1>2 DEF ScreenInv, ScreenState, Layout
<1>3. CASE Screen!BrowserAnswers
  <2> DEFINE to == Head(screen.requests) = "enter"
             requests == Tail(screen.requests)
  <2>1. screen.requests # <<>> /\ screen.changes < MaxRequests
    BY <1>3 DEF Screen!BrowserAnswers
  <2>2. \/ \E changes \in {screen.changes, screen.changes + 1} :
               screen' = [screen EXCEPT !.element = to, !.requests = requests, !.changes = changes]
        \/ ~screen.element /\ to /\ screen' = [screen EXCEPT !.requests = requests]
    BY <1>1, <1>3 DEF Screen!BrowserAnswers, Screen!InScreen, ScreenState
  <2>3. requests \in Seq({"enter", "exit"}) /\ to \in BOOLEAN
    BY <1>1, <2>1 DEF ScreenState
  <2>4. /\ screen.requests = <<"enter">> => to /\ requests = <<>>
        /\ screen.requests = <<"exit">> => ~to /\ requests = <<>>
    <3>1. Head(<<"enter">>) = "enter" /\ Tail(<<"enter">>) = <<>>
      OBVIOUS
    <3>2. Head(<<"exit">>) = "exit" /\ Tail(<<"exit">>) = <<>>
      OBVIOUS
    <3> QED
      BY <3>1, <3>2
  <2> HIDE DEF to, requests
  <2>5. PICK element \in BOOLEAN, changes \in 0 .. MaxRequests :
            /\ screen' = [screen EXCEPT !.element = element, !.requests = requests,
                                        !.changes = changes]
            /\ element => to
    <3>1. ASSUME screen' = [screen EXCEPT !.requests = requests]
          PROVE  screen' = [screen EXCEPT !.element = screen.element, !.requests = requests,
                                          !.changes = screen.changes]
      BY <1>1, <3>1 DEF ScreenState
    <3>2. screen.changes \in 0 .. MaxRequests /\ screen.changes + 1 \in 0 .. MaxRequests
      BY <1>1, <2>1 DEF ScreenState
    <3>3. screen.element \in BOOLEAN
      BY <1>1 DEF ScreenState
    <3> QED
      BY <2>2, <2>3, <3>1, <3>2, <3>3
  <2>6. /\ screen' \in ScreenState /\ Layout(screen') /\ (screen'.element <=> element)
        /\ screen'.requests = requests
        /\ (screen'.isFullScreen <=> screen.isFullScreen)
        /\ (screen'.raced <=> screen.raced) /\ (screen'.destroyed <=> screen.destroyed)
    BY <1>2, <2>3, <2>5
  <2>7. <<>> # <<"enter">>
    OBVIOUS
  <2>8. OneRequest(screen')
    BY <2>1, <2>4, <2>5, <2>6, <2>7 DEF ScreenInv, OneRequest
  <2> QED
    BY <2>6, <2>8 DEF ScreenInv
<1>4. CASE Screen!BrowserLeaves
  <2>1. /\ screen.element /\ screen.changes < MaxRequests
        /\ screen' = [screen EXCEPT !.element = FALSE, !.changes = screen.changes + 1]
    BY <1>1, <1>4 DEF Screen!BrowserLeaves, Screen!InScreen, ScreenState
  <2>2. screen.changes + 1 \in 0 .. MaxRequests /\ screen.requests \in Seq({"enter", "exit"})
    BY <1>1, <2>1 DEF ScreenState
  <2>3. screen' = [screen EXCEPT !.element = FALSE, !.requests = screen.requests,
                                 !.changes = screen.changes + 1]
    BY <1>1, <2>1 DEF ScreenState
  <2>4. /\ screen' \in ScreenState /\ Layout(screen') /\ ~screen'.element
        /\ screen'.requests = screen.requests
        /\ (screen'.isFullScreen <=> screen.isFullScreen)
        /\ (screen'.raced <=> screen.raced) /\ (screen'.destroyed <=> screen.destroyed)
    BY <1>2, <2>2, <2>3
  <2>5. OneRequest(screen')
    BY <2>1, <2>4 DEF ScreenInv, OneRequest
  <2> QED
    BY <2>4, <2>5 DEF ScreenInv
<1> QED
  BY <1>3, <1>4

\* The page hears that the full screen changed.
LEMMA HeardKeeps ==
    ASSUME ScreenInv(screen), Screen!FullscreenChange
    PROVE  ScreenInv(screen)'
<1> DEFINE s == [screen EXCEPT !.changes = screen.changes - 1]
<1>1. screen \in ScreenState /\ screen.changes > 0
  BY DEF ScreenInv, Screen!FullscreenChange
<1>2. /\ s \in ScreenState /\ Layout(s) /\ (s.isFullScreen <=> screen.isFullScreen)
      /\ (s.element <=> screen.element) /\ s.requests = screen.requests
      /\ s.changes = screen.changes - 1
      /\ (s.raced <=> screen.raced) /\ (s.destroyed <=> screen.destroyed)
  <2>1. screen.changes - 1 \in 0 .. MaxRequests
    BY <1>1, PageAssumption DEF ScreenState
  <2> QED
    BY <1>1, <2>1 DEF ScreenInv, ScreenState, Layout
<1>3. screen' = IF s.destroyed THEN s ELSE Screen!handleFullscreenChange(s)
  BY <1>1 DEF Screen!FullscreenChange, Screen!InScreen, ScreenState
<1> HIDE DEF s
<1>4. OneRequest(s)
  BY <1>1, <1>2, PageAssumption DEF ScreenInv, OneRequest, ScreenState
<1>5. CASE screen' = s
  BY <1>2, <1>4, <1>5 DEF ScreenInv
<1>6. CASE screen' = Screen!handleExit(s) /\ ~s.element
  <2>1. Turned(s, screen', FALSE)
    BY <1>2, <1>6, PageTurns
  <2>2. screen.raced \/ screen.destroyed \/ screen.requests # <<"enter">>
    BY <1>1 DEF ScreenInv, OneRequest
  <2> QED
    BY <1>2, <1>4, <1>6, <2>1, <2>2 DEF ScreenInv, OneRequest, Turned
<1> QED
  BY <1>3, <1>5, <1>6 DEF Screen!handleFullscreenChange

(***************************************************************************)
(* The quality.  The button is what YouTube said last, and says more when  *)
(* it was asked.                                                           *)
(***************************************************************************)
HDs == Screen!HD \cap Qualities
QualityState ==
    [quality : Qualities \cup {"large"}, availableHD : SUBSET HDs, playing : Qualities,
     active : BOOLEAN, hidden : BOOLEAN, fetched : BOOLEAN,
     asked : Seq(Qualities \cup {"large", "highres"}), changed : Nat]
Heard(q) ==
    /\ ~q.fetched => q.hidden /\ q.asked = <<>> /\ q.changed = 0
    /\ q.fetched => /\ q.availableHD = HDs
                    /\ q.hidden <=> HDs = {}
                    /\ q.asked = <<>> /\ q.changed = 0 => (q.active <=> q.playing \in HDs)
QualityInv(q) == q \in QualityState /\ Heard(q)

\* Every step of the quality.
LEMMA QualityKeeps ==
    ASSUME QualityInv(quality), Screen!Next, UNCHANGED screen
    PROVE  QualityInv(quality)'
<1>0. quality \in QualityState
  BY DEF QualityInv
<1>1. CASE Screen!FirstPlay
  <2> DEFINE hidden == quality.hidden /\ HDs = {}
             active == quality.active \/ quality.quality \in HDs
             asked == Append(quality.asked, quality.quality)
  <2>1. /\ ~quality.fetched
        /\ quality' = [quality EXCEPT !.fetched = TRUE, !.availableHD = HDs, !.hidden = hidden,
                                      !.active = active, !.asked = asked]
    <3>1. Qualities \cap Screen!HD = HDs
      BY DEF HDs
    <3> QED
      BY <1>0, <1>1, <3>1 DEF Screen!FirstPlay, Screen!InQuality, Screen!fetchAvailableQualities,
                              QualityState
  <2>2. hidden \in BOOLEAN /\ active \in BOOLEAN
    BY <1>0 DEF QualityState
  <2>3. asked \in Seq(Qualities \cup {"large", "highres"}) /\ asked # <<>>
    <3>1. /\ quality.asked \in Seq(Qualities \cup {"large", "highres"})
          /\ quality.quality \in Qualities \cup {"large", "highres"}
      BY <1>0 DEF QualityState
    <3> QED
      BY <3>1
  <2>4. hidden <=> HDs = {}
    BY <2>1 DEF QualityInv, Heard
  <2> HIDE DEF hidden, active, asked
  <2>5. quality' \in QualityState
    BY <1>0, <2>1, <2>2, <2>3 DEF QualityState
  <2>6. /\ quality'.fetched /\ quality'.availableHD = HDs /\ (quality'.hidden <=> hidden)
        /\ quality'.asked = asked
    BY <1>0, <2>1, <2>2 DEF QualityState
  <2> QED
    BY <2>3, <2>4, <2>5, <2>6 DEF QualityInv, Heard
<1>2. CASE Screen!ToggleQuality
  <2> DEFINE value == IF quality.quality \in quality.availableHD THEN "large" ELSE "highres"
             asked == Append(quality.asked, value)
  <2>1. ~quality.hidden /\ quality' = [quality EXCEPT !.asked = asked]
    BY <1>2 DEF Screen!ToggleQuality, Screen!InQuality, Screen!toggleQuality
  <2>2. asked \in Seq(Qualities \cup {"large", "highres"}) /\ asked # <<>>
    <3>1. /\ quality.asked \in Seq(Qualities \cup {"large", "highres"})
          /\ value \in Qualities \cup {"large", "highres"}
      BY <1>0 DEF QualityState
    <3> HIDE DEF value
    <3> QED
      BY <3>1
  <2> HIDE DEF asked
  <2>3. /\ quality' \in QualityState /\ (quality'.fetched <=> quality.fetched)
        /\ quality'.availableHD = quality.availableHD /\ (quality'.hidden <=> quality.hidden)
        /\ quality'.asked = asked
    BY <1>0, <2>1, <2>2 DEF QualityState
  <2> QED
    BY <2>1, <2>2, <2>3 DEF QualityInv, Heard
<1>3. CASE Screen!QualityChanges
  <2> DEFINE asked == Tail(quality.asked)
  <2>1. PICK q \in Qualities :
            /\ quality.asked # <<>>
            /\ quality' = [quality EXCEPT !.asked = asked, !.playing = q,
                                          !.changed = quality.changed + 1]
    BY <1>0, <1>3 DEF Screen!QualityChanges, Screen!InQuality, QualityState
  <2>2. asked \in Seq(Qualities \cup {"large", "highres"})
    BY <1>0, <2>1 DEF QualityState
  <2>3. quality.changed + 1 \in Nat /\ quality.changed + 1 # 0
    BY <1>0 DEF QualityState
  <2> HIDE DEF asked
  <2>4. /\ quality' \in QualityState /\ (quality'.fetched <=> quality.fetched)
        /\ quality'.availableHD = quality.availableHD /\ (quality'.hidden <=> quality.hidden)
        /\ quality'.changed # 0
    BY <1>0, <2>1, <2>2, <2>3 DEF QualityState
  <2> QED
    BY <2>1, <2>4 DEF QualityInv, Heard
<1>4. CASE Screen!onPlaybackQualityChange
  <2> DEFINE active == quality.playing \in quality.availableHD
  <2>1. /\ quality.changed > 0
        /\ quality' = [quality EXCEPT !.changed = quality.changed - 1, !.quality = quality.playing,
                                      !.active = active]
    BY <1>0, <1>4 DEF Screen!onPlaybackQualityChange, Screen!InQuality, Screen!onQualityChange,
                      QualityState
  <2>2. quality.changed - 1 \in Nat /\ active \in BOOLEAN
    BY <1>0, <2>1 DEF QualityState
  <2>3. active <=> quality.playing \in quality.availableHD
    OBVIOUS
  <2> HIDE DEF active
  <2>4. quality' \in QualityState
    BY <1>0, <2>1, <2>2 DEF QualityState
  <2>5. /\ (quality'.fetched <=> quality.fetched) /\ quality'.playing = quality.playing
        /\ quality'.availableHD = quality.availableHD /\ (quality'.hidden <=> quality.hidden)
        /\ (quality'.active <=> active)
    BY <1>0, <2>1, <2>2 DEF QualityState
  <2>6. quality.fetched
    BY <1>0, <2>1 DEF QualityInv, Heard, QualityState
  <2> QED
    BY <2>3, <2>4, <2>5, <2>6 DEF QualityInv, Heard
<1>5. CASE UNCHANGED quality
  BY <1>5
<1> QED
  BY <1>1, <1>2, <1>3, <1>4, <1>5
     DEF Screen!Next, Screen!Toggle, Screen!Destroy, Screen!BrowserAnswers, Screen!BrowserLeaves,
         Screen!FullscreenChange, Screen!InScreen

\* The screen and the quality, begun and kept.
LEMMA ScreenInductive ==
    /\ Screen!Init => ScreenInv(screen) /\ QualityInv(quality)
    /\ ScreenInv(screen) /\ QualityInv(quality) /\ [Screen!Next]_<<screen, quality>>
          => (ScreenInv(screen) /\ QualityInv(quality))'
<1>1. ASSUME Screen!Init
      PROVE  ScreenInv(screen) /\ QualityInv(quality)
  <2>1. 0 \in 0 .. MaxRequests
    BY PageAssumption
  <2>2. PICK api \in BOOLEAN :
          screen = [api |-> api, isFullScreen |-> FALSE, element |-> FALSE, requests |-> <<>>,
                    changes |-> 0, delta |-> 0, mode |-> "width", parent |-> FALSE,
                    label |-> "Fill browser", menu |-> "Fill browser",
                    raced |-> FALSE, destroyed |-> FALSE]
    BY <1>1 DEF Screen!Init
  <2>3. <<>> \in Seq({"enter", "exit"}) /\ <<>> # <<"enter">>
    OBVIOUS
  <2>4. ScreenInv(screen)
    <3>1. screen \in ScreenState
      <4>1. "Fill browser" \in Labels
        BY DEF Labels
      <4> QED
        BY <2>1, <2>2, <2>3, <4>1 DEF ScreenState
    <3>2. screen.requests = <<>> /\ ~screen.isFullScreen /\ ~screen.element /\ Layout(screen)
      BY <2>2 DEF Layout
    <3> QED
      BY <2>3, <3>1, <3>2 DEF ScreenInv, OneRequest
  <2>5. PICK playing \in Qualities :
          quality = [quality |-> "large", availableHD |-> {}, playing |-> playing,
                     active |-> FALSE, hidden |-> TRUE, fetched |-> FALSE,
                     asked |-> <<>>, changed |-> 0]
    BY <1>1 DEF Screen!Init
  <2>6. QualityInv(quality)
    BY <2>5 DEF QualityInv, QualityState, Heard
  <2> QED
    BY <2>4, <2>6
<1>2. ASSUME ScreenInv(screen), QualityInv(quality), [Screen!Next]_<<screen, quality>>
      PROVE  (ScreenInv(screen) /\ QualityInv(quality))'
  <2>1. CASE Screen!Next /\ UNCHANGED quality
    <3>1. ScreenInv(screen)'
      <4>1. CASE UNCHANGED screen
        BY <1>2, <4>1
      <4> QED
        BY <1>2, <2>1, <4>1, ToggleKeeps, DestroyKeeps, BrowserKeeps, HeardKeeps
           DEF Screen!Next, Screen!FirstPlay, Screen!ToggleQuality, Screen!QualityChanges,
               Screen!onPlaybackQualityChange, Screen!InQuality
    <3> QED
      BY <1>2, <2>1, <3>1
  <2>2. CASE Screen!Next /\ UNCHANGED screen
    BY <1>2, <2>2, QualityKeeps
  <2>3. CASE UNCHANGED <<screen, quality>>
    BY <1>2, <2>3
  <2>4. Screen!Next => UNCHANGED screen \/ UNCHANGED quality
    BY DEF Screen!Next, Screen!Toggle, Screen!Destroy, Screen!BrowserAnswers, Screen!BrowserLeaves,
           Screen!FullscreenChange, Screen!FirstPlay, Screen!ToggleQuality, Screen!QualityChanges,
           Screen!onPlaybackQualityChange, Screen!InScreen, Screen!InQuality
  <2> QED
    BY <1>2, <2>1, <2>2, <2>3, <2>4
<1> QED
  BY <1>1, <1>2

\* The invariants are what the checks ask of the screen and its quality.
LEMMA ScreenIsSound ==
    ASSUME ScreenInv(screen), QualityInv(quality)
    PROVE  /\ Screen!TypeOK /\ Screen!ScreenAgrees /\ Screen!HeightIsGivenBack
           /\ Screen!ButtonTellsQuality
<1>1. Screen!TypeOK
  BY DEF ScreenInv, ScreenState, QualityInv, QualityState, Screen!TypeOK
<1>2. Screen!ScreenAgrees
  BY DEF ScreenInv, OneRequest, Screen!ScreenAgrees
<1>3. Screen!HeightIsGivenBack
  <2>1. screen.isFullScreen \in BOOLEAN
    BY DEF ScreenInv, ScreenState
  <2> QED
    BY <2>1 DEF ScreenInv, Layout, Screen!HeightIsGivenBack
<1>4. Screen!ButtonTellsQuality
  <2>1. quality.active \in BOOLEAN /\ quality.hidden \in BOOLEAN
    BY DEF QualityInv, QualityState
  <2> QED
    BY <2>1 DEF QualityInv, Heard, HDs, Screen!ButtonTellsQuality
<1> QED
  BY <1>1, <1>2, <1>3, <1>4

(***************************************************************************)
(* The controls show what the player does: its volume, speed, auto-        *)
(* advance, full screen and quality.                                       *)
(***************************************************************************)
THEOREM ControlsAlwaysAgree == Spec => []ControlsAgree
<1> DEFINE Inv == VolumeInv /\ SpeedInv(spd) /\ ScreenInv(screen) /\ QualityInv(quality)
<1>1. Init => Inv
  BY VolumeInductive, SpeedInductive, ScreenInductive DEF Init
<1>2. Inv /\ [Next]_vars => Inv'
  <2> SUFFICES ASSUME Inv, [Next]_vars
               PROVE  Inv'
    OBVIOUS
  <2>1. [Volume!Next]_vol
    BY DEF Next, vars, buttons
  <2>2. [Speed!Next]_spd
    BY DEF Next, vars, buttons
  <2>3. [Screen!Next]_<<screen, quality>>
    BY DEF Next, vars, buttons
  <2> QED
    BY <2>1, <2>2, <2>3, VolumeInductive, SpeedInductive, ScreenInductive
<1>3. Inv => ControlsAgree
  <2> SUFFICES ASSUME Inv
               PROVE  ControlsAgree
    OBVIOUS
  <2>1. Volume!TypeOK /\ Volume!MutedIsSilent /\ Volume!PlayerIsAsLoud
    BY DEF VolumeInv, VolumeState, Together, Volume!TypeOK, Volume!MutedIsSilent,
           Volume!PlayerIsAsLoud, Volume!Min, Volume!Max
  <2> QED
    BY <2>1, SpeedIsSound, ScreenIsSound DEF ControlsAgree
<1> QED
  BY <1>1, <1>2, <1>3, PTL DEF Spec

(***************************************************************************)
(* Whoever unmutes hears something, whatever was stored before.            *)
(***************************************************************************)
THEOREM UnmuteIsAlwaysHeard == Spec => Volume!UnmuteIsHeard
<1>1. Init => VolumeInv
  BY VolumeInductive DEF Init
<1>2. VolumeInv /\ [Next]_vars => VolumeInv' /\ [vol.volume = 0 /\ Volume!toggleMute => vol'.volume > 0]_vol
  <2> SUFFICES ASSUME VolumeInv, [Next]_vars
               PROVE  VolumeInv' /\ [vol.volume = 0 /\ Volume!toggleMute => vol'.volume > 0]_vol
    OBVIOUS
  <2>1. [Volume!Next]_vol
    BY DEF Next, vars, buttons
  <2>2. VolumeInv'
    BY <2>1, VolumeInductive
  <2> QED
    BY <2>2, MuteKeeps DEF VolumeInv, Volume!toggleMute
<1> QED
  BY <1>1, <1>2, PTL DEF Spec, Volume!UnmuteIsHeard

(***************************************************************************)
(* The next visit begins with the volume of this one.                      *)
(***************************************************************************)
THEOREM VolumeIsAlwaysRemembered == Spec => Volume!VolumeIsRemembered
<1>1. Init => VolumeInv
  BY VolumeInductive DEF Init
<1>2. VolumeInv /\ [Next]_vars => VolumeInv' /\ [Volume!Reload => vol'.volume = vol.volume]_vol
  <2> SUFFICES ASSUME VolumeInv, [Next]_vars
               PROVE  VolumeInv' /\ [Volume!Reload => vol'.volume = vol.volume]_vol
    OBVIOUS
  <2>1. [Volume!Next]_vol
    BY DEF Next, vars, buttons
  <2>2. VolumeInv'
    BY <2>1, VolumeInductive
  <2> QED
    BY <2>2, VisitBegins DEF VolumeInv, VolumeState, Together, Volume!Reload
<1> QED
  BY <1>1, <1>2, PTL DEF Spec, Volume!VolumeIsRemembered
--------------------------------------------------------------------------------
(***************************************************************************)
(* The thumbs.  As long as no two requests crossed, what is asked is about *)
(* the language the thumbs were told of, and an answer is the last word on *)
(* it.  The language that is read is that one, once the menu was left.     *)
(***************************************************************************)
FeedbackState ==
    [lang : TranscriptLanguages, unheard : BOOLEAN,
     language : TranscriptLanguages, shown : BOOLEAN, thumbsUp : BOOLEAN, thumbsDown : BOOLEAN,
     currentFeedback : Feedback!Values \cup {"none"},
     requests : SUBSET [language : TranscriptLanguages, value : Feedback!Values \cup {"get"}, id : Nat],
     sent : Nat, given : [TranscriptLanguages -> Feedback!Values], crossed : BOOLEAN,
     failed : BOOLEAN]
AsksAlone(f) ==
    ~f.crossed => /\ \A q, r \in f.requests : q = r
                  /\ f.shown => \A r \in f.requests : r.language = f.language
AnswerStands(f) ==
    f.shown /\ f.requests = {} /\ ~f.crossed /\ ~f.failed
        => f.currentFeedback = f.given[f.language]
ThumbsTell(f) ==
    /\ f.shown => f.language \in Translated
    /\ f.thumbsUp <=> f.currentFeedback = "up"
    /\ f.thumbsDown <=> f.currentFeedback = "down"
ToldOf(f) == ~f.unheard => f.lang = f.language
FeedbackInv(f) ==
    f \in FeedbackState /\ AsksAlone(f) /\ AnswerStands(f) /\ ThumbsTell(f) /\ ToldOf(f)

\* A request that is sent while another one is under way crosses it.
LEMMA AskKeeps ==
    ASSUME NEW f \in FeedbackState, ThumbsTell(f), ToldOf(f), f.shown,
           NEW value \in Feedback!Values \cup {"get"}, NEW g, g = Feedback!ask(f, value)
    PROVE  FeedbackInv(g) /\ g.lang = f.lang /\ g.language = f.language
<1> DEFINE x == [language |-> f.language, value |-> value, id |-> f.sent]
           sent == (f.sent + 1) % (MaxRequests + 1)
           crossed == f.crossed \/ f.requests # {}
<1>1. g = [f EXCEPT !.requests = @ \cup {x}, !.sent = sent, !.crossed = crossed]
  BY DEF Feedback!ask, Feedback!Request, FeedbackState
<1>2. sent \in Nat /\ crossed \in BOOLEAN
  <2>1. MaxRequests \in Nat \ {0} /\ f.sent \in Nat
    BY PageAssumption DEF FeedbackState
  <2> QED
    BY <2>1, SMT DEF FeedbackState
<1>3. x \in [language : TranscriptLanguages, value : Feedback!Values \cup {"get"}, id : Nat]
  BY DEF FeedbackState
<1>4. x.language = f.language
  OBVIOUS
<1>5. crossed <=> f.crossed \/ f.requests # {}
  BY DEF FeedbackState
<1> HIDE DEF x, sent, crossed
<1>6. g \in FeedbackState
  <2> DEFINE Asked == [language : TranscriptLanguages, value : Feedback!Values \cup {"get"},
                     id : Nat]
             requests == f.requests \cup {x}
  <2>1. requests \in SUBSET Asked
    BY <1>3 DEF FeedbackState
  <2>2. g = [f EXCEPT !.requests = requests, !.sent = sent, !.crossed = crossed]
    BY <1>1 DEF FeedbackState
  <2> HIDE DEF requests
  <2> QED
    BY <1>2, <2>1, <2>2 DEF FeedbackState
<1>7. /\ g.requests = f.requests \cup {x} /\ g.language = f.language /\ (g.shown <=> f.shown)
      /\ g.currentFeedback = f.currentFeedback /\ (g.thumbsUp <=> f.thumbsUp)
      /\ (g.thumbsDown <=> f.thumbsDown) /\ (g.crossed <=> crossed)
      /\ g.lang = f.lang /\ (g.unheard <=> f.unheard)
  BY <1>1, <1>2 DEF FeedbackState
<1>8. AsksAlone(g)
  BY <1>4, <1>5, <1>7 DEF AsksAlone
<1>9. AnswerStands(g)
  BY <1>7 DEF AnswerStands
<1>10. ThumbsTell(g)
  BY <1>7 DEF ThumbsTell
<1>11. ToldOf(g)
  BY <1>7 DEF ToldOf
<1> QED
  BY <1>6, <1>7, <1>8, <1>9, <1>10, <1>11 DEF FeedbackInv

\* Another language: the thumbs are asked for, or hidden.
LEMMA LoadKeeps ==
    ASSUME NEW f \in FeedbackState, ~f.crossed => (\A q, r \in f.requests : q = r),
           f.thumbsUp <=> f.currentFeedback = "up", f.thumbsDown <=> f.currentFeedback = "down",
           ToldOf(f), NEW answered \in BOOLEAN, NEW g, g = Feedback!loadAndSetVisibility(f, answered)
    PROVE  FeedbackInv(g) /\ g.lang = f.lang /\ g.language = f.language
<1>1. CASE answered /\ f.language \in Translated
  <2> DEFINE s == [f EXCEPT !.shown = TRUE]
  <2>1. g = Feedback!ask(s, "get")
    BY <1>1 DEF Feedback!loadAndSetVisibility, Feedback!getFeedbackForCurrentTranscript
  <2>2. s \in FeedbackState /\ s.shown
    BY DEF FeedbackState
  <2>3. ThumbsTell(s) /\ ToldOf(s) /\ s.lang = f.lang /\ s.language = f.language
    BY <1>1 DEF ThumbsTell, ToldOf, FeedbackState
  <2> HIDE DEF s
  <2> QED
    BY <2>1, <2>2, <2>3, AskKeeps
<1>2. CASE ~(answered /\ f.language \in Translated)
  <2>1. g = [f EXCEPT !.shown = FALSE]
    BY <1>2 DEF Feedback!loadAndSetVisibility
  <2>2. g \in FeedbackState /\ ~g.shown
    BY <2>1 DEF FeedbackState
  <2>3. /\ AsksAlone(g) /\ AnswerStands(g) /\ ThumbsTell(g) /\ ToldOf(g)
        /\ g.lang = f.lang /\ g.language = f.language
    BY <2>1 DEF AsksAlone, AnswerStands, ThumbsTell, ToldOf, FeedbackState
  <2> QED
    BY <2>2, <2>3 DEF FeedbackInv
<1> QED
  BY <1>1, <1>2

\* An answer: it is what the service has, or that it has failed.
LEMMA MarkKeeps ==
    ASSUME FeedbackInv(fb), NEW r \in fb.requests,
           NEW given \in [TranscriptLanguages -> Feedback!Values], NEW value \in Feedback!Values,
           NEW failed \in BOOLEAN, ~failed => ~fb.failed /\ value = given[r.language],
           NEW g, g = Feedback!mark([fb EXCEPT !.given = given, !.requests = @ \ {r},
                                               !.failed = failed], value)
    PROVE  FeedbackInv(g)
<1> DEFINE up == value = "up"
           down == value = "down"
<1>1. g = [fb EXCEPT !.given = given, !.requests = @ \ {r}, !.failed = failed, !.thumbsUp = up,
                     !.thumbsDown = down, !.currentFeedback = value]
  BY DEF Feedback!mark, FeedbackInv, FeedbackState
<1>2. up \in BOOLEAN /\ down \in BOOLEAN
  OBVIOUS
<1>3. (up <=> value = "up") /\ (down <=> value = "down")
  OBVIOUS
<1> HIDE DEF up, down
<1>4. g \in FeedbackState
  BY <1>1, <1>2, ZenonT(60) DEF FeedbackInv, FeedbackState
<1>5. /\ g.given = given /\ g.requests = fb.requests \ {r} /\ (g.failed <=> failed)
      /\ (g.thumbsUp <=> up) /\ (g.thumbsDown <=> down) /\ g.currentFeedback = value
      /\ g.language = fb.language /\ (g.shown <=> fb.shown) /\ (g.crossed <=> fb.crossed)
      /\ g.lang = fb.lang /\ (g.unheard <=> fb.unheard)
  BY <1>1, <1>2 DEF FeedbackInv, FeedbackState
<1>6. AsksAlone(g)
  BY <1>5 DEF FeedbackInv, AsksAlone
<1>7. AnswerStands(g)
  <2> SUFFICES ASSUME g.shown, ~g.crossed, ~g.failed
               PROVE  value = given[fb.language]
    BY <1>5 DEF AnswerStands
  <2> QED
    BY <1>5 DEF FeedbackInv, AsksAlone
<1>8. ThumbsTell(g)
  BY <1>3, <1>5 DEF FeedbackInv, ThumbsTell
<1>9. ToldOf(g)
  BY <1>5 DEF FeedbackInv, ToldOf
<1> QED
  BY <1>4, <1>6, <1>7, <1>8, <1>9 DEF FeedbackInv

\* Another language is read, or the thumbs have heard of it.
LEMMA UnheardKeeps ==
    ASSUME NEW f, FeedbackInv(f), NEW lang \in TranscriptLanguages, NEW unheard \in BOOLEAN,
           ~unheard => lang = f.language,
           NEW g, g = [f EXCEPT !.lang = lang, !.unheard = unheard]
    PROVE  FeedbackInv(g)
<1>0. f \in FeedbackState
  BY DEF FeedbackInv
<1>1. g \in FeedbackState
  BY <1>0 DEF FeedbackState
<1>2. /\ g.lang = lang /\ (g.unheard <=> unheard) /\ g.language = f.language
      /\ (g.shown <=> f.shown) /\ (g.thumbsUp <=> f.thumbsUp) /\ (g.thumbsDown <=> f.thumbsDown)
      /\ g.currentFeedback = f.currentFeedback /\ g.requests = f.requests /\ g.given = f.given
      /\ (g.crossed <=> f.crossed) /\ (g.failed <=> f.failed)
  BY <1>0 DEF FeedbackState
<1>3. AsksAlone(g)
  BY <1>2 DEF FeedbackInv, AsksAlone
<1>4. AnswerStands(g)
  BY <1>2 DEF FeedbackInv, AnswerStands
<1>5. ThumbsTell(g)
  BY <1>2 DEF FeedbackInv, ThumbsTell
<1>6. ToldOf(g)
  BY <1>2 DEF ToldOf
<1> QED
  BY <1>1, <1>3, <1>4, <1>5, <1>6 DEF FeedbackInv

\* Every step of the thumbs.
LEMMA FeedbackInductive ==
    /\ Feedback!Init => FeedbackInv(fb)
    /\ FeedbackInv(fb) /\ [Feedback!Next]_fb => FeedbackInv(fb)'
<1>1. ASSUME Feedback!Init
      PROVE  FeedbackInv(fb)
  <2>1. PICK lang \in TranscriptLanguages, answered \in BOOLEAN,
             given \in [TranscriptLanguages -> Feedback!Values] :
             fb = Feedback!loadAndSetVisibility(
                     [lang |-> lang, unheard |-> FALSE, language |-> lang, shown |-> FALSE,
                      thumbsUp |-> FALSE, thumbsDown |-> FALSE,
                      currentFeedback |-> "none", requests |-> {}, sent |-> 0,
                      given |-> given, crossed |-> FALSE, failed |-> FALSE], answered)
    BY <1>1 DEF Feedback!Init
  <2> DEFINE f == [lang |-> lang, unheard |-> FALSE, language |-> lang, shown |-> FALSE,
                   thumbsUp |-> FALSE, thumbsDown |-> FALSE,
                   currentFeedback |-> "none", requests |-> {}, sent |-> 0,
                   given |-> given, crossed |-> FALSE, failed |-> FALSE]
  <2>2. /\ f \in FeedbackState /\ f.requests = {}
        /\ (f.thumbsUp <=> f.currentFeedback = "up")
        /\ (f.thumbsDown <=> f.currentFeedback = "down") /\ ToldOf(f)
    BY DEF FeedbackState, ToldOf
  <2>3. fb = Feedback!loadAndSetVisibility(f, answered)
    BY <2>1
  <2> HIDE DEF f
  <2>4. ~f.crossed => (\A q, r \in f.requests : q = r)
    BY <2>2
  <2> QED
    BY <2>2, <2>3, <2>4, LoadKeeps
<1>2. ASSUME FeedbackInv(fb), [Feedback!Next]_fb
      PROVE  FeedbackInv(fb)'
  <2>0. fb \in FeedbackState /\ ThumbsTell(fb) /\ ToldOf(fb)
    BY <1>2 DEF FeedbackInv
  <2>1. CASE Feedback!HideLanguageMenu
    <3>1. PICK answered \in BOOLEAN :
              fb' = [Feedback!onHideLanguageMenu(fb, answered) EXCEPT !.unheard = FALSE]
      BY <2>1 DEF Feedback!HideLanguageMenu
    <3> DEFINE h == Feedback!onHideLanguageMenu(fb, answered)
    <3>2. FeedbackInv(h) /\ h.lang = h.language
      <4>1. CASE fb.language = fb.lang
        BY <1>2, <4>1 DEF Feedback!onHideLanguageMenu
      <4>2. CASE fb.language # fb.lang
        <5> DEFINE f == [fb EXCEPT !.language = fb.lang]
        <5>1. h = Feedback!loadAndSetVisibility(f, answered)
          BY <4>2 DEF Feedback!onHideLanguageMenu
        <5>2. /\ f \in FeedbackState /\ f.requests = fb.requests /\ (f.crossed <=> fb.crossed)
              /\ f.currentFeedback = fb.currentFeedback /\ (f.thumbsUp <=> fb.thumbsUp)
              /\ (f.thumbsDown <=> fb.thumbsDown) /\ f.lang = fb.lang /\ f.language = fb.lang
          BY <2>0 DEF FeedbackState
        <5> HIDE DEF f, h
        <5>3. /\ ~f.crossed => (\A q, r \in f.requests : q = r)
              /\ (f.thumbsUp <=> f.currentFeedback = "up")
              /\ (f.thumbsDown <=> f.currentFeedback = "down")
              /\ ToldOf(f)
          BY <1>2, <5>2 DEF FeedbackInv, AsksAlone, ThumbsTell, ToldOf
        <5> QED
          BY <5>1, <5>2, <5>3, LoadKeeps
      <4> QED
        BY <4>1, <4>2
    <3>3. fb' = [h EXCEPT !.unheard = FALSE]
      BY <3>1
    <3> HIDE DEF h
    <3>4. h.lang \in TranscriptLanguages /\ fb' = [h EXCEPT !.lang = h.lang, !.unheard = FALSE]
      BY <3>2, <3>3 DEF FeedbackInv, FeedbackState
    <3> DEFINE g == [h EXCEPT !.lang = h.lang, !.unheard = FALSE]
    <3>5. FeedbackInv(g)
      BY <3>2, <3>4, UnheardKeeps
    <3> QED
      BY <3>4, <3>5
  <2>8. ASSUME NEW lang \in TranscriptLanguages, Feedback!ChooseLanguage(lang)
        PROVE  FeedbackInv(fb)'
    <3>1. fb' = [fb EXCEPT !.lang = lang, !.unheard = TRUE]
      BY <2>8 DEF Feedback!ChooseLanguage
    <3> DEFINE g == [fb EXCEPT !.lang = lang, !.unheard = TRUE]
    <3>2. FeedbackInv(g)
      BY <1>2, UnheardKeeps
    <3> QED
      BY <3>1, <3>2
  <2>2. CASE Feedback!ThumbsUp
    <3>1. PICK value \in Feedback!Values : fb' = Feedback!ask(fb, value)
      BY <2>2 DEF Feedback!ThumbsUp, Feedback!thumbsUpClickHandler,
                  Feedback!sendFeedbackForCurrentTranscript, Feedback!Values
    <3>2. fb.shown
      BY <2>2 DEF Feedback!ThumbsUp
    <3> QED
      BY <2>0, <3>1, <3>2, AskKeeps
  <2>3. CASE Feedback!ThumbsDown
    <3>1. PICK value \in Feedback!Values : fb' = Feedback!ask(fb, value)
      BY <2>3 DEF Feedback!ThumbsDown, Feedback!thumbsDownClickHandler,
                  Feedback!sendFeedbackForCurrentTranscript, Feedback!Values
    <3>2. fb.shown
      BY <2>3 DEF Feedback!ThumbsDown
    <3> QED
      BY <2>0, <3>1, <3>2, AskKeeps
  <2>4. ASSUME NEW r \in fb.requests
        PROVE  /\ r.language \in TranscriptLanguages
               /\ r.value # "get" => r.value \in Feedback!Values
               /\ r.value # "get" => [fb.given EXCEPT ![r.language] = r.value]
                                        \in [TranscriptLanguages -> Feedback!Values]
    BY <2>0 DEF FeedbackState
  <2>5. ASSUME NEW r \in fb.requests, Feedback!Answered(r)
        PROVE  FeedbackInv(fb)'
    <3> DEFINE given == IF r.value = "get" THEN fb.given
                        ELSE [fb.given EXCEPT ![r.language] = r.value]
    <3>1. given \in [TranscriptLanguages -> Feedback!Values]
      BY <2>0, <2>4 DEF FeedbackState
    <3>2. fb' = Feedback!mark([fb EXCEPT !.given = given, !.requests = @ \ {r}], given[r.language])
      BY <2>5 DEF Feedback!Answered
    <3> HIDE DEF given
    <3>3. [fb EXCEPT !.given = given, !.requests = @ \ {r}]
             = [fb EXCEPT !.given = given, !.requests = @ \ {r}, !.failed = fb.failed]
      BY <2>0 DEF FeedbackState
    <3>4. given[r.language] \in Feedback!Values /\ fb.failed \in BOOLEAN
      BY <2>0, <2>4, <3>1 DEF FeedbackState
    <3> QED
      BY <1>2, <3>1, <3>2, <3>3, <3>4, MarkKeeps
  <2>6. ASSUME NEW r \in fb.requests, Feedback!Fails(r)
        PROVE  FeedbackInv(fb)'
    <3>1. PICK given \in {fb.given} \cup (IF r.value = "get" THEN {}
                                          ELSE {[fb.given EXCEPT ![r.language] = r.value]}) :
              fb' = Feedback!mark([fb EXCEPT !.given = given, !.requests = @ \ {r},
                                             !.failed = TRUE], "empty")
      BY <2>6 DEF Feedback!Fails
    <3>2. given \in [TranscriptLanguages -> Feedback!Values]
      BY <2>0, <2>4 DEF FeedbackState
    <3>3. "empty" \in Feedback!Values
      BY DEF Feedback!Values
    <3> QED
      BY <1>2, <3>1, <3>2, <3>3, MarkKeeps
  <2>7. CASE UNCHANGED fb
    BY <1>2, <2>7
  <2> QED
    BY <1>2, <2>1, <2>2, <2>3, <2>5, <2>6, <2>7, <2>8 DEF Feedback!Next
<1> QED
  BY <1>1, <1>2

(***************************************************************************)
(* The thumbs shown are those of the service for the language they were    *)
(* told of, and one at most is.                                            *)
(***************************************************************************)
THEOREM ThumbsAreAlwaysTheServices == Spec => []ThumbsAreTheServices
<1>1. Init => FeedbackInv(fb)
  BY FeedbackInductive DEF Init
<1>2. FeedbackInv(fb) /\ [Next]_vars => FeedbackInv(fb)'
  <2> SUFFICES ASSUME FeedbackInv(fb), [Next]_vars
               PROVE  FeedbackInv(fb)'
    OBVIOUS
  <2>1. [Feedback!Next]_fb
    BY DEF Next, vars, buttons
  <2> QED
    BY <2>1, FeedbackInductive
<1>3. FeedbackInv(fb) => ThumbsAreTheServices
  <2> SUFFICES ASSUME FeedbackInv(fb)
               PROVE  ThumbsAreTheServices
    OBVIOUS
  <2>1. Feedback!TypeOK
    BY DEF FeedbackInv, FeedbackState, Feedback!TypeOK
  <2>2. Feedback!OneThumb
    BY DEF FeedbackInv, ThumbsTell, Feedback!OneThumb
  <2>3. Feedback!ThumbsAreTheServices
    <3>1. fb.thumbsUp \in BOOLEAN /\ fb.thumbsDown \in BOOLEAN
      BY DEF FeedbackInv, FeedbackState
    <3> QED
      BY <3>1 DEF FeedbackInv, AnswerStands, ThumbsTell, ToldOf, Feedback!ThumbsAreTheServices
  <2> QED
    BY <2>1, <2>2, <2>3 DEF ThumbsAreTheServices
<1> QED
  BY <1>1, <1>2, <1>3, PTL DEF Spec
--------------------------------------------------------------------------------
\* The steps of the page are steps of its captions, or leave them alone.
LEMMA CaptionsKeep ==
    ASSUME CaptionInv(caption), [Next]_vars
    PROVE  CaptionInv(caption)' /\ (CaptionSteps(caption, caption') \/ UNCHANGED captions)
<1>1. CASE UNCHANGED captions
  BY <1>1 DEF captions
<1>2. CASE Caption!Next
  BY <1>2, CaptionInductive DEF CaptionSteps
<1> QED
  BY <1>1, <1>2 DEF Next, vars

(***************************************************************************)
(* The transcript is that of the last captions that came, its disclaimer   *)
(* only Google's, and nothing is asked for by a video that is gone.        *)
(***************************************************************************)
THEOREM TranscriptIsAlwaysRight == Spec => []TranscriptIsRight
<1> DEFINE Inv == CaptionInv(caption) /\ config \in Configs
<1>1. Init => Inv
  BY CaptionBegins DEF Init, Caption!Init
<1>2. Inv /\ [Next]_vars => Inv'
  <2> SUFFICES ASSUME Inv, [Next]_vars
               PROVE  Inv'
    OBVIOUS
  <2>1. config' = config
    BY DEF Next, vars, captions, Caption!Next, Caption!FetchSucceeds, Caption!FetchFails,
           Caption!AvailableTranslations, Caption!AvailableTranslationsFail, Caption!BuildEnds,
           Caption!ChooseLanguage, Caption!ToggleTranscript, Caption!ToggleClosedCaptions,
           Caption!play, Caption!pause, Caption!Destroy, Caption!Becomes
  <2> QED
    BY <2>1, CaptionsKeep
<1>3. Inv => TranscriptIsRight
  <2> SUFFICES ASSUME Inv
               PROVE  TranscriptIsRight
    OBVIOUS
  <2>1. Caption!TypeOK
    BY DEF CaptionInv, CaptionState, Transcripts, Caption!TypeOK
  <2>2. Caption!TranscriptFollowsLanguage
    BY DEF CaptionInv, ListInv, Caption!TranscriptFollowsLanguage
  <2>3. Caption!DisclaimerForGoogleOnly /\ Caption!NothingAskedWhenGone
    BY DEF CaptionInv, DisclaimerInv, GoneInv, Caption!DisclaimerForGoogleOnly,
           Caption!NothingAskedWhenGone
  <2> QED
    BY <2>1, <2>2, <2>3 DEF TranscriptIsRight
<1> QED
  BY <1>1, <1>2, <1>3, PTL DEF Spec

(***************************************************************************)
(* What was decided stands: no step replaces a fallback by YouTube,        *)
(* records a learner who plays from YouTube as being without it, opens a   *)
(* transcript that was closed (but the second try of captions that failed  *)
(* does), or leaves the two speed menus and what is saved apart.           *)
(***************************************************************************)
THEOREM DecidedAlwaysStands == Spec => DecidedStands
<1> DEFINE Inv == StartupInv /\ CaptionInv(caption) /\ SpeedInv(spd)
           NoSwitch == \A v \in Videos : video[v].players = <<"html5">> =>
                           video'[v].players \in {<<"html5">>, <<>>}
           Available == \A v \in Videos : video'[v].told # video[v].told =>
                           video'[v].told = {video'[v].players # <<>> /\ video'[v].players[1] = "youtube"}
                           \/ video'[v].destroyed
           Closed == (caption.loaded /\ caption.closed /\ caption.show_transcript = "false"
                         /\ ~caption'.closed)
                     => \/ caption'.show_transcript = "true" \/ caption'.lang # caption.lang
                        \/ Caption!TriedAgain
           Menu == Speed!ChooseSpeed => /\ spd'.active = spd'.currentSpeed
                                        /\ spd'.currentSpeed # spd.currentSpeed
                                             => /\ spd'.saved = spd'.active
                                                /\ spd'.selected = spd'.active
<1>1. Init => Inv
  BY StartupInductive, CaptionBegins, SpeedInductive DEF Init
<1>2. Inv /\ [Next]_vars => /\ Inv'
                            /\ [NoSwitch]_<<kind, YT, page, video, bumper>>
                            /\ [Available]_<<kind, YT, page, video, bumper>>
                            /\ [Closed]_<<config, caption>>
                            /\ [Menu]_spd
  <2> SUFFICES ASSUME Inv, [Next]_vars
               PROVE  /\ Inv'
                      /\ [NoSwitch]_<<kind, YT, page, video, bumper>>
                      /\ [Available]_<<kind, YT, page, video, bumper>>
                      /\ [Closed]_<<config, caption>>
                      /\ [Menu]_spd
    OBVIOUS
  <2>1. StartupInv' /\ [AllStep]_startup
    <3>1. CASE Startup!Next
      BY <3>1, StartupInductive
    <3>2. CASE UNCHANGED startup
      BY <3>2 DEF startup, StartupInv, VideoInv, VideoState, BumperInv, BumperState
    <3> QED
      BY <3>1, <3>2 DEF Next, vars
  <2>2. CaptionInv(caption)' /\ [Closed]_captions
    BY CaptionsKeep DEF CaptionSteps, ClosedStays, Tried, Caption!TriedAgain
  <2>3. SpeedInv(spd)' /\ [Menu]_spd
    <3>1. [Speed!Next]_spd
      BY DEF Next, vars, buttons
    <3> QED
      BY <3>1, SpeedInductive, ChooseKeeps
  <2> QED
    BY <2>1, <2>2, <2>3 DEF startup, captions, AllStep, Tells
<1> QED
  BY <1>1, <1>2, PTL
     DEF Spec, DecidedStands, Startup!NoSwitchBack, Startup!AvailabilityIsTrue, Startup!vars,
         Caption!ClosedPanelStaysClosed, Caption!vars, Speed!MenusAgree
================================================================================
