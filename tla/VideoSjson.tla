------------------------------- MODULE VideoSjson -------------------------------
(***************************************************************************)
(* Which caption is the current one (00_sjson.js, updatePlayTime of        *)
(* 09_video_caption.js): the captions between the start and the end of the *)
(* excerpt are kept, and searched by bisection at each update.             *)
(***************************************************************************)
EXTENDS Integers, Sequences, SequencesExt

CONSTANTS MaxTime, MaxCaptions

VARIABLES start, startTime, endTime,   \* of all captions; of the excerpt, 0 for null
          time, currentIndex           \* of the last update; -1 for undefined
vars == <<start, startTime, endTime, time, currentIndex>>
--------------------------------------------------------------------------------
filter(starts, from, to) ==
    LET end == IF to = 0 /\ starts # <<>> THEN Last(starts) ELSE to
    IN  SelectSeq(starts, LAMBDA t : t >= from /\ t <= end)

search_OffByOne(starts, at) ==
    LET find[min \in 0 .. Len(starts), max \in -1 .. Len(starts)] ==
            IF min >= max THEN min
            ELSE LET index == (max + min + 1) \div 2
                 IN  IF at <= starts[index + 1] THEN find[min, index - 1] ELSE find[index, max]
    IN  find[0, Len(starts) - 1]

search(starts, at) ==
    LET find[min \in 0 .. Len(starts), max \in -1 .. Len(starts)] ==
            IF min >= max THEN min
            ELSE LET index == (max + min + 1) \div 2
                 IN  IF at < starts[index + 1] THEN find[min, index - 1] ELSE find[index, max]
    IN  find[0, Len(starts) - 1]
--------------------------------------------------------------------------------
Init ==
    /\ start \in {s \in SeqOf(0 .. MaxTime, MaxCaptions) :
                      \A i \in 1 .. Len(s) - 1 : s[i] <= s[i + 1]}
    /\ startTime \in 0 .. MaxTime /\ endTime \in {0} \cup startTime + 1 .. MaxTime
    /\ time = 0 /\ currentIndex = -1

updatePlayTime ==
    /\ time' \in 0 .. MaxTime + 1
    /\ currentIndex' = search(filter(start, startTime, endTime), time')
    /\ UNCHANGED <<start, startTime, endTime>>

Next == updatePlayTime
Spec == Init /\ [][Next]_vars
--------------------------------------------------------------------------------
\* The captions of the list, by their definition.
Kept == {i \in DOMAIN start : start[i] >= startTime /\ (endTime # 0 => start[i] <= endTime)}
FirstKept == CHOOSE i \in Kept : \A j \in Kept : i <= j

(***************************************************************************)
(* The current caption is the last of the excerpt that has started by      *)
(* then, or the first when none has, wherever playback or a seek went.     *)
(***************************************************************************)
CurrentIsPlaying ==
    currentIndex # -1 /\ Kept # {} =>
        LET current == FirstKept + currentIndex
        IN  /\ current \in Kept
            /\ currentIndex > 0 => start[current] <= time
            /\ \A j \in Kept : j > current => start[j] > time
================================================================================
