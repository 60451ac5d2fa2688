---------------------------- MODULE MCVideoPlayback ----------------------------
EXTENDS VideoPlayback
MCCompletionOf == <<1, 3>>
Config(type, start, end, position, others) ==
    [videoType |-> type, startTime |-> start, endTime |-> end,
     savedVideoPosition |-> position, autoplay |-> position # 0,
     othersOnPage |-> others]
MCConfigs == {Config("hls", 0, 1, 0, TRUE), Config("youtube", 1, 3, 0, FALSE)}
================================================================================
