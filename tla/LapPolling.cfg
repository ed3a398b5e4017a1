\* Two nodes; the lap number and the nodes' clocks wrap.
CONSTANTS
    N = 2
    LapMod = 2
    TimeMod = 2
    MaxTime = 2
    MaxRestarts = 1
SPECIFICATION Spec
INVARIANTS TypeOK NewLapMeansNewPass NothingReportedTwice
PROPERTIES RecordTimesThePass NewLapIsTaken
