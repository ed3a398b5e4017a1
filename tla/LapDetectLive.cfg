\* The I2C build with a clock that wraps: passes of the loop never run out.
CONSTANTS
    Preemptive = TRUE
    MaxRssi = 2
    RssiMod = 8
    Settings <- MCSettings
    SampleGaps <- MCOneGap
    TimeMod = 2
    MaxTime = 4
    LapMod = 1
SPECIFICATION FairSpec
PROPERTY CrossingCompletes
