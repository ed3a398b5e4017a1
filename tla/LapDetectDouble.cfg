\* The I2C build: one crossing, two laps.
CONSTANTS
    Preemptive = TRUE
    MaxRssi = 3
    RssiMod = 8
    Settings <- MCOneSetting
    SampleGaps <- MCOneGap
    TimeMod = 16
    MaxTime = 5
    LapMod = 2
SPECIFICATION Spec
INVARIANT OneLapPerCrossing
