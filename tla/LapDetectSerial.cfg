\* An STM32, or an Arduino over serial: commands between passes of the loop.
CONSTANTS
    Preemptive = FALSE
    MaxRssi = 3
    RssiMod = 8
    Settings <- MCSettings
    SampleGaps <- MCGaps
    TimeMod = 16
    MaxTime = 5
    LapMod = 2
SPECIFICATION Spec
INVARIANTS TypeOK OneLapPerCrossing PeakStartsFresh TriggerBelowPeak
PROPERTIES PassIsMeasured CalibrationSeesACrossing
