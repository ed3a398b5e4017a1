\* A file of two chunks, two calls, up to two faults.
CONSTANTS
    File <- MCFile
    Old = "old"
    Blank = "blank"
    FlashSize = 4
    TransferSize = 2
    PadUnit = 2
    UidBytes = 2
    MaxAttempts = 2
    MaxFaults = 2
SPECIFICATION FairSpec
INVARIANTS TypeOK SuccessRunsTheFile UnidentifiedIsUntouched RunsWholeImage
PROPERTIES CleanCallSucceeds
CHECK_DEADLOCK FALSE
