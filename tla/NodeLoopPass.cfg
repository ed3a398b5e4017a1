\* Both links, power failures at any step.
CONSTANTS
    ff = ff
    zero = zero
    one = one
    Links = {"serial", "i2c"}
    Params = {"TT_CHANGED"}
    Byte <- MCByte
    ErasedByte = ff
    ZeroByte = zero
    Freqs <- MCFreqs
    PowerDown <- MCPowerDown
    DefaultFreq <- MCDefaultFreq
    Levels <- MCLevels
    DefaultLevel = zero
    MonitorLimit = 1
    MaxOutages = 1
SPECIFICATION FairSpec
INVARIANTS TypeOK SerialSettled RestoredWasSet
PROPERTIES FrequencyIsTuned SilentBusIsReset
