\* The I2C link: a setting that is forgotten.
CONSTANTS
    ff = ff
    zero = zero
    one = one
    Links = {"i2c"}
    Params = {"TT_CHANGED"}
    Byte <- MCByte
    ErasedByte = ff
    ZeroByte = zero
    Freqs <- MCFreqs
    PowerDown <- MCPowerDown
    DefaultFreq <- MCDefaultFreq
    Levels <- MCLevels
    DefaultLevel = zero
    MonitorLimit = 1
    MaxOutages = 0
SPECIFICATION Spec
INVARIANT Settled
