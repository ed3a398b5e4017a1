\* Two handlers that overlap on one item, a level or a frequency, one crash.
CONSTANTS
    Clients = {c1, c2}
    Main = main
    Items = {item}
    Values = {v1, v2}
    Off = off
    PowerDown = v1
    Defaults <- MCDefaults
    NoResult = NoResult
    Empty = Empty
    MaxRetries = 1
    MaxQueue = 1
    MaxCrashes = 1
SPECIFICATION FairSpec
INVARIANTS TypeOK CacheIsTheNodes ConfigIsTheNodes
PROPERTIES TaskEnds
