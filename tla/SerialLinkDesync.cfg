\* No restart: an abandoned selection is enough.
CONSTANTS
    Greenlets = {update}
    Nodes = {n0, n1}
    FirstNode = n0
    NoNode = NoNode
    Values = {v1}
    DefaultValue = v1
    NoResult = NoResult
    MaxRetries = 1
    MaxSelects = 1
    MaxQueue = 3
    MaxRestarts = 0
SPECIFICATION Spec
INVARIANT HolderTracksCurrentNode
