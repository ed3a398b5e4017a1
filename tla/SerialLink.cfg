\* An update loop and a handler, two nodes, one restart.
CONSTANTS
    Greenlets = {update, handler}
    Nodes = {n0, n1}
    FirstNode = n0
    NoNode = NoNode
    Values = {v1, v2}
    DefaultValue = v1
    NoResult = NoResult
    MaxRetries = 1
    MaxSelects = 1
    MaxQueue = 3
    MaxRestarts = 1
SPECIFICATION FairSpec
INVARIANTS TypeOK CommandFindsItsNode
PROPERTIES ImplementsRegisters BlockEnds
