\* Two addresses and two ports; the scenarios bound edits, crashes and faults.
CONSTANTS
    Addresses = 2
    Ports = {1, 2}
    MaxModules = 3
    MaxTries = 2
    BaudRates = 2
    QueueSize = 1
    MaxWaits = 2
    Clients = {c1, c2}
    Scenarios <- MCScenarios
    ConfiguredPorts <- MCPorts
    MaxMessages = 1
SPECIFICATION FairSpec
INVARIANTS TypeOK NodesNumbered EditNotLost OneLoop UpdateIsForOneProcessor
PROPERTIES UpdateEnds
CHECK_DEADLOCK FALSE
