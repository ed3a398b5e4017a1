---------------------------- MODULE HostServerMC -----------------------------
(* The hardware and the scenarios that the run of HostServer explores.     *)
EXTENDS HostServer

Machine(i2c, first, second, s32) ==
    [i2c |-> i2c, modules |-> <<first, second>>, s32 |-> s32]

MCNoI2C == <<FALSE, FALSE>>

MCMachines ==
    {Machine(<<TRUE, TRUE>>, Absent, Absent, FALSE), Machine(<<FALSE, TRUE>>, 1, Absent, FALSE),
     Machine(<<FALSE, TRUE>>, 2, Absent, TRUE), Machine(MCNoI2C, 2, 2, FALSE),
     Machine(MCNoI2C, 0, 1, TRUE), Machine(MCNoI2C, Absent, 2, FALSE),
     Machine(MCNoI2C, 3, Absent, TRUE)}

MCScenario(machine, f, e, c, clients) ==
    [hw |-> machine, faults |-> f, left |-> [edits |-> e, crashes |-> c, clients |-> clients]]

MCScenarios ==
    {MCScenario(machine, 2, 0, 0, FALSE) : machine \in MCMachines}
    \cup {MCScenario(machine, 0, 0, 0, TRUE) : machine \in {m \in MCMachines : m.s32 \/ m.i2c[1]}}
    \cup {MCScenario(Machine(MCNoI2C, 1, 2, FALSE), 0, 0, 0, TRUE),
          MCScenario(Machine(MCNoI2C, 1, Absent, TRUE), 1, 0, 0, TRUE),
          MCScenario(Machine(MCNoI2C, 1, Absent, TRUE), 0, 2, 2, FALSE),
          MCScenario(Machine(MCNoI2C, 1, Absent, TRUE), 0, 0, 1, TRUE)}

MCPorts == <<1, 2>>
=============================================================================
