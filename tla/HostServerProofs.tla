-------------------------- MODULE HostServerProofs ---------------------------
(***************************************************************************)
(* Proofs about HostServer, for any number of clients, any hardware and    *)
(* any number of edits, crashes and faults: what the user has edited is    *)
(* not lost, the polling loops are counted, each node has an index of its  *)
(* own, and an update of the firmware is for one processor.                *)
(***************************************************************************)
EXTENDS HostServer, FiniteSetTheorems, SequenceTheorems, WellFoundedInduction,
        TLAPS

(***************************************************************************)
(* The settings file                                                       *)
(***************************************************************************)

\* From the read to the write, what the constructor has found out about the
\* file still holds, since nobody edits it meanwhile.
EditInv ==
    /\ file \in Files /\ config \in Values /\ recent \in BOOLEAN
    /\ phase = "off" => step = "done"
    /\ file.edited => file.form # "none" /\ (file.fresh => recent)
    /\ step = "backup" => file.form # "odd"
    /\ step \in {"truncate", "write"} /\ backup = "due" => recent
    /\ EditNotLost

\* The actions that leave the file, its history and the constructor alone, and
\* do not end in the phase "off".
LEMMA EditInvKept ==
    ASSUME EditInv, UNCHANGED cfgVars, phase' = "off" => phase = "off"
    PROVE  EditInv'
BY DEF EditInv, cfgVars, EditNotLost

LEMMA EditInvEdited ==
    ASSUME EditInv, EditConfig
    PROVE  EditInv'
<1>1. phase = "off" /\ phase' = phase /\ config' = config /\ step = "done" /\ step' = step
  BY DEF EditInv, EditConfig, Edit
<1>2. PICK form \in {"valid", "invalid", "odd"}, f \in BOOLEAN :
        /\ file' = [form |-> form, values |-> "edited", fresh |-> f, edited |-> TRUE]
        /\ recent' = f
  BY DEF EditConfig, Edit
<1>3. file' \in Files /\ file'.edited /\ file'.form # "none" /\ file'.fresh = f
  BY <1>2 DEF Files, Values
<1>4. file'.fresh => recent'
  BY <1>2, <1>3
<1>5. QED
  BY <1>1, <1>2, <1>3, <1>4 DEF EditInv, EditNotLost

LEMMA EditInvConfigStep ==
    ASSUME EditInv, ConfigStep
    PROVE  EditInv'
<1>1. phase = "start" /\ phase' = "start"
  BY DEF ConfigStep, hostVars, startVars
<1>2. CASE Read
  <2>1. config' \in Values /\ step' \in {"raised", "backup"}
    BY <1>2 DEF EditInv, Read, Files, Values
  <2>2. step' = "backup" => file.form # "odd"
    BY <1>2 DEF Read
  <2>3. UNCHANGED <<file, backup, recent>>
    BY <1>2 DEF Read
  <2>4. QED
    BY <1>1, <2>1, <2>2, <2>3 DEF EditInv, EditNotLost
<1>3. CASE CheckBackup
  <2>1. step = "backup" /\ step' = "truncate" /\ file' = file /\ recent' = recent
    BY <1>3 DEF CheckBackup
  <2>2. backup' = "due" => recent
    <3>1. CASE ~file.edited
      BY <3>1, <1>3 DEF CheckBackup, EditInv, EditNotLost
    <3>2. CASE file.edited /\ LooksEdited
      BY <3>2, <1>3 DEF CheckBackup
    <3>3. CASE file.edited /\ ~LooksEdited
      BY <3>3, <2>1 DEF LooksEdited, EditInv, Files
    <3>4. QED
      BY <3>1, <3>2, <3>3
  <2>3. config' = config
    BY <1>3 DEF CheckBackup
  <2>4. QED
    BY <1>1, <2>1, <2>2, <2>3 DEF EditInv, EditNotLost
<1>4. CASE Truncate
  <2>1. file' \in Files /\ ~file'.edited
    BY <1>4 DEF Truncate, Files, Values
  <2>2. step = "truncate" /\ step' = "write" /\ UNCHANGED <<config, backup, recent>>
    BY <1>4 DEF Truncate
  <2>3. backup = "due" => recent
    BY <2>2 DEF EditInv
  <2>4. QED
    BY <1>1, <2>1, <2>2, <2>3 DEF EditInv, EditNotLost
<1>5. CASE Write
  <2>1. file' = [form |-> "valid", values |-> config, fresh |-> TRUE, edited |-> FALSE]
    BY <1>5 DEF Write
  <2>2. file' \in Files /\ ~file'.edited
    BY <2>1 DEF EditInv, Files
  <2>3. step = "write" /\ step' = "done" /\ UNCHANGED <<config, backup, recent>>
    BY <1>5 DEF Write
  <2>4. QED
    BY <1>1, <2>2, <2>3 DEF EditInv, EditNotLost
<1>6. QED
  BY <1>2, <1>3, <1>4, <1>5 DEF ConfigStep, CfgStep

LEMMA EditInvNext ==
    ASSUME EditInv, [Next]_vars
    PROVE  EditInv'
<1>1. CASE EditConfig
  BY <1>1, EditInvEdited
<1>2. CASE ConfigStep
  BY <1>2, EditInvConfigStep
<1>3. CASE ConstructConfig
  BY <1>3 DEF EditInv, ConstructConfig, Construct, EditNotLost
<1>4. CASE Crash
  BY <1>4 DEF EditInv, Crash, Stop, EditNotLost, Values
<1>5. CASE PowerOn
  <2>1. UNCHANGED cfgVars /\ phase' = "start"
    BY <1>5 DEF PowerOn
  <2>2. QED
    BY <2>1, EditInvKept
<1>6. CASE DiscoveryStep
  <2>1. UNCHANGED cfgVars /\ phase' = phase
    BY <1>6 DEF DiscoveryStep, hostVars, startVars
  <2>2. QED
    BY <2>1, EditInvKept
<1>7. CASE StartRaises \/ LogSetup
  <2>1. UNCHANGED cfgVars /\ phase' \in {"dead", "serving"}
    BY <1>7 DEF StartRaises, LogSetup
  <2>2. QED
    BY <2>1, EditInvKept
<1>8. CASE \E c \in Clients : Connect(c) \/ ConnectGoesOn(c) \/ CheckFirmware(c) \/ FirmwareChecked(c)
  <2>1. UNCHANGED cfgVars /\ phase' = phase
    BY <1>8 DEF Connect, ConnectGoesOn, CheckFirmware, FirmwareChecked, startVars
  <2>2. QED
    BY <2>1, EditInvKept
<1>9. CASE LoopLogs \/ Worker \/ \E g \in Clients \cup {Updater, Loop} : Logged(g)
  <2>1. UNCHANGED cfgVars /\ phase' = phase
    BY <1>9 DEF LoopLogs, Worker, Logged, hostVars, startVars
  <2>2. QED
    BY <2>1, EditInvKept
<1>10. CASE RequestUpdate \/ Update
  <2>1. CASE ShutDown
    <3>1. UNCHANGED cfgVars /\ phase' = "shutdown"
      BY <2>1 DEF ShutDown
    <3>2. QED
      BY <3>1, EditInvKept
  <2>2. CASE ~ShutDown
    <3>1. UNCHANGED cfgVars /\ phase' = phase
      BY <1>10, <2>2 DEF RequestUpdate, Update, UpdateStep, StopBackgroundThreads,
         JumpToBootloader, JumpWritten, JumpCloses, JumpRaises, CloseFwupdSerialPort, CloseRaises,
         LoaderMessage, WaitForQueueEmpty, LoaderEnds, ReportUpdate, startVars
    <3>2. QED
      BY <3>1, EditInvKept
  <2>3. QED
    BY <2>1, <2>2
<1>11. CASE UNCHANGED vars
  <2>1. UNCHANGED cfgVars /\ phase' = phase
    BY <1>11 DEF vars, hostVars, startVars
  <2>2. QED
    BY <2>1, EditInvKept
<1>12. QED
  BY <1>1, <1>2, <1>3, <1>4, <1>5, <1>6, <1>7, <1>8, <1>9, <1>10, <1>11 DEF Next

LEMMA EditInvInit == Init => EditInv
<1> SUFFICES ASSUME Init PROVE EditInv
  OBVIOUS
<1>1. file \in Files /\ ~file.edited
  <2>1. file \in {[form |-> "none", values |-> "defaults", fresh |-> FALSE, edited |-> FALSE],
                  [form |-> "valid", values |-> "saved", fresh |-> TRUE, edited |-> FALSE]}
    BY DEF Init, CfgInit
  <2>2. CASE file = [form |-> "none", values |-> "defaults", fresh |-> FALSE, edited |-> FALSE]
    BY <2>2 DEF Files, Values
  <2>3. CASE file = [form |-> "valid", values |-> "saved", fresh |-> TRUE, edited |-> FALSE]
    BY <2>3 DEF Files, Values
  <2>4. QED
    BY <2>1, <2>2, <2>3
<1>2. config \in Values /\ recent \in BOOLEAN /\ step = "done" /\ backup = "none"
  <2>1. config = "defaults" /\ recent = FALSE /\ step = "done" /\ backup = "none"
    BY DEF Init, CfgInit
  <2>2. QED
    BY <2>1 DEF Values
<1>3. QED
  BY <1>1, <1>2 DEF EditInv, EditNotLost

\* Whatever crashes and however the constructors are cut short: what the user
\* wrote in config.json while the server was down is there or in a backup,
\* unless the copy failed or the edit was within 5 s of a save (Config.py:166).
THEOREM EditKept == Spec => []EditNotLost
<1>1. EditInv => EditNotLost
  BY DEF EditInv
<1>2. QED
  BY <1>1, EditInvInit, EditInvNext, PTL DEF Spec

(***************************************************************************)
(* The polling loop                                                        *)
(***************************************************************************)

Waiting == {c \in Clients : pc[c] = "log"}

\* Each start that waits for the log will spawn a loop, and has been counted.
LoopInv ==
    /\ pc \in [Clients -> {"idle", "log", "up", "check"}]
    /\ waited \subseteq Clients
    /\ \A c \in waited : pc[c] # "idle"
    /\ Waiting \subseteq waited
    /\ loops \in Nat
    /\ ~updateThread => loops = 0
    /\ loops + Cardinality(Waiting) <= 1 + Cardinality(waited)

LEMMA FiniteClients ==
    ASSUME LoopInv
    PROVE  /\ IsFiniteSet(waited) /\ Cardinality(waited) \in Nat
           /\ IsFiniteSet(Waiting) /\ Cardinality(Waiting) \in Nat
           /\ Cardinality(Waiting) <= Cardinality(waited)
<1>1. IsFiniteSet(waited)
  BY HostServerAssumption, FS_Subset DEF LoopInv
<1>2. IsFiniteSet(Waiting) /\ Cardinality(Waiting) <= Cardinality(waited)
  BY <1>1, FS_Subset DEF LoopInv
<1>3. QED
  BY <1>1, <1>2, FS_CardinalityType

\* A start with room in the log: a loop is spawned only if there is none.
LEMMA LoopInvSpawned ==
    ASSUME LoopInv, NEW c \in Clients, NEW n \in {0, 1}, pc[c] = "idle", Connected(c, n),
           updateThread => n = 0
    PROVE  LoopInv'
<1>1. pc' = [pc EXCEPT ![c] = "up"] /\ loops' = loops + n /\ updateThread' = TRUE /\ waited' = waited
  BY DEF Connected
<1>2. Waiting' = Waiting
  BY <1>1 DEF Waiting, LoopInv
<1>3. pc' \in [Clients -> {"idle", "log", "up", "check"}] /\ \A d \in waited : pc'[d] # "idle"
  BY <1>1 DEF LoopInv
<1>4. loops' + Cardinality(Waiting) <= 1 + Cardinality(waited)
  <2>1. CASE updateThread
    BY <1>1, <2>1, FiniteClients DEF LoopInv
  <2>2. CASE ~updateThread
    BY <1>1, <2>2, FiniteClients DEF LoopInv
  <2>3. QED
    BY <2>1, <2>2
<1>5. QED
  BY <1>1, <1>2, <1>3, <1>4 DEF LoopInv

\* A start that has to wait for the log.
LEMMA LoopInvWaits ==
    ASSUME LoopInv, NEW c \in Clients, pc[c] = "idle",
           pc' = [pc EXCEPT ![c] = "log"], waited' = waited \cup {c},
           loops' = loops, updateThread' = updateThread
    PROVE  LoopInv'
<1>1. c \notin waited /\ c \notin Waiting
  BY DEF LoopInv, Waiting
<1>2. Waiting' = Waiting \cup {c}
  BY DEF Waiting, LoopInv
<1>3. /\ Cardinality(Waiting') = Cardinality(Waiting) + 1
      /\ Cardinality(waited') = Cardinality(waited) + 1
  BY <1>1, <1>2, FiniteClients, FS_AddElement
<1>4. loops' + Cardinality(Waiting') <= 1 + Cardinality(waited')
  BY <1>3, FiniteClients DEF LoopInv
<1>5. pc' \in [Clients -> {"idle", "log", "up", "check"}] /\ \A d \in waited' : pc'[d] # "idle"
  BY DEF LoopInv
<1>6. QED
  BY <1>2, <1>4, <1>5 DEF LoopInv

\* The wait is over, and the loop is spawned.
LEMMA LoopInvGoesOn ==
    ASSUME LoopInv, NEW c \in Clients, pc[c] = "log", Connected(c, 1)
    PROVE  LoopInv'
<1>1. pc' = [pc EXCEPT ![c] = "up"] /\ loops' = loops + 1 /\ updateThread' = TRUE /\ waited' = waited
  BY DEF Connected
<1>2. c \in Waiting /\ Waiting' = Waiting \ {c}
  BY <1>1 DEF Waiting, LoopInv
<1>3. Cardinality(Waiting') = Cardinality(Waiting) - 1
  BY <1>2, FiniteClients, FS_RemoveElement
<1>4. loops' + Cardinality(Waiting') <= 1 + Cardinality(waited)
  BY <1>1, <1>3, FiniteClients DEF LoopInv
<1>5. pc' \in [Clients -> {"idle", "log", "up", "check"}] /\ \A d \in waited : pc'[d] # "idle"
  BY <1>1 DEF LoopInv
<1>6. QED
  BY <1>1, <1>2, <1>4, <1>5 DEF LoopInv

\* Steps of a client that has connected.
LEMMA LoopInvChecks ==
    ASSUME LoopInv, NEW c \in Clients, CheckFirmware(c) \/ FirmwareChecked(c)
    PROVE  LoopInv'
<1>1. PICK to \in {"up", "check"} : pc[c] # "log" /\ pc' = [pc EXCEPT ![c] = to]
  BY DEF CheckFirmware, FirmwareChecked
<1>2. UNCHANGED <<loops, updateThread, waited>>
  BY DEF CheckFirmware, FirmwareChecked
<1>3. Waiting' = Waiting
  BY <1>1 DEF Waiting, LoopInv
<1>4. QED
  BY <1>1, <1>2, <1>3 DEF LoopInv

LEMMA LoopInvKept ==
    ASSUME LoopInv, UNCHANGED <<pc, loops, updateThread, waited>>
    PROVE  LoopInv'
BY DEF LoopInv, Waiting

LEMMA LoopInvFresh ==
    ASSUME pc = [c \in Clients |-> "idle"], loops = 0, waited = {}
    PROVE  LoopInv
<1>1. Waiting = {}
  BY DEF Waiting
<1>2. QED
  BY <1>1, FS_EmptySet DEF LoopInv

LEMMA LoopInvNext ==
    ASSUME LoopInv, [Next]_vars
    PROVE  LoopInv'
<1>1. CASE Crash
  <2>1. pc' = [c \in Clients |-> "idle"] /\ loops' = 0 /\ waited' = {}
    BY <1>1 DEF Crash, ForgetServer
  <2>2. Waiting' = {}
    BY <2>1 DEF Waiting
  <2>3. QED
    BY <2>1, <2>2, FS_EmptySet DEF LoopInv
<1>2. ASSUME NEW c \in Clients, Connect(c) PROVE LoopInv'
  <2>1. pc[c] = "idle"
    BY <1>2 DEF Connect
  <2>2. CASE updateThread
    BY <1>2, <2>1, <2>2, LoopInvSpawned DEF Connect
  <2>3. CASE ~updateThread /\ PutAtOnce
    BY <1>2, <2>1, <2>3, LoopInvSpawned DEF Connect
  <2>4. CASE ~updateThread /\ ~PutAtOnce
    BY <1>2, <2>1, <2>4, LoopInvWaits DEF Connect
  <2>5. QED
    BY <2>2, <2>3, <2>4
<1>3. ASSUME NEW c \in Clients, ConnectGoesOn(c) PROVE LoopInv'
  BY <1>3, LoopInvGoesOn DEF ConnectGoesOn
<1>4. ASSUME NEW c \in Clients, CheckFirmware(c) \/ FirmwareChecked(c) PROVE LoopInv'
  BY <1>4, LoopInvChecks
<1>5. CASE EditConfig \/ PowerOn \/ ConstructConfig \/ ConfigStep \/ DiscoveryStep \/ StartRaises
           \/ LogSetup
  <2>1. UNCHANGED <<pc, loops, updateThread, waited>>
    BY <1>5 DEF EditConfig, PowerOn, ConstructConfig, ConfigStep, DiscoveryStep, StartRaises,
       LogSetup, hostVars, clientVars
  <2>2. QED
    BY <2>1, LoopInvKept
<1>6. CASE \/ LoopLogs \/ Worker \/ UNCHANGED vars
           \/ \E g \in Clients \cup {Updater, Loop} : Logged(g)
  <2>1. UNCHANGED <<pc, loops, updateThread, waited>>
    BY <1>6 DEF LoopLogs, Worker, Logged, vars, hostVars, clientVars
  <2>2. QED
    BY <2>1, LoopInvKept
<1>7. CASE RequestUpdate \/ Update
  <2>1. UNCHANGED <<pc, loops, updateThread, waited>>
    BY <1>7 DEF RequestUpdate, Update, UpdateStep, StopBackgroundThreads, JumpToBootloader,
       JumpWritten, JumpCloses, JumpRaises, CloseFwupdSerialPort, CloseRaises, LoaderMessage,
       WaitForQueueEmpty, LoaderEnds, ReportUpdate, ShutDown, clientVars
  <2>2. QED
    BY <2>1, LoopInvKept
<1>8. QED
  BY <1>1, <1>2, <1>3, <1>4, <1>5, <1>6, <1>7 DEF Next

\* However many clients connect at the same time: beyond the first polling
\* loop there is one at most for each start that found the log queue full
\* between its test and its spawn (LTInterface.py:114-117).
THEOREM LoopsCounted == Spec => []OneLoop
<1>1. Init => LoopInv
  BY LoopInvFresh DEF Init, FreshServer
<1>2. LoopInv => OneLoop
  BY FiniteClients DEF LoopInv, OneLoop
<1>3. QED
  BY <1>1, <1>2, LoopInvNext, PTL DEF Spec

(***************************************************************************)
(* The search for the nodes                                                *)
(***************************************************************************)

Growing(list) == \A i, j \in 1 .. Len(list) : i < j => list[i].index < list[j].index
Below(list, n) == \A i \in 1 .. Len(list) : list[i].index < n
InPlace(list) == \A i \in 1 .. Len(list) : list[i].index = i - 1

Scans == [phase : ScanPhases, at : Nat, baud : 1 .. BaudRates, tries : 0 .. MaxTries - 1]

\* The scan is at an address, a port or a node that exists.
DiscType ==
    /\ hw \in Hardware /\ isS32BPillFlag \in BOOLEAN
    /\ scan \in Scans
    /\ scan.phase = "i2c" => scan.at \in 1 .. Addresses
    /\ scan.phase = "port" => scan.at \in 1 .. Len(serialPorts)
    /\ scan.phase = "setup" => scan.at \in 1 .. Len(nodes)
    /\ serialPorts \in Seq(Ports) /\ nodes \in Seq(Nodes)
    /\ fwupd \in Ports \cup {NoPort} /\ skipped \in BOOLEAN
    /\ faults \in Nat /\ idxOffset \in Nat

\* The next index is beyond those given, and next to them if none was skipped.
Numbered ==
    /\ Growing(nodes)
    /\ ~skipped => InPlace(nodes)
    /\ scan.phase \in {"none", "identify", "bus", "serial"} => nodes = <<>> /\ idxOffset = 0
    /\ scan.phase = "i2c" =>
          /\ idxOffset = 0 /\ Below(nodes, scan.at - 1)
          /\ ~skipped => Len(nodes) = scan.at - 1
    /\ scan.phase = "port" =>
          /\ Below(nodes, scan.at - 1 + idxOffset)
          /\ ~skipped => Len(nodes) = scan.at - 1 + idxOffset

\* With one port, the modules are in the list in the order of their processor,
\* and those that were set up have the settings of their own index.
IsModule(node) == node.multi_node_index # NoIndex

OnePort ==
    /\ scan.phase \in {"none", "identify", "bus", "i2c", "serial"} => serialPorts = <<>>
    /\ Len(serialPorts) = 1 =>
          /\ scan.phase = "port" => nodes = <<>>
          /\ \A i \in 1 .. Len(nodes) : IsModule(nodes[i]) => nodes[i].multi_node_index = i - 1
          /\ \A i \in 1 .. Len(nodes) :
                IsModule(nodes[i]) /\ (scan.phase = "ready" \/ (scan.phase = "setup" /\ i < scan.at))
                => nodes[i].settings = i - 1

DiscInv == DiscType /\ Numbered /\ OnePort

LEMMA ScanTypes ==
    ASSUME NEW at \in Nat, NEW ph \in ScanPhases
    PROVE  /\ Scan(ph, at) \in Scans
           /\ Scan(ph, at).phase = ph /\ Scan(ph, at).at = at
BY DiscoveryAssumption DEF Scan, Scans

\* Only the history of what may still fail changes.
LEMMA FaultTypes ==
    ASSUME DiscType, NEW n \in Nat, Fault(n)
    PROVE  faults' \in Nat
BY DEF DiscType, Fault

LEMMA NodeTypes ==
    ASSUME NEW i \in Nat, NEW m \in ModuleIndices \cup {NoIndex}, NEW p \in Ports \cup {OnI2C},
           NEW fw \in {"full", "noTimestamp", "none"}
    PROVE  /\ Node(i, m, p, fw) \in Nodes
           /\ Node(i, m, p, fw).index = i /\ Node(i, m, p, fw).multi_node_index = m
BY DEF Node, Nodes

\* Nodes that are numbered one after the other join the list at its end.
LEMMA NodesJoin ==
    ASSUME NEW list \in Seq(Nodes), NEW more \in Seq(Nodes), NEW first \in Nat,
           Growing(list), Below(list, first),
           \A n \in 1 .. Len(more) : more[n].index = first + n - 1
    PROVE  /\ list \o more \in Seq(Nodes) /\ Len(list \o more) = Len(list) + Len(more)
           /\ Growing(list \o more) /\ Below(list \o more, first + Len(more))
           /\ InPlace(list) /\ Len(list) = first => InPlace(list \o more)
<1> DEFINE found == list \o more
<1>1. /\ found \in Seq(Nodes) /\ Len(found) = Len(list) + Len(more)
      /\ \A i \in 1 .. Len(list) + Len(more) :
            found[i] = IF i <= Len(list) THEN list[i] ELSE more[i - Len(list)]
  BY ConcatProperties
<1>2. Len(list) \in Nat /\ Len(more) \in Nat
  BY LenProperties
<1> HIDE DEF found
<1>3. ASSUME NEW i \in 1 .. Len(found)
      PROVE  \/ i \in 1 .. Len(list) /\ found[i] = list[i]
             \/ i > Len(list) /\ found[i].index = first + (i - Len(list)) - 1
  <2>1. CASE i <= Len(list)
    BY <1>1, <1>2, <2>1
  <2>2. CASE ~(i <= Len(list))
    <3>1. i - Len(list) \in 1 .. Len(more) /\ found[i] = more[i - Len(list)]
      BY <1>1, <1>2, <2>2
    <3>2. QED
      BY <1>2, <2>2, <3>1
  <2>3. QED
    BY <2>1, <2>2
<1>4. \A i \in 1 .. Len(list) : list[i].index \in Nat /\ list[i].index < first
  <2>1. ASSUME NEW i \in 1 .. Len(list) PROVE list[i].index \in Nat
    <3>1. list[i] \in Nodes
      BY ElementOfSeq
    <3>2. QED
      BY <3>1 DEF Nodes
  <2>2. QED
    BY <2>1 DEF Below
<1>5. Growing(found)
  <2>1. SUFFICES ASSUME NEW i \in 1 .. Len(found), NEW j \in 1 .. Len(found), i < j
                 PROVE  found[i].index < found[j].index
    BY DEF Growing
  <2>2. CASE j \in 1 .. Len(list)
    <3>1. i \in 1 .. Len(list) /\ found[i] = list[i] /\ found[j] = list[j]
      BY <1>1, <1>2, <1>3, <2>1, <2>2
    <3>2. QED
      BY <2>1, <2>2, <3>1 DEF Growing
  <2>3. CASE j > Len(list) /\ i \in 1 .. Len(list) /\ found[i] = list[i]
    BY <1>1, <1>2, <1>3, <1>4, <2>1, <2>3
  <2>4. CASE j > Len(list) /\ i > Len(list)
    BY <1>1, <1>2, <1>3, <2>1, <2>4
  <2>5. QED
    BY <1>1, <1>2, <1>3, <2>2, <2>3, <2>4
<1>6. Below(found, first + Len(more))
  <2>1. SUFFICES ASSUME NEW i \in 1 .. Len(found) PROVE found[i].index < first + Len(more)
    BY DEF Below
  <2>2. CASE i \in 1 .. Len(list) /\ found[i] = list[i]
    BY <1>2, <1>4, <2>2
  <2>3. CASE i > Len(list) /\ found[i].index = first + (i - Len(list)) - 1
    BY <1>1, <1>2, <2>3
  <2>4. QED
    BY <1>3, <2>2, <2>3
<1>7. ASSUME InPlace(list), Len(list) = first
      PROVE  InPlace(found)
  <2>1. SUFFICES ASSUME NEW i \in 1 .. Len(found) PROVE found[i].index = i - 1
    BY DEF InPlace
  <2>2. CASE i \in 1 .. Len(list) /\ found[i] = list[i]
    BY <1>7, <2>2 DEF InPlace
  <2>3. CASE i > Len(list) /\ found[i].index = first + (i - Len(list)) - 1
    BY <1>1, <1>2, <1>7, <2>3
  <2>4. QED
    BY <1>3, <2>2, <2>3
<1>8. QED
  BY <1>1, <1>5, <1>6, <1>7 DEF found

LEMMA SomeFirst ==
    ASSUME NEW S, S \subseteq Nat, S # {}
    PROVE  \E n \in S : \A m \in S : n <= m
<1> DEFINE R == OpToRel(<, Nat)
<1>1. IsWellFoundedOn(R, Nat)
  BY NatLessThanWellFounded
<1>2. \A x, y \in Nat : <<y, x>> \in R <=> y < x
  BY DEF OpToRel
<1> HIDE DEF R
<1>3. PICK n \in S : \A m \in S : <<m, n>> \notin R
  BY <1>1, WFMin
<1>4. ASSUME NEW m \in S PROVE n <= m
  <2>1. n \in Nat /\ m \in Nat /\ <<m, n>> \notin R
    BY <1>3
  <2>2. ~(m < n)
    BY <1>2, <2>1
  <2>3. QED
    BY <2>1, <2>2
<1>5. QED
  BY <1>4

\* Steps that find no node and leave the list alone.
LEMMA IdentifyKeeps ==
    ASSUME DiscInv, Identify \/ OpenBus
    PROVE  DiscInv'
<1>1. /\ scan.phase \in {"identify", "bus"} /\ nodes = <<>> /\ idxOffset = 0 /\ serialPorts = <<>>
      /\ UNCHANGED <<hw, serialPorts, nodes, idxOffset, fwupd, skipped>>
  BY DEF Identify, OpenBus, DiscInv, Numbered, OnePort
<1>2. isS32BPillFlag' \in BOOLEAN
  BY DEF Identify, OpenBus, TiedLow, DiscInv, DiscType
<1>3. faults' \in Nat
  BY FaultTypes DEF Identify, OpenBus, DiscInv
<1>4. PICK at \in {0, 1}, ph \in {"bus", "i2c", "raised"} :
        scan' = Scan(ph, at) /\ (ph = "i2c" => at = 1)
  BY DEF Identify, OpenBus
<1>5. scan' \in Scans /\ scan'.phase = ph /\ scan'.at = at
  BY <1>4, ScanTypes DEF ScanPhases
<1>6. DiscType'
  BY <1>1, <1>2, <1>3, <1>4, <1>5, DiscoveryAssumption DEF DiscInv, DiscType
<1>7. Len(nodes) = 0 /\ Len(serialPorts) = 0
  BY <1>1
<1>8. Numbered' /\ OnePort'
  BY <1>1, <1>4, <1>5, <1>7 DEF DiscInv, Numbered, OnePort, Growing, InPlace, Below
<1>9. QED
  BY <1>6, <1>8 DEF DiscInv

\* Where the scan goes on after an address.
LEMMA AfterAddressIs ==
    ASSUME DiscInv, scan.phase = "i2c", NEW found \in Seq(Nodes), scan' = AfterAddress(found)
    PROVE  /\ scan' \in Scans
           /\ scan'.phase \in {"serial", "setup", "i2c"}
           /\ scan'.phase = "serial" => found = <<>>
           /\ scan'.phase = "setup" => scan'.at = 1 /\ 1 \in 1 .. Len(found)
           /\ scan'.phase = "i2c" => scan'.at = scan.at + 1 /\ scan'.at \in 1 .. Addresses
<1>1. scan.at \in 1 .. Addresses /\ Addresses \in Nat /\ scan.at \in Nat
  BY DiscoveryAssumption DEF DiscInv, DiscType
<1>2. found # <<>> => 1 \in 1 .. Len(found)
  BY LenProperties, EmptySeq
<1>3. CASE scan' = Scan("serial", 1) /\ found = <<>>
  BY <1>3, ScanTypes DEF ScanPhases
<1>4. CASE scan' = Scan("setup", 1) /\ found # <<>>
  BY <1>2, <1>4, ScanTypes DEF ScanPhases
<1>5. CASE scan' = Scan("i2c", scan.at + 1) /\ scan.at # Addresses
  BY <1>1, <1>5, ScanTypes DEF ScanPhases
<1>6. QED
  BY <1>3, <1>4, <1>5 DEF AfterAddress

LEMMA NoNodeKeeps ==
    ASSUME DiscInv, NoNodeAtAddress
    PROVE  DiscInv'
<1>1. /\ scan.phase = "i2c" /\ scan' = AfterAddress(nodes) /\ skipped' = TRUE
      /\ nodes \in Seq(Nodes)
      /\ UNCHANGED <<hw, isS32BPillFlag, serialPorts, nodes, idxOffset, fwupd>>
  BY DEF NoNodeAtAddress, DiscInv, DiscType
<1>2. faults' \in Nat
  BY FaultTypes DEF NoNodeAtAddress, DiscInv
<1>3. /\ scan' \in Scans
      /\ scan'.phase \in {"serial", "setup", "i2c"}
      /\ scan'.phase = "serial" => nodes = <<>>
      /\ scan'.phase = "setup" => scan'.at = 1 /\ 1 \in 1 .. Len(nodes)
      /\ scan'.phase = "i2c" => scan'.at = scan.at + 1 /\ scan'.at \in 1 .. Addresses
  BY <1>1, AfterAddressIs
<1>4. DiscType'
  BY <1>1, <1>2, <1>3 DEF DiscInv, DiscType
<1>5. Below(nodes, scan.at - 1) => Below(nodes, scan.at)
  <2>1. \A i \in 1 .. Len(nodes) : nodes[i].index \in Nat
    <3>1. \A i \in 1 .. Len(nodes) : nodes[i] \in Nodes
      BY <1>1, ElementOfSeq
    <3>2. QED
      BY <3>1 DEF Nodes
  <2>2. QED
    BY <2>1 DEF Below, DiscInv, DiscType, Scans
<1>6. Numbered'
  <2>1. Growing(nodes) /\ idxOffset = 0 /\ Below(nodes, scan.at)
    BY <1>1, <1>5 DEF DiscInv, Numbered
  <2>2. scan'.at = scan.at + 1 => scan'.at - 1 = scan.at
    BY DEF DiscInv, DiscType, Scans
  <2>3. QED
    BY <1>1, <1>3, <2>1, <2>2 DEF Numbered
<1>7. OnePort'
  <2>1. serialPorts = <<>> /\ Len(serialPorts) = 0
    BY <1>1 DEF DiscInv, OnePort
  <2>2. QED
    BY <1>1, <2>1 DEF OnePort
<1>8. QED
  BY <1>4, <1>6, <1>7 DEF DiscInv

\* An I2C node is numbered by its address.
LEMMA I2CNodeKeeps ==
    ASSUME DiscInv, I2CNodeFound, nodes' # nodes
    PROVE  DiscInv'
<1>1. PICK fw \in {"full", "noTimestamp", "none"} :
        /\ FirmwareRead(fw)
        /\ nodes' = Append(nodes, Node(scan.at - 1 + idxOffset, NoIndex, OnI2C, fw))
        /\ scan' = AfterAddress(nodes')
  BY DEF I2CNodeFound, ReadRaises
<1>2. /\ scan.phase = "i2c" /\ nodes \in Seq(Nodes)
      /\ UNCHANGED <<hw, isS32BPillFlag, serialPorts, idxOffset, fwupd, skipped>>
      /\ scan.at \in Nat \ {0} /\ idxOffset = 0
  BY DEF I2CNodeFound, DiscInv, DiscType, Numbered
<1>3. faults' \in Nat
  BY <1>1, FaultTypes DEF FirmwareRead, DiscInv
<1> DEFINE first == scan.at - 1 + idxOffset
           new == Node(first, NoIndex, OnI2C, fw)
           more == <<new>>
<1>4. new \in Nodes /\ new.index = scan.at - 1
  <2>1. first = scan.at - 1 /\ first \in Nat
    BY <1>2
  <2> HIDE DEF first
  <2>2. QED
    BY <2>1, NodeTypes
<1> HIDE DEF new
<1>5. /\ more \in Seq(Nodes) /\ Len(more) = 1
      /\ \A n \in 1 .. Len(more) : more[n].index = (scan.at - 1) + n - 1
  BY <1>2, <1>4
<1>6. nodes' = nodes \o more
  BY <1>1, <1>2, <1>4, AppendIsConcat DEF new
<1> HIDE DEF more
<1>7. Growing(nodes) /\ Below(nodes, scan.at - 1) /\ scan.at - 1 \in Nat
  BY <1>2 DEF DiscInv, Numbered
<1>8. /\ nodes' \in Seq(Nodes) /\ Len(nodes') = Len(nodes) + 1
      /\ Growing(nodes') /\ Below(nodes', scan.at - 1 + 1)
      /\ InPlace(nodes) /\ Len(nodes) = scan.at - 1 => InPlace(nodes')
  BY <1>2, <1>5, <1>6, <1>7, NodesJoin
<1>9. /\ scan' \in Scans
      /\ scan'.phase \in {"serial", "setup", "i2c"}
      /\ scan'.phase = "serial" => nodes' = <<>>
      /\ scan'.phase = "setup" => scan'.at = 1 /\ 1 \in 1 .. Len(nodes')
      /\ scan'.phase = "i2c" => scan'.at = scan.at + 1 /\ scan'.at \in 1 .. Addresses
  BY <1>1, <1>2, <1>8, AfterAddressIs
<1>10. DiscType'
  BY <1>2, <1>3, <1>8, <1>9 DEF DiscInv, DiscType
<1>11. scan.at - 1 + 1 = scan.at /\ scan.at + 1 - 1 = scan.at
  BY <1>2
<1>12. Numbered'
  <2>1. ~skipped => InPlace(nodes') /\ Len(nodes') = scan.at
    BY <1>2, <1>8, <1>11 DEF DiscInv, Numbered
  <2>2. Below(nodes', scan.at)
    BY <1>8, <1>11
  <2>3. Len(nodes) \in Nat
    BY <1>2, LenProperties
  <2>4. nodes' # <<>>
    BY <1>1, <1>2, <1>4, AppendProperties DEF new
  <2>5. QED
    BY <1>2, <1>8, <1>9, <1>11, <2>1, <2>2, <2>4 DEF Numbered
<1>13. OnePort'
  <2>1. serialPorts = <<>> /\ Len(serialPorts) = 0
    BY <1>2 DEF DiscInv, OnePort
  <2>2. QED
    BY <1>2, <2>1 DEF OnePort
<1>14. QED
  BY <1>10, <1>12, <1>13 DEF DiscInv

\* What is raised ends the search where it is.
LEMMA RaisedKeeps ==
    ASSUME DiscInv, scan' = Scan("raised", 0), Fault(1),
           UNCHANGED <<hw, isS32BPillFlag, serialPorts, nodes, idxOffset, fwupd, skipped>>
    PROVE  DiscInv'
<1>1. scan' \in Scans /\ scan'.phase = "raised"
  BY ScanTypes DEF ScanPhases
<1>2. faults' \in Nat
  BY FaultTypes DEF DiscInv
<1>3. DiscType'
  BY <1>1, <1>2 DEF DiscInv, DiscType
<1>4. Numbered' /\ OnePort'
  BY <1>1 DEF DiscInv, Numbered, OnePort
<1>5. QED
  BY <1>3, <1>4 DEF DiscInv

LEMMA BeginSerialKeeps ==
    ASSUME DiscInv, NEW configured \in Seq(Ports), BeginSerial(configured)
    PROVE  DiscInv'
<1>1. /\ scan.phase = "serial" /\ nodes = <<>> /\ idxOffset = 0 /\ Len(nodes) = 0
      /\ skipped' = FALSE
      /\ UNCHANGED <<hw, isS32BPillFlag, nodes, idxOffset, fwupd, faults>>
  BY DEF BeginSerial, DiscInv, Numbered
<1>2. serialPorts' \in Seq(Ports)
  BY DiscoveryAssumption DEF BeginSerial, SerialPorts
<1>3. serialPorts' # <<>> => 1 \in 1 .. Len(serialPorts')
  BY <1>2, LenProperties, EmptySeq
<1>4. /\ scan' \in Scans
      /\ \/ scan'.phase = "ready"
         \/ scan'.phase = "port" /\ scan'.at = 1 /\ 1 \in 1 .. Len(serialPorts')
  <2>1. CASE scan' = Scan("ready", 0)
    BY <2>1, ScanTypes DEF ScanPhases
  <2>2. CASE scan' = Scan("port", 1) /\ serialPorts' # <<>>
    BY <1>3, <2>2, ScanTypes DEF ScanPhases
  <2>3. QED
    BY <2>1, <2>2 DEF BeginSerial
<1>5. DiscType'
  BY <1>1, <1>2, <1>4 DEF DiscInv, DiscType
<1>6. Numbered' /\ OnePort'
  BY <1>1, <1>4 DEF Numbered, OnePort, Growing, Below, InPlace
<1>7. QED
  BY <1>5, <1>6 DEF DiscInv

\* Where the scan goes on after a port.
LEMMA AfterPortIs ==
    ASSUME DiscInv, scan.phase = "port", NEW found \in Seq(Nodes), scan' = AfterPort(found)
    PROVE  /\ scan' \in Scans
           /\ scan'.phase \in {"port", "ready", "setup"}
           /\ scan'.phase = "port" =>
                 scan'.at = scan.at + 1 /\ scan'.at \in 1 .. Len(serialPorts)
           /\ scan'.phase = "ready" => found = <<>>
           /\ scan'.phase = "setup" => scan'.at = 1 /\ 1 \in 1 .. Len(found)
<1>1. scan.at \in 1 .. Len(serialPorts) /\ scan.at \in Nat /\ Len(serialPorts) \in Nat
  BY LenProperties DEF DiscInv, DiscType
<1>2. found # <<>> => 1 \in 1 .. Len(found)
  BY LenProperties, EmptySeq
<1>3. CASE scan' = Scan("port", scan.at + 1) /\ scan.at < Len(serialPorts)
  BY <1>1, <1>3, ScanTypes DEF ScanPhases
<1>4. CASE scan' = Scan("ready", 0) /\ found = <<>>
  BY <1>4, ScanTypes DEF ScanPhases
<1>5. CASE scan' = Scan("setup", 1) /\ found # <<>>
  BY <1>2, <1>5, ScanTypes DEF ScanPhases
<1>6. QED
  BY <1>3, <1>4, <1>5 DEF AfterPort

\* A port whose processor does not answer: the same port again, or the next one.
LEMMA NoRevisionKeeps ==
    ASSUME DiscInv, NoRevisionCode
    PROVE  DiscInv'
<1>1. /\ scan.phase = "port" /\ scan \in Scans /\ nodes \in Seq(Nodes)
      /\ UNCHANGED <<hw, isS32BPillFlag, serialPorts, nodes, idxOffset, fwupd>>
      /\ skipped' = (skipped \/ (scan.tries + 1 = MaxTries /\ scan.baud = BaudRates))
  BY DEF NoRevisionCode, DiscInv, DiscType
<1>2. faults' \in Nat
  BY FaultTypes DEF NoRevisionCode, DiscInv
<1>3. skipped' \in BOOLEAN /\ (~skipped' => ~skipped)
  BY <1>1 DEF DiscInv, DiscType
<1>4. CASE ~(scan.tries + 1 = MaxTries /\ scan.baud = BaudRates)
  <2>1. /\ scan' \in Scans /\ scan'.phase = "port" /\ scan'.at = scan.at
    <3>1. CASE scan.tries + 1 # MaxTries
      <4>1. scan' = [scan EXCEPT !.tries = @ + 1] /\ scan.tries + 1 \in 0 .. MaxTries - 1
        BY <1>1, <3>1, DiscoveryAssumption DEF NoRevisionCode, Scans
      <4>2. QED
        BY <1>1, <4>1 DEF Scans
    <3>2. CASE scan.tries + 1 = MaxTries
      <4>1. /\ scan' = [scan EXCEPT !.baud = @ + 1, !.tries = 0]
            /\ scan.baud + 1 \in 1 .. BaudRates /\ 0 \in 0 .. MaxTries - 1
        BY <1>1, <1>4, <3>2, DiscoveryAssumption DEF NoRevisionCode, Scans
      <4>2. QED
        BY <1>1, <4>1 DEF Scans
    <3>3. QED
      BY <3>1, <3>2
  <2>2. DiscType'
    BY <1>1, <1>2, <1>3, <2>1 DEF DiscInv, DiscType
  <2>3. Numbered' /\ OnePort'
    BY <1>1, <1>3, <2>1 DEF DiscInv, Numbered, OnePort
  <2>4. QED
    BY <2>2, <2>3 DEF DiscInv
<1>5. CASE scan.tries + 1 = MaxTries /\ scan.baud = BaudRates
  <2>1. scan' = AfterPort(nodes)
    BY <1>1, <1>5, DiscoveryAssumption DEF NoRevisionCode, Scans
  <2>2. /\ scan' \in Scans
        /\ scan'.phase \in {"port", "ready", "setup"}
        /\ scan'.phase = "port" =>
              scan'.at = scan.at + 1 /\ scan'.at \in 1 .. Len(serialPorts)
        /\ scan'.phase = "ready" => nodes = <<>>
        /\ scan'.phase = "setup" => scan'.at = 1 /\ 1 \in 1 .. Len(nodes)
    BY <1>1, <2>1, AfterPortIs
  <2>3. DiscType'
    BY <1>1, <1>2, <1>3, <2>2 DEF DiscInv, DiscType
  <2>4. skipped'
    BY <1>1, <1>5
  <2>5. Growing(nodes) /\ Below(nodes, scan.at - 1 + idxOffset)
    BY <1>1 DEF DiscInv, Numbered
  <2>6. scan'.phase = "port" => Below(nodes, scan'.at - 1 + idxOffset)
    <3>1. \A i \in 1 .. Len(nodes) : nodes[i].index \in Nat
      <4>1. \A i \in 1 .. Len(nodes) : nodes[i] \in Nodes
        BY <1>1, ElementOfSeq
      <4>2. QED
        BY <4>1 DEF Nodes
    <3>2. scan.at \in Nat /\ idxOffset \in Nat
      BY <1>1 DEF DiscInv, DiscType, Scans
    <3>3. QED
      BY <2>2, <2>5, <3>1, <3>2 DEF Below
  <2>7. Numbered'
    BY <1>1, <2>2, <2>4, <2>5, <2>6 DEF Numbered
  <2>8. OnePort'
    <3>1. Len(serialPorts) = 1 => nodes = <<>>
      BY <1>1 DEF DiscInv, OnePort
    <3>2. QED
      BY <1>1, <2>2, <3>1 DEF OnePort
  <2>9. QED
    BY <2>3, <2>7, <2>8 DEF DiscInv
<1>6. QED
  BY <1>4, <1>5


\* The modules of a processor.
ModulesOf(count, first, port, fw) ==
    IF count = 1 THEN <<Node(first, NoIndex, port, fw)>>
    ELSE [n \in 1 .. count |-> Node(first + n - 1, n - 1, port, fw)]

LEMMA ModulesTypes ==
    ASSUME NEW count \in 0 .. MaxModules, NEW first \in Nat, NEW port \in Ports,
           NEW fw \in {"full", "noTimestamp", "none"}
    PROVE  /\ ModulesOf(count, first, port, fw) \in Seq(Nodes)
           /\ Len(ModulesOf(count, first, port, fw)) = count
           /\ \A n \in 1 .. count :
                 /\ ModulesOf(count, first, port, fw)[n].index = first + n - 1
                 /\ IsModule(ModulesOf(count, first, port, fw)[n]) =>
                       ModulesOf(count, first, port, fw)[n].multi_node_index = n - 1
<1> DEFINE more == ModulesOf(count, first, port, fw)
<1>1. count \in Nat /\ MaxModules \in Nat
  BY DiscoveryAssumption
<1>2. CASE count = 1
  <2>1. more = <<Node(first, NoIndex, port, fw)>>
    BY <1>2 DEF ModulesOf
  <2>2. /\ Node(first, NoIndex, port, fw) \in Nodes
        /\ Node(first, NoIndex, port, fw).index = first
        /\ Node(first, NoIndex, port, fw).multi_node_index = NoIndex
    <3>1. NoIndex \in ModuleIndices \cup {NoIndex} /\ port \in Ports \cup {OnI2C}
      OBVIOUS
    <3>2. QED
      BY <3>1, NodeTypes
  <2>3. more \in Seq(Nodes) /\ Len(more) = 1 /\ more[1] = Node(first, NoIndex, port, fw)
    BY <2>1, <2>2
  <2> HIDE DEF more
  <2>4. more[1].index = first /\ more[1].multi_node_index = NoIndex
    BY <2>2, <2>3
  <2>5. \A n \in 1 .. count : n = 1 /\ first + n - 1 = first
    BY <1>2
  <2>6. QED
    BY <1>2, <2>3, <2>4, <2>5 DEF more, IsModule
<1>3. CASE count # 1
  <2>1. more = [n \in 1 .. count |-> Node(first + n - 1, n - 1, port, fw)]
    BY <1>3 DEF ModulesOf
  <2>2. ASSUME NEW n \in 1 .. count
        PROVE  /\ Node(first + n - 1, n - 1, port, fw) \in Nodes
               /\ Node(first + n - 1, n - 1, port, fw).index = first + n - 1
               /\ Node(first + n - 1, n - 1, port, fw).multi_node_index = n - 1
    <3>1. first + n - 1 \in Nat /\ n - 1 \in ModuleIndices
      BY <1>1 DEF ModuleIndices
    <3>2. QED
      BY <3>1, NodeTypes
  <2>3. more \in [1 .. count -> Nodes]
    BY <2>1, <2>2
  <2>4. more \in Seq(Nodes) /\ Len(more) = count
    BY <1>1, <2>3, SeqDef, LenProperties
  <2>5. \A n \in 1 .. count : more[n].index = first + n - 1 /\ more[n].multi_node_index = n - 1
    BY <2>1, <2>2
  <2> HIDE DEF more
  <2>6. QED
    BY <2>4, <2>5 DEF more
<1>4. QED
  BY <1>2, <1>3

\* A processor that answers: its modules are numbered one after the other.
LEMMA ProcessorKeeps ==
    ASSUME DiscInv, ProcessorFound
    PROVE  DiscInv'
<1>1. PICK count \in {hw.modules[Port], 1}, fw \in {"full", "noTimestamp", "none"} :
        /\ IF count = hw.modules[Port] THEN FirmwareRead(fw)
           ELSE fw = "full" /\ Fault(1)
        /\ nodes' = nodes \o ModulesOf(count, scan.at - 1 + idxOffset, Port, fw)
        /\ scan' = AfterPort(nodes')
        /\ idxOffset' = idxOffset + Further(count)
        /\ skipped' = (skipped \/ count = 0)
  BY DEF ProcessorFound, ModulesOf
<1>2. /\ scan.phase = "port" /\ nodes \in Seq(Nodes)
      /\ UNCHANGED <<hw, isS32BPillFlag, serialPorts, fwupd>>
      /\ scan.at \in Nat \ {0} /\ idxOffset \in Nat
      /\ scan.at \in 1 .. Len(serialPorts) /\ serialPorts \in Seq(Ports)
      /\ hw.modules[Port] # Absent
  BY DEF ProcessorFound, DiscInv, DiscType, Scans
<1>3. faults' \in Nat
  <2>1. CASE count = hw.modules[Port]
    BY <1>1, <2>1, FaultTypes DEF FirmwareRead, DiscInv
  <2>2. CASE count # hw.modules[Port]
    BY <1>1, <2>2, FaultTypes DEF DiscInv
  <2>3. QED
    BY <2>1, <2>2
<1>4. Port \in Ports
  BY <1>2, ElementOfSeq DEF Port
<1>5. count \in 0 .. MaxModules
  <2>1. hw.modules[Port] \in (0 .. MaxModules) \cup {Absent}
    BY <1>4 DEF DiscInv, DiscType, Hardware
  <2>2. 1 \in 0 .. MaxModules
    BY DiscoveryAssumption
  <2>3. QED
    BY <1>2, <2>1, <2>2
<1> DEFINE first == scan.at - 1 + idxOffset
           more == ModulesOf(count, first, Port, fw)
<1>6. first \in Nat
  BY <1>2
<1>7. Growing(nodes) /\ Below(nodes, first) /\ (~skipped => InPlace(nodes) /\ Len(nodes) = first)
  BY <1>2 DEF DiscInv, Numbered
<1>8. first + 1 = scan.at + 1 - 1 + idxOffset
  BY <1>2
<1>9. nodes' = nodes \o more
  BY <1>1
<1> HIDE DEF first
<1>10. /\ more \in Seq(Nodes) /\ Len(more) = count
       /\ \A n \in 1 .. Len(more) :
             /\ more[n].index = first + n - 1
             /\ IsModule(more[n]) => more[n].multi_node_index = n - 1
  <2>1. /\ more \in Seq(Nodes) /\ Len(more) = count
        /\ \A n \in 1 .. count :
              /\ more[n].index = first + n - 1
              /\ IsModule(more[n]) => more[n].multi_node_index = n - 1
    BY <1>4, <1>5, <1>6, ModulesTypes, Zenon DEF more
  <2> HIDE DEF more
  <2>2. QED
    BY <2>1
<1> HIDE DEF more
<1>11. /\ nodes' \in Seq(Nodes) /\ Len(nodes') = Len(nodes) + count
       /\ Growing(nodes') /\ Below(nodes', first + count)
       /\ InPlace(nodes) /\ Len(nodes) = first => InPlace(nodes')
  BY <1>2, <1>6, <1>7, <1>9, <1>10, NodesJoin
<1>12. Further(count) \in Nat /\ Further(count) = (IF count = 0 THEN 0 ELSE count - 1)
  BY <1>5, DiscoveryAssumption DEF Further
<1>13. /\ scan' \in Scans
       /\ scan'.phase \in {"port", "ready", "setup"}
       /\ scan'.phase = "port" =>
             scan'.at = scan.at + 1 /\ scan'.at \in 1 .. Len(serialPorts)
       /\ scan'.phase = "ready" => nodes' = <<>>
       /\ scan'.phase = "setup" => scan'.at = 1 /\ 1 \in 1 .. Len(nodes')
  BY <1>1, <1>2, <1>11, AfterPortIs
<1>14. skipped' \in BOOLEAN /\ (~skipped' => ~skipped /\ count # 0)
  BY <1>1 DEF DiscInv, DiscType
<1>15. DiscType'
  <2>1. idxOffset' \in Nat
    BY <1>1, <1>2, <1>12
  <2>2. QED
    BY <1>2, <1>3, <1>11, <1>13, <1>14, <2>1 DEF DiscInv, DiscType
<1>16. Numbered'
  <2>1. ~skipped' => InPlace(nodes') /\ Len(nodes') = first + count
    BY <1>7, <1>11, <1>14
  <2>2. scan'.phase = "port" => scan'.at - 1 + idxOffset' = first + 1 + Further(count)
    <3>1. /\ first = scan.at - 1 + idxOffset
          /\ first \in Nat /\ scan.at \in Nat /\ idxOffset \in Nat /\ Further(count) \in Nat
      BY <1>2, <1>6, <1>12 DEF first
    <3>2. scan'.phase = "port" =>
             scan'.at = scan.at + 1 /\ idxOffset' = idxOffset + Further(count)
      BY <1>1, <1>13
    <3>3. (scan.at + 1) - 1 + (idxOffset + Further(count)) = first + 1 + Further(count)
      BY <3>1
    <3>4. QED
      BY <3>2, <3>3
  <2>3. count # 0 => first + 1 + Further(count) = first + count
    BY <1>5, <1>6, <1>12, DiscoveryAssumption
  <2>4. Below(nodes', first + 1 + Further(count))
    <3>1. \A i \in 1 .. Len(nodes') : nodes'[i].index \in Nat
      <4>1. \A i \in 1 .. Len(nodes') : nodes'[i] \in Nodes
        BY <1>11, ElementOfSeq
      <4>2. QED
        BY <4>1 DEF Nodes
    <3>2. CASE count # 0
      BY <1>11, <2>3, <3>2
    <3>3. CASE count = 0
      <4>1. \A i \in 1 .. Len(nodes') : nodes'[i].index < first + 0
        BY <1>11, <3>3 DEF Below
      <4>2. first + 1 + Further(count) = first + 1
        BY <1>6, <1>12, <3>3
      <4>3. \A i \in 1 .. Len(nodes') : nodes'[i].index < first + 1
        BY <1>6, <3>1, <4>1
      <4>4. QED
        BY <4>2, <4>3 DEF Below
    <3>4. QED
      BY <3>2, <3>3
  <2>5. scan'.phase \notin {"none", "identify", "bus", "serial", "i2c"}
    BY <1>13
  <2>6. QED
    BY <1>11, <1>14, <2>1, <2>2, <2>3, <2>4, <2>5 DEF Numbered
<1>17. OnePort'
  <2>1. ASSUME Len(serialPorts) = 1
        PROVE  /\ scan'.phase # "port"
               /\ \A i \in 1 .. Len(nodes') : IsModule(nodes'[i]) => nodes'[i].multi_node_index = i - 1
    <3>1. scan'.phase # "port"
      BY <1>2, <1>13, <2>1
    <3>2. nodes = <<>>
      BY <1>2, <2>1 DEF DiscInv, OnePort
    <3>3. nodes' = more
      BY <1>9, <1>10, <3>2, ConcatEmptySeq
    <3>4. QED
      BY <1>10, <3>1, <3>3
  <2>2. scan'.phase = "ready" => Len(nodes') = 0
    BY <1>13, EmptySeq
  <2>3. scan'.phase = "setup" => scan'.at = 1
    BY <1>13
  <2>4. \A i \in 1 .. Len(nodes') :
           ~(scan'.phase = "ready" \/ (scan'.phase = "setup" /\ i < scan'.at))
    BY <1>11, <1>13, <2>2, <2>3, LenProperties
  <2>5. QED
    BY <1>2, <1>13, <2>1, <2>4 DEF OnePort
<1>18. QED
  BY <1>15, <1>16, <1>17 DEF DiscInv


LEMMA SettingsWritten ==
    ASSUME NEW node \in Nodes, NEW m \in ModuleIndices \cup {NoIndex}
    PROVE  /\ [node EXCEPT !.settings = m] \in Nodes
           /\ [node EXCEPT !.settings = m].index = node.index
           /\ [node EXCEPT !.settings = m].multi_node_index = node.multi_node_index
           /\ [node EXCEPT !.settings = m].settings = m
           /\ [node EXCEPT !.settings = m].port = node.port
           /\ [node EXCEPT !.settings = m].flags = node.flags
BY DEF Nodes

LEMMA FlagsWritten ==
    ASSUME NEW node \in Nodes, NEW f \in BOOLEAN
    PROVE  /\ [node EXCEPT !.flags = f] \in Nodes
           /\ [node EXCEPT !.flags = f].index = node.index
           /\ [node EXCEPT !.flags = f].multi_node_index = node.multi_node_index
           /\ [node EXCEPT !.flags = f].settings = node.settings
           /\ [node EXCEPT !.flags = f].port = node.port
           /\ [node EXCEPT !.flags = f].flags = f
BY DEF Nodes

LEMMA SameLength ==
    ASSUME NEW a \in Nat, NEW b \in Nat, 1 .. a = 1 .. b
    PROVE  a = b
<1>1. \A x \in Nat \ {0} : x <= a <=> x <= b
  OBVIOUS
<1>2. QED
  BY <1>1

WithFlag(list, n, flags) == [WithSettings(list, n) EXCEPT ![n].flags = flags]

\* What the setup of a node writes in the list.
LEMMA SetupWrites ==
    ASSUME NEW list \in Seq(Nodes), NEW n \in 1 .. Len(list), NEW flags \in BOOLEAN
    PROVE  /\ WithFlag(list, n, flags) \in Seq(Nodes) /\ Len(WithFlag(list, n, flags)) = Len(list)
           /\ \A i \in 1 .. Len(list) :
                 /\ WithFlag(list, n, flags)[i].index = list[i].index
                 /\ WithFlag(list, n, flags)[i].multi_node_index = list[i].multi_node_index
                 /\ WithFlag(list, n, flags)[i].settings =
                       IF IsModule(list[n]) /\ i = list[n].multi_node_index + 1
                       THEN list[n].multi_node_index ELSE list[i].settings
                 /\ WithFlag(list, n, flags)[i].port = list[i].port
                 /\ WithFlag(list, n, flags)[i].flags = IF i = n THEN flags ELSE list[i].flags
<1> DEFINE multi == list[n].multi_node_index
           mid == WithSettings(list, n)
           list2 == WithFlag(list, n, flags)
<1>1. list \in [1 .. Len(list) -> Nodes] /\ Len(list) \in Nat
  BY LenProperties
<1>2. list[n] \in Nodes /\ multi \in ModuleIndices \cup {NoIndex}
  BY <1>1 DEF Nodes
<1>3. mid = IF multi = NoIndex THEN list ELSE [list EXCEPT ![multi + 1].settings = multi]
  BY DEF WithSettings
<1>4. IsModule(list[n]) <=> multi # NoIndex
  BY DEF IsModule
<1>5. list2 = [mid EXCEPT ![n].flags = flags]
  BY DEF WithFlag
<1> HIDE DEF multi, mid, list2
<1>6. /\ mid \in [1 .. Len(list) -> Nodes]
      /\ \A i \in 1 .. Len(list) :
            /\ mid[i].index = list[i].index
            /\ mid[i].multi_node_index = list[i].multi_node_index
            /\ mid[i].settings = IF multi # NoIndex /\ i = multi + 1 THEN multi ELSE list[i].settings
            /\ mid[i].port = list[i].port /\ mid[i].flags = list[i].flags
  <2>1. CASE multi = NoIndex
    BY <1>1, <1>3, <2>1
  <2>2. CASE multi # NoIndex
    <3>1. multi \in ModuleIndices /\ mid = [list EXCEPT ![multi + 1].settings = multi]
      BY <1>2, <1>3, <2>2
    <3>2. ASSUME NEW i \in 1 .. Len(list)
          PROVE  /\ mid[i] = IF i = multi + 1 THEN [list[i] EXCEPT !.settings = multi] ELSE list[i]
                 /\ list[i] \in Nodes
      BY <1>1, <3>1
    <3>3. ASSUME NEW i \in 1 .. Len(list)
          PROVE  /\ mid[i] \in Nodes
                 /\ mid[i].index = list[i].index
                 /\ mid[i].multi_node_index = list[i].multi_node_index
                 /\ mid[i].settings = IF i = multi + 1 THEN multi ELSE list[i].settings
                 /\ mid[i].port = list[i].port /\ mid[i].flags = list[i].flags
      <4>1. CASE i = multi + 1
        <5>1. mid[i] = [list[i] EXCEPT !.settings = multi] /\ list[i] \in Nodes
          BY <3>2, <4>1
        <5>2. /\ [list[i] EXCEPT !.settings = multi] \in Nodes
              /\ [list[i] EXCEPT !.settings = multi].index = list[i].index
              /\ [list[i] EXCEPT !.settings = multi].multi_node_index = list[i].multi_node_index
              /\ [list[i] EXCEPT !.settings = multi].settings = multi
              /\ [list[i] EXCEPT !.settings = multi].port = list[i].port
              /\ [list[i] EXCEPT !.settings = multi].flags = list[i].flags
          BY <1>2, <5>1, SettingsWritten, Zenon
        <5>3. QED
          BY <4>1, <5>1, <5>2
      <4>2. CASE i # multi + 1
        BY <3>2, <4>2
      <4>3. QED
        BY <4>1, <4>2
    <3>4. DOMAIN mid = 1 .. Len(list) /\ mid = [i \in 1 .. Len(list) |-> mid[i]]
      BY <1>1, <3>1
    <3>5. QED
      BY <2>2, <3>3, <3>4
  <2>3. QED
    BY <2>1, <2>2
<1>7. ASSUME NEW i \in 1 .. Len(list)
      PROVE  /\ list2[i] \in Nodes
             /\ list2[i].index = mid[i].index
             /\ list2[i].multi_node_index = mid[i].multi_node_index
             /\ list2[i].settings = mid[i].settings
             /\ list2[i].port = mid[i].port
             /\ list2[i].flags = IF i = n THEN flags ELSE mid[i].flags
  <2>1. list2[i] = (IF i = n THEN [mid[i] EXCEPT !.flags = flags] ELSE mid[i]) /\ mid[i] \in Nodes
    BY <1>5, <1>6
  <2>2. CASE i = n
    BY <2>1, <2>2, FlagsWritten
  <2>3. CASE i # n
    BY <2>1, <2>3
  <2>4. QED
    BY <2>2, <2>3
<1>8. list2 \in [1 .. Len(list) -> Nodes]
  <2>1. DOMAIN list2 = 1 .. Len(list) /\ list2 = [i \in 1 .. Len(list) |-> list2[i]]
    BY <1>5, <1>6
  <2>2. QED
    BY <1>7, <2>1
<1>9. list2 \in Seq(Nodes) /\ Len(list2) = Len(list)
  <2>1. list2 \in Seq(Nodes)
    BY <1>1, <1>8, SeqDef
  <2>2. DOMAIN list2 = 1 .. Len(list2) /\ Len(list2) \in Nat /\ DOMAIN list2 = 1 .. Len(list)
    BY <1>8, <2>1, LenProperties
  <2>3. QED
    BY <1>1, <2>1, <2>2, SameLength
<1>10. QED
  BY <1>4, <1>6, <1>7, <1>9 DEF multi, list2

LEMMA SetupKeeps ==
    ASSUME DiscInv, SetupNode
    PROVE  DiscInv'
<1>1. PICK flags \in BOOLEAN :
        /\ Fault(IF flags \/ nodes[scan.at].multi_node_index = NoIndex THEN 0 ELSE 1)
        /\ nodes' = WithFlag(nodes, scan.at, flags)
        /\ fwupd' = IF flags /\ fwupd = NoPort /\ nodes[scan.at].port # OnI2C
                     THEN nodes[scan.at].port ELSE fwupd
  BY DEF SetupNode, WithFlag
<1>2. /\ scan.phase = "setup" /\ scan' = AfterNode
      /\ UNCHANGED <<hw, isS32BPillFlag, serialPorts, idxOffset, skipped>>
      /\ nodes \in Seq(Nodes) /\ scan.at \in 1 .. Len(nodes)
  BY DEF SetupNode, DiscInv, DiscType
<1>3. faults' \in Nat
  BY <1>1, FaultTypes DEF DiscInv
<1>4. fwupd' \in Ports \cup {NoPort}
  <2>1. nodes[scan.at] \in Nodes
    BY <1>2, ElementOfSeq
  <2>2. QED
    BY <1>1, <2>1 DEF Nodes, DiscInv, DiscType
<1>5. /\ nodes' \in Seq(Nodes) /\ Len(nodes') = Len(nodes)
      /\ \A i \in 1 .. Len(nodes) :
            /\ nodes'[i].index = nodes[i].index
            /\ nodes'[i].multi_node_index = nodes[i].multi_node_index
            /\ nodes'[i].settings =
                  IF IsModule(nodes[scan.at]) /\ i = nodes[scan.at].multi_node_index + 1
                  THEN nodes[scan.at].multi_node_index ELSE nodes[i].settings
  BY <1>1, <1>2, SetupWrites, SMTT(30)
<1>6. Len(nodes) \in Nat /\ scan.at \in Nat
  BY <1>2, LenProperties
<1>7. /\ scan' \in Scans
      /\ \/ scan'.phase = "ready" /\ scan.at = Len(nodes)
         \/ scan'.phase = "setup" /\ scan'.at = scan.at + 1 /\ scan'.at \in 1 .. Len(nodes)
  <2>1. CASE scan' = Scan("ready", 0) /\ scan.at = Len(nodes)
    BY <2>1, ScanTypes DEF ScanPhases
  <2>2. CASE scan' = Scan("setup", scan.at + 1) /\ scan.at # Len(nodes)
    <3>1. scan.at + 1 \in 1 .. Len(nodes) /\ scan.at + 1 \in Nat
      BY <1>2, <1>6, <2>2
    <3>2. QED
      BY <2>2, <3>1, ScanTypes DEF ScanPhases
  <2>3. QED
    BY <1>2, <2>1, <2>2 DEF AfterNode
<1>8. DiscType'
  BY <1>2, <1>3, <1>4, <1>5, <1>7 DEF DiscInv, DiscType
<1>9. Numbered'
  <2>1. Growing(nodes) => Growing(nodes')
    BY <1>5 DEF Growing
  <2>2. InPlace(nodes) => InPlace(nodes')
    BY <1>5 DEF InPlace
  <2>3. QED
    BY <1>2, <1>7, <2>1, <2>2 DEF DiscInv, Numbered
<1>10. OnePort'
  <2>1. ASSUME Len(serialPorts) = 1, NEW i \in 1 .. Len(nodes), IsModule(nodes'[i])
        PROVE  /\ nodes'[i].multi_node_index = i - 1
               /\ scan'.phase = "ready" \/ (scan'.phase = "setup" /\ i < scan'.at)
                  => nodes'[i].settings = i - 1
    <3>1. IsModule(nodes[i]) /\ nodes[i].multi_node_index = i - 1
      BY <1>5, <2>1 DEF DiscInv, OnePort, IsModule
    <3>2. nodes'[i].multi_node_index = i - 1
      BY <1>5, <3>1
    <3>3. i \in Nat
      BY <1>6
    <3>4. CASE i = scan.at
      BY <1>5, <3>1, <3>2, <3>3, <3>4
    <3>5. CASE i < scan.at
      <4>1. nodes[i].settings = i - 1
        BY <1>2, <2>1, <3>1, <3>5 DEF DiscInv, OnePort
      <4>2. IsModule(nodes[scan.at]) => nodes[scan.at].multi_node_index = scan.at - 1
        BY <1>2, <2>1 DEF DiscInv, OnePort
      <4>3. ~(IsModule(nodes[scan.at]) /\ i = nodes[scan.at].multi_node_index + 1)
        BY <1>6, <3>3, <3>5, <4>2
      <4>4. QED
        BY <1>5, <3>2, <4>1, <4>3
    <3>6. CASE i > scan.at
      <4>1. ~(scan'.phase = "ready" \/ (scan'.phase = "setup" /\ i < scan'.at))
        BY <1>6, <1>7, <3>3, <3>6
      <4>2. QED
        BY <3>2, <4>1
    <3>7. QED
      BY <1>6, <3>3, <3>4, <3>5, <3>6
  <2>2. scan'.phase \notin {"none", "identify", "bus", "i2c", "serial", "port"}
    BY <1>7
  <2>3. QED
    BY <1>2, <1>5, <2>1, <2>2 DEF OnePort
<1>11. QED
  BY <1>8, <1>9, <1>10 DEF DiscInv

LEMMA DiscoverKeeps ==
    ASSUME DiscInv, NEW configured \in Seq(Ports), Discover(configured)
    PROVE  DiscInv'
<1>1. CASE Identify \/ OpenBus
  BY <1>1, IdentifyKeeps
<1>2. CASE NoNodeAtAddress
  BY <1>2, NoNodeKeeps
<1>3. CASE I2CNodeFound
  <2>1. CASE nodes' # nodes
    BY <1>3, <2>1, I2CNodeKeeps
  <2>2. CASE nodes' = nodes
    <3>1. CASE ReadRaises
      BY <1>3, <2>2, <3>1, RaisedKeeps DEF I2CNodeFound, ReadRaises
    <3>2. CASE ~ReadRaises
      <4>1. PICK new : nodes' = Append(nodes, new)
        BY <1>3, <3>2 DEF I2CNodeFound
      <4>2. nodes \in Seq(Nodes) /\ Len(Append(nodes, new)) # Len(nodes)
        <5>1. nodes \in Seq(Nodes) /\ Len(nodes) \in Nat
          BY LenProperties DEF DiscInv, DiscType
        <5>2. nodes \in Seq(Nodes \cup {new})
          BY <5>1, LenProperties, SeqDef
        <5>3. Len(Append(nodes, new)) = Len(nodes) + 1
          BY <5>2, AppendProperties
        <5>4. QED
          BY <5>1, <5>3
      <4>3. QED
        BY <2>2, <4>1, <4>2
    <3>3. QED
      BY <3>1, <3>2
  <2>3. QED
    BY <2>1, <2>2
<1>4. CASE BeginSerial(configured)
  BY <1>4, BeginSerialKeeps
<1>5. CASE OpenRaises
  BY <1>5, RaisedKeeps DEF OpenRaises
<1>6. CASE FrequencyUnread
  BY <1>6, RaisedKeeps DEF FrequencyUnread
<1>7. CASE NoRevisionCode
  BY <1>7, NoRevisionKeeps
<1>8. CASE ProcessorFound
  BY <1>8, ProcessorKeeps
<1>9. CASE SetupNode
  BY <1>9, SetupKeeps
<1>10. QED
  BY <1>1, <1>2, <1>3, <1>4, <1>5, <1>6, <1>7, <1>8, <1>9 DEF Discover


\* The search is over before anyone is served.
SearchInv ==
    /\ DiscInv
    /\ phase = "off" => scan.phase = "none"
    /\ phase \in {"serving", "shutdown"} => scan.phase = "ready"

LEMMA DiscInvKept ==
    ASSUME DiscInv, UNCHANGED discoveryVars, faults' \in Nat
    PROVE  DiscInv'
<1>1. UNCHANGED <<hw, isS32BPillFlag, scan, serialPorts, nodes, idxOffset, fwupd, skipped>>
  BY DEF discoveryVars
<1>2. DiscType'
  BY <1>1 DEF DiscInv, DiscType
<1>3. Numbered' /\ OnePort'
  BY <1>1 DEF DiscInv, Numbered, OnePort
<1>4. QED
  BY <1>2, <1>3 DEF DiscInv

LEMMA SearchInvKept ==
    ASSUME SearchInv, UNCHANGED discVars,
           phase' = phase \/ (phase' = "dead") \/ (phase' = "serving" /\ scan.phase = "ready")
           \/ (phase = "serving" /\ phase' = "shutdown")
    PROVE  SearchInv'
<1>1. UNCHANGED discoveryVars /\ UNCHANGED faults /\ UNCHANGED scan
  BY DEF discVars, discoveryVars
<1>2. faults' \in Nat
  BY <1>1 DEF SearchInv, DiscInv, DiscType
<1>3. DiscInv'
  BY <1>1, <1>2, DiscInvKept DEF SearchInv
<1>4. QED
  BY <1>1, <1>3 DEF SearchInv

\* No search has begun, or a new one begins.
LEMMA SearchInvNew ==
    ASSUME NEW h \in Hardware, NEW flag \in BOOLEAN, NEW f \in Nat, NEW ph \in {"none", "identify"},
           NEW port \in Ports \cup {NoPort}, NEW sk \in BOOLEAN,
           hw' = h, isS32BPillFlag' = flag, faults' = f, scan' = Scan(ph, 0), fwupd' = port,
           skipped' = sk, nodes' = <<>>, idxOffset' = 0, serialPorts' = <<>>
    PROVE  DiscInv'
<1>1. scan' \in Scans /\ scan'.phase = ph
  BY ScanTypes DEF ScanPhases
<1>2. /\ <<>> \in Seq(Ports) /\ <<>> \in Seq(Nodes) /\ Len(<<>>) = 0
  BY EmptySeq
<1>3. DiscType'
  BY <1>1, <1>2 DEF DiscType
<1>4. Numbered' /\ OnePort'
  BY <1>1, <1>2 DEF Numbered, OnePort, Growing, InPlace, Below
<1>5. QED
  BY <1>3, <1>4 DEF DiscInv

LEMMA SearchInvInit == Init => SearchInv
<1> SUFFICES ASSUME Init PROVE SearchInv
  OBVIOUS
<1>1. hw \in Hardware /\ faults \in Nat
  BY HostServerAssumption DEF Init
<1>2. /\ isS32BPillFlag = FALSE /\ scan = Scan("none", 0) /\ serialPorts = <<>> /\ nodes = <<>>
      /\ idxOffset = 0 /\ fwupd = NoPort /\ skipped = FALSE /\ phase = "off"
  BY DEF Init, FreshServer, DiscoveryInit
<1>3. scan \in Scans /\ scan.phase = "none"
  BY <1>2, ScanTypes DEF ScanPhases
<1>4. /\ <<>> \in Seq(Ports) /\ <<>> \in Seq(Nodes) /\ Len(<<>>) = 0
  BY EmptySeq
<1>5. DiscType
  BY <1>1, <1>2, <1>3, <1>4 DEF DiscType
<1>6. Numbered /\ OnePort
  BY <1>2, <1>3, <1>4 DEF Numbered, OnePort, Growing, InPlace, Below
<1>7. QED
  BY <1>2, <1>3, <1>5, <1>6 DEF SearchInv, DiscInv

LEMMA SearchInvNext ==
    ASSUME SearchInv, [Next]_vars
    PROVE  SearchInv'
<1>1. CASE Crash
  <2>1. /\ phase' = "off" /\ hw' = hw /\ faults' = faults
        /\ isS32BPillFlag' = FALSE /\ scan' = Scan("none", 0) /\ serialPorts' = <<>>
        /\ nodes' = <<>> /\ idxOffset' = 0 /\ fwupd' = NoPort /\ skipped' = FALSE
    BY <1>1 DEF Crash, ForgetServer, ForgetNodes
  <2>2. hw \in Hardware /\ faults \in Nat
    BY DEF SearchInv, DiscInv, DiscType
  <2>3. DiscInv'
    BY <2>1, <2>2, SearchInvNew
  <2>4. scan'.phase = "none"
    BY <2>1 DEF Scan
  <2>5. QED
    BY <2>1, <2>3, <2>4 DEF SearchInv
<1>2. CASE PowerOn
  <2>1. /\ phase = "off" /\ phase' = "start" /\ scan' = Scan("identify", 0)
        /\ UNCHANGED <<hw, isS32BPillFlag, serialPorts, nodes, idxOffset, fwupd, skipped, faults>>
    BY <1>2 DEF PowerOn
  <2>2. nodes = <<>> /\ idxOffset = 0 /\ serialPorts = <<>>
    BY <2>1 DEF SearchInv, DiscInv, Numbered, OnePort
  <2>3. /\ hw \in Hardware /\ faults \in Nat /\ isS32BPillFlag \in BOOLEAN
        /\ fwupd \in Ports \cup {NoPort} /\ skipped \in BOOLEAN
    BY DEF SearchInv, DiscInv, DiscType
  <2>4. DiscInv'
    BY <2>1, <2>2, <2>3, SearchInvNew
  <2>5. QED
    BY <2>1, <2>4 DEF SearchInv
<1>3. CASE DiscoveryStep
  <2>1. phase = "start" /\ phase' = phase
    BY <1>3 DEF DiscoveryStep, hostVars, startVars
  <2>2. PICK configured \in Seq(Ports) : Discover(configured)
    <3>1. <<>> \in Seq(Ports)
      BY EmptySeq
    <3>2. QED
      BY <1>3, <3>1, HostServerAssumption DEF DiscoveryStep
  <2>3. DiscInv'
    BY <2>2, DiscoverKeeps DEF SearchInv
  <2>4. QED
    BY <2>1, <2>3 DEF SearchInv
<1>4. CASE EditConfig \/ ConstructConfig \/ ConfigStep \/ StartRaises \/ LogSetup
  <2>1. /\ UNCHANGED discVars
        /\ phase' = phase \/ (phase' = "dead") \/ (phase' = "serving" /\ scan.phase = "ready")
    BY <1>4 DEF EditConfig, ConstructConfig, ConfigStep, StartRaises, LogSetup, hostVars, startVars
  <2>2. QED
    BY <2>1, SearchInvKept
<1>5. CASE \E c \in Clients : Connect(c) \/ ConnectGoesOn(c) \/ CheckFirmware(c) \/ FirmwareChecked(c)
  <2>1. phase' = phase /\ UNCHANGED discVars
    BY <1>5 DEF Connect, ConnectGoesOn, CheckFirmware, FirmwareChecked, startVars
  <2>2. QED
    BY <2>1, SearchInvKept
<1>6. CASE \/ LoopLogs \/ Worker \/ UNCHANGED vars
           \/ \E g \in Clients \cup {Updater, Loop} : Logged(g)
  <2>1. phase' = phase /\ UNCHANGED discVars
    BY <1>6 DEF LoopLogs, Worker, Logged, vars, hostVars, startVars
  <2>2. QED
    BY <2>1, SearchInvKept
<1>7. CASE RequestUpdate \/ Update
  <2>1. CASE JumpRaises \/ CloseRaises
    <3>1. phase' = phase /\ UNCHANGED discoveryVars /\ faults' = faults - 1 /\ faults > 0
      BY <2>1 DEF JumpRaises, CloseRaises, startVars
    <3>2. faults' \in Nat
      BY <3>1 DEF SearchInv, DiscInv, DiscType
    <3>3. DiscInv'
      BY <3>1, <3>2, DiscInvKept DEF SearchInv
    <3>4. scan' = scan
      BY <3>1 DEF discoveryVars
    <3>5. QED
      BY <3>1, <3>3, <3>4 DEF SearchInv
  <2>2. CASE ShutDown
    <3>1. phase = "serving" /\ phase' = "shutdown" /\ UNCHANGED discVars
      BY <2>2 DEF ShutDown, Runs
    <3>2. QED
      BY <3>1, SearchInvKept
  <2>3. CASE ~JumpRaises /\ ~CloseRaises /\ ~ShutDown
    <3>1. phase' = phase /\ UNCHANGED discVars
      BY <1>7, <2>3 DEF RequestUpdate, Update, UpdateStep, StopBackgroundThreads,
         JumpToBootloader, JumpWritten, JumpCloses, CloseFwupdSerialPort,
         LoaderMessage, WaitForQueueEmpty, LoaderEnds, ReportUpdate, startVars
    <3>2. QED
      BY <3>1, SearchInvKept
  <2>4. QED
    BY <2>1, <2>2, <2>3
<1>8. QED
  BY <1>1, <1>2, <1>3, <1>4, <1>5, <1>6, <1>7 DEF Next

\* Whatever hardware is there and whichever reads fail: no two nodes share an
\* index, each index is the place in the list unless an address or a port gave
\* no node, and the modules of a single port end up with the settings of their
\* own index (serial_node.py:309-318, LTInterface.py:74-82).
THEOREM EachNodeItsIndex == Spec => []NodesNumbered
<1>1. SearchInv => NodesNumbered
  <2>1. SUFFICES ASSUME SearchInv PROVE NodesNumbered
    OBVIOUS
  <2>2. nodes \in Seq(Nodes) /\ DOMAIN nodes = 1 .. Len(nodes)
    BY <2>1, LenProperties DEF SearchInv, DiscInv, DiscType
  <2>3. Growing(nodes) /\ (~skipped => InPlace(nodes)) /\ OnePort
    BY <2>1 DEF SearchInv, DiscInv, Numbered
  <2>4. \A i, j \in DOMAIN nodes : i < j => nodes[i].index < nodes[j].index
    BY <2>2, <2>3 DEF Growing
  <2>5. ~skipped => \A i \in DOMAIN nodes : nodes[i].index = i - 1
    BY <2>2, <2>3 DEF InPlace
  <2>6. Len(serialPorts) = 1 /\ phase = "serving" =>
           \A i \in DOMAIN nodes : nodes[i].multi_node_index # NoIndex => nodes[i].settings = i - 1
    <3>1. SUFFICES ASSUME Len(serialPorts) = 1, phase = "serving", NEW i \in 1 .. Len(nodes),
                          nodes[i].multi_node_index # NoIndex
                   PROVE  nodes[i].settings = i - 1
      BY <2>2
    <3>2. IsModule(nodes[i])
      BY <3>1 DEF IsModule
    <3>3. scan.phase = "ready"
      BY <2>1, <3>1 DEF SearchInv
    <3>4. \A k \in 1 .. Len(nodes) : IsModule(nodes[k]) => nodes[k].settings = k - 1
      BY <2>3, <3>1, <3>3 DEF OnePort
    <3>5. QED
      BY <3>1, <3>2, <3>4
  <2>7. QED
    BY <2>4, <2>5, <2>6 DEF NodesNumbered
<1>2. QED
  BY <1>1, SearchInvInit, SearchInvNext, PTL DEF Spec


(***************************************************************************)
(* The node that jumps                                                     *)
(***************************************************************************)

OfKind(list, onBus) == \A i \in 1 .. Len(list) : list[i].port = OnI2C <=> onBus
NoFlags(list) == \A i \in 1 .. Len(list) : ~list[i].flags
IsFirst(list, i) == list[i].flags /\ \A j \in 1 .. Len(list) : j < i => ~list[j].flags

\* The nodes are all on the bus or all behind ports, and nobody has flags that
\* has not been set up: the port of the update is that of the first who has.
JumpInv ==
    /\ \E onBus \in BOOLEAN : OfKind(nodes, onBus)
    /\ scan.phase = "i2c" => OfKind(nodes, TRUE)
    /\ scan.phase = "port" => OfKind(nodes, FALSE)
    /\ scan.phase \notin {"setup", "ready", "raised"} => NoFlags(nodes)
    /\ scan.phase = "setup" => \A i \in 1 .. Len(nodes) : nodes[i].flags => i < scan.at
    /\ NoFlags(nodes) => fwupd = NoPort
    /\ \A i \in 1 .. Len(nodes) : IsFirst(nodes, i) => fwupd = nodes[i].port

\* Nodes of the same kind join a list that nobody of has flags.
LEMMA JumpJoins ==
    ASSUME NEW list \in Seq(Nodes), NEW more \in Seq(Nodes), NEW onBus \in BOOLEAN,
           NoFlags(list), OfKind(list, onBus), NoFlags(more), OfKind(more, onBus)
    PROVE  NoFlags(list \o more) /\ OfKind(list \o more, onBus)
<1> DEFINE found == list \o more
<1>1. /\ found \in Seq(Nodes) /\ Len(found) = Len(list) + Len(more)
      /\ \A i \in 1 .. Len(list) + Len(more) :
            found[i] = IF i <= Len(list) THEN list[i] ELSE more[i - Len(list)]
  BY ConcatProperties
<1>2. Len(list) \in Nat /\ Len(more) \in Nat
  BY LenProperties
<1> HIDE DEF found
<1>3. ASSUME NEW i \in 1 .. Len(found)
      PROVE  ~found[i].flags /\ (found[i].port = OnI2C <=> onBus)
  <2>1. CASE i <= Len(list)
    <3>1. i \in 1 .. Len(list) /\ found[i] = list[i]
      BY <1>1, <1>2, <2>1
    <3>2. QED
      BY <3>1 DEF NoFlags, OfKind
  <2>2. CASE ~(i <= Len(list))
    <3>1. i - Len(list) \in 1 .. Len(more) /\ found[i] = more[i - Len(list)]
      BY <1>1, <1>2, <2>2
    <3>2. QED
      BY <3>1 DEF NoFlags, OfKind
  <2>3. QED
    BY <2>1, <2>2
<1>4. QED
  BY <1>3 DEF NoFlags, OfKind, found

\* The list has got longer, and the search goes on.
LEMMA JumpInvFound ==
    ASSUME JumpInv, NEW onBus \in BOOLEAN, OfKind(nodes', onBus), NoFlags(nodes'), NoFlags(nodes),
           fwupd' = fwupd, scan'.phase = "i2c" => onBus, scan'.phase = "port" => ~onBus
    PROVE  JumpInv'
<1>1. fwupd = NoPort
  BY DEF JumpInv
<1>2. \A i \in 1 .. Len(nodes') : ~nodes'[i].flags /\ ~IsFirst(nodes', i)
  BY DEF NoFlags, IsFirst
<1>3. (scan'.phase = "i2c" => OfKind(nodes', TRUE)) /\ (scan'.phase = "port" => OfKind(nodes', FALSE))
  <2>1. onBus = TRUE \/ onBus = FALSE
    OBVIOUS
  <2>2. QED
    BY <2>1
<1>4. QED
  BY <1>1, <1>2, <1>3 DEF JumpInv

\* Steps that leave the list alone: there is no such thing in the setup but an
\* end of it.
LEMMA JumpInvKept ==
    ASSUME JumpInv, UNCHANGED <<nodes, fwupd>>,
           scan.phase = "ready" => scan'.phase = "ready",
           scan.phase = "setup" => scan' = scan \/ scan'.phase = "raised",
           scan.phase = "raised" => scan'.phase = "raised",
           scan'.phase = "i2c" => scan.phase = "i2c" \/ nodes = <<>>,
           scan'.phase = "port" => scan.phase = "port" \/ nodes = <<>>
    PROVE  JumpInv'
<1>1. nodes = <<>> => OfKind(nodes, TRUE) /\ OfKind(nodes, FALSE)
  BY EmptySeq DEF OfKind
<1>2. scan.phase \notin {"setup", "ready", "raised"} => \A i \in 1 .. Len(nodes) : ~nodes[i].flags
  BY DEF JumpInv, NoFlags
<1>3. QED
  BY <1>1, <1>2 DEF JumpInv, NoFlags, OfKind, IsFirst

LEMMA JumpInvEmpty ==
    ASSUME nodes = <<>>, fwupd = NoPort
    PROVE  JumpInv
<1>1. Len(nodes) = 0
  BY EmptySeq
<1>2. 1 .. Len(nodes) = {}
  BY <1>1
<1>3. QED
  BY <1>2 DEF JumpInv, OfKind, NoFlags

LEMMA JumpInvI2C ==
    ASSUME DiscInv, JumpInv, I2CNodeFound
    PROVE  JumpInv'
<1>1. scan.phase = "i2c" /\ fwupd' = fwupd /\ nodes \in Seq(Nodes)
  BY DEF I2CNodeFound, DiscInv, DiscType
<1>2. OfKind(nodes, TRUE) /\ NoFlags(nodes)
  BY <1>1 DEF JumpInv
<1>3. CASE ReadRaises
  <2>1. nodes' = nodes /\ scan'.phase = "raised"
    BY <1>3 DEF ReadRaises, Scan
  <2>2. QED
    BY <1>1, <2>1, JumpInvKept
<1>4. CASE ~ReadRaises
  <2>1. PICK fw \in {"full", "noTimestamp", "none"} :
          /\ nodes' = Append(nodes, Node(scan.at - 1 + idxOffset, NoIndex, OnI2C, fw))
          /\ scan' = AfterAddress(nodes')
    BY <1>4 DEF I2CNodeFound
  <2> DEFINE first == scan.at - 1 + idxOffset
             new == Node(first, NoIndex, OnI2C, fw)
             more == <<new>>
  <2>2. new \in Nodes /\ new.port = OnI2C /\ new.flags = FALSE
    <3>1. first \in Nat
      BY <1>1 DEF DiscInv, DiscType
    <3> HIDE DEF first
    <3>2. new \in Nodes
      BY <3>1, NodeTypes
    <3>3. QED
      BY <3>2 DEF Node
  <2>3. nodes' = nodes \o more
    BY <1>1, <2>1, <2>2, AppendIsConcat
  <2> HIDE DEF new
  <2>4. more \in Seq(Nodes) /\ NoFlags(more) /\ OfKind(more, TRUE)
    BY <2>2 DEF NoFlags, OfKind
  <2> HIDE DEF more
  <2>5. NoFlags(nodes') /\ OfKind(nodes', TRUE)
    BY <1>1, <1>2, <2>3, <2>4, JumpJoins
  <2>6. scan'.phase # "port"
    BY <2>1 DEF AfterAddress, Scan
  <2>7. QED
    BY <1>1, <1>2, <2>5, <2>6, JumpInvFound
<1>5. QED
  BY <1>3, <1>4

LEMMA ModulesLook ==
    ASSUME NEW count \in 0 .. MaxModules, NEW first \in Nat, NEW port \in Ports,
           NEW fw \in {"full", "noTimestamp", "none"}
    PROVE  /\ NoFlags(ModulesOf(count, first, port, fw))
           /\ OfKind(ModulesOf(count, first, port, fw), FALSE)
<1> DEFINE more == ModulesOf(count, first, port, fw)
<1>1. Len(more) = count
  BY ModulesTypes
<1>2. port # OnI2C
  BY DiscoveryAssumption DEF OnI2C, NoPort
<1>3. ASSUME NEW n \in 1 .. count
      PROVE  more[n].port = port /\ more[n].flags = FALSE
  <2>1. CASE count = 1
    <3>1. n = 1 /\ more = <<Node(first, NoIndex, port, fw)>>
      BY <1>3, <2>1 DEF ModulesOf
    <3>2. more[n] = Node(first, NoIndex, port, fw)
      BY <3>1
    <3>3. QED
      BY <3>2 DEF Node
  <2>2. CASE count # 1
    <3>1. more[n] = Node(first + n - 1, n - 1, port, fw)
      BY <2>2 DEF ModulesOf
    <3>2. QED
      BY <3>1 DEF Node
  <2>3. QED
    BY <2>1, <2>2
<1> HIDE DEF more
<1>4. NoFlags(more) /\ OfKind(more, FALSE)
  BY <1>1, <1>2, <1>3 DEF NoFlags, OfKind
<1>5. QED
  BY <1>4 DEF more

LEMMA JumpInvProcessor ==
    ASSUME DiscInv, JumpInv, ProcessorFound
    PROVE  JumpInv'
<1>1. PICK count \in {hw.modules[Port], 1}, fw \in {"full", "noTimestamp", "none"} :
        /\ nodes' = nodes \o ModulesOf(count, scan.at - 1 + idxOffset, Port, fw)
        /\ scan' = AfterPort(nodes')
  BY DEF ProcessorFound, ModulesOf
<1>2. /\ scan.phase = "port" /\ nodes \in Seq(Nodes) /\ fwupd' = fwupd
      /\ scan.at \in 1 .. Len(serialPorts) /\ serialPorts \in Seq(Ports)
      /\ scan.at \in Nat \ {0} /\ idxOffset \in Nat /\ hw.modules[Port] # Absent
  BY DEF ProcessorFound, DiscInv, DiscType, Scans
<1>3. OfKind(nodes, FALSE) /\ NoFlags(nodes)
  BY <1>2 DEF JumpInv
<1>4. Port \in Ports
  BY <1>2, ElementOfSeq DEF Port
<1>5. count \in 0 .. MaxModules
  <2>1. hw.modules[Port] \in (0 .. MaxModules) \cup {Absent}
    BY <1>4 DEF DiscInv, DiscType, Hardware
  <2>2. 1 \in 0 .. MaxModules
    BY DiscoveryAssumption
  <2>3. QED
    BY <1>2, <2>1, <2>2
<1> DEFINE first == scan.at - 1 + idxOffset
           more == ModulesOf(count, first, Port, fw)
<1>6. first \in Nat
  BY <1>2
<1>7. nodes' = nodes \o more
  BY <1>1
<1> HIDE DEF first
<1>8. more \in Seq(Nodes) /\ NoFlags(more) /\ OfKind(more, FALSE)
  BY <1>4, <1>5, <1>6, ModulesTypes, ModulesLook, Zenon DEF more
<1> HIDE DEF more
<1>9. NoFlags(nodes') /\ OfKind(nodes', FALSE)
  BY <1>2, <1>3, <1>7, <1>8, JumpJoins
<1>10. scan'.phase # "i2c"
  BY <1>1 DEF AfterPort, Scan
<1>11. QED
  BY <1>2, <1>3, <1>9, <1>10, JumpInvFound

\* The first node that turns out to have the flags gives its port.
LEMMA JumpInvSetup ==
    ASSUME DiscInv, JumpInv, SetupNode
    PROVE  JumpInv'
<1>1. PICK flags \in BOOLEAN :
        /\ nodes' = WithFlag(nodes, scan.at, flags)
        /\ fwupd' = IF flags /\ fwupd = NoPort /\ nodes[scan.at].port # OnI2C
                     THEN nodes[scan.at].port ELSE fwupd
  BY DEF SetupNode, WithFlag
<1>2. /\ scan.phase = "setup" /\ scan' = AfterNode
      /\ nodes \in Seq(Nodes) /\ scan.at \in 1 .. Len(nodes) /\ Len(nodes) \in Nat
  BY LenProperties DEF SetupNode, DiscInv, DiscType
<1>3. /\ Len(nodes') = Len(nodes)
      /\ \A i \in 1 .. Len(nodes) :
            /\ nodes'[i].port = nodes[i].port
            /\ nodes'[i].flags = IF i = scan.at THEN flags ELSE nodes[i].flags
  BY <1>1, <1>2, SetupWrites
<1>4. \A i \in 1 .. Len(nodes) : nodes[i].flags => i < scan.at
  BY <1>2 DEF JumpInv
<1>5. PICK onBus \in BOOLEAN : OfKind(nodes, onBus)
  BY DEF JumpInv
<1>6. OfKind(nodes', onBus)
  BY <1>3, <1>5 DEF OfKind
<1>7. /\ scan'.phase \in {"setup", "ready"}
      /\ scan'.phase = "setup" => scan'.at = scan.at + 1
  BY <1>2 DEF AfterNode, Scan
<1>8. \A i \in 1 .. Len(nodes) : nodes'[i].flags => i < scan.at + 1
  BY <1>2, <1>3, <1>4
<1>9. NoFlags(nodes') => fwupd' = NoPort
  <2>1. SUFFICES ASSUME NoFlags(nodes') PROVE fwupd' = NoPort
    OBVIOUS
  <2>2. flags = FALSE
    BY <1>2, <1>3, <2>1 DEF NoFlags
  <2>3. NoFlags(nodes)
    BY <1>2, <1>3, <1>4, <2>1 DEF NoFlags
  <2>4. QED
    BY <1>1, <2>2, <2>3 DEF JumpInv
<1>10. ASSUME NEW i \in 1 .. Len(nodes), IsFirst(nodes', i)
       PROVE  fwupd' = nodes'[i].port
  <2>1. nodes'[i].flags /\ \A j \in 1 .. Len(nodes) : j < i => ~nodes'[j].flags
    BY <1>3, <1>10 DEF IsFirst
  <2>2. CASE i = scan.at
    <3>1. flags = TRUE
      BY <1>3, <2>1, <2>2
    <3>2. NoFlags(nodes)
      BY <1>2, <1>3, <1>4, <2>1, <2>2 DEF NoFlags
    <3>3. fwupd = NoPort
      BY <3>2 DEF JumpInv
    <3>4. QED
      BY <1>1, <1>3, <2>2, <3>1, <3>3 DEF NoPort, OnI2C
  <2>3. CASE i # scan.at
    <3>1. nodes[i].flags /\ i < scan.at
      BY <1>3, <1>4, <2>1, <2>3
    <3>2. IsFirst(nodes, i)
      BY <1>2, <1>3, <2>1, <3>1 DEF IsFirst
    <3>3. fwupd = nodes[i].port
      BY <3>2 DEF JumpInv
    <3>4. fwupd = NoPort => nodes[scan.at].port = OnI2C
      BY <1>2, <1>5, <3>3 DEF OfKind, NoPort, OnI2C
    <3>5. QED
      BY <1>1, <1>3, <3>3, <3>4
  <2>4. QED
    BY <2>2, <2>3
<1>11. QED
  BY <1>3, <1>6, <1>7, <1>8, <1>9, <1>10 DEF JumpInv

LEMMA JumpInvDiscover ==
    ASSUME DiscInv, JumpInv, NEW configured, Discover(configured)
    PROVE  JumpInv'
<1>1. CASE Identify \/ OpenBus
  <2>1. /\ scan.phase \in {"identify", "bus"} /\ nodes = <<>> /\ UNCHANGED <<nodes, fwupd>>
    BY <1>1 DEF Identify, OpenBus, DiscInv, Numbered
  <2>2. QED
    BY <2>1, JumpInvKept
<1>2. CASE NoNodeAtAddress
  <2>1. scan.phase = "i2c" /\ UNCHANGED <<nodes, fwupd>> /\ scan' = AfterAddress(nodes)
    BY <1>2 DEF NoNodeAtAddress
  <2>2. scan'.phase # "port"
    BY <2>1 DEF AfterAddress, Scan
  <2>3. QED
    BY <2>1, <2>2, JumpInvKept
<1>3. CASE BeginSerial(configured)
  <2>1. /\ scan.phase = "serial" /\ nodes = <<>> /\ UNCHANGED <<nodes, fwupd>>
    BY <1>3 DEF BeginSerial, DiscInv, Numbered
  <2>2. QED
    BY <2>1, JumpInvKept
<1>4. CASE OpenRaises \/ FrequencyUnread
  <2>1. /\ scan.phase \in {"port", "setup"} /\ scan'.phase = "raised" /\ UNCHANGED <<nodes, fwupd>>
    BY <1>4 DEF OpenRaises, FrequencyUnread, Scan
  <2>2. QED
    BY <2>1, JumpInvKept
<1>5. CASE NoRevisionCode
  <2>1. /\ scan.phase = "port" /\ UNCHANGED <<nodes, fwupd>> /\ scan \in Scans
    BY <1>5 DEF NoRevisionCode, DiscInv, DiscType
  <2>2. scan'.phase # "i2c"
    BY <1>5, <2>1 DEF NoRevisionCode, AfterPort, Scan, Scans
  <2>3. QED
    BY <2>1, <2>2, JumpInvKept
<1>6. QED
  BY <1>1, <1>2, <1>3, <1>4, <1>5, JumpInvI2C, JumpInvProcessor, JumpInvSetup DEF Discover

LEMMA JumpInvInit == Init => JumpInv
BY JumpInvEmpty DEF Init, FreshServer, DiscoveryInit

LEMMA JumpInvNext ==
    ASSUME SearchInv, JumpInv, [Next]_vars
    PROVE  JumpInv'
<1>1. CASE Crash
  <2>1. nodes' = <<>> /\ fwupd' = NoPort
    BY <1>1 DEF Crash, ForgetServer, ForgetNodes
  <2>2. Len(nodes') = 0
    BY <2>1, EmptySeq
  <2>3. 1 .. Len(nodes') = {}
    BY <2>2
  <2>4. QED
    BY <2>1, <2>3 DEF JumpInv, OfKind, NoFlags
<1>2. CASE PowerOn
  <2>1. scan.phase = "none" /\ nodes = <<>> /\ UNCHANGED <<nodes, fwupd>>
    BY <1>2 DEF PowerOn, SearchInv, DiscInv, Numbered
  <2>2. QED
    BY <2>1, JumpInvKept
<1>3. CASE DiscoveryStep
  BY <1>3, JumpInvDiscover DEF DiscoveryStep, SearchInv
<1>4. CASE ~Crash /\ ~PowerOn /\ ~DiscoveryStep
  <2>1. UNCHANGED <<nodes, fwupd, scan>>
    <3>1. UNCHANGED discoveryVars
      <4>1. CASE EditConfig \/ ConstructConfig \/ ConfigStep \/ StartRaises \/ LogSetup
        BY <4>1 DEF EditConfig, ConstructConfig, ConfigStep, StartRaises, LogSetup, discVars
      <4>2. CASE \E c \in Clients :
                   Connect(c) \/ ConnectGoesOn(c) \/ CheckFirmware(c) \/ FirmwareChecked(c)
        BY <4>2 DEF Connect, ConnectGoesOn, CheckFirmware, FirmwareChecked, discVars
      <4>3. CASE \/ LoopLogs \/ Worker \/ UNCHANGED vars
                 \/ \E g \in Clients \cup {Updater, Loop} : Logged(g)
        BY <4>3 DEF LoopLogs, Worker, Logged, vars, discVars
      <4>4. CASE RequestUpdate \/ Update
        BY <4>4 DEF RequestUpdate, Update, UpdateStep, StopBackgroundThreads, JumpToBootloader,
           JumpWritten, JumpCloses, JumpRaises, CloseFwupdSerialPort, CloseRaises, LoaderMessage,
           WaitForQueueEmpty, LoaderEnds, ReportUpdate, ShutDown, discVars
      <4>5. QED
        BY <1>4, <4>1, <4>2, <4>3, <4>4 DEF Next
    <3>2. QED
      BY <3>1 DEF discoveryVars
  <2>2. QED
    BY <2>1, JumpInvKept
<1>5. QED
  BY <1>1, <1>2, <1>3, <1>4


(***************************************************************************)
(* The types of the other variables                                        *)
(***************************************************************************)

StartType ==
    /\ phase \in {"off", "start", "serving", "dead", "shutdown"}
    /\ configs \in 0 .. 5
    /\ left \in [edits : Nat, crashes : Nat, clients : BOOLEAN]

LEMMA StartTypeNext ==
    ASSUME StartType, [Next]_vars
    PROVE  StartType'
<1>1. CASE EditConfig \/ Crash
  <2>1. left' \in [edits : Nat, crashes : Nat, clients : BOOLEAN]
    <3>1. PICK what \in {"edits", "crashes"} : left[what] > 0 /\ left' = [left EXCEPT ![what] = @ - 1]
      BY <1>1 DEF EditConfig, Crash, Spend
    <3>2. CASE what = "edits"
      BY <3>1, <3>2 DEF StartType
    <3>3. CASE what = "crashes"
      BY <3>1, <3>3 DEF StartType
    <3>4. QED
      BY <3>2, <3>3
  <2>2. phase' \in {phase, "off"} /\ configs' \in {configs, 0}
    BY <1>1 DEF EditConfig, Crash
  <2>3. QED
    BY <2>1, <2>2 DEF StartType
<1>2. CASE ConstructConfig
  <2>1. ConfigsBefore(scan.phase) \in 0 .. 5
    BY DEF ConfigsBefore
  <2>2. configs' = configs + 1 /\ configs < ConfigsBefore(scan.phase) /\ UNCHANGED <<phase, left>>
    BY <1>2 DEF ConstructConfig
  <2>3. configs' \in 0 .. 5
    BY <2>1, <2>2 DEF StartType
  <2>4. QED
    BY <2>2, <2>3 DEF StartType
<1>3. CASE PowerOn \/ StartRaises \/ LogSetup \/ ShutDown
  <2>1. /\ phase' \in {"start", "dead", "serving", "shutdown"}
        /\ configs' \in {configs, 0} /\ left' = left
    BY <1>3 DEF PowerOn, StartRaises, LogSetup, ShutDown
  <2>2. QED
    BY <2>1 DEF StartType
<1>4. CASE ConfigStep \/ DiscoveryStep
  <2>1. UNCHANGED startVars
    BY <1>4 DEF ConfigStep, DiscoveryStep, hostVars
  <2>2. QED
    BY <2>1 DEF StartType, startVars
<1>5. CASE \E c \in Clients : Connect(c) \/ ConnectGoesOn(c) \/ CheckFirmware(c) \/ FirmwareChecked(c)
  <2>1. UNCHANGED startVars
    BY <1>5 DEF Connect, ConnectGoesOn, CheckFirmware, FirmwareChecked
  <2>2. QED
    BY <2>1 DEF StartType, startVars
<1>6. CASE \/ LoopLogs \/ Worker \/ UNCHANGED vars
           \/ \E g \in Clients \cup {Updater, Loop} : Logged(g)
  <2>1. UNCHANGED startVars
    BY <1>6 DEF LoopLogs, Worker, Logged, vars, hostVars
  <2>2. QED
    BY <2>1 DEF StartType, startVars
<1>7. CASE (RequestUpdate \/ Update) /\ ~ShutDown
  <2>1. UNCHANGED startVars
    BY <1>7 DEF RequestUpdate, Update, UpdateStep, StopBackgroundThreads, JumpToBootloader,
       JumpWritten, JumpCloses, JumpRaises, CloseFwupdSerialPort, CloseRaises, LoaderMessage,
       WaitForQueueEmpty, LoaderEnds, ReportUpdate
  <2>2. QED
    BY <2>1 DEF StartType, startVars
<1>8. QED
  BY <1>1, <1>2, <1>3, <1>4, <1>5, <1>6, <1>7 DEF Next

FileType == step \in Steps /\ backup \in {"none", "due", "made", "failed"}

LEMMA FileTypeNext ==
    ASSUME FileType, [Next]_vars
    PROVE  FileType'
<1>1. CASE EditConfig \/ ConstructConfig \/ Crash
  BY <1>1 DEF EditConfig, Edit, ConstructConfig, Construct, Crash, Stop, FileType, Steps
<1>2. CASE ConfigStep
  <2>1. step' \in Steps
    BY <1>2 DEF ConfigStep, CfgStep, Read, CheckBackup, Truncate, Write, FileType, Steps
  <2>2. backup' \in {backup, "made", "failed"}
    BY <1>2 DEF ConfigStep, CfgStep, Read, CheckBackup, Truncate, Write
  <2>3. QED
    BY <2>1, <2>2 DEF FileType
<1>3. CASE PowerOn \/ DiscoveryStep \/ StartRaises \/ LogSetup
  <2>1. UNCHANGED cfgVars
    BY <1>3 DEF PowerOn, DiscoveryStep, StartRaises, LogSetup
  <2>2. QED
    BY <2>1 DEF FileType, cfgVars
<1>4. CASE \E c \in Clients : Connect(c) \/ ConnectGoesOn(c) \/ CheckFirmware(c) \/ FirmwareChecked(c)
  <2>1. UNCHANGED cfgVars
    BY <1>4 DEF Connect, ConnectGoesOn, CheckFirmware, FirmwareChecked
  <2>2. QED
    BY <2>1 DEF FileType, cfgVars
<1>5. CASE \/ LoopLogs \/ Worker \/ UNCHANGED vars
           \/ \E g \in Clients \cup {Updater, Loop} : Logged(g)
  <2>1. UNCHANGED cfgVars
    BY <1>5 DEF LoopLogs, Worker, Logged, vars
  <2>2. QED
    BY <2>1 DEF FileType, cfgVars
<1>6. CASE RequestUpdate \/ Update
  <2>1. UNCHANGED cfgVars
    BY <1>6 DEF RequestUpdate, Update, UpdateStep, StopBackgroundThreads, JumpToBootloader,
       JumpWritten, JumpCloses, JumpRaises, CloseFwupdSerialPort, CloseRaises, LoaderMessage,
       WaitForQueueEmpty, LoaderEnds, ReportUpdate, ShutDown
  <2>2. QED
    BY <2>1 DEF FileType, cfgVars
<1>7. QED
  BY <1>1, <1>2, <1>3, <1>4, <1>5, <1>6 DEF Next

Greenlets == Clients \cup {Updater, Loop}
LogType == queue \in 0 .. QueueSize /\ blocked \subseteq Greenlets

LEMMA EmitTypes ==
    ASSUME LogType, NEW g \in Greenlets, Emit(g) \/ EmitReturns(g) \/ Work
    PROVE  LogType'
<1>1. QueueSize \in Nat \ {0}
  BY HostServerAssumption
<1>2. queue' \in 0 .. QueueSize
  BY <1>1 DEF LogType, Emit, PutAtOnce, EmitReturns, Work
<1>3. blocked' \subseteq Greenlets
  BY DEF LogType, Emit, EmitReturns, Work
<1>4. QED
  BY <1>2, <1>3 DEF LogType

LEMMA LogTypeNext ==
    ASSUME LogType, [Next]_vars
    PROVE  LogType'
<1>1. Updater \in Greenlets /\ Loop \in Greenlets /\ Clients \subseteq Greenlets
  BY DEF Greenlets
<1>2. CASE EditConfig \/ PowerOn \/ ConstructConfig \/ ConfigStep \/ DiscoveryStep \/ StartRaises
           \/ UNCHANGED vars
  <2>1. UNCHANGED logVars
    BY <1>2 DEF EditConfig, PowerOn, ConstructConfig, ConfigStep, DiscoveryStep, StartRaises, vars
  <2>2. QED
    BY <2>1 DEF LogType, logVars
<1>3. CASE LogSetup
  <2>1. QueueSize \in Nat \ {0}
    BY HostServerAssumption
  <2>2. queue' \in {queue, 0, 1} /\ blocked' = blocked
    BY <1>3 DEF LogSetup, logVars
  <2>3. QED
    BY <2>1, <2>2 DEF LogType
<1>4. CASE Crash
  BY <1>4, HostServerAssumption DEF Crash, ForgetServer, LogType
<1>5. ASSUME NEW c \in Clients, Connect(c) \/ ConnectGoesOn(c) \/ CheckFirmware(c) \/ FirmwareChecked(c)
      PROVE  LogType'
  <2>1. UNCHANGED logVars \/ Emit(c)
    BY <1>5 DEF Connect, ConnectGoesOn, CheckFirmware, FirmwareChecked
  <2>2. CASE UNCHANGED logVars
    BY <2>2 DEF LogType, logVars
  <2>3. QED
    BY <1>1, <2>1, <2>2, EmitTypes
<1>6. CASE LoopLogs \/ Worker
  BY <1>1, <1>6, EmitTypes DEF LoopLogs, Worker
<1>7. ASSUME NEW g \in Clients \cup {Updater, Loop}, Logged(g)
      PROVE  LogType'
  BY <1>7, EmitTypes DEF Logged, Greenlets
<1>8. CASE RequestUpdate \/ Update
  <2>1. UNCHANGED logVars \/ Emit(Updater)
    BY <1>8 DEF RequestUpdate, Update, UpdateStep, StopBackgroundThreads, JumpToBootloader,
       JumpWritten, JumpCloses, JumpRaises, CloseFwupdSerialPort, CloseRaises, LoaderMessage,
       WaitForQueueEmpty, LoaderEnds, ReportUpdate, ShutDown
  <2>2. CASE UNCHANGED logVars
    BY <2>2 DEF LogType, logVars
  <2>3. QED
    BY <1>1, <2>1, <2>2, EmitTypes
<1>9. QED
  BY <1>2, <1>3, <1>4, <1>5, <1>6, <1>7, <1>8 DEF Next


\* Each loop was spawned by another client, or will be.
Started == {c \in Clients : pc[c] # "idle"}

ClientType ==
    /\ updateThread \in BOOLEAN /\ heartbeat \in BOOLEAN
    /\ button \in {"none", "enabled", "error"}
    /\ loops + Cardinality(Waiting) <= Cardinality(Started)

LEMMA FiniteStarted ==
    /\ IsFiniteSet(Started) /\ Cardinality(Started) \in Nat
    /\ Cardinality(Started) <= Cardinality(Clients)
<1>1. Started \subseteq Clients
  BY DEF Started
<1>2. IsFiniteSet(Started) /\ Cardinality(Started) <= Cardinality(Clients)
  BY <1>1, HostServerAssumption, FS_Subset
<1>3. QED
  BY <1>2, FS_CardinalityType

\* A client begins: it spawns a loop at most, or waits.
LEMMA ClientTypeBegins ==
    ASSUME LoopInv, ClientType, NEW c \in Clients, pc[c] = "idle",
           NEW n \in {0, 1}, NEW to \in {"up", "log"}, n = 0 \/ to = "up",
           pc' = [pc EXCEPT ![c] = to], loops' = loops + n,
           updateThread' \in BOOLEAN, heartbeat' \in BOOLEAN, button' = button
    PROVE  ClientType'
<1>1. c \notin Started /\ c \notin Waiting
  BY DEF Started, Waiting
<1>2. Started' = Started \cup {c} /\ Waiting' = IF to = "log" THEN Waiting \cup {c} ELSE Waiting
  BY DEF Started, Waiting, LoopInv
<1>3. Cardinality(Started') = Cardinality(Started) + 1
  BY <1>1, <1>2, FiniteStarted, FS_AddElement
<1>4. Cardinality(Waiting') = Cardinality(Waiting) + (IF to = "log" THEN 1 ELSE 0)
  <2>1. CASE to = "log"
    BY <1>1, <1>2, <2>1, FiniteClients, FS_AddElement
  <2>2. CASE to # "log"
    BY <1>2, <2>2, FiniteClients
  <2>3. QED
    BY <2>1, <2>2
<1>5. loops' + Cardinality(Waiting') <= Cardinality(Started')
  <2>1. loops \in Nat /\ Cardinality(Waiting) \in Nat /\ Cardinality(Started) \in Nat
        /\ loops + Cardinality(Waiting) <= Cardinality(Started)
    BY FiniteClients, FiniteStarted DEF LoopInv, ClientType
  <2>2. CASE to = "log"
    BY <1>3, <1>4, <2>1, <2>2
  <2>3. CASE to # "log"
    BY <1>3, <1>4, <2>1, <2>3
  <2>4. QED
    BY <2>2, <2>3
<1>6. QED
  BY <1>5 DEF ClientType

LEMMA ClientTypeNext ==
    ASSUME LoopInv, ClientType, [Next]_vars
    PROVE  ClientType'
<1>1. CASE Crash
  <2>1. /\ pc' = [c \in Clients |-> "idle"] /\ loops' = 0
        /\ updateThread' = FALSE /\ heartbeat' = FALSE /\ button' = "none"
    BY <1>1 DEF Crash, ForgetServer
  <2>2. Waiting' = {} /\ Started' = {}
    BY <2>1 DEF Waiting, Started
  <2>3. Cardinality(Waiting') = 0 /\ Cardinality(Started') = 0
    BY <2>2, FS_EmptySet
  <2>4. loops' + Cardinality(Waiting') <= Cardinality(Started')
    BY <2>1, <2>3
  <2>5. QED
    BY <2>1, <2>4 DEF ClientType
<1>2. ASSUME NEW c \in Clients, Connect(c) PROVE ClientType'
  <2>1. pc[c] = "idle"
    BY <1>2 DEF Connect
  <2>2. CASE ~updateThread /\ ~PutAtOnce
    <3>1. /\ pc' = [pc EXCEPT ![c] = "log"]
          /\ UNCHANGED <<loops, updateThread, heartbeat, button>>
      BY <1>2, <2>2 DEF Connect
    <3>2. loops' = loops + 0
      BY <3>1 DEF LoopInv
    <3>3. updateThread' \in BOOLEAN /\ heartbeat' \in BOOLEAN
      BY <3>1 DEF ClientType
    <3>4. QED
      BY <2>1, <3>1, <3>2, <3>3, ClientTypeBegins
  <2>3. CASE updateThread \/ PutAtOnce
    <3>1. PICK n \in {0, 1} : Connected(c, n)
      BY <1>2, <2>3 DEF Connect
    <3>2. QED
      BY <2>1, <3>1, ClientTypeBegins DEF Connected
  <2>4. QED
    BY <2>2, <2>3
<1>3. ASSUME NEW c \in Clients, ConnectGoesOn(c) PROVE ClientType'
  <2>1. /\ pc[c] = "log" /\ pc' = [pc EXCEPT ![c] = "up"] /\ loops' = loops + 1
        /\ updateThread' = TRUE /\ heartbeat' = TRUE /\ button' = button
    BY <1>3 DEF ConnectGoesOn, Connected
  <2>2. c \in Waiting /\ Waiting' = Waiting \ {c} /\ Started' = Started
    BY <2>1 DEF Waiting, Started, LoopInv
  <2>3. Cardinality(Waiting') = Cardinality(Waiting) - 1
    BY <2>2, FiniteClients, FS_RemoveElement
  <2>4. loops' + Cardinality(Waiting') <= Cardinality(Started')
    BY <2>1, <2>2, <2>3, FiniteClients, FiniteStarted DEF LoopInv, ClientType
  <2>5. QED
    BY <2>1, <2>4 DEF ClientType
<1>4. ASSUME NEW c \in Clients, CheckFirmware(c) \/ FirmwareChecked(c) PROVE ClientType'
  <2>1. PICK to \in {"up", "check"} :
          pc[c] \in {"up", "check"} /\ pc' = [pc EXCEPT ![c] = to]
    BY <1>4 DEF CheckFirmware, FirmwareChecked
  <2>2. UNCHANGED <<loops, updateThread, heartbeat>> /\ button' \in {button, "enabled", "error"}
    BY <1>4 DEF CheckFirmware, FirmwareChecked
  <2>3. Waiting' = Waiting /\ Started' = Started
    BY <2>1 DEF Waiting, Started, LoopInv
  <2>4. QED
    BY <2>2, <2>3 DEF ClientType
<1>5. CASE EditConfig \/ PowerOn \/ ConstructConfig \/ ConfigStep \/ DiscoveryStep \/ StartRaises
           \/ LogSetup
  <2>1. UNCHANGED clientVars
    BY <1>5 DEF EditConfig, PowerOn, ConstructConfig, ConfigStep, DiscoveryStep, StartRaises,
       LogSetup, hostVars
  <2>2. QED
    BY <2>1 DEF clientVars, ClientType, Waiting, Started
<1>6. CASE \/ LoopLogs \/ Worker \/ UNCHANGED vars
           \/ \E g \in Clients \cup {Updater, Loop} : Logged(g)
  <2>1. UNCHANGED clientVars
    BY <1>6 DEF LoopLogs, Worker, Logged, vars, hostVars
  <2>2. QED
    BY <2>1 DEF clientVars, ClientType, Waiting, Started
<1>7. CASE RequestUpdate \/ Update
  <2>1. UNCHANGED clientVars
    BY <1>7 DEF RequestUpdate, Update, UpdateStep, StopBackgroundThreads, JumpToBootloader,
       JumpWritten, JumpCloses, JumpRaises, CloseFwupdSerialPort, CloseRaises, LoaderMessage,
       WaitForQueueEmpty, LoaderEnds, ReportUpdate, ShutDown
  <2>2. QED
    BY <2>1 DEF clientVars, ClientType, Waiting, Started
<1>8. QED
  BY <1>1, <1>2, <1>3, <1>4, <1>5, <1>6, <1>7 DEF Next

\* While the jump is on its way there is a serial node that can take it, the
\* first one that has the flags: no search changes the list then.
JumpPort == WithFlags # {} /\ ~JumpsOverI2C

UpdateType ==
    /\ update \in {"idle", "stop", "jump", "write", "sent", "closePort", "flash", "wait",
                   "report", "end"}
    /\ update \in {"write", "sent"} => JumpPort
    /\ fwPort \in Ports \cup {NoPort}
    /\ closed \subseteq Ports /\ messages \in 0 .. MaxMessages /\ waits \in 0 .. MaxWaits

LEMMA FirstHasFlags ==
    ASSUME SearchInv, WithFlags # {}
    PROVE  FirstWithFlags \in WithFlags /\ \A m \in WithFlags : FirstWithFlags <= m
<1>1. WithFlags \subseteq Nat
  BY LenProperties DEF WithFlags, SearchInv, DiscInv, DiscType
<1>2. \E n \in WithFlags : \A m \in WithFlags : n <= m
  BY <1>1, SomeFirst
<1>3. QED
  BY <1>2 DEF FirstWithFlags

LEMMA ClosedPort ==
    ASSUME SearchInv, JumpPort
    PROVE  nodes[FirstWithFlags].port \in Ports
<1>1. FirstWithFlags \in DOMAIN nodes
  BY FirstHasFlags DEF JumpPort, WithFlags
<1>2. nodes \in Seq(Nodes) /\ DOMAIN nodes = 1 .. Len(nodes)
  BY LenProperties DEF SearchInv, DiscInv, DiscType
<1>3. nodes[FirstWithFlags] \in Nodes
  BY <1>1, <1>2, ElementOfSeq
<1>4. nodes[FirstWithFlags].port \in Ports \cup {OnI2C}
  BY <1>3 DEF Nodes
<1>5. QED
  BY <1>4 DEF JumpPort, JumpsOverI2C

LEMMA UpdateTypeUpdate ==
    ASSUME SearchInv, UpdateType, RequestUpdate \/ Update
    PROVE  UpdateType'
<1>0. /\ MaxWaits \in Nat /\ MaxMessages \in Nat
      /\ fwupd \in Ports \cup {NoPort} /\ JumpPort' = JumpPort
  <2>1. nodes' = nodes
    BY DEF RequestUpdate, Update, UpdateStep, StopBackgroundThreads,
       JumpToBootloader, JumpWritten, JumpCloses, JumpRaises, CloseFwupdSerialPort, CloseRaises,
       LoaderMessage, WaitForQueueEmpty, LoaderEnds, ReportUpdate, ShutDown, discVars, discoveryVars
  <2>2. JumpPort' = JumpPort
    BY <2>1 DEF JumpPort, JumpsOverI2C, WithFlags, FirstWithFlags
  <2>3. QED
    BY <2>2, HostServerAssumption DEF SearchInv, DiscInv, DiscType
<1>1. CASE RequestUpdate
  BY <1>0, <1>1 DEF UpdateType, RequestUpdate, UpdateStep
<1>2. CASE StopBackgroundThreads
  BY <1>0, <1>2 DEF UpdateType, StopBackgroundThreads, UpdateStep
<1>3. CASE JumpToBootloader
  <2>1. /\ update' \in {"closePort", "write"} /\ (update' = "write" => JumpPort)
        /\ UNCHANGED <<fwPort, closed, messages, waits>>
    BY <1>3 DEF JumpToBootloader, UpdateStep, JumpPort
  <2>2. QED
    BY <1>0, <2>1 DEF UpdateType
<1>4. CASE JumpWritten
  BY <1>0, <1>4 DEF UpdateType, JumpWritten, UpdateStep
<1>5. CASE JumpCloses
  <2>1. /\ update = "sent" /\ update' = "closePort"
        /\ closed' = closed \cup {nodes[FirstWithFlags].port}
        /\ UNCHANGED <<fwPort, messages, waits>>
    BY <1>5 DEF JumpCloses, UpdateStep
  <2>2. closed' \subseteq Ports
    BY <2>1, ClosedPort DEF UpdateType
  <2>3. QED
    BY <2>1, <2>2 DEF UpdateType
<1>6. CASE JumpRaises
  BY <1>6 DEF UpdateType, JumpRaises
<1>7. CASE CloseFwupdSerialPort \/ CloseRaises
  BY <1>0, <1>7 DEF UpdateType, CloseFwupdSerialPort, CloseRaises, UpdateStep
<1>8. CASE LoaderMessage
  BY <1>0, <1>8 DEF UpdateType, LoaderMessage, UpdateStep
<1>9. CASE WaitForQueueEmpty
  <2>1. /\ update' \in {"flash", "wait"} /\ UNCHANGED <<fwPort, closed, messages>>
        /\ waits' = IF WaitIsOver(waits) THEN 0 ELSE waits + 1
    BY <1>9 DEF WaitForQueueEmpty, UpdateStep
  <2>2. waits' \in 0 .. MaxWaits
    BY <1>0, <2>1 DEF WaitIsOver, UpdateType
  <2>3. QED
    BY <2>1, <2>2 DEF UpdateType
<1>10. CASE LoaderEnds \/ ReportUpdate
  BY <1>0, <1>10 DEF UpdateType, LoaderEnds, ReportUpdate, UpdateStep
<1>11. CASE ShutDown
  BY <1>0, <1>11 DEF UpdateType, ShutDown, updateVars
<1>12. QED
  BY <1>1, <1>2, <1>3, <1>4, <1>5, <1>6, <1>7, <1>8, <1>9, <1>10, <1>11 DEF Update

LEMMA UpdateTypeKept ==
    ASSUME UpdateType, UNCHANGED updateVars,
           nodes' = nodes \/ update \notin {"write", "sent"}
    PROVE  UpdateType'
<1>1. nodes' = nodes => JumpPort' = JumpPort
  BY DEF JumpPort, JumpsOverI2C, WithFlags, FirstWithFlags
<1>2. QED
  BY <1>1 DEF UpdateType, updateVars

\* The update has the port that the server knew when it began, since the nodes
\* are only looked for in the start; that port alone is closed.
PortInv ==
    /\ update # "idle" => phase \in {"serving", "shutdown"} /\ fwPort = fwupd
    /\ update = "idle" => fwPort = NoPort /\ closed = {}
    /\ closed \subseteq {fwupd} \ {NoPort}

\* Who jumps now was chosen in the start.
LEMMA JumperChosen ==
    ASSUME SearchInv, JumpInv, JumpPort
    PROVE  nodes[FirstWithFlags].port = fwupd /\ fwupd # NoPort
<1>1. /\ FirstWithFlags \in DOMAIN nodes /\ nodes[FirstWithFlags].flags
      /\ \A m \in DOMAIN nodes : nodes[m].flags => FirstWithFlags <= m
  BY FirstHasFlags DEF JumpPort, WithFlags
<1>2. DOMAIN nodes = 1 .. Len(nodes) /\ Len(nodes) \in Nat
  BY LenProperties DEF SearchInv, DiscInv, DiscType
<1>3. IsFirst(nodes, FirstWithFlags)
  BY <1>1, <1>2 DEF IsFirst
<1>4. nodes[FirstWithFlags].port = fwupd
  BY <1>1, <1>2, <1>3 DEF JumpInv
<1>5. QED
  BY <1>4 DEF JumpPort, JumpsOverI2C, NoPort, OnI2C

LEMMA PortInvKept ==
    ASSUME PortInv, phase' = phase, UNCHANGED <<update, fwPort, closed, fwupd>>
    PROVE  PortInv'
BY DEF PortInv

LEMMA PortInvUpdate ==
    ASSUME SearchInv, JumpInv, UpdateType, PortInv, RequestUpdate \/ Update
    PROVE  PortInv'
<1>0. UNCHANGED fwupd
  BY DEF RequestUpdate, Update, UpdateStep, StopBackgroundThreads,
     JumpToBootloader, JumpWritten, JumpCloses, JumpRaises, CloseFwupdSerialPort, CloseRaises,
     LoaderMessage, WaitForQueueEmpty, LoaderEnds, ReportUpdate, ShutDown, discVars, discoveryVars
<1>1. CASE RequestUpdate
  BY <1>0, <1>1 DEF PortInv, RequestUpdate, UpdateStep, Runs, startVars
<1>2. CASE \/ StopBackgroundThreads \/ JumpToBootloader \/ JumpWritten \/ JumpRaises \/ CloseRaises
           \/ LoaderMessage \/ WaitForQueueEmpty \/ LoaderEnds \/ ReportUpdate
  <2>1. /\ update' # "idle" /\ update # "idle"
        /\ phase' = phase /\ fwPort' = fwPort /\ closed' = closed
    BY <1>2 DEF StopBackgroundThreads, JumpToBootloader, JumpWritten, JumpRaises, CloseRaises,
       LoaderMessage, WaitForQueueEmpty, LoaderEnds, ReportUpdate, UpdateStep, startVars
  <2>2. QED
    BY <1>0, <2>1 DEF PortInv
<1>3. CASE JumpCloses
  <2>1. /\ update = "sent" /\ update' = "closePort" /\ phase' = phase /\ fwPort' = fwPort
        /\ closed' = closed \cup {nodes[FirstWithFlags].port}
    BY <1>3 DEF JumpCloses, UpdateStep, startVars
  <2>2. nodes[FirstWithFlags].port = fwupd /\ fwupd # NoPort
    BY <2>1, JumperChosen DEF UpdateType
  <2>3. QED
    BY <1>0, <2>1, <2>2 DEF PortInv
<1>4. CASE CloseFwupdSerialPort
  <2>1. /\ update = "closePort" /\ update' = "flash" /\ phase' = phase /\ fwPort' = fwPort
        /\ closed' = IF fwupd = NoPort THEN closed ELSE closed \cup {fwupd}
    BY <1>4 DEF CloseFwupdSerialPort, UpdateStep, startVars
  <2>2. QED
    BY <1>0, <2>1 DEF PortInv
<1>5. CASE ShutDown
  BY <1>0, <1>5 DEF PortInv, ShutDown, updateVars
<1>6. QED
  BY <1>1, <1>2, <1>3, <1>4, <1>5 DEF Update

LEMMA PortInvNext ==
    ASSUME SearchInv, JumpInv, UpdateType, PortInv, [Next]_vars
    PROVE  PortInv'
<1>1. CASE EditConfig \/ PowerOn \/ ConstructConfig \/ ConfigStep \/ DiscoveryStep \/ StartRaises
           \/ LogSetup
  <2>1. phase \in {"off", "start"}
    BY <1>1 DEF EditConfig, PowerOn, ConstructConfig, ConfigStep, DiscoveryStep, StartRaises,
       LogSetup
  <2>2. update = "idle" /\ fwPort = NoPort /\ closed = {}
    BY <2>1 DEF PortInv
  <2>3. UNCHANGED <<update, fwPort, closed>>
    BY <1>1 DEF EditConfig, PowerOn, ConstructConfig, ConfigStep, DiscoveryStep, StartRaises,
       LogSetup, hostVars, updateVars
  <2>4. QED
    BY <2>2, <2>3 DEF PortInv
<1>2. CASE Crash
  BY <1>2 DEF Crash, ForgetServer, PortInv
<1>3. CASE \E c \in Clients : Connect(c) \/ ConnectGoesOn(c) \/ CheckFirmware(c) \/ FirmwareChecked(c)
  <2>1. phase' = phase /\ UNCHANGED <<update, fwPort, closed, fwupd>>
    BY <1>3 DEF Connect, ConnectGoesOn, CheckFirmware, FirmwareChecked, startVars, updateVars,
       discVars, discoveryVars
  <2>2. QED
    BY <2>1, PortInvKept
<1>4. CASE \/ LoopLogs \/ Worker \/ UNCHANGED vars
           \/ \E g \in Clients \cup {Updater, Loop} : Logged(g)
  <2>1. phase' = phase /\ UNCHANGED <<update, fwPort, closed, fwupd>>
    BY <1>4 DEF LoopLogs, Worker, Logged, vars, hostVars, startVars, updateVars, discVars,
       discoveryVars
  <2>2. QED
    BY <2>1, PortInvKept
<1>5. CASE RequestUpdate \/ Update
  BY <1>5, PortInvUpdate
<1>6. QED
  BY <1>1, <1>2, <1>3, <1>4, <1>5 DEF Next

LEMMA PortInvInit == Init => PortInv
BY DEF Init, FreshServer, PortInv

LEMMA UpdateTypeNext ==
    ASSUME SearchInv, PortInv, UpdateType, [Next]_vars
    PROVE  UpdateType'
<1>1. CASE Crash
  <2>1. update' = "idle" /\ fwPort' = NoPort /\ closed' = {} /\ messages' = 0 /\ waits' = 0
    BY <1>1 DEF Crash, ForgetServer
  <2>2. 0 \in 0 .. MaxMessages /\ 0 \in 0 .. MaxWaits
    BY HostServerAssumption
  <2>3. QED
    BY <2>1, <2>2 DEF UpdateType
<1>2. CASE DiscoveryStep
  <2>1. phase = "start" /\ UNCHANGED updateVars
    BY <1>2 DEF DiscoveryStep, hostVars
  <2>2. QED
    BY <2>1, UpdateTypeKept DEF PortInv
<1>3. CASE EditConfig \/ PowerOn \/ ConstructConfig \/ ConfigStep \/ StartRaises \/ LogSetup
  <2>1. UNCHANGED updateVars /\ nodes' = nodes
    BY <1>3 DEF EditConfig, PowerOn, ConstructConfig, ConfigStep, StartRaises, LogSetup, hostVars,
       discVars, discoveryVars
  <2>2. QED
    BY <2>1, UpdateTypeKept
<1>4. CASE \E c \in Clients : Connect(c) \/ ConnectGoesOn(c) \/ CheckFirmware(c) \/ FirmwareChecked(c)
  <2>1. UNCHANGED updateVars /\ nodes' = nodes
    BY <1>4 DEF Connect, ConnectGoesOn, CheckFirmware, FirmwareChecked, discVars, discoveryVars
  <2>2. QED
    BY <2>1, UpdateTypeKept
<1>5. CASE \/ LoopLogs \/ Worker \/ UNCHANGED vars
           \/ \E g \in Clients \cup {Updater, Loop} : Logged(g)
  <2>1. UNCHANGED updateVars /\ nodes' = nodes
    BY <1>5 DEF LoopLogs, Worker, Logged, vars, hostVars, discVars, discoveryVars
  <2>2. QED
    BY <2>1, UpdateTypeKept
<1>6. CASE RequestUpdate \/ Update
  BY <1>6, UpdateTypeUpdate
<1>7. QED
  BY <1>1, <1>2, <1>3, <1>4, <1>5, <1>6 DEF Next

HostInv ==
    /\ EditInv /\ LoopInv /\ SearchInv /\ JumpInv /\ PortInv
    /\ StartType /\ FileType /\ LogType /\ ClientType /\ UpdateType

LEMMA HostInvInit == Init => HostInv
<1> SUFFICES ASSUME Init PROVE HostInv
  OBVIOUS
<1>1. EditInv /\ SearchInv /\ JumpInv /\ PortInv
  BY EditInvInit, SearchInvInit, JumpInvInit, PortInvInit
<1>2. LoopInv
  BY LoopInvFresh DEF Init, FreshServer
<1>3. StartType
  <2>1. left \in [edits : Nat, crashes : Nat, clients : BOOLEAN]
    BY HostServerAssumption DEF Init
  <2>2. QED
    BY <2>1 DEF Init, StartType
<1>4. FileType
  BY DEF Init, CfgInit, FileType, Steps
<1>5. LogType
  BY HostServerAssumption DEF Init, FreshServer, LogInit, LogType
<1>6. ClientType
  <2>1. Waiting = {} /\ Started = {}
    BY DEF Init, FreshServer, Waiting, Started
  <2>2. Cardinality(Waiting) = 0 /\ Cardinality(Started) = 0 /\ loops = 0
    BY <2>1, FS_EmptySet DEF Init, FreshServer
  <2>3. loops + Cardinality(Waiting) <= Cardinality(Started)
    BY <2>2
  <2>4. QED
    BY <2>3 DEF Init, FreshServer, ClientType
<1>7. UpdateType
  BY HostServerAssumption DEF Init, FreshServer, UpdateType
<1>8. QED
  BY <1>1, <1>2, <1>3, <1>4, <1>5, <1>6, <1>7 DEF HostInv

LEMMA HostInvNext ==
    ASSUME HostInv, [Next]_vars
    PROVE  HostInv'
<1>1. EditInv' /\ LoopInv' /\ SearchInv'
  BY EditInvNext, LoopInvNext, SearchInvNext DEF HostInv
<1>2. StartType' /\ FileType' /\ LogType'
  BY StartTypeNext, FileTypeNext, LogTypeNext DEF HostInv
<1>3. ClientType' /\ UpdateType' /\ JumpInv' /\ PortInv'
  BY ClientTypeNext, UpdateTypeNext, JumpInvNext, PortInvNext DEF HostInv
<1>4. QED
  BY <1>1, <1>2, <1>3 DEF HostInv

\* All variables have their types: the log queue is bounded, there are no more
\* polling loops than clients, and only serial ports are closed, those of the
\* first node that can jump included (LTInterface.py:343-347).
THEOREM TypeCorrect == Spec => []TypeOK
<1>1. HostInv => TypeOK
  <2>1. SUFFICES ASSUME HostInv PROVE TypeOK
    OBVIOUS
  <2>2. /\ phase \in {"off", "start", "serving", "dead", "shutdown"}
        /\ configs \in 0 .. 5
        /\ left \in [edits : Nat, crashes : Nat, clients : BOOLEAN]
    BY <2>1 DEF HostInv, StartType
  <2>3. /\ hw \in Hardware /\ isS32BPillFlag \in BOOLEAN
        /\ serialPorts \in Seq(Ports) /\ nodes \in Seq(Nodes)
        /\ fwupd \in Ports \cup {NoPort}
        /\ skipped \in BOOLEAN /\ faults \in Nat /\ idxOffset \in Nat
        /\ scan \in Scans
    BY <2>1 DEF HostInv, SearchInv, DiscInv, DiscType
  <2>4. scan.phase \in ScanPhases /\ scan.baud \in 1 .. BaudRates /\ scan.tries < MaxTries
    BY <2>3, DiscoveryAssumption DEF Scans
  <2>5. /\ file \in Files /\ config \in Values /\ step \in Steps /\ recent \in BOOLEAN
        /\ backup \in {"none", "due", "made", "failed"}
        /\ queue \in 0 .. QueueSize /\ blocked \subseteq Clients \cup {Updater, Loop}
    BY <2>1 DEF HostInv, EditInv, FileType, LogType, Greenlets
  <2>6. loops \in 0 .. Cardinality(Clients)
    <3>1. /\ loops \in Nat /\ loops + Cardinality(Waiting) <= Cardinality(Started)
          /\ Cardinality(Waiting) \in Nat
      BY <2>1, FiniteClients DEF HostInv, LoopInv, ClientType
    <3>2. Cardinality(Clients) \in Nat
      BY HostServerAssumption, FS_CardinalityType
    <3>3. QED
      BY <3>1, <3>2, FiniteStarted
  <2>7. /\ pc \in [Clients -> {"idle", "log", "up", "check"}]
        /\ updateThread \in BOOLEAN /\ heartbeat \in BOOLEAN
        /\ button \in {"none", "enabled", "error"} /\ waited \subseteq Clients
    BY <2>1 DEF HostInv, LoopInv, ClientType
  <2>8. /\ update \in {"idle", "stop", "jump", "write", "sent", "closePort", "flash", "wait",
                   "report", "end"}
        /\ fwPort \in Ports \cup {NoPort}
        /\ closed \subseteq Ports /\ messages \in 0 .. MaxMessages /\ waits \in 0 .. MaxWaits
    BY <2>1 DEF HostInv, UpdateType
  <2>9. QED
    BY <2>2, <2>3, <2>4, <2>5, <2>6, <2>7, <2>8 DEF TypeOK
<1>2. QED
  BY <1>1, HostInvInit, HostInvNext, PTL DEF Spec

\* Whichever nodes are there, whichever of their flags were read and whatever
\* fails in the update: the node that is told to jump, the port that is closed
\* and the port that is flashed are of one processor, although the first is
\* looked up in the list (LTInterface.py:344-347) and the others were chosen
\* while the list was being set up (LTInterface.py:87-90).
THEOREM OneProcessorUpdated == Spec => []UpdateIsForOneProcessor
<1>1. HostInv => UpdateIsForOneProcessor
  <2>1. SUFFICES ASSUME HostInv PROVE UpdateIsForOneProcessor
    OBVIOUS
  <2>2. SearchInv /\ JumpInv /\ PortInv /\ UpdateType
    BY <2>1 DEF HostInv
  <2>3. update \in {"write", "sent"} =>
           nodes[FirstWithFlags].port = fwPort /\ fwPort # NoPort
    BY <2>2, JumperChosen DEF UpdateType, PortInv
  <2>4. closed \subseteq {fwPort} \ {NoPort}
    BY <2>2 DEF PortInv
  <2>5. QED
    BY <2>3, <2>4 DEF UpdateIsForOneProcessor, LoaderPort
<1>2. QED
  BY <1>1, HostInvInit, HostInvNext, PTL DEF Spec
=============================================================================
