----------------------------- MODULE HostServer ------------------------------
(***************************************************************************)
(* The timing server as a process: src/server/server.py, from its start to *)
(* the end of a firmware update, with the settings file (ConfigFile), the  *)
(* search for the nodes (NodeDiscovery) and the log queue (LogQueue).      *)
(*                                                                         *)
(* The start is one thread.  Then there are greenlets: one for each client *)
(* that has connected, the polling loops, the log worker and the update of *)
(* the firmware.  A greenlet runs until it waits: in a full log queue, in  *)
(* gevent.sleep, or for the serial line.                                   *)
(*                                                                         *)
(* What the loader does on the line is module Stm32Loader; here it writes  *)
(* messages, each of which waits for the log.                              *)
(***************************************************************************)
EXTENDS NodeDiscovery, ConfigFile, LogQueue, FiniteSets

CONSTANTS
    Clients,
    Scenarios,          \* hardware, and how many edits, crashes, faults, clients
    ConfiguredPorts,    \* SERIAL_PORTS of a config.json that has some
    MaxMessages         \* messages of one run of the loader

VARIABLES
    phase,          \* "off", "start", "serving", "dead", "shutdown"
    configs,        \* Configs constructed by this start
    left,           \* bounds: the edits, crashes and clients to come
    pc,             \* where the connection of each client is
    loops,          \* polling loops spawned
    updateThread,   \* update_thread is not None
    heartbeat,      \* heartbeat_thread is not None
    button,         \* what check_bpillfw_file said last
    update,         \* where do_bpillfw_update is
    fwPort,         \* portStr of the update
    closed,         \* ports whose serial object the server has closed
    messages,       \* messages of the loader to come
    waits,          \* looks at the log queue
    waited          \* history: clients whose start waited for the log

startVars == <<phase, configs, left>>
clientVars == <<pc, loops, updateThread, heartbeat, button, waited>>
updateVars == <<update, fwPort, closed, messages, waits>>
hostVars == <<startVars, clientVars, updateVars>>
discVars == <<discoveryVars, faults>>
vars == <<hostVars, discVars, cfgVars, logVars>>

Updater == "updater"
Loop == "loop"

ASSUME HostServerAssumption ==
    /\ Scenarios \subseteq [hw : Hardware, faults : Nat,
                            left : [edits : Nat, crashes : Nat, clients : BOOLEAN]]
    /\ ConfiguredPorts \in Seq(Ports)
    /\ IsFiniteSet(Clients)
    /\ QueueSize \in Nat \ {0} /\ MaxWaits \in Nat /\ MaxMessages \in Nat

\* Nothing of a run of the server outlives it but the file.
FreshServer ==
    /\ pc = [c \in Clients |-> "idle"]
    /\ loops = 0 /\ updateThread = FALSE /\ heartbeat = FALSE
    /\ button = "none" /\ waited = {}
    /\ update = "idle" /\ fwPort = NoPort /\ closed = {}
    /\ messages = 0 /\ waits = 0
    /\ LogInit /\ DiscoveryInit

ForgetServer ==
    /\ pc' = [c \in Clients |-> "idle"]
    /\ loops' = 0 /\ updateThread' = FALSE /\ heartbeat' = FALSE
    /\ button' = "none" /\ waited' = {}
    /\ update' = "idle" /\ fwPort' = NoPort /\ closed' = {}
    /\ messages' = 0 /\ waits' = 0
    /\ queue' = 0 /\ blocked' = {}
    /\ ForgetNodes

Init ==
    /\ \E s \in Scenarios : hw = s.hw /\ faults = s.faults /\ left = s.left
    /\ phase = "off" /\ configs = 0
    /\ CfgInit
    /\ FreshServer

Spend(what) ==
    /\ left[what] > 0
    /\ left' = [left EXCEPT ![what] = @ - 1]

(***************************************************************************)
(* The start                                                               *)
(***************************************************************************)

EditConfig ==
    /\ phase = "off"
    /\ Spend("edits")
    /\ Edit
    /\ UNCHANGED <<phase, configs, clientVars, updateVars, discVars, logVars>>

PowerOn ==
    /\ phase = "off"
    /\ phase' = "start"
    /\ configs' = 0
    /\ scan' = Scan("identify", 0)
    /\ UNCHANGED <<left, hw, isS32BPillFlag, serialPorts, nodes, idxOffset, fwupd, skipped,
                   faults, clientVars, updateVars, cfgVars, logVars>>

\* Each ConfigContext has a Config, one in server.py and one in LTInterface;
\* LTInterface.__init__ makes one for the bus, one for discover and, without
\* I2C nodes, one for discoverserial.
ConfigsBefore(part) ==
    CASE part = "identify" -> 1 [] part = "bus" -> 3 [] part = "i2c" -> 4
      [] part = "serial" -> 5 [] OTHER -> 0

ConstructConfig ==
    /\ phase = "start" /\ step = "done"
    /\ configs < ConfigsBefore(scan.phase)
    /\ configs' = configs + 1
    /\ Construct
    /\ UNCHANGED <<phase, left, clientVars, updateVars, discVars, logVars,
                   file, config, backup, recent>>

ConfigStep ==
    /\ phase = "start"
    /\ CfgStep
    /\ UNCHANGED <<hostVars, discVars, logVars>>

DiscoveryStep ==
    /\ phase = "start" /\ step = "done"
    /\ configs >= ConfigsBefore(scan.phase)
    /\ Discover(IF config = "defaults" THEN <<>> ELSE ConfiguredPorts)
    /\ UNCHANGED <<hostVars, cfgVars, logVars>>

\* Whatever is raised on the way ends the process.
StartRaises ==
    /\ phase = "start"
    /\ step = "raised" \/ scan.phase = "raised"
    /\ phase' = "dead"
    /\ UNCHANGED <<configs, left, clientVars, updateVars, discVars, cfgVars, logVars>>

\* get_logging_level_for_item and delete_old_log_files: an edit can have put a
\* name that is no level, or a number of files that is none, in LOGGING.
LevelRefused == IF config = "edited" THEN BOOLEAN ELSE {FALSE}
NumKeepRefused == IF config = "edited" THEN BOOLEAN ELSE {FALSE}

\* later_stage_setup: either is a ValueError, which nobody catches.  The first
\* record in the queue says that old log files were deleted, if there were any.
LogSetup ==
    /\ phase = "start" /\ scan.phase = "ready"
    /\ \/ /\ TRUE \in LevelRefused \cup NumKeepRefused
          /\ phase' = "dead"
          /\ UNCHANGED logVars
       \/ /\ phase' = "serving"
          /\ queue' \in {0, 1}
          /\ UNCHANGED blocked
    /\ UNCHANGED <<configs, left, clientVars, updateVars, discVars, cfgVars>>

Crash ==
    /\ phase \in {"start", "serving", "dead"}
    /\ Spend("crashes")
    /\ phase' = "off" /\ configs' = 0
    /\ ForgetServer
    /\ Stop
    /\ UNCHANGED <<hw, faults>>

(***************************************************************************)
(* Clients, the polling loop and the log                                   *)
(***************************************************************************)

Runs(g) == phase = "serving" /\ g \notin blocked

\* The rest of connect_handler and start, after the log call.
Connected(c, spawned) ==
    /\ pc' = [pc EXCEPT ![c] = "up"]
    /\ loops' = loops + spawned
    /\ updateThread' = TRUE
    /\ heartbeat' = TRUE
    /\ UNCHANGED <<button, waited>>

\* Faulty variant: start does not look for a running loop.
ConnectUntested(c) ==
    /\ Runs(c) /\ left.clients /\ pc[c] = "idle"
    /\ Emit(c)
    /\ IF PutAtOnce
       THEN Connected(c, 1)
       ELSE /\ pc' = [pc EXCEPT ![c] = "log"]
            /\ waited' = waited \cup {c}
            /\ UNCHANGED <<loops, updateThread, heartbeat, button>>
    /\ UNCHANGED <<startVars, updateVars, discVars, cfgVars>>

\* start: no loop runs, so it logs and spawns one.  The log call may wait, and
\* update_thread is not looked at again.
Connect(c) ==
    /\ Runs(c) /\ left.clients /\ pc[c] = "idle"
    /\ IF updateThread THEN Connected(c, 0) /\ UNCHANGED logVars
       ELSE /\ Emit(c)
            /\ IF PutAtOnce
               THEN Connected(c, 1)
               ELSE /\ pc' = [pc EXCEPT ![c] = "log"]
                    /\ waited' = waited \cup {c}
                    /\ UNCHANGED <<loops, updateThread, heartbeat, button>>
    /\ UNCHANGED <<startVars, updateVars, discVars, cfgVars>>

ConnectGoesOn(c) ==
    /\ Runs(c) /\ pc[c] = "log"
    /\ Connected(c, 1)
    /\ UNCHANGED <<startVars, updateVars, discVars, cfgVars, logVars>>

\* check_bpillfw_file, to its first log call and after it.
CheckFirmware(c) ==
    /\ Runs(c) /\ pc[c] = "up"
    /\ Emit(c)
    /\ pc' = [pc EXCEPT ![c] = "check"]
    /\ UNCHANGED <<loops, updateThread, heartbeat, button, waited,
                   startVars, updateVars, discVars, cfgVars>>

\* get_info_node_obj.  Of a node whose firmware has a version but no time,
\* the processor type is never assigned, and comparing it raises.
TypeUnassigned == nodes # <<>> /\ nodes[1].fw = "noTimestamp"

FirmwareChecked(c) ==
    /\ Runs(c) /\ pc[c] = "check"
    /\ \E readable, typed \in BOOLEAN :
          button' = IF readable /\ ~(typed /\ TypeUnassigned) THEN "enabled" ELSE "error"
    /\ Emit(c)
    /\ pc' = [pc EXCEPT ![c] = "up"]
    /\ UNCHANGED <<loops, updateThread, heartbeat, waited,
                   startVars, updateVars, discVars, cfgVars>>

\* update_loop: among other things, each read of a closed port is logged.
LoopLogs ==
    /\ Runs(Loop) /\ loops > 0
    /\ Emit(Loop)
    /\ UNCHANGED <<hostVars, discVars, cfgVars>>

Logged(g) ==
    /\ phase = "serving"
    /\ EmitReturns(g)
    /\ UNCHANGED <<hostVars, discVars, cfgVars>>

Worker ==
    /\ phase = "serving"
    /\ Work
    /\ UNCHANGED <<hostVars, discVars, cfgVars>>

(***************************************************************************)
(* The update of the firmware                                              *)
(***************************************************************************)

\* A step of do_bpillfw_update, with a log record where it writes one.
UpdateStep(from, to) ==
    /\ Runs(Updater) /\ update = from
    /\ update' = to
    /\ UNCHANGED <<startVars, clientVars, discVars, cfgVars>>

RequestUpdate ==
    /\ left.clients /\ \E c \in Clients : pc[c] = "up"
    /\ UpdateStep("idle", "stop")
    /\ fwPort' = fwupd
    /\ Emit(Updater)
    /\ UNCHANGED <<closed, messages, waits>>

\* stop_background_threads: its first call is of a function that does not
\* exist, and so it only logs.  Heartbeat and polling go on.
StopBackgroundThreads ==
    /\ UpdateStep("stop", "jump")
    /\ Emit(Updater)
    /\ UNCHANGED <<fwPort, closed, messages, waits>>

WithFlags == {n \in DOMAIN nodes : nodes[n].flags}

\* Faulty variant: the last one that can.
LastWithFlags == CHOOSE n \in WithFlags : \A m \in WithFlags : n >= m

FirstWithFlags == CHOOSE n \in WithFlags : \A m \in WithFlags : n <= m

\* jump_to_bootloader: the first node that can takes the command; an I2C node
\* does nothing with it.
JumpsOverI2C == WithFlags # {} /\ nodes[FirstWithFlags].port = OnI2C

JumpToBootloader ==
    \/ /\ UpdateStep("jump", "closePort")
       /\ JumpsOverI2C
       /\ UNCHANGED <<fwPort, closed, messages, waits, logVars>>
    \/ /\ UpdateStep("jump", IF WithFlags = {} THEN "closePort" ELSE "write")
       /\ ~JumpsOverI2C
       /\ Emit(Updater)
       /\ UNCHANGED <<fwPort, closed, messages, waits>>

\* The command is written, and the port is closed 0.1 s later; an exception on
\* the way is logged and leaves the port open.
JumpWritten ==
    /\ UpdateStep("write", "sent")
    /\ UNCHANGED <<fwPort, closed, messages, waits, logVars>>

JumpCloses ==
    /\ UpdateStep("sent", "closePort")
    /\ closed' = closed \cup {nodes[FirstWithFlags].port}
    /\ UNCHANGED <<fwPort, messages, waits, logVars>>

JumpRaises ==
    /\ \E from \in {"write", "sent"} :
          /\ Runs(Updater) /\ update = from
          /\ update' = "closePort"
    /\ faults > 0 /\ faults' = faults - 1
    /\ Emit(Updater)
    /\ UNCHANGED <<startVars, clientVars, discoveryVars, cfgVars, fwPort, closed, messages, waits>>

\* close_fwupd_serial_port: a close that raises is logged, and leaves the port
\* open.  Then the loader opens LoaderPort.
CloseFwupdSerialPort ==
    /\ UpdateStep("closePort", "flash")
    /\ closed' = IF fwupd = NoPort THEN closed ELSE closed \cup {fwupd}
    /\ messages' = MaxMessages
    /\ UNCHANGED <<fwPort, waits, logVars>>

CloseRaises ==
    /\ Runs(Updater) /\ update = "closePort" /\ fwupd # NoPort
    /\ update' = "flash"
    /\ faults > 0 /\ faults' = faults - 1
    /\ messages' = MaxMessages
    /\ Emit(Updater)
    /\ UNCHANGED <<startVars, clientVars, discoveryVars, cfgVars, fwPort, closed, waits>>

\* flash_file_to_stm32: without a port it takes a default of its own.
LoaderPort == IF fwPort = NoPort THEN DefaultPort ELSE fwPort

\* doS32Log: a message of the loader, which waits until the log is empty.
LoaderMessage ==
    /\ UpdateStep("flash", "wait")
    /\ messages > 0 /\ messages' = messages - 1
    /\ waits' = 0
    /\ Emit(Updater)
    /\ UNCHANGED <<fwPort, closed>>

WaitForQueueEmpty ==
    /\ UpdateStep("wait", IF WaitIsOver(waits) THEN "flash" ELSE "wait")
    /\ waits' = IF WaitIsOver(waits) THEN 0 ELSE waits + 1
    /\ UNCHANGED <<fwPort, closed, messages, logVars>>

\* The loader returns or raises; either is logged.
LoaderEnds ==
    /\ UpdateStep("flash", "report")
    /\ messages' = 0
    /\ Emit(Updater)
    /\ UNCHANGED <<fwPort, closed, waits>>

ReportUpdate ==
    /\ UpdateStep("report", "end")
    /\ Emit(Updater)
    /\ UNCHANGED <<fwPort, closed, messages, waits>>

ShutDown ==
    /\ Runs(Updater) /\ update = "end"
    /\ phase' = "shutdown"
    /\ UNCHANGED <<configs, left, clientVars, updateVars, discVars, cfgVars, logVars>>

Update ==
    \/ StopBackgroundThreads \/ JumpToBootloader \/ JumpWritten \/ JumpCloses \/ JumpRaises
    \/ CloseFwupdSerialPort \/ CloseRaises \/ LoaderMessage \/ WaitForQueueEmpty \/ LoaderEnds
    \/ ReportUpdate \/ ShutDown

Next ==
    \/ EditConfig \/ PowerOn \/ ConstructConfig \/ ConfigStep \/ DiscoveryStep
    \/ StartRaises \/ LogSetup \/ Crash
    \/ \E c \in Clients : Connect(c) \/ ConnectGoesOn(c) \/ CheckFirmware(c) \/ FirmwareChecked(c)
    \/ LoopLogs \/ Worker \/ RequestUpdate \/ Update
    \/ \E g \in Clients \cup {Updater, Loop} : Logged(g)

Spec == Init /\ [][Next]_vars

\* The greenlet of the update is scheduled again and again, and what waits in
\* the queue is let go after a second.
FairSpec == Spec /\ WF_vars(Update) /\ WF_vars(Logged(Updater))

(***************************************************************************)
(* Properties                                                              *)
(***************************************************************************)

\* The types of all variables.
TypeOK ==
    /\ phase \in {"off", "start", "serving", "dead", "shutdown"}
    /\ configs \in 0 .. 5
    /\ left \in [edits : Nat, crashes : Nat, clients : BOOLEAN]
    /\ hw \in Hardware /\ isS32BPillFlag \in BOOLEAN
    /\ scan.phase \in ScanPhases /\ scan.baud \in 1 .. BaudRates /\ scan.tries < MaxTries
    /\ serialPorts \in Seq(Ports) /\ nodes \in Seq(Nodes)
    /\ fwupd \in Ports \cup {NoPort} /\ fwPort \in Ports \cup {NoPort}
    /\ skipped \in BOOLEAN /\ faults \in Nat /\ idxOffset \in Nat
    /\ file \in Files /\ config \in Values /\ step \in Steps /\ recent \in BOOLEAN
    /\ backup \in {"none", "due", "made", "failed"}
    /\ queue \in 0 .. QueueSize /\ blocked \subseteq Clients \cup {Updater, Loop}
    /\ pc \in [Clients -> {"idle", "log", "up", "check"}]
    /\ loops \in 0 .. Cardinality(Clients) /\ updateThread \in BOOLEAN /\ heartbeat \in BOOLEAN
    /\ button \in {"none", "enabled", "error"} /\ waited \subseteq Clients
    /\ update \in {"idle", "stop", "jump", "write", "sent", "closePort", "flash", "wait",
                   "report", "end"}
    /\ closed \subseteq Ports /\ messages \in 0 .. MaxMessages /\ waits \in 0 .. MaxWaits

\* The indices of the nodes, by which clients and the settings file name them,
\* are all different and grow along the list; if every address or port had its
\* nodes, each is the place in the list.  When the only port is done, the
\* modules of its processor have been given the settings of their own index.
NodesNumbered ==
    /\ \A i, j \in DOMAIN nodes : i < j => nodes[i].index < nodes[j].index
    /\ ~skipped => \A i \in DOMAIN nodes : nodes[i].index = i - 1
    /\ Len(serialPorts) = 1 /\ phase = "serving" =>
          \A i \in DOMAIN nodes : nodes[i].multi_node_index # NoIndex => nodes[i].settings = i - 1

\* What the user has written in config.json while the server was off is still
\* there, or in a backup: unless the copy failed, or the edit came within 5 s of
\* the last save.  An edit under a running server is overwritten by its next save.
EditNotLost == backup = "due" => file.edited \/ recent

\* One loop polls the nodes: a second one needs a start whose log call waited.
OneLoop == loops <= 1 + Cardinality(waited)

\* The node that is told to jump is chosen when the update is made, from the
\* list; the port that is closed and flashed was chosen at the start, as the
\* nodes were set up one by one.  They are the same processor's: no other one
\* is told to jump, or loses its port.  Without a port to flash nobody jumps.
UpdateIsForOneProcessor ==
    /\ update \in {"write", "sent"} => nodes[FirstWithFlags].port = LoaderPort
    /\ closed \subseteq {LoaderPort}
    /\ fwPort = NoPort => closed = {} /\ update \notin {"write", "sent"}

\* An update that has begun ends with the system shut down, whatever fails on
\* the way and however full the log is, unless the power fails first.  The loader is
\* taken to end: nothing limits the time of a download of its file.
UpdateEnds == update = "stop" ~> phase \in {"shutdown", "off"}
=============================================================================
