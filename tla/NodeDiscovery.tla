---------------------------- MODULE NodeDiscovery ----------------------------
(***************************************************************************)
(* How the server finds its nodes when it starts: discover of              *)
(* src/interface/i2c_node.py, discoverserial of serial_node.py, and        *)
(* LTInterface.__init__, which reads from each node and sets it up.        *)
(*                                                                         *)
(* Each read may fail, after the retries of read_block.  What is not       *)
(* caught ends the server before it has served anyone.                     *)
(*                                                                         *)
(* Firmware of an API level below 34 is left out.                          *)
(***************************************************************************)
EXTENDS Naturals, Sequences

CONSTANTS
    Addresses,      \* number of I2C addresses that are tried, 8
    Ports,          \* serial ports: 1, the S32_BPill default, and others
    MaxModules,     \* modules behind one processor, 8
    MaxTries,       \* attempts at each baud rate, 4
    BaudRates       \* number of baud rates, 2

VARIABLES
    hw,             \* the hardware: [i2c, modules, s32]
    isS32BPillFlag,
    scan,           \* what is being looked for, and where
    serialPorts,    \* of the configuration, with the default port
    nodes,          \* self.nodes
    idxOffset,
    fwupd,          \* the port of fwupd_serial_obj, NoPort if it is None
    skipped,        \* history: an address or a port before the last node gave none;
                    \* the indices of serial nodes count the ports alone
    faults          \* how many reads or calls may still fail

NoPort == 0
DefaultPort == 1     \* /dev/serial0
Absent == 98        \* of a port: nothing answers there
OnI2C == 0          \* in place of the port of a node
NoIndex == 99       \* the node was given no settings; multi_node_index is -1

discoveryVars == <<hw, isS32BPillFlag, scan, serialPorts, nodes, idxOffset, fwupd, skipped>>

ASSUME DiscoveryAssumption ==
    /\ Addresses \in Nat \ {0} /\ MaxTries \in Nat \ {0} /\ BaudRates \in Nat \ {0}
    /\ 1 \in Ports /\ Ports \subseteq Nat \ {NoPort}
    /\ MaxModules \in 1 .. Absent - 1

\* A port is absent, or its processor has a number of modules.
Hardware == [i2c : [1 .. Addresses -> BOOLEAN], modules : [Ports -> (0 .. MaxModules) \cup {Absent}],
             s32 : BOOLEAN]

Scan(phase, at) == [phase |-> phase, at |-> at, baud |-> 1, tries |-> 0]
ScanPhases == {"none", "identify", "bus", "i2c", "serial", "port", "setup", "ready", "raised"}

Node(index, multi, port, fw) ==
    [index |-> index, multi_node_index |-> multi, port |-> port, fw |-> fw,
     settings |-> NoIndex, flags |-> FALSE]
ModuleIndices == 0 .. MaxModules - 1
Nodes == [index : Nat, multi_node_index : ModuleIndices \cup {NoIndex},
          port : Ports \cup {OnI2C}, fw : {"full", "noTimestamp", "none"},
          settings : ModuleIndices \cup {NoIndex}, flags : BOOLEAN]

DiscoveryInit ==
    /\ isS32BPillFlag = FALSE
    /\ scan = Scan("none", 0)
    /\ serialPorts = <<>>
    /\ nodes = <<>>
    /\ idxOffset = 0
    /\ fwupd = NoPort
    /\ skipped = FALSE

ForgetNodes ==
    /\ isS32BPillFlag' = FALSE
    /\ scan' = Scan("none", 0)
    /\ serialPorts' = <<>> /\ nodes' = <<>>
    /\ idxOffset' = 0 /\ fwupd' = NoPort /\ skipped' = FALSE

\* n of the faults that may still happen.
Fault(n) ==
    /\ n <= faults
    /\ faults' = faults - n

\* check_input_tied_low: the board ties the pin to ground; without GPIO the pin
\* reads as high.
TiedLow(gpio) == gpio /\ hw.s32

\* idAndLogSystemInfo: an exception leaves the flag False.
Identify ==
    /\ scan.phase = "identify"
    /\ \E gpio \in BOOLEAN :
          /\ Fault(IF gpio THEN 0 ELSE 1)
          /\ isS32BPillFlag' = TiedLow(gpio)
    /\ scan' = Scan("bus", 0)
    /\ UNCHANGED <<hw, serialPorts, nodes, idxOffset, fwupd, skipped>>

\* i2c_helper.create: without the bus, SMBus raises.
OpenBus ==
    /\ scan.phase = "bus"
    /\ \/ Fault(0) /\ scan' = Scan("i2c", 1)
       \/ Fault(1) /\ scan' = Scan("raised", 0)
    /\ UNCHANGED <<hw, isS32BPillFlag, serialPorts, nodes, idxOffset, fwupd, skipped>>

\* What read_firmware_version and read_firmware_timestamp got.
FirmwareRead(fw) ==
    \/ Fault(0) /\ fw = "full"
    \/ Fault(1) /\ fw \in {"noTimestamp", "none"}

\* After the last address, or on an S32_BPill without a first one.
AfterAddress(found) ==
    IF scan.at = Addresses \/ (isS32BPillFlag /\ found = <<>>)
    THEN IF found = <<>> THEN Scan("serial", 1) ELSE Scan("setup", 1)
    ELSE Scan("i2c", scan.at + 1)

\* IOError at the address, also of a node that misses the one read of it.
NoNodeAtAddress ==
    /\ scan.phase = "i2c"
    /\ Fault(IF hw.i2c[scan.at] THEN 1 ELSE 0)
    /\ scan' = AfterAddress(nodes)
    /\ skipped' = TRUE
    /\ UNCHANGED <<hw, isS32BPillFlag, serialPorts, nodes, idxOffset, fwupd>>

\* The revision code is read with None for the interface, and the retries of
\* I2CNode.read_block log to it: an IOError, or a second wrong checksum, raises
\* AttributeError, which is not the IOError that discover catches.
ReadRaises ==
    /\ Fault(1)
    /\ scan' = Scan("raised", 0)
    /\ UNCHANGED nodes

I2CNodeFound ==
    /\ scan.phase = "i2c" /\ hw.i2c[scan.at]
    /\ \/ \E fw \in {"full", "noTimestamp", "none"} :
             /\ FirmwareRead(fw)
             /\ LET found == Append(nodes, Node(scan.at - 1 + idxOffset, NoIndex, OnI2C, fw))
                IN  nodes' = found /\ scan' = AfterAddress(found)
       \/ ReadRaises
    /\ UNCHANGED <<hw, isS32BPillFlag, serialPorts, idxOffset, fwupd, skipped>>

\* The ports of the configuration, or the default one of an S32_BPill.
SerialPorts(configured) ==
    IF isS32BPillFlag /\ configured = <<>> THEN <<1>> ELSE configured

BeginSerial(configured) ==
    /\ scan.phase = "serial"
    /\ serialPorts' = SerialPorts(configured)
    /\ scan' = IF serialPorts' = <<>> THEN Scan("ready", 0) ELSE Scan("port", 1)
    /\ skipped' = FALSE
    /\ UNCHANGED <<hw, isS32BPillFlag, nodes, idxOffset, fwupd, faults>>

Port == serialPorts[scan.at]
AfterPort(found) ==
    IF scan.at < Len(serialPorts) THEN Scan("port", scan.at + 1)
    ELSE IF found = <<>> THEN Scan("ready", 0) ELSE Scan("setup", 1)

\* open() is outside the try: what it raises ends the server at the first try.
OpenRaises ==
    /\ scan.phase = "port"
    /\ Fault(1)
    /\ scan' = Scan("raised", 0)
    /\ UNCHANGED <<hw, isS32BPillFlag, serialPorts, nodes, idxOffset, fwupd, skipped>>

\* No revision code: again, at the other baud rate, or on to the next port.
NoRevisionCode ==
    /\ scan.phase = "port"
    /\ Fault(IF hw.modules[Port] = Absent THEN 0 ELSE 1)
    /\ LET last == scan.tries + 1 = MaxTries
       IN  /\ scan' = IF ~last THEN [scan EXCEPT !.tries = @ + 1]
                      ELSE IF scan.baud < BaudRates
                           THEN [scan EXCEPT !.baud = @ + 1, !.tries = 0]
                           ELSE AfterPort(nodes)
           /\ skipped' = (skipped \/ (last /\ scan.baud = BaudRates))
    /\ UNCHANGED <<hw, isS32BPillFlag, serialPorts, nodes, idxOffset, fwupd>>

\* Faulty variant: the offset does not count the further modules.
OffsetPerPort(count) == 0

\* The further modules of a processor move the indices of the ports after it.
Further(count) == IF count > 1 THEN count - 1 ELSE 0

\* The count of modules: one that is not read, or is out of range, is 1.  None
\* leaves the processor out; set_info_node_obj_fn is never among the kwargs.
ProcessorFound ==
    /\ scan.phase = "port"
    /\ hw.modules[Port] # Absent
    /\ \E count \in {hw.modules[Port], 1}, fw \in {"full", "noTimestamp", "none"} :
          LET first == scan.at - 1 + idxOffset
              found == nodes \o
                  IF count = 1 THEN <<Node(first, NoIndex, Port, fw)>>
                  ELSE [n \in 1 .. count |-> Node(first + n - 1, n - 1, Port, fw)]
          IN  /\ IF count = hw.modules[Port] THEN FirmwareRead(fw)
                 ELSE fw = "full" /\ Fault(1)
              /\ nodes' = found
              /\ scan' = AfterPort(found)
              /\ idxOffset' = idxOffset + Further(count)
              /\ skipped' = (skipped \/ count = 0)
    /\ UNCHANGED <<hw, isS32BPillFlag, serialPorts, fwupd>>

AfterNode == IF scan.at = Len(nodes) THEN Scan("ready", 0) ELSE Scan("setup", scan.at + 1)

\* Without the frequency of a node there is no server.
FrequencyUnread ==
    /\ scan.phase = "setup"
    /\ Fault(1)
    /\ scan' = Scan("raised", 0)
    /\ UNCHANGED <<hw, isS32BPillFlag, serialPorts, nodes, idxOffset, fwupd, skipped>>

\* A module of a multi-node processor gets the settings of its index there:
\* set_frequency and the others take that index for a place in the list.
WithSettings(list, n) ==
    IF list[n].multi_node_index = NoIndex THEN list
    ELSE [list EXCEPT ![list[n].multi_node_index + 1].settings = list[n].multi_node_index]

\* The feature flags.  The firmware of an STM32 has all of them, that of an
\* Arduino, which has one receiver, none; if they are not read, they stay 0.
\* The first node that has them gives its port to the firmware update.
SetupNode ==
    /\ scan.phase = "setup"
    /\ \E flags \in BOOLEAN :
          /\ Fault(IF flags \/ nodes[scan.at].multi_node_index = NoIndex THEN 0 ELSE 1)
          /\ nodes' = [WithSettings(nodes, scan.at) EXCEPT ![scan.at].flags = flags]
          /\ fwupd' = IF flags /\ fwupd = NoPort /\ nodes[scan.at].port # OnI2C
                       THEN nodes[scan.at].port ELSE fwupd
    /\ scan' = AfterNode
    /\ UNCHANGED <<hw, isS32BPillFlag, serialPorts, idxOffset, skipped>>

Discover(configured) ==
    \/ Identify \/ OpenBus \/ NoNodeAtAddress \/ I2CNodeFound
    \/ BeginSerial(configured) \/ OpenRaises \/ NoRevisionCode
    \/ ProcessorFound \/ FrequencyUnread \/ SetupNode
=============================================================================
