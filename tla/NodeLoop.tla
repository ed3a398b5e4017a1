------------------------------ MODULE NodeLoop ------------------------------
(***************************************************************************)
(* How a host's settings reach the receiver and the EEPROM of an Arduino   *)
(* node: setup() and loop() of src/node/ltnode.cpp with the handlers of    *)
(* src/node/commands.cpp.                                                  *)
(*                                                                         *)
(* A command stores the new value in RAM and raises bits of                *)
(* settingChangedFlags.  A pass of the loop takes a snapshot of the bits,  *)
(* clears them, tunes the receiver and writes the EEPROM.  Over serial,    *)
(* commands are handled between two passes; over I2C an interrupt handles  *)
(* them between any two steps, and from early in setup().                  *)
(*                                                                         *)
(* A word of the EEPROM is named for the bit that says it must be written. *)
(* The power may fail at any step; the EEPROM keeps its bytes.             *)
(***************************************************************************)
EXTENDS Naturals

CONSTANTS
    Links,                 \* the links a host may use: "serial", "i2c"
    Params,                \* the thresholds, named for their bits
    Byte,                  \* values of a byte
    ErasedByte, ZeroByte,  \* a byte never written (0xff), and 0
    Freqs,                 \* frequencies the host writes, all in range
    PowerDown,             \* the frequency that turns the receiver off (1111)
    DefaultFreq,           \* RssiNode.h: the frequency before any is set
    Levels,                \* values the host writes to a threshold
    DefaultLevel,          \* RssiNode.h: its value before any is set
    MonitorLimit,          \* passes without a command before the bus is reset
    MaxOutages             \* bound: power failures

FREQ_CHANGED == "FREQ_CHANGED"
Words == Params \cup {FREQ_CHANGED}
Word == [hi : Byte, lo : Byte]
Level(b) == [hi |-> ZeroByte, lo |-> b]
Flags == Words \cup {"FREQ_SET", "COMM_ACTIVITY", "LAPSTATS_READ", "SERIAL_CMD_MSG"}

ASSUME NodeLoopAssumption ==
    /\ Links \subseteq {"serial", "i2c"}
    /\ Params \subseteq {"TT_CHANGED", "CT_CHANGED", "CO_CHANGED"}
    /\ ErasedByte \in Byte /\ ZeroByte \in Byte
    /\ Freqs \subseteq Word
    /\ PowerDown \in Word /\ DefaultFreq \in Word
    /\ Levels \subseteq Byte /\ DefaultLevel \in Byte
    /\ MonitorLimit \in Nat /\ MaxOutages \in Nat

VARIABLES
    link,            \* the link in use
    pc,              \* where setup() or loop() is
    setting,         \* Settings, in RAM
    flags,           \* settingChangedFlags
    changeFlags,     \* the loop's snapshot of them
    oldActFlag,      \* activatedFlag when the snapshot was taken
    crossingFlag,    \* what rssiProcess has returned in this pass
    val,             \* the frequency or the word the loop is working on
    word,            \* the EEPROM word being written
    todo,            \* EEPROM words still to read or write
    rxFreq, rxPoweredDown,   \* the receiver's register; powered down by us
    activatedFlag,
    eeprom,          \* the bytes of every word
    checkword,       \* the check word is in place
    monitor,         \* comms monitor: [on, age], age in passes
    hostSilent,      \* environment: the host has stopped talking for good
    outages,         \* environment: power failures so far
    everSet          \* history: all that each setting has been set to

loopVars == <<changeFlags, oldActFlag, crossingFlag, val, word, todo>>
rxVars == <<rxFreq, rxPoweredDown>>
eeVars == <<eeprom, checkword>>
hostVars == <<link, hostSilent, outages>>
vars == <<pc, setting, flags, loopVars, rxVars, activatedFlag, eeVars, monitor,
          hostVars, everSet>>

Default(w) == IF w = FREQ_CHANGED THEN DefaultFreq ELSE Level(DefaultLevel)

\* A new board.
Init ==
    /\ pc = "boot"
    /\ setting = [w \in Words |-> Default(w)]
    /\ flags = {}
    /\ changeFlags = {}
    /\ oldActFlag = FALSE
    /\ crossingFlag = FALSE
    /\ val = DefaultFreq
    /\ word = FREQ_CHANGED
    /\ todo = {}
    /\ rxFreq = DefaultFreq
    /\ rxPoweredDown = FALSE
    /\ activatedFlag = FALSE
    /\ monitor = [on |-> FALSE, age |-> 0]
    /\ eeprom = [w \in Words |-> [hi |-> ErasedByte, lo |-> ErasedByte]]
    /\ checkword = FALSE
    /\ link \in Links
    /\ hostSilent = FALSE
    /\ outages = 0
    /\ everSet = [w \in Words |-> {Default(w)}]

\* RAM and receiver start again.
PowerCycle ==
    /\ outages < MaxOutages
    /\ outages' = outages + 1
    /\ pc' = "boot"
    /\ setting' = [w \in Words |-> Default(w)]
    /\ flags' = {}
    /\ changeFlags' = {}
    /\ oldActFlag' = FALSE
    /\ crossingFlag' = FALSE
    /\ val' = DefaultFreq
    /\ word' = FREQ_CHANGED
    /\ todo' = {}
    /\ rxFreq' = DefaultFreq
    /\ rxPoweredDown' = FALSE
    /\ activatedFlag' = FALSE
    /\ monitor' = [on |-> FALSE, age |-> 0]
    /\ UNCHANGED <<eeVars, link, hostSilent, everSet>>

-----------------------------------------------------------------------------
(* setup()                                                                 *)

Boot ==
    /\ pc = "boot"
    /\ todo' = Words
    /\ pc' = IF checkword THEN "restore" ELSE "write"
    /\ UNCHANGED <<setting, flags, changeFlags, oldActFlag, crossingFlag, val, word, rxVars,
                   activatedFlag, eeVars, monitor, hostVars, everSet>>

\* A threshold is a byte: the setter drops the upper byte of its word.
Restore ==
    /\ pc = "restore"
    /\ \E w \in todo :
          /\ setting' = [setting EXCEPT ![w] =
                            IF w = FREQ_CHANGED THEN eeprom[w] ELSE Level(eeprom[w].lo)]
          /\ todo' = todo \ {w}
          /\ pc' = IF todo = {w} THEN "initRx" ELSE "restore"
    /\ UNCHANGED <<flags, changeFlags, oldActFlag, crossingFlag, val, word, rxVars,
                   activatedFlag, eeVars, monitor, hostVars, everSet>>

\* Faulty variant: the check word goes in first.
WriteCheckwordEarly ==
    /\ pc = "write"
    /\ ~checkword
    /\ checkword' = TRUE
    /\ pc' = "write"
    /\ UNCHANGED <<setting, flags, loopVars, rxVars, activatedFlag, eeprom, monitor,
                   hostVars, everSet>>

\* The check word goes in after the words it vouches for.
WriteCheckword ==
    /\ pc = "write"
    /\ ~checkword
    /\ todo = {}
    /\ checkword' = TRUE
    /\ pc' = "initRx"
    /\ UNCHANGED <<setting, flags, loopVars, rxVars, activatedFlag, eeprom, monitor,
                   hostVars, everSet>>

\* Faulty variant: a receiver that was turned off stays off.
SetRxModuleToFreqAsleep(freq) ==
    IF setting[FREQ_CHANGED] = PowerDown
    THEN rxPoweredDown' = TRUE /\ UNCHANGED rxFreq
    ELSE UNCHANGED rxPoweredDown /\ rxFreq' = freq

\* setRxModuleToFreq(freq): the test for power down looks at the setting.
SetRxModuleToFreq(freq) ==
    IF setting[FREQ_CHANGED] = PowerDown
    THEN rxPoweredDown' = TRUE /\ UNCHANGED rxFreq
    ELSE rxPoweredDown' = FALSE /\ rxFreq' = freq

InitRx ==
    /\ pc = "initRx"
    /\ SetRxModuleToFreq(setting[FREQ_CHANGED])
    /\ pc' = "idle"
    /\ UNCHANGED <<setting, flags, loopVars, activatedFlag, eeVars, monitor, hostVars, everSet>>

-----------------------------------------------------------------------------
(* eepromWriteWord, low byte first.  The setting is read as each call is   *)
(* made.  The order of the words is fixed in the code; nothing rests on it.*)

WriteLow ==
    /\ pc = "write"
    /\ \E w \in todo :
          /\ word' = w
          /\ val' = setting[w]
          /\ todo' = todo \ {w}
          /\ eeprom' = [eeprom EXCEPT ![w].lo = setting[w].lo]
    /\ pc' = "writeHigh"
    /\ UNCHANGED <<setting, flags, changeFlags, oldActFlag, crossingFlag, rxVars, activatedFlag,
                   checkword, monitor, hostVars, everSet>>

WriteHigh ==
    /\ pc = "writeHigh"
    /\ eeprom' = [eeprom EXCEPT ![word].hi = val.hi]
    /\ val' = DefaultFreq
    /\ word' = FREQ_CHANGED
    /\ pc' = "write"
    /\ UNCHANGED <<setting, flags, changeFlags, oldActFlag, crossingFlag, todo, rxVars, activatedFlag,
                   checkword, monitor, hostVars, everSet>>

-----------------------------------------------------------------------------
(* loop()                                                                  *)

\* rssiProcess, which is LapDetect's: an activated node may be in a crossing,
\* and nothing is said here of how long.  Then take and clear the bits, in an
\* atomic block, all but COMM_ACTIVITY.
Snapshot ==
    /\ pc = "idle"
    /\ changeFlags' = flags
    /\ flags' = flags \cap {"COMM_ACTIVITY"}
    /\ oldActFlag' = activatedFlag
    /\ crossingFlag' \in IF activatedFlag THEN BOOLEAN ELSE {FALSE}
    /\ pc' = IF "FREQ_SET" \in flags THEN "readFreq" ELSE "monitor"
    /\ UNCHANGED <<setting, val, word, todo, rxVars, activatedFlag, eeVars, monitor,
                   hostVars, everSet>>

ReadFreq ==
    /\ pc = "readFreq"
    /\ val' = setting[FREQ_CHANGED]
    /\ pc' = "tune"
    /\ UNCHANGED <<setting, flags, changeFlags, oldActFlag, crossingFlag, word, todo, rxVars,
                   activatedFlag, eeVars, monitor, hostVars, everSet>>

Tune ==
    /\ pc = "tune"
    /\ SetRxModuleToFreq(val)
    /\ activatedFlag' = TRUE
    /\ pc' = IF FREQ_CHANGED \in changeFlags THEN "freqLow" ELSE "monitor"
    /\ UNCHANGED <<setting, flags, loopVars, eeVars, monitor, hostVars, everSet>>

FreqLow ==
    /\ pc = "freqLow"
    /\ eeprom' = [eeprom EXCEPT ![FREQ_CHANGED].lo = val.lo]
    /\ pc' = "freqHigh"
    /\ UNCHANGED <<setting, flags, loopVars, rxVars, activatedFlag, checkword, monitor,
                   hostVars, everSet>>

FreqHigh ==
    /\ pc = "freqHigh"
    /\ eeprom' = [eeprom EXCEPT ![FREQ_CHANGED].hi = val.hi]
    /\ pc' = "monitor"
    /\ UNCHANGED <<setting, flags, loopVars, rxVars, activatedFlag, checkword, monitor,
                   hostVars, everSet>>

\* Faulty variant: the time since the last activity is compared one too late.
MonitorLate ==
    /\ pc = "monitor"
    /\ activatedFlag' = (activatedFlag \/ "LAPSTATS_READ" \in changeFlags)
    /\ monitor' =
          CASE monitor.on /\ "COMM_ACTIVITY" \in changeFlags -> [monitor EXCEPT !.age = 0]
            [] monitor.on /\ "COMM_ACTIVITY" \notin changeFlags ->
                  IF monitor.age > MonitorLimit THEN [on |-> FALSE, age |-> 0]
                  ELSE [monitor EXCEPT !.age = @ + 1]
            [] OTHER -> [on |-> /\ oldActFlag
                                /\ "LAPSTATS_READ" \in changeFlags
                                /\ "SERIAL_CMD_MSG" \notin changeFlags,
                         age |-> 0]
    /\ todo' = changeFlags \cap Params
    /\ val' = DefaultFreq
    /\ pc' = "write"
    /\ UNCHANGED <<setting, flags, changeFlags, oldActFlag, crossingFlag, word, rxVars, eeVars,
                   hostVars, everSet>>

\* A poll of the lap statistics activates the node; over I2C it also starts
\* the communications monitor, which resets a bus that falls silent.
Monitor ==
    /\ pc = "monitor"
    /\ activatedFlag' = (activatedFlag \/ "LAPSTATS_READ" \in changeFlags)
    /\ monitor' =
          CASE monitor.on /\ "COMM_ACTIVITY" \in changeFlags -> [monitor EXCEPT !.age = 0]
            [] monitor.on /\ "COMM_ACTIVITY" \notin changeFlags ->
                  IF monitor.age >= MonitorLimit THEN [on |-> FALSE, age |-> 0]
                  ELSE [monitor EXCEPT !.age = @ + 1]
            [] OTHER -> [on |-> /\ oldActFlag
                                /\ "LAPSTATS_READ" \in changeFlags
                                /\ "SERIAL_CMD_MSG" \notin changeFlags,
                         age |-> 0]
    /\ todo' = changeFlags \cap Params
    /\ val' = DefaultFreq
    /\ pc' = "write"
    /\ UNCHANGED <<setting, flags, changeFlags, oldActFlag, crossingFlag, word, rxVars, eeVars,
                   hostVars, everSet>>

\* The end of a pass, whose own variables die here.
PassEnds ==
    /\ pc = "write"
    /\ checkword
    /\ todo = {}
    /\ changeFlags' = {}
    /\ oldActFlag' = FALSE
    /\ crossingFlag' = FALSE
    /\ UNCHANGED <<setting, flags, val, word, todo, rxVars, activatedFlag, eeVars, monitor,
                   hostVars, everSet>>

\* The status LED: during the first second, and off the 20 ms tick.
LedStays ==
    /\ PassEnds
    /\ pc' = "idle"

\* On the tick it shows a crossing before it shows activity; the bit stays up
\* until activity has been shown.
LedTick ==
    /\ PassEnds
    /\ pc' = IF ~crossingFlag /\ "COMM_ACTIVITY" \in changeFlags THEN "clear" ELSE "idle"

\* Faulty variant: the bit is left up.
ClearFlagsForgotten ==
    /\ pc = "clear"
    /\ pc' = "idle"
    /\ UNCHANGED <<setting, flags, loopVars, rxVars, activatedFlag, eeVars, monitor,
                   hostVars, everSet>>

\* The statement that clears COMM_ACTIVITY assigns 0.
ClearFlags ==
    /\ pc = "clear"
    /\ flags' = {}
    /\ pc' = "idle"
    /\ UNCHANGED <<setting, loopVars, rxVars, activatedFlag, eeVars, monitor, hostVars, everSet>>

-----------------------------------------------------------------------------
(* Commands.  An interrupt handler runs to its end before the loop resumes *)

\* Faulty variant: serial commands are handled inside a pass, too.
CommandPointInPass == ~hostSilent

CommandPoint ==
    /\ ~hostSilent
    /\ link = "i2c" \/ pc = "idle"

Activity == {"COMM_ACTIVITY"} \cup (IF link = "serial" THEN {"SERIAL_CMD_MSG"} ELSE {})

Write(w, v, bits) ==
    /\ CommandPoint
    /\ setting' = [setting EXCEPT ![w] = v]
    /\ flags' = flags \cup (IF v = setting[w] THEN {} ELSE {w}) \cup bits \cup Activity
    /\ everSet' = [everSet EXCEPT ![w] = @ \cup {v}]
    /\ UNCHANGED <<pc, loopVars, rxVars, activatedFlag, eeVars, monitor, hostVars>>

WriteFrequency == \E v \in Freqs : Write(FREQ_CHANGED, v, {"FREQ_SET"})

\* WRITE_TRIGGER_THRESHOLD, WRITE_CALIBRATION_THRESHOLD, WRITE_CALIBRATION_OFFSET.
WriteLevel == \E w \in Params, b \in Levels : Write(w, Level(b), {})

\* READ_LAP_STATS and READ_LAP_PASS_STATS.
ReadLapStats ==
    /\ CommandPoint
    /\ flags' = flags \cup {"LAPSTATS_READ"} \cup Activity
    /\ UNCHANGED <<pc, setting, loopVars, rxVars, activatedFlag, eeVars, monitor,
                   hostVars, everSet>>

\* Every other valid command counts as activity.
OtherCommand ==
    /\ CommandPoint
    /\ flags' = flags \cup Activity
    /\ UNCHANGED <<pc, setting, loopVars, rxVars, activatedFlag, eeVars, monitor,
                   hostVars, everSet>>

HostFallsSilent ==
    /\ ~hostSilent
    /\ hostSilent' = TRUE
    /\ UNCHANGED <<pc, setting, flags, loopVars, rxVars, activatedFlag, eeVars, monitor,
                   link, outages, everSet>>

-----------------------------------------------------------------------------
Setup == Boot \/ Restore \/ WriteCheckword \/ InitRx
Loop == Snapshot \/ ReadFreq \/ Tune \/ FreqLow \/ FreqHigh \/ Monitor
        \/ LedStays \/ LedTick \/ ClearFlags
Processor == Setup \/ WriteLow \/ WriteHigh \/ Loop
Command == WriteFrequency \/ WriteLevel \/ ReadLapStats \/ OtherCommand

Next == Processor \/ Command \/ HostFallsSilent \/ PowerCycle

Spec == Init /\ [][Next]_vars

\* The processor never stops, and passes keep falling on the 20 ms tick: there
\* is one in every millisecond.  Nothing is assumed of crossings.
FairSpec == Spec /\ WF_vars(Processor) /\ SF_vars(LedTick)

-----------------------------------------------------------------------------
Locations == {"boot", "restore", "write", "writeHigh", "initRx", "idle", "readFreq",
              "tune", "freqLow", "freqHigh", "monitor", "clear"}

\* Settings and the EEPROM hold words, flags only known bits.
TypeOK ==
    /\ link \in Links
    /\ pc \in Locations
    /\ setting \in [Words -> Word]
    /\ flags \subseteq Flags
    /\ changeFlags \subseteq Flags
    /\ oldActFlag \in BOOLEAN
    /\ crossingFlag \in BOOLEAN
    /\ val \in Word
    /\ word \in Words
    /\ todo \subseteq Words
    /\ rxFreq \in Word
    /\ rxPoweredDown \in BOOLEAN
    /\ activatedFlag \in BOOLEAN
    /\ eeprom \in [Words -> Word]
    /\ checkword \in BOOLEAN
    /\ monitor \in [on : BOOLEAN, age : 0 .. MonitorLimit]
    /\ hostSilent \in BOOLEAN
    /\ outages \in Nat
    /\ everSet \in [Words -> SUBSET Word]

Tuned == IF setting[FREQ_CHANGED] = PowerDown THEN rxPoweredDown
         ELSE ~rxPoweredDown /\ rxFreq = setting[FREQ_CHANGED]

Stored(w) == IF w = FREQ_CHANGED THEN eeprom[w] = setting[w]
             ELSE eeprom[w].lo = setting[w].lo

\* Between passes, a bit is still up for every setting that the receiver or
\* the EEPROM does not have yet: nothing the host wrote is forgotten.
Settled ==
    pc = "idle" => /\ "FREQ_SET" \in flags \/ Tuned
                   /\ \A w \in Words : w \in flags \/ Stored(w)

\* Over serial the node never forgets a setting, whatever the host sends and
\* whenever the power fails.
SerialSettled == link = "serial" => Settled

\* Whenever the power fails, a threshold is only ever one the host has set
\* (or the default), and a frequency has only bytes of such frequencies.
RestoredWasSet ==
    /\ \A p \in Params : setting[p] \in everSet[p]
    /\ \E v, w \in everSet[FREQ_CHANGED] : setting[FREQ_CHANGED] = [hi |-> v.hi, lo |-> w.lo]

\* A frequency command over serial ends with the receiver on the frequency.
FrequencyIsTuned == (link = "serial" /\ "FREQ_SET" \in flags) ~> Tuned

\* Once the host is silent, and the passes show no crossing any more, the
\* monitor resets the bus.  A crossing that never ends keeps the activity bit
\* up, and the bus is never reset.
SilentBusIsReset ==
    <>[]~crossingFlag => ((hostSilent /\ monitor.on) ~> ~monitor.on)
=============================================================================
