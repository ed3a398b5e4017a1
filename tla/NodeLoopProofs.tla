--------------------------- MODULE NodeLoopProofs ---------------------------
(***************************************************************************)
(* Proofs about the Arduino node's loop, for any settings, any values of a *)
(* byte and any number of power failures: no setting is forgotten on a     *)
(* serial link, and the EEPROM restores only what the host had set.        *)
(***************************************************************************)
EXTENDS NodeLoop, TLAPS

\* The check word is missing only until setup() has written every word.
BootInv == ~checkword => pc \in {"boot", "write", "writeHigh"}

\* Over serial no bit but COMM_ACTIVITY goes up during a pass.
QuietInv ==
    link = "serial" =>
       /\ pc # "idle" => flags \subseteq {"COMM_ACTIVITY"}
       /\ FREQ_CHANGED \in flags => "FREQ_SET" \in flags

\* Where a threshold that the EEPROM lacks is still remembered.
LevelInv ==
    link = "serial" => \A p \in Params :
       /\ pc = "idle" => p \in flags \/ Stored(p)
       /\ pc \in {"readFreq", "tune", "freqLow", "freqHigh", "monitor"} =>
             p \in changeFlags \/ Stored(p)
       /\ pc \in {"restore", "write", "writeHigh"} => p \in todo \/ Stored(p)
       /\ pc \in {"initRx", "clear"} => Stored(p)

\* Where a frequency that the EEPROM lacks is still remembered.
FreqInv ==
    link = "serial" =>
       /\ pc = "idle" => FREQ_CHANGED \in flags \/ Stored(FREQ_CHANGED)
       /\ pc \in {"readFreq", "tune"} => FREQ_CHANGED \in changeFlags \/ Stored(FREQ_CHANGED)
       /\ pc \in {"tune", "freqLow", "freqHigh"} => val = setting[FREQ_CHANGED]
       /\ pc = "freqHigh" => eeprom[FREQ_CHANGED].lo = val.lo
       /\ pc \in {"restore", "write"} => FREQ_CHANGED \in todo \/ Stored(FREQ_CHANGED)
       /\ pc = "writeHigh" =>
             \/ FREQ_CHANGED \in todo
             \/ word # FREQ_CHANGED /\ Stored(FREQ_CHANGED)
             \/ word = FREQ_CHANGED /\ val = setting[FREQ_CHANGED]
                  /\ eeprom[FREQ_CHANGED].lo = val.lo
       /\ pc \in {"initRx", "monitor", "clear"} => Stored(FREQ_CHANGED)

\* Where a frequency that the receiver lacks is still remembered.
TunedInv ==
    link = "serial" =>
       /\ pc = "idle" => "FREQ_SET" \in flags \/ Tuned
       /\ pc \in {"freqLow", "freqHigh", "monitor", "clear"} => Tuned
       /\ pc \in {"write", "writeHigh"} /\ checkword => Tuned

SerialInv == QuietInv /\ LevelInv /\ FreqInv /\ TunedInv

\* Words made of bytes of the values a setting has had.
Lows(w) == {v.lo : v \in everSet[w]}
Highs(w) == {v.hi : v \in everSet[w]}
Mixed(w) == {[hi |-> h, lo |-> l] : h \in Highs(w), l \in Lows(w)}

\* A word the check word vouches for, or that setup() has already formatted,
\* holds such bytes; so does every value on its way there.
Formatted(w) ==
    \/ checkword
    \/ pc = "write" /\ w \notin todo
    \/ pc = "writeHigh" /\ w \notin todo /\ w # word

EverInv ==
    /\ \A p \in Params : \A v \in everSet[p] : v = Level(v.lo)
    /\ \A w \in Words : Default(w) \in everSet[w]

BytesInv ==
    /\ \A w \in Words : setting[w] \in Mixed(w)
    /\ \A p \in Params : setting[p] \in everSet[p]
    /\ \A w \in Words : Formatted(w) => eeprom[w] \in Mixed(w)
    /\ pc = "writeHigh" => val \in Mixed(word) /\ eeprom[word].lo \in Lows(word)
    /\ pc \in {"tune", "freqLow", "freqHigh"} => val \in Mixed(FREQ_CHANGED)

-----------------------------------------------------------------------------
(* Types.                                                                  *)

LEMMA WordFields == \A v \in Word : v.hi \in Byte /\ v.lo \in Byte
  BY DEF Word

LEMMA LevelType == \A b \in Byte : Level(b) \in Word
  BY NodeLoopAssumption DEF Level, Word

LEMMA DefaultType == \A w \in Words : Default(w) \in Word
  BY LevelType, NodeLoopAssumption DEF Default

LEMMA FlagNames ==
    /\ FREQ_CHANGED \in Words /\ FREQ_CHANGED \notin Params
    /\ "FREQ_SET" \notin Words /\ "COMM_ACTIVITY" \notin Words
    /\ Words \subseteq Flags /\ "FREQ_SET" \in Flags
    /\ Activity \subseteq Flags /\ "LAPSTATS_READ" \in Flags
    /\ Activity \cap Words = {} /\ "FREQ_SET" \notin Activity
  BY NodeLoopAssumption DEF FREQ_CHANGED, Words, Flags, Activity

LEMMA FreqWord == FREQ_CHANGED \in Words
  BY FlagNames

LEMMA ResetTypes ==
    /\ [w \in Words |-> Default(w)] \in [Words -> Word]
    /\ [w \in Words |-> [hi |-> ErasedByte, lo |-> ErasedByte]] \in [Words -> Word]
    /\ [w \in Words |-> {Default(w)}] \in [Words -> SUBSET Word]
    /\ [on |-> FALSE, age |-> 0] \in [on : BOOLEAN, age : 0 .. MonitorLimit]
    /\ DefaultFreq \in Word
  <1>1. [hi |-> ErasedByte, lo |-> ErasedByte] \in Word
    BY NodeLoopAssumption DEF Word
  <1>2. QED
    BY <1>1, DefaultType, NodeLoopAssumption

LEMMA InitTypeOK == Init => TypeOK
  <1>1. SUFFICES ASSUME Init PROVE TypeOK
    OBVIOUS
  <1>2. /\ setting \in [Words -> Word]
        /\ eeprom \in [Words -> Word]
        /\ everSet \in [Words -> SUBSET Word]
        /\ monitor \in [on : BOOLEAN, age : 0 .. MonitorLimit]
    BY <1>1, ResetTypes, Zenon DEF Init
  <1>3. val \in Word /\ rxFreq \in Word /\ word \in Words
    BY <1>1, ResetTypes, FreqWord, Zenon DEF Init
  <1>4. QED
    BY <1>1, <1>2, <1>3 DEF Init, TypeOK, Locations

\* Writing one byte of a word leaves a word.
LEMMA ByteWrite ==
  ASSUME eeprom \in [Words -> Word], NEW w \in Words, NEW b \in Byte
  PROVE  /\ [eeprom EXCEPT ![w].lo = b] \in [Words -> Word]
         /\ [eeprom EXCEPT ![w].hi = b] \in [Words -> Word]
  BY DEF Word

LEMMA SetupTypeOK == TypeOK /\ Setup => TypeOK'
  <1>1. TypeOK /\ Boot => TypeOK'
    BY DEF TypeOK, Boot, Locations, rxVars, eeVars, hostVars
  <1>2. TypeOK /\ Restore => TypeOK'
    <2>1. SUFFICES ASSUME TypeOK, Restore PROVE TypeOK'
      OBVIOUS
    <2>2. setting' \in [Words -> Word]
      BY <2>1, LevelType, WordFields DEF TypeOK, Restore
    <2>3. QED
      BY <2>1, <2>2 DEF TypeOK, Restore, Locations, rxVars, eeVars, hostVars
  <1>3. TypeOK /\ WriteCheckword => TypeOK'
    BY DEF TypeOK, WriteCheckword, Locations, rxVars, hostVars, loopVars
  <1>4. TypeOK /\ InitRx => TypeOK'
    BY FreqWord DEF TypeOK, InitRx, SetRxModuleToFreq, Locations, eeVars, hostVars, loopVars
  <1>5. QED
    BY <1>1, <1>2, <1>3, <1>4 DEF Setup

LEMMA WriteTypeOK == TypeOK /\ (WriteLow \/ WriteHigh) => TypeOK'
  <1>1. TypeOK /\ WriteLow => TypeOK'
    <2>1. SUFFICES ASSUME TypeOK, WriteLow PROVE TypeOK'
      OBVIOUS
    <2>2. PICK w \in todo : /\ word' = w
                           /\ val' = setting[w]
                           /\ todo' = todo \ {w}
                           /\ eeprom' = [eeprom EXCEPT ![w].lo = setting[w].lo]
      BY <2>1 DEF WriteLow
    <2>3. w \in Words /\ setting[w] \in Word
      BY <2>1, <2>2 DEF TypeOK
    <2>4. eeprom' \in [Words -> Word]
      BY <2>1, <2>2, <2>3, ByteWrite, WordFields DEF TypeOK
    <2>5. QED
      BY <2>1, <2>2, <2>3, <2>4 DEF TypeOK, WriteLow, Locations, rxVars, hostVars
  <1>2. TypeOK /\ WriteHigh => TypeOK'
    <2>1. SUFFICES ASSUME TypeOK, WriteHigh PROVE TypeOK'
      OBVIOUS
    <2>2. eeprom' \in [Words -> Word]
      BY <2>1, ByteWrite, WordFields DEF TypeOK, WriteHigh
    <2>3. QED
      BY <2>1, <2>2, FlagNames, NodeLoopAssumption
         DEF TypeOK, WriteHigh, Locations, rxVars, hostVars
  <1>3. QED
    BY <1>1, <1>2

LEMMA LoopTypeOK == TypeOK /\ Loop => TypeOK'
  <1>1. TypeOK /\ Snapshot => TypeOK'
    BY DEF TypeOK, Snapshot, Locations, rxVars, eeVars, hostVars
  <1>2. TypeOK /\ ReadFreq => TypeOK'
    BY FlagNames DEF TypeOK, ReadFreq, Locations, rxVars, eeVars, hostVars
  <1>3. TypeOK /\ Tune => TypeOK'
    BY DEF TypeOK, Tune, SetRxModuleToFreq, Locations, loopVars, eeVars, hostVars
  <1>4. TypeOK /\ (FreqLow \/ FreqHigh) => TypeOK'
    <2>1. SUFFICES ASSUME TypeOK, FreqLow \/ FreqHigh PROVE TypeOK'
      OBVIOUS
    <2>2. eeprom' \in [Words -> Word]
      <3>1. eeprom \in [Words -> Word] /\ val.lo \in Byte /\ val.hi \in Byte
        BY <2>1, WordFields DEF TypeOK
      <3>2. QED
        <4>1. /\ [eeprom EXCEPT ![FREQ_CHANGED].lo = val.lo] \in [Words -> Word]
              /\ [eeprom EXCEPT ![FREQ_CHANGED].hi = val.hi] \in [Words -> Word]
          BY <3>1, ByteWrite, FreqWord
        <4>2. QED
          BY <2>1, <4>1, Zenon DEF FreqLow, FreqHigh
    <2>3. QED
      BY <2>1, <2>2 DEF TypeOK, FreqLow, FreqHigh, Locations, loopVars, rxVars, hostVars
  <1>5. TypeOK /\ Monitor => TypeOK'
    <2>1. SUFFICES ASSUME TypeOK, Monitor PROVE TypeOK'
      OBVIOUS
    <2>2. monitor' \in [on : BOOLEAN, age : 0 .. MonitorLimit]
      <3>1. 0 \in 0 .. MonitorLimit
        BY NodeLoopAssumption
      <3>2. CASE monitor.on /\ "COMM_ACTIVITY" \in changeFlags
        BY <2>1, <3>1, <3>2 DEF TypeOK, Monitor
      <3>3. CASE monitor.on /\ "COMM_ACTIVITY" \notin changeFlags
        BY <2>1, <3>1, <3>3, NodeLoopAssumption DEF TypeOK, Monitor
      <3>4. CASE ~monitor.on
        BY <2>1, <3>1, <3>4 DEF TypeOK, Monitor
      <3>5. QED
        BY <3>2, <3>3, <3>4
    <2>3. QED
      BY <2>1, <2>2, NodeLoopAssumption DEF TypeOK, Monitor, Locations, Words, rxVars, eeVars, hostVars
  <1>6. TypeOK /\ (LedStays \/ LedTick) => TypeOK'
    BY DEF TypeOK, LedStays, LedTick, PassEnds, Locations, rxVars, eeVars, hostVars
  <1>7. TypeOK /\ ClearFlags => TypeOK'
    BY DEF TypeOK, ClearFlags, Locations, loopVars, rxVars, eeVars, hostVars
  <1>8. QED
    BY <1>1, <1>2, <1>3, <1>4, <1>5, <1>6, <1>7 DEF Loop

LEMMA CommandTypeOK == TypeOK /\ Command => TypeOK'
  <1>1. ASSUME TypeOK, NEW w \in Words, NEW v \in Word, NEW bits \in SUBSET Flags,
               Write(w, v, bits)
        PROVE  TypeOK'
    BY <1>1, FlagNames DEF TypeOK, Write, loopVars, rxVars, eeVars, hostVars
  <1>2. TypeOK /\ WriteFrequency => TypeOK'
    BY <1>1, FlagNames, NodeLoopAssumption DEF WriteFrequency
  <1>3. TypeOK /\ WriteLevel => TypeOK'
    BY <1>1, LevelType, NodeLoopAssumption DEF WriteLevel, Words
  <1>4. TypeOK /\ (ReadLapStats \/ OtherCommand) => TypeOK'
    BY FlagNames DEF TypeOK, ReadLapStats, OtherCommand, loopVars, rxVars, eeVars, hostVars
  <1>5. QED
    BY <1>2, <1>3, <1>4 DEF Command

LEMMA PowerCycleTypeOK == TypeOK /\ PowerCycle => TypeOK'
  <1>1. SUFFICES ASSUME TypeOK, PowerCycle PROVE TypeOK'
    OBVIOUS
  <1>2. setting' \in [Words -> Word] /\ monitor' \in [on : BOOLEAN, age : 0 .. MonitorLimit]
    BY <1>1, ResetTypes, Zenon DEF PowerCycle
  <1>3. val' \in Word /\ rxFreq' \in Word /\ word' \in Words
    BY <1>1, ResetTypes, FreqWord, Zenon DEF PowerCycle
  <1>4. outages' \in Nat
    BY <1>1 DEF TypeOK, PowerCycle
  <1>5. /\ eeprom' = eeprom /\ checkword' = checkword /\ link' = link
        /\ hostSilent' = hostSilent /\ everSet' = everSet
        /\ flags' = {} /\ changeFlags' = {} /\ todo' = {} /\ oldActFlag' = FALSE
        /\ crossingFlag' = FALSE /\ rxPoweredDown' = FALSE /\ activatedFlag' = FALSE /\ pc' = "boot"
    BY <1>1 DEF PowerCycle, eeVars
  <1>6. QED
    BY <1>1, <1>2, <1>3, <1>4, <1>5 DEF TypeOK, Locations

\* setup(), loop() and the command handlers keep every setting, every EEPROM
\* word and the age of the comms monitor in range.
THEOREM TypeCorrect == Spec => []TypeOK
  <1>1. TypeOK /\ [Next]_vars => TypeOK'
    <2>1. TypeOK /\ Next => TypeOK'
      <3>1. TypeOK /\ HostFallsSilent => TypeOK'
        BY DEF TypeOK, HostFallsSilent, loopVars, rxVars, eeVars
      <3>2. QED
        BY <3>1, SetupTypeOK, WriteTypeOK, LoopTypeOK, CommandTypeOK, PowerCycleTypeOK
           DEF Next, Processor
    <2>2. TypeOK /\ UNCHANGED vars => TypeOK'
      BY DEF TypeOK, vars, loopVars, rxVars, eeVars, hostVars
    <2>3. QED
      BY <2>1, <2>2
  <1>2. QED
    BY <1>1, InitTypeOK, PTL DEF Spec

-----------------------------------------------------------------------------
(* Nothing is forgotten over serial.                                       *)

LEMMA InitSerial == Init => BootInv /\ SerialInv
  BY DEF Init, BootInv, SerialInv, QuietInv, LevelInv, FreqInv, TunedInv

LEMMA BootStep == TypeOK /\ BootInv /\ [Next]_vars => BootInv'
  BY DEF TypeOK, BootInv, Next, vars, Processor, Setup, Loop, Command, Boot, Restore,
         WriteCheckword, InitRx, WriteLow, WriteHigh, Snapshot, ReadFreq, Tune, FreqLow,
         FreqHigh, Monitor, LedStays, LedTick, PassEnds, ClearFlags, WriteFrequency,
         WriteLevel, Write, ReadLapStats, OtherCommand, HostFallsSilent, PowerCycle,
         loopVars, rxVars, eeVars, hostVars

LEMMA SerialAtIdle == link = "serial" /\ Command => pc = "idle" /\ pc' = "idle"
  BY DEF Command, WriteFrequency, WriteLevel, Write, ReadLapStats, OtherCommand,
         CommandPoint

LEMMA QuietStep == TypeOK /\ QuietInv /\ Next => QuietInv'
  <1>1. SUFFICES ASSUME TypeOK, QuietInv, Next, link = "serial" PROVE QuietInv'
    BY DEF QuietInv, Next, Processor, Setup, Loop, Command, Boot, Restore,
         WriteCheckword, InitRx, WriteLow, WriteHigh, Snapshot, ReadFreq, Tune, FreqLow,
         FreqHigh, Monitor, LedStays, LedTick, PassEnds, ClearFlags, WriteFrequency,
         WriteLevel, Write, ReadLapStats, OtherCommand, HostFallsSilent, PowerCycle,
         hostVars
  <1>2. CASE Setup \/ WriteLow \/ WriteHigh
    BY <1>1, <1>2 DEF QuietInv, Setup, Boot, Restore, WriteCheckword, InitRx, WriteLow,
         WriteHigh, FREQ_CHANGED
  <1>3. CASE Loop
    <2>1. CASE Snapshot
      BY <1>1, <2>1 DEF QuietInv, Snapshot, FREQ_CHANGED
    <2>2. CASE ReadFreq \/ Tune \/ FreqLow \/ FreqHigh \/ Monitor
      BY <1>1, <2>2 DEF QuietInv, ReadFreq, Tune, FreqLow, FreqHigh, Monitor, FREQ_CHANGED
    <2>3. CASE LedStays \/ LedTick
      BY <1>1, <2>3 DEF QuietInv, LedStays, LedTick, PassEnds, FREQ_CHANGED
    <2>4. CASE ClearFlags
      BY <1>1, <2>4 DEF QuietInv, ClearFlags, FREQ_CHANGED
    <2>5. QED
      BY <1>3, <2>1, <2>2, <2>3, <2>4 DEF Loop
  <1>4. CASE Command
    <2>1. ASSUME NEW w \in Words, NEW v \in Word, NEW bits,
                 Write(w, v, bits), bits = {} \/ bits = {"FREQ_SET"},
                 w = FREQ_CHANGED => bits = {"FREQ_SET"}
          PROVE  FREQ_CHANGED \in flags' => "FREQ_SET" \in flags'
      BY <1>1, <2>1, FlagNames DEF QuietInv, Write
    <2>2. FREQ_CHANGED \in flags' => "FREQ_SET" \in flags'
      <3>1. CASE WriteFrequency
        BY <2>1, <3>1, FlagNames, NodeLoopAssumption DEF WriteFrequency
      <3>2. CASE WriteLevel
        BY <2>1, <3>2, FlagNames, LevelType, NodeLoopAssumption DEF WriteLevel, Words
      <3>3. CASE ReadLapStats \/ OtherCommand
        BY <1>1, <3>3, FlagNames DEF ReadLapStats, OtherCommand, QuietInv, FREQ_CHANGED
      <3>4. QED
        BY <1>4, <3>1, <3>2, <3>3 DEF Command
    <2>3. QED
      BY <1>1, <1>4, <2>2, SerialAtIdle DEF QuietInv
  <1>5. CASE HostFallsSilent \/ PowerCycle
    BY <1>1, <1>5 DEF QuietInv, HostFallsSilent, PowerCycle
  <1>6. QED
    BY <1>1, <1>2, <1>3, <1>4, <1>5 DEF Next, Processor

\* A command that changes a setting raises its bit; the EEPROM waits.
LEMMA CommandKeepsStored ==
  ASSUME TypeOK, Command, NEW w \in Words
  PROVE  /\ flags \subseteq flags'
         /\ w \in flags' \/ setting'[w] = setting[w]
         /\ eeprom' = eeprom
  <1>1. ASSUME NEW x \in Words, NEW v \in Word, NEW bits, Write(x, v, bits)
        PROVE  /\ flags \subseteq flags'
               /\ w \in flags' \/ setting'[w] = setting[w]
               /\ eeprom' = eeprom
    <2>1. setting' = [setting EXCEPT ![x] = v]
      BY <1>1 DEF Write
    <2>2. x = w /\ v # setting[x] => w \in flags'
      BY <1>1 DEF Write
    <2>3. setting'[w] = IF x = w THEN v ELSE setting[w]
      BY <2>1 DEF TypeOK
    <2>4. flags \subseteq flags' /\ eeprom' = eeprom
      BY <1>1 DEF Write, eeVars
    <2>5. QED
      BY <2>2, <2>3, <2>4
  <1>2. CASE WriteFrequency
    BY <1>1, <1>2, FlagNames, NodeLoopAssumption DEF WriteFrequency
  <1>3. CASE WriteLevel
    BY <1>1, <1>3, LevelType, NodeLoopAssumption DEF WriteLevel, Words
  <1>4. CASE ReadLapStats \/ OtherCommand
    BY <1>4 DEF ReadLapStats, OtherCommand, eeVars
  <1>5. QED
    BY <1>2, <1>3, <1>4 DEF Command

LEMMA LevelStep == TypeOK /\ BootInv /\ QuietInv /\ LevelInv /\ Next => LevelInv'
  <1>1. SUFFICES ASSUME TypeOK, BootInv, LevelInv, Next, link = "serial", link' = link,
                        NEW p \in Params
                 PROVE  /\ pc' = "idle" => p \in flags' \/ Stored(p)'
                        /\ pc' \in {"readFreq", "tune", "freqLow", "freqHigh", "monitor"} =>
                              p \in changeFlags' \/ Stored(p)'
                        /\ pc' \in {"restore", "write", "writeHigh"} =>
                              p \in todo' \/ Stored(p)'
                        /\ pc' \in {"initRx", "clear"} => Stored(p)'
    BY DEF LevelInv, Next, Processor, Setup, Loop, Command, Boot, Restore,
         WriteCheckword, InitRx, WriteLow, WriteHigh, Snapshot, ReadFreq, Tune, FreqLow,
         FreqHigh, Monitor, LedStays, LedTick, PassEnds, ClearFlags, WriteFrequency,
         WriteLevel, Write, ReadLapStats, OtherCommand, HostFallsSilent, PowerCycle,
         hostVars
  <1>2. p \in Words /\ p # FREQ_CHANGED
    BY FlagNames DEF Words
  <1>3. UNCHANGED <<setting, eeprom>> => Stored(p)' = Stored(p)
    BY DEF Stored
  <1>4. CASE Boot \/ WriteCheckword \/ InitRx
    BY <1>1, <1>2, <1>3, <1>4 DEF LevelInv, Boot, WriteCheckword, InitRx, eeVars, loopVars
  <1>5. CASE Restore
    <2>1. PICK w \in todo : setting' = [setting EXCEPT ![w] =
                                 IF w = FREQ_CHANGED THEN eeprom[w] ELSE Level(eeprom[w].lo)]
                         /\ todo' = todo \ {w}
                         /\ pc' = IF todo = {w} THEN "initRx" ELSE "restore"
      BY <1>5 DEF Restore
    <2>2. eeprom' = eeprom
      BY <1>5 DEF Restore, eeVars
    <2>3. CASE p = w
      <3>1. setting'[p] = Level(eeprom[p].lo)
        BY <1>1, <1>2, <2>1, <2>3 DEF TypeOK
      <3>2. Stored(p)'
        BY <1>2, <2>2, <3>1 DEF Stored, Level
      <3>3. QED
        BY <2>1, <3>2
    <2>4. CASE p # w
      <3>1. setting'[p] = setting[p]
        BY <1>1, <1>2, <2>1, <2>4 DEF TypeOK
      <3>2. Stored(p)' = Stored(p)
        BY <1>2, <2>2, <3>1 DEF Stored
      <3>3. p \in todo \/ Stored(p)
        BY <1>1, <1>5 DEF LevelInv, Restore
      <3>4. QED
        BY <2>1, <2>4, <3>2, <3>3
    <2>5. QED
      BY <2>3, <2>4
  <1>6. CASE WriteLow
    <2>1. PICK w \in todo : /\ todo' = todo \ {w}
                         /\ eeprom' = [eeprom EXCEPT ![w].lo = setting[w].lo]
      BY <1>6 DEF WriteLow
    <2>2. setting' = setting /\ pc = "write" /\ pc' = "writeHigh" /\ w \in Words
      BY <1>1, <1>6, <2>1 DEF WriteLow, TypeOK
    <2>3. eeprom'[p].lo = IF p = w THEN setting[p].lo ELSE eeprom[p].lo
      BY <1>1, <1>2, <2>1, <2>2 DEF TypeOK, Word
    <2>4. p \in todo \/ Stored(p)
      BY <1>1, <2>2 DEF LevelInv
    <2>5. QED
      BY <1>2, <2>1, <2>2, <2>3, <2>4 DEF Stored
  <1>7. CASE WriteHigh
    <2>1. eeprom'[p].lo = eeprom[p].lo
      BY <1>1, <1>2, <1>7 DEF TypeOK, Word, WriteHigh
    <2>2. QED
      BY <1>1, <1>2, <1>7, <2>1 DEF LevelInv, WriteHigh, Stored
  <1>8. CASE FreqLow \/ FreqHigh
    <2>1. eeprom'[p] = eeprom[p]
      BY <1>1, <1>2, <1>8, FlagNames DEF TypeOK, Word, FreqLow, FreqHigh
    <2>2. QED
      BY <1>1, <1>2, <1>8, <2>1 DEF LevelInv, FreqLow, FreqHigh, Stored, loopVars
  <1>9. CASE Snapshot \/ ReadFreq \/ Tune
    BY <1>1, <1>3, <1>9 DEF LevelInv, Snapshot, ReadFreq, Tune, eeVars, loopVars
  <1>10. CASE Monitor
    BY <1>1, <1>3, <1>10 DEF LevelInv, Monitor, eeVars
  <1>11. CASE LedStays \/ LedTick \/ ClearFlags
    BY <1>1, <1>3, <1>11 DEF LevelInv, LedStays, LedTick, PassEnds, ClearFlags, eeVars, loopVars
  <1>12. CASE Command
    <2>1. /\ pc = "idle" /\ pc' = "idle"
          /\ flags \subseteq flags'
          /\ p \in flags' \/ setting'[p] = setting[p]
          /\ eeprom' = eeprom
      BY <1>1, <1>2, <1>12, SerialAtIdle, CommandKeepsStored
    <2>2. QED
      BY <1>1, <1>2, <2>1 DEF LevelInv, Stored
  <1>13. CASE HostFallsSilent
    BY <1>1, <1>3, <1>13 DEF LevelInv, HostFallsSilent, eeVars, loopVars
  <1>14. CASE PowerCycle
    BY <1>14 DEF PowerCycle
  <1>15. QED
    BY <1>1, <1>4, <1>5, <1>6, <1>7, <1>8, <1>9, <1>10, <1>11, <1>12, <1>13, <1>14
       DEF Next, Processor, Setup, Loop

LEMMA LinkFixed == Next => link' = link
  BY DEF Next, Processor, Setup, Loop, Command, Boot, Restore,
         WriteCheckword, InitRx, WriteLow, WriteHigh, Snapshot, ReadFreq, Tune, FreqLow,
         FreqHigh, Monitor, LedStays, LedTick, PassEnds, ClearFlags, WriteFrequency,
         WriteLevel, Write, ReadLapStats, OtherCommand, HostFallsSilent, PowerCycle,
         hostVars

LEMMA FreqStep == TypeOK /\ BootInv /\ QuietInv /\ FreqInv /\ Next => FreqInv'
  <1>1. SUFFICES ASSUME TypeOK, BootInv, QuietInv, FreqInv, Next,
                        link = "serial", link' = link
                 PROVE  FreqInv'
    BY LinkFixed DEF FreqInv
  <1>2. FREQ_CHANGED \in Words /\ FREQ_CHANGED \notin Params
    BY FlagNames
  <1>3. UNCHANGED <<setting, eeprom>> => Stored(FREQ_CHANGED)' = Stored(FREQ_CHANGED)
    BY DEF Stored
  <1>4. CASE Boot \/ WriteCheckword \/ InitRx
    BY <1>1, <1>2, <1>3, <1>4 DEF FreqInv, Boot, WriteCheckword, InitRx, eeVars, loopVars
  <1>5. CASE Restore
    <2>1. PICK w \in todo : setting' = [setting EXCEPT ![w] =
                                 IF w = FREQ_CHANGED THEN eeprom[w] ELSE Level(eeprom[w].lo)]
                         /\ todo' = todo \ {w}
                         /\ pc' = IF todo = {w} THEN "initRx" ELSE "restore"
      BY <1>5 DEF Restore
    <2>2. eeprom' = eeprom
      BY <1>5 DEF Restore, eeVars
    <2>3. CASE w = FREQ_CHANGED
      <3>1. setting'[FREQ_CHANGED] = eeprom[FREQ_CHANGED]
        BY <1>1, <1>2, <2>1, <2>3 DEF TypeOK
      <3>2. QED
        BY <2>1, <2>2, <3>1 DEF FreqInv, Stored
    <2>4. CASE w # FREQ_CHANGED
      <3>1. setting'[FREQ_CHANGED] = setting[FREQ_CHANGED]
        BY <1>1, <1>2, <2>1, <2>4 DEF TypeOK
      <3>2. Stored(FREQ_CHANGED)' = Stored(FREQ_CHANGED)
        BY <2>2, <3>1 DEF Stored
      <3>3. FREQ_CHANGED \in todo \/ Stored(FREQ_CHANGED)
        BY <1>1, <1>5 DEF FreqInv, Restore
      <3>4. QED
        BY <2>1, <2>4, <3>2, <3>3 DEF FreqInv
    <2>5. QED
      BY <2>3, <2>4
  <1>6. CASE WriteLow
    <2>1. PICK w \in todo : /\ word' = w
                         /\ val' = setting[w]
                         /\ todo' = todo \ {w}
                         /\ eeprom' = [eeprom EXCEPT ![w].lo = setting[w].lo]
      BY <1>6 DEF WriteLow
    <2>2. setting' = setting /\ pc = "write" /\ pc' = "writeHigh" /\ w \in Words
      BY <1>1, <1>6, <2>1 DEF WriteLow, TypeOK
    <2>3. CASE w = FREQ_CHANGED
      <3>1. eeprom'[FREQ_CHANGED].lo = setting[FREQ_CHANGED].lo
        BY <1>1, <1>2, <2>1, <2>2, <2>3 DEF TypeOK, Word
      <3>2. QED
        BY <2>1, <2>2, <2>3, <3>1 DEF FreqInv
    <2>4. CASE w # FREQ_CHANGED
      <3>1. eeprom'[FREQ_CHANGED] = eeprom[FREQ_CHANGED]
        BY <1>1, <1>2, <2>1, <2>2, <2>4 DEF TypeOK, Word
      <3>2. FREQ_CHANGED \in todo \/ Stored(FREQ_CHANGED)
        BY <1>1, <2>2 DEF FreqInv
      <3>3. QED
        BY <2>1, <2>2, <2>4, <3>1, <3>2 DEF FreqInv, Stored
    <2>5. QED
      BY <2>3, <2>4
  <1>7. CASE WriteHigh
    <2>1. setting' = setting /\ todo' = todo /\ pc = "writeHigh" /\ pc' = "write"
          /\ word \in Words /\ eeprom' = [eeprom EXCEPT ![word].hi = val.hi]
      BY <1>1, <1>7 DEF WriteHigh, TypeOK
    <2>2. CASE FREQ_CHANGED \in todo
      BY <2>1, <2>2 DEF FreqInv
    <2>3. CASE word # FREQ_CHANGED /\ Stored(FREQ_CHANGED)
      <3>1. eeprom'[FREQ_CHANGED] = eeprom[FREQ_CHANGED]
        BY <1>1, <1>2, <2>1, <2>3 DEF TypeOK, Word
      <3>2. QED
        BY <2>1, <2>3, <3>1 DEF FreqInv, Stored
    <2>4. CASE word = FREQ_CHANGED /\ val = setting[FREQ_CHANGED]
               /\ eeprom[FREQ_CHANGED].lo = val.lo
      <3>1. eeprom'[FREQ_CHANGED] = setting[FREQ_CHANGED]
        BY <1>1, <1>2, <2>1, <2>4 DEF TypeOK, Word
      <3>2. QED
        BY <2>1, <3>1 DEF FreqInv, Stored
    <2>5. QED
      BY <1>1, <2>1, <2>2, <2>3, <2>4 DEF FreqInv
  <1>8. CASE FreqLow
    <2>1. eeprom'[FREQ_CHANGED].lo = val.lo
      BY <1>1, <1>2, <1>8 DEF TypeOK, Word, FreqLow
    <2>2. QED
      BY <1>1, <1>8, <2>1 DEF FreqInv, FreqLow, loopVars
  <1>9. CASE FreqHigh
    <2>1. eeprom'[FREQ_CHANGED] = setting[FREQ_CHANGED]
      <3>1. val = setting[FREQ_CHANGED] /\ eeprom[FREQ_CHANGED].lo = val.lo
        BY <1>1, <1>9 DEF FreqInv, FreqHigh
      <3>2. QED
        BY <1>1, <1>2, <1>9, <3>1 DEF TypeOK, Word, FreqHigh
    <2>2. setting' = setting /\ pc' = "monitor"
      BY <1>9 DEF FreqHigh
    <2>3. QED
      BY <2>1, <2>2 DEF FreqInv, Stored
  <1>10. CASE Snapshot
    BY <1>1, <1>3, <1>10 DEF FreqInv, QuietInv, Snapshot, eeVars
  <1>11. CASE ReadFreq \/ Tune
    BY <1>1, <1>3, <1>11 DEF FreqInv, ReadFreq, Tune, eeVars, loopVars
  <1>12. CASE Monitor \/ LedStays \/ LedTick \/ ClearFlags
    BY <1>1, <1>2, <1>3, <1>12
       DEF FreqInv, Monitor, LedStays, LedTick, PassEnds, ClearFlags, eeVars, loopVars
  <1>13. CASE Command
    <2>1. /\ pc = "idle" /\ pc' = "idle"
          /\ flags \subseteq flags'
          /\ FREQ_CHANGED \in flags' \/ setting'[FREQ_CHANGED] = setting[FREQ_CHANGED]
          /\ eeprom' = eeprom
      BY <1>1, <1>2, <1>13, SerialAtIdle, CommandKeepsStored
    <2>2. QED
      BY <1>1, <2>1 DEF FreqInv, Stored
  <1>14. CASE HostFallsSilent
    BY <1>1, <1>3, <1>14 DEF FreqInv, HostFallsSilent, eeVars, loopVars
  <1>15. CASE PowerCycle
    BY <1>15 DEF PowerCycle, FreqInv
  <1>16. QED
    BY <1>1, <1>4, <1>5, <1>6, <1>7, <1>8, <1>9, <1>10, <1>11, <1>12, <1>13, <1>14, <1>15
       DEF Next, Processor, Setup, Loop

\* A frequency command always asks for a tuning; no other changes the frequency.
LEMMA CommandKeepsTuned ==
  ASSUME TypeOK, Command
  PROVE  /\ flags \subseteq flags'
         /\ "FREQ_SET" \in flags' \/ setting'[FREQ_CHANGED] = setting[FREQ_CHANGED]
         /\ UNCHANGED rxVars
  <1>1. CASE WriteFrequency
    BY <1>1 DEF WriteFrequency, Write
  <1>2. CASE WriteLevel
    <2>1. PICK w \in Params, b \in Levels : Write(w, Level(b), {})
      BY <1>2 DEF WriteLevel
    <2>2. setting' = [setting EXCEPT ![w] = Level(b)] /\ flags \subseteq flags' /\ UNCHANGED rxVars
      BY <2>1 DEF Write
    <2>3. w # FREQ_CHANGED
      BY FlagNames
    <2>4. setting'[FREQ_CHANGED] = setting[FREQ_CHANGED]
      BY <2>2, <2>3, FreqWord DEF TypeOK
    <2>5. QED
      BY <2>2, <2>4
  <1>3. CASE ReadLapStats \/ OtherCommand
    BY <1>3 DEF ReadLapStats, OtherCommand
  <1>4. QED
    BY <1>1, <1>2, <1>3 DEF Command

LEMMA TunedStep == TypeOK /\ BootInv /\ QuietInv /\ FreqInv /\ TunedInv /\ Next => TunedInv'
  <1>1. SUFFICES ASSUME TypeOK, BootInv, FreqInv, TunedInv, Next,
                        link = "serial", link' = link
                 PROVE  TunedInv'
    BY LinkFixed DEF TunedInv
  <1>2. setting'[FREQ_CHANGED] = setting[FREQ_CHANGED] /\ UNCHANGED rxVars => Tuned' = Tuned
    BY DEF Tuned, rxVars
  <1>3. CASE Boot \/ Restore \/ WriteCheckword
    BY <1>1, <1>3 DEF TunedInv, Boot, Restore, WriteCheckword, eeVars
  <1>4. CASE InitRx
    BY <1>1, <1>4 DEF TunedInv, InitRx, SetRxModuleToFreq, Tuned
  <1>5. CASE WriteLow \/ WriteHigh
    BY <1>1, <1>2, <1>5 DEF TunedInv, WriteLow, WriteHigh
  <1>6. CASE Snapshot \/ ReadFreq
    BY <1>1, <1>2, <1>6 DEF TunedInv, Snapshot, ReadFreq
  <1>7. CASE Tune
    <2>1. val = setting[FREQ_CHANGED]
      BY <1>1, <1>7 DEF FreqInv, Tune
    <2>2. Tuned'
      BY <1>7, <2>1 DEF Tune, SetRxModuleToFreq, Tuned
    <2>3. QED
      BY <1>7, <2>2 DEF Tune, TunedInv
  <1>8. CASE FreqLow \/ FreqHigh \/ Monitor
    BY <1>1, <1>2, <1>8 DEF TunedInv, FreqLow, FreqHigh, Monitor
  <1>9. CASE LedStays \/ LedTick \/ ClearFlags
    BY <1>1, <1>2, <1>9 DEF TunedInv, LedStays, LedTick, PassEnds, ClearFlags
  <1>10. CASE Command
    BY <1>1, <1>2, <1>10, SerialAtIdle, CommandKeepsTuned DEF TunedInv
  <1>11. CASE HostFallsSilent
    BY <1>1, <1>2, <1>11 DEF TunedInv, HostFallsSilent, eeVars
  <1>12. CASE PowerCycle
    BY <1>12 DEF PowerCycle, TunedInv
  <1>13. QED
    BY <1>1, <1>3, <1>4, <1>5, <1>6, <1>7, <1>8, <1>9, <1>10, <1>11, <1>12
       DEF Next, Processor, Setup, Loop

\* Over serial, whenever a pass ends, each setting the host has written is in
\* the EEPROM and the receiver, or a bit in settingChangedFlags still says it
\* is to go there; also across power failures.
THEOREM NothingForgotten == Spec => []SerialSettled
  <1>1. TypeOK /\ BootInv /\ SerialInv /\ [Next]_vars => SerialInv'
    <2>1. CASE Next
      BY <2>1, QuietStep, LevelStep, FreqStep, TunedStep DEF SerialInv
    <2>2. CASE UNCHANGED vars
      BY <2>2 DEF SerialInv, QuietInv, LevelInv, FreqInv, TunedInv, Stored, Tuned,
           vars, loopVars, rxVars, eeVars, hostVars
    <2>3. QED
      BY <2>1, <2>2
  <1>2. SerialInv => SerialSettled
    BY FlagNames DEF SerialInv, LevelInv, FreqInv, TunedInv, SerialSettled, Settled, Words
  <1>3. QED
    BY <1>1, <1>2, InitSerial, BootStep, TypeCorrect, PTL DEF Spec

-----------------------------------------------------------------------------
(* What the EEPROM restores.                                               *)

LEMMA InitBytes == Init => EverInv /\ BytesInv
  <1>1. SUFFICES ASSUME Init PROVE EverInv /\ BytesInv
    OBVIOUS
  <1>2. \A w \in Words : everSet[w] = {Default(w)} /\ setting[w] = Default(w)
    BY <1>1 DEF Init
  <1>3. \A w \in Words : setting[w] \in Mixed(w)
    <2>1. TAKE w \in Words
    <2>2. Default(w) = [hi |-> Default(w).hi, lo |-> Default(w).lo]
      BY DefaultType DEF Word
    <2>3. QED
      BY <1>2, <2>2 DEF Mixed, Lows, Highs
  <1>4. \A p \in Params : Default(p) = Level(Default(p).lo)
    BY FlagNames DEF Default, Level
  <1>5. QED
    BY <1>1, <1>2, <1>3, <1>4, FlagNames DEF Init, EverInv, BytesInv, Formatted, Words

\* The history of a setting only grows, and every byte stays a byte of it.
LEMMA HistoryGrows ==
  ASSUME TypeOK, [Next]_vars, NEW w \in Words
  PROVE  everSet[w] \subseteq everSet'[w]
  <1>1. ASSUME NEW x \in Words, NEW v \in Word, NEW bits, Write(x, v, bits)
        PROVE  everSet[w] \subseteq everSet'[w]
    <2>1. everSet'[w] = IF x = w THEN everSet[w] \cup {v} ELSE everSet[w]
      BY <1>1 DEF TypeOK, Write
    <2>2. QED
      BY <2>1
  <1>2. CASE WriteFrequency
    BY <1>1, <1>2, FlagNames, NodeLoopAssumption DEF WriteFrequency
  <1>3. CASE WriteLevel
    BY <1>1, <1>3, LevelType, NodeLoopAssumption DEF WriteLevel, Words
  <1>4. CASE ~(WriteFrequency \/ WriteLevel)
    BY <1>4 DEF Next, vars, Processor, Setup, Loop, Command, Boot, Restore,
         WriteCheckword, InitRx, WriteLow, WriteHigh, Snapshot, ReadFreq, Tune, FreqLow,
         FreqHigh, Monitor, LedStays, LedTick, PassEnds, ClearFlags,
         ReadLapStats, OtherCommand, HostFallsSilent, PowerCycle
  <1>5. QED
    BY <1>2, <1>3, <1>4

LEMMA BytesGrow ==
  ASSUME TypeOK, [Next]_vars, NEW w \in Words
  PROVE  /\ Lows(w) \subseteq Lows(w)' /\ Highs(w) \subseteq Highs(w)'
         /\ Mixed(w) \subseteq Mixed(w)'
  <1>1. Lows(w) \subseteq Lows(w)' /\ Highs(w) \subseteq Highs(w)'
    BY HistoryGrows DEF Lows, Highs
  <1>2. QED
    BY <1>1 DEF Mixed

LEMMA MixedFields ==
  ASSUME NEW w \in Words, NEW v \in Mixed(w)
  PROVE  v.lo \in Lows(w) /\ v.hi \in Highs(w)
  BY DEF Mixed

\* Of the commands, only the write handlers touch the settings and the history.
LEMMA CommandBytes == TypeOK /\ EverInv /\ BytesInv /\ Command => EverInv' /\ BytesInv'
  <1>1. ASSUME TypeOK, EverInv, BytesInv, Command,
               NEW x \in Words, NEW u \in Word, NEW bits, Write(x, u, bits),
               x \in Params => u = Level(u.lo)
        PROVE  EverInv' /\ BytesInv'
    <2>1. /\ setting' = [setting EXCEPT ![x] = u]
          /\ everSet' = [everSet EXCEPT ![x] = @ \cup {u}]
          /\ UNCHANGED <<pc, val, word, todo, eeprom, checkword>>
      BY <1>1 DEF Write, loopVars, eeVars
    <2>2. \A w \in Words : /\ setting'[w] = IF w = x THEN u ELSE setting[w]
                           /\ everSet'[w] = IF w = x THEN everSet[w] \cup {u} ELSE everSet[w]
      BY <1>1, <2>1 DEF TypeOK
    <2>3. \A w \in Words : Lows(w) \subseteq Lows(w)' /\ Mixed(w) \subseteq Mixed(w)'
      BY <1>1, BytesGrow DEF Next
    <2>4. EverInv'
      <3>1. ASSUME NEW p \in Params, NEW v \in everSet'[p] PROVE v = Level(v.lo)
        <4>1. p \in Words
          BY DEF Words
        <4>2. everSet'[p] = IF p = x THEN everSet[p] \cup {u} ELSE everSet[p]
          BY <2>2, <4>1
        <4>3. v \in everSet[p] \/ (p = x /\ v = u)
          BY <3>1, <4>2
        <4>4. QED
          BY <1>1, <4>3 DEF EverInv
      <3>2. \A w \in Words : Default(w) \in everSet'[w]
        BY <1>1, <2>2 DEF EverInv
      <3>3. QED
        BY <3>1, <3>2 DEF EverInv
    <2>5. \A w \in Words : setting'[w] \in Mixed(w)'
      <3>1. TAKE w \in Words
      <3>2. CASE w = x
        <4>1. u = [hi |-> u.hi, lo |-> u.lo]
          BY DEF Word
        <4>2. u \in everSet'[w]
          BY <2>2, <3>2
        <4>3. u.hi \in Highs(w)' /\ u.lo \in Lows(w)'
          BY <4>2 DEF Lows, Highs
        <4>4. u \in Mixed(w)'
          BY <4>1, <4>3 DEF Mixed
        <4>5. QED
          BY <2>2, <3>2, <4>4
      <3>3. CASE w # x
        BY <1>1, <2>2, <2>3, <3>3 DEF BytesInv
      <3>4. QED
        BY <3>2, <3>3
    <2>6. \A p \in Params : setting'[p] \in everSet'[p]
      BY <1>1, <2>2 DEF BytesInv, Words
    <2>7. \A w \in Words : Formatted(w)' => eeprom'[w] \in Mixed(w)'
      BY <1>1, <2>1, <2>3 DEF BytesInv, Formatted
    <2>8. /\ pc' = "writeHigh" => val' \in Mixed(word)' /\ eeprom'[word'].lo \in Lows(word)'
          /\ pc' \in {"tune", "freqLow", "freqHigh"} => val' \in Mixed(FREQ_CHANGED)'
      <3>1. word \in Words
        BY <1>1 DEF TypeOK
      <3>2. Mixed(word) \subseteq Mixed(word)' /\ Lows(word) \subseteq Lows(word)'
        BY <2>1, <2>3, <3>1 DEF Mixed, Lows, Highs
      <3>3. QED
        BY <1>1, <2>1, <2>3, <3>2, FreqWord DEF BytesInv
    <2>9. QED
      BY <2>4, <2>5, <2>6, <2>7, <2>8 DEF BytesInv
  <1>2. SUFFICES ASSUME TypeOK, EverInv, BytesInv, Command PROVE EverInv' /\ BytesInv'
    OBVIOUS
  <1>3. CASE WriteFrequency
    BY <1>1, <1>2, <1>3, FlagNames, NodeLoopAssumption DEF WriteFrequency
  <1>4. CASE WriteLevel
    <2>1. PICK p \in Params, b \in Levels : Write(p, Level(b), {})
      BY <1>4 DEF WriteLevel
    <2>2. Level(b) \in Word /\ Level(b) = Level(Level(b).lo) /\ p \in Words
      BY LevelType, NodeLoopAssumption DEF Level, Words
    <2>3. QED
      BY <1>1, <1>2, <2>1, <2>2
  <1>5. CASE ReadLapStats \/ OtherCommand
    <2>1. UNCHANGED <<pc, setting, val, word, todo, eeprom, checkword, everSet>>
      BY <1>5 DEF ReadLapStats, OtherCommand, loopVars, eeVars
    <2>2. QED
      BY <1>2, <2>1 DEF EverInv, BytesInv, Formatted, Mixed, Lows, Highs
  <1>6. QED
    BY <1>2, <1>3, <1>4, <1>5 DEF Command

LEMMA BytesStep == TypeOK /\ BootInv /\ EverInv /\ BytesInv /\ Next => EverInv' /\ BytesInv'
  <1>1. SUFFICES ASSUME TypeOK, BootInv, EverInv, BytesInv, Next PROVE EverInv' /\ BytesInv'
    OBVIOUS
  <1>2. ASSUME UNCHANGED <<setting, everSet>>,
               \A w \in Words : Formatted(w)' => eeprom'[w] \in Mixed(w),
               pc' = "writeHigh" => val' \in Mixed(word') /\ eeprom'[word'].lo \in Lows(word'),
               pc' \in {"tune", "freqLow", "freqHigh"} => val' \in Mixed(FREQ_CHANGED)
        PROVE  EverInv' /\ BytesInv'
    BY <1>1, <1>2 DEF EverInv, BytesInv, Mixed, Lows, Highs
  <1>3. CASE Boot \/ WriteCheckword \/ InitRx
    BY <1>1, <1>2, <1>3
       DEF BytesInv, Formatted, BootInv, Boot, WriteCheckword, InitRx, loopVars, eeVars
  <1>4. CASE Restore
    <2>1. PICK x \in todo : setting' = [setting EXCEPT ![x] =
                               IF x = FREQ_CHANGED THEN eeprom[x] ELSE Level(eeprom[x].lo)]
      BY <1>4 DEF Restore
    <2>2. /\ UNCHANGED <<everSet, eeprom, checkword>> /\ pc = "restore" /\ checkword
          /\ pc' \in {"restore", "initRx"} /\ x \in Words
      BY <1>1, <1>4 DEF Restore, eeVars, BootInv, TypeOK
    <2>3. eeprom[x] \in Mixed(x)
      BY <1>1, <2>2 DEF BytesInv, Formatted
    <2>4. eeprom[x].lo \in Lows(x) /\ eeprom[x].hi \in Highs(x)
      BY <2>2, <2>3, MixedFields
    <2>5. x \in Params => Level(eeprom[x].lo) \in everSet[x] /\ Level(eeprom[x].lo) \in Mixed(x)
      <3>1. SUFFICES ASSUME x \in Params
                     PROVE  Level(eeprom[x].lo) \in everSet[x] /\ Level(eeprom[x].lo) \in Mixed(x)
        OBVIOUS
      <3>2. PICK v \in everSet[x] : v.lo = eeprom[x].lo
        BY <2>4 DEF Lows
      <3>3. v = Level(eeprom[x].lo)
        BY <1>1, <3>1, <3>2 DEF EverInv
      <3>4. v = [hi |-> v.hi, lo |-> v.lo] /\ v.hi \in Highs(x) /\ v.lo \in Lows(x)
        BY <3>3 DEF Level, Lows, Highs
      <3>5. QED
        BY <3>3, <3>4 DEF Mixed
    <2>6. setting'[x] \in Mixed(x) /\ (x \in Params => setting'[x] \in everSet[x])
      BY <1>1, <2>1, <2>2, <2>3, <2>5, FlagNames DEF TypeOK, Words
    <2>7. \A w \in Words : w # x => setting'[w] = setting[w]
      BY <1>1, <2>1 DEF TypeOK
    <2>8. QED
      BY <1>1, <2>2, <2>6, <2>7
         DEF EverInv, BytesInv, Formatted, Mixed, Lows, Highs, Words
  <1>5. CASE WriteLow
    <2>1. PICK x \in todo : /\ word' = x
                         /\ val' = setting[x]
                         /\ todo' = todo \ {x}
                         /\ eeprom' = [eeprom EXCEPT ![x].lo = setting[x].lo]
      BY <1>5 DEF WriteLow
    <2>2. UNCHANGED <<setting, everSet, checkword>> /\ pc = "write" /\ pc' = "writeHigh"
          /\ x \in Words
      BY <1>1, <1>5 DEF WriteLow, TypeOK
    <2>3. setting[x] \in Mixed(x) /\ setting[x].lo \in Lows(x)
      BY <1>1, <2>2, MixedFields DEF BytesInv
    <2>4. \A w \in Words : w # x => eeprom'[w] = eeprom[w]
      BY <1>1, <2>1 DEF TypeOK
    <2>5. eeprom'[x] = [hi |-> eeprom[x].hi, lo |-> setting[x].lo]
      BY <1>1, <2>1, <2>2 DEF TypeOK, Word
    <2>6. checkword => eeprom'[x] \in Mixed(x)
      <3>1. checkword => eeprom[x].hi \in Highs(x)
        BY <1>1, <2>2, MixedFields DEF BytesInv, Formatted
      <3>2. QED
        BY <2>3, <2>5, <3>1 DEF Mixed
    <2>7. \A w \in Words : Formatted(w)' => eeprom'[w] \in Mixed(w)
      BY <1>1, <2>1, <2>2, <2>4, <2>6 DEF BytesInv, Formatted
    <2>8. QED
      BY <1>2, <2>1, <2>2, <2>3, <2>5, <2>7
  <1>6. ASSUME NEW x \in Words, val \in Mixed(x), eeprom[x].lo \in Lows(x),
               eeprom' = [eeprom EXCEPT ![x].hi = val.hi]
        PROVE  /\ \A w \in Words : w # x => eeprom'[w] = eeprom[w]
               /\ eeprom'[x] \in Mixed(x)
    <2>1. eeprom'[x] = [hi |-> val.hi, lo |-> eeprom[x].lo]
      BY <1>1, <1>6 DEF TypeOK, Word
    <2>2. \A w \in Words : w # x => eeprom'[w] = eeprom[w]
      BY <1>1, <1>6 DEF TypeOK
    <2>3. val.hi \in Highs(x)
      BY <1>6, MixedFields
    <2>4. QED
      BY <1>6, <2>1, <2>2, <2>3 DEF Mixed
  <1>7. CASE WriteHigh
    <2>1. /\ UNCHANGED <<setting, everSet, todo, checkword>> /\ pc = "writeHigh" /\ pc' = "write"
          /\ word \in Words
          /\ eeprom' = [eeprom EXCEPT ![word].hi = val.hi]
      BY <1>1, <1>7 DEF WriteHigh, TypeOK
    <2>2. /\ \A w \in Words : w # word => eeprom'[w] = eeprom[w]
          /\ eeprom'[word] \in Mixed(word)
      BY <1>1, <1>6, <2>1 DEF BytesInv
    <2>3. \A w \in Words : Formatted(w)' => eeprom'[w] \in Mixed(w)
      BY <1>1, <2>1, <2>2 DEF BytesInv, Formatted
    <2>4. QED
      BY <1>2, <2>1, <2>3
  <1>8. CASE FreqLow
    <2>1. /\ UNCHANGED <<setting, everSet, val, todo, checkword>> /\ pc = "freqLow" /\ pc' = "freqHigh"
          /\ eeprom' = [eeprom EXCEPT ![FREQ_CHANGED].lo = val.lo] /\ checkword
      BY <1>1, <1>8 DEF FreqLow, loopVars, BootInv
    <2>2. val \in Mixed(FREQ_CHANGED) /\ eeprom[FREQ_CHANGED] \in Mixed(FREQ_CHANGED)
      BY <1>1, <2>1, FreqWord DEF BytesInv, Formatted
    <2>3. val.lo \in Lows(FREQ_CHANGED) /\ eeprom[FREQ_CHANGED].hi \in Highs(FREQ_CHANGED)
      BY <2>2, FreqWord, MixedFields
    <2>4. eeprom'[FREQ_CHANGED] = [hi |-> eeprom[FREQ_CHANGED].hi, lo |-> val.lo]
      BY <1>1, <2>1, FreqWord DEF TypeOK, Word
    <2>5. eeprom'[FREQ_CHANGED] \in Mixed(FREQ_CHANGED)
      BY <2>3, <2>4 DEF Mixed
    <2>6. \A w \in Words : w # FREQ_CHANGED => eeprom'[w] = eeprom[w]
      BY <1>1, <2>1 DEF TypeOK
    <2>7. \A w \in Words : Formatted(w)' => eeprom'[w] \in Mixed(w)
      BY <1>1, <2>1, <2>5, <2>6 DEF BytesInv, Formatted
    <2>8. QED
      BY <1>2, <2>1, <2>2, <2>7
  <1>9. CASE FreqHigh
    <2>1. /\ UNCHANGED <<setting, everSet, todo, checkword>> /\ pc = "freqHigh" /\ pc' = "monitor"
          /\ eeprom' = [eeprom EXCEPT ![FREQ_CHANGED].hi = val.hi] /\ checkword
      BY <1>1, <1>9 DEF FreqHigh, loopVars, BootInv
    <2>2. val \in Mixed(FREQ_CHANGED) /\ eeprom[FREQ_CHANGED] \in Mixed(FREQ_CHANGED)
      BY <1>1, <2>1, FreqWord DEF BytesInv, Formatted
    <2>3. eeprom[FREQ_CHANGED].lo \in Lows(FREQ_CHANGED)
      BY <2>2, FreqWord, MixedFields
    <2>4. /\ \A w \in Words : w # FREQ_CHANGED => eeprom'[w] = eeprom[w]
          /\ eeprom'[FREQ_CHANGED] \in Mixed(FREQ_CHANGED)
      BY <1>6, <2>1, <2>2, <2>3, FreqWord
    <2>5. \A w \in Words : Formatted(w)' => eeprom'[w] \in Mixed(w)
      BY <1>1, <2>1, <2>4 DEF BytesInv, Formatted
    <2>6. QED
      BY <1>2, <2>1, <2>5
  <1>10. CASE ReadFreq
    <2>1. setting[FREQ_CHANGED] \in Mixed(FREQ_CHANGED)
      BY <1>1, FreqWord DEF BytesInv
    <2>2. /\ UNCHANGED <<setting, everSet, eeprom, checkword, todo>>
          /\ pc = "readFreq" /\ pc' = "tune" /\ val' = setting[FREQ_CHANGED]
      BY <1>10 DEF ReadFreq, eeVars
    <2>3. QED
      BY <1>1, <1>2, <2>1, <2>2 DEF BytesInv, Formatted
  <1>11. CASE Snapshot \/ Tune \/ LedStays \/ LedTick \/ ClearFlags \/ HostFallsSilent
    <2>1. /\ UNCHANGED <<setting, everSet, eeprom, checkword, val, word, todo>>
          /\ pc' = pc \/ (pc' # "writeHigh" /\ checkword)
          /\ pc' \in {"tune", "freqLow", "freqHigh"} => pc \in {"tune", "freqLow", "freqHigh"}
      BY <1>1, <1>11 DEF Snapshot, Tune, LedStays, LedTick, PassEnds, ClearFlags,
           HostFallsSilent, BootInv, loopVars, eeVars
    <2>2. QED
      BY <1>1, <1>2, <2>1 DEF BytesInv, Formatted
  <1>12. CASE Monitor
    <2>1. UNCHANGED <<setting, everSet, eeprom, checkword>> /\ pc' = "write" /\ checkword
      BY <1>1, <1>12 DEF Monitor, BootInv, eeVars
    <2>2. QED
      BY <1>1, <1>2, <2>1 DEF BytesInv, Formatted
  <1>13. CASE Command
    BY <1>1, <1>13, CommandBytes
  <1>14. CASE PowerCycle
    <2>1. UNCHANGED <<everSet, eeprom, checkword>> /\ pc' = "boot" /\
          setting' = [w \in Words |-> Default(w)]
      BY <1>14 DEF PowerCycle, eeVars
    <2>2. \A w \in Words : Default(w) \in everSet[w] /\ Default(w) \in Mixed(w)
      <3>1. TAKE w \in Words
      <3>2. Default(w) = [hi |-> Default(w).hi, lo |-> Default(w).lo]
        BY DefaultType DEF Word
      <3>3. Default(w) \in everSet[w]
        BY <1>1 DEF EverInv
      <3>4. Default(w).hi \in Highs(w) /\ Default(w).lo \in Lows(w)
        BY <3>3 DEF Highs, Lows
      <3>5. QED
        BY <3>2, <3>3, <3>4 DEF Mixed
    <2>3. \A w \in Words : setting'[w] \in Mixed(w) /\ setting'[w] \in everSet[w]
      BY <2>1, <2>2
    <2>4. \A w \in Words : Formatted(w)' => eeprom'[w] \in Mixed(w)
      BY <1>1, <2>1 DEF BytesInv, Formatted
    <2>5. EverInv' /\ \A w \in Words : Mixed(w)' = Mixed(w)
      BY <1>1, <2>1 DEF EverInv, Mixed, Lows, Highs
    <2>6. \A w \in Words : Formatted(w)' => eeprom'[w] \in Mixed(w)'
      BY <2>4, <2>5
    <2>7. \A w \in Words : setting'[w] \in Mixed(w)'
      BY <2>3, <2>5
    <2>8. \A p \in Params : setting'[p] \in everSet'[p]
      BY <2>1, <2>3 DEF Words
    <2>9. QED
      BY <2>1, <2>5, <2>6, <2>7, <2>8 DEF BytesInv
  <1>15. QED
    BY <1>1, <1>3, <1>4, <1>5, <1>7, <1>8, <1>9, <1>10, <1>11, <1>12, <1>13, <1>14
       DEF Next, Processor, Setup, Loop

\* After any number of power failures, at any step of an EEPROM write, each
\* threshold is one the host had set or the default, and the two bytes of the
\* frequency are bytes of such frequencies.
THEOREM RestoresWhatWasSet == Spec => []RestoredWasSet
  <1>1. TypeOK /\ BootInv /\ EverInv /\ BytesInv /\ [Next]_vars => EverInv' /\ BytesInv'
    <2>1. CASE Next
      BY <2>1, BytesStep
    <2>2. CASE UNCHANGED vars
      BY <2>2 DEF EverInv, BytesInv, Formatted, Mixed, Lows, Highs, vars, loopVars, eeVars
    <2>3. QED
      BY <2>1, <2>2
  <1>2. BytesInv => RestoredWasSet
    <2>1. SUFFICES ASSUME BytesInv PROVE RestoredWasSet
      OBVIOUS
    <2>2. setting[FREQ_CHANGED] \in Mixed(FREQ_CHANGED)
      BY <2>1, FreqWord DEF BytesInv
    <2>3. PICK h \in Highs(FREQ_CHANGED), l \in Lows(FREQ_CHANGED) :
                  setting[FREQ_CHANGED] = [hi |-> h, lo |-> l]
      BY <2>2 DEF Mixed
    <2>4. PICK v \in everSet[FREQ_CHANGED], w \in everSet[FREQ_CHANGED] : h = v.hi /\ l = w.lo
      BY DEF Highs, Lows
    <2>5. \E v2, w2 \in everSet[FREQ_CHANGED] :
             setting[FREQ_CHANGED] = [hi |-> v2.hi, lo |-> w2.lo]
      BY <2>3, <2>4
    <2>6. QED
      BY <2>1, <2>5 DEF BytesInv, RestoredWasSet
  <1>3. QED
    BY <1>1, <1>2, InitBytes, InitSerial, BootStep, TypeCorrect, PTL DEF Spec
=============================================================================
