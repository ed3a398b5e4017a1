-------------------------- MODULE LapDetectProofs --------------------------
(***************************************************************************)
(* Proofs about the crossing detector.  Type correctness holds for both    *)
(* builds, and says more of the trigger where no interrupt can change the  *)
(* offset between two of its reads (TriggerFits).  What a lap means is     *)
(* proved for the builds in which commands wait for the loop               *)
(* (~Preemptive): by an invariant that says, for every location of the     *)
(* loop, what the peak, the trigger, the times and the history of the      *)
(* crossing have to do with each other.                                    *)
(***************************************************************************)
EXTENDS LapDetect, TLAPS

\* Where the sample is part of the peak, and where it is not yet.
InGate == {"peakTime", "peakTie", "threshold", "calibrate", "raise", "creep", "max", "keepPeak",
           "exitTest", "dropTest", "record", "clear"}
AtGate == {"gate", "peakTest"}
Leaving == {"clearCalib", "clearPeak"}

\* The loop raises the trigger by the offset whose difference it has tested.
TriggerFits ==
    ~Preemptive /\ pc = "raise" => rssiTrigger < rssi - settings.calibrationOffset

\* The crossing flag and the crossings still to be reported.
OwedInv ==
    /\ pc \in {"idle", "enterTest", "gate"} => owed = IF crossing THEN 1 ELSE 0
    /\ pc \in {"peakTest"} \cup (InGate \ {"clear"}) => crossing /\ owed = 1
    /\ pc = "clear" => crossing /\ owed = 0
    /\ pc \in Leaving \cup {"enter"} => ~crossing /\ owed = 0

\* The peak is the highest sample of the crossing, and the trigger below it
\* (or, before the sample is compared with the peak, below the sample).
PeakInv ==
    /\ pc \in {"idle", "enterTest", "enter", "gate"} /\ ~crossing => nodeRssiPeak = 0
    /\ pc = "enter" => rssi > rssiTrigger
    /\ pc \in {"idle", "enterTest"} /\ crossing =>
          nodeRssiPeak = seen.max /\ rssiTrigger <= nodeRssiPeak
    /\ pc \in AtGate /\ crossing =>
          nodeRssiPeak = seen.max /\ (rssiTrigger <= nodeRssiPeak \/ rssiTrigger < rssi)
    /\ pc \in InGate =>
          nodeRssiPeak = seen.max /\ rssi <= nodeRssiPeak /\ rssiTrigger <= nodeRssiPeak
    /\ pc = "keepPeak" => maxPeak = nodeRssiPeak

\* The time of the peak lies in the crossing, once the first sample has set it.
TimeInv ==
    /\ rssiTimestamp <= MaxTime
    /\ crossing => seen.first <= seen.last /\ seen.last <= rssiTimestamp
    /\ pc \in {"idle", "enterTest"} /\ crossing =>
          nodeRssiPeakTimestamp \in seen.first .. seen.last
    /\ pc \in AtGate /\ crossing =>
          (nodeRssiPeak = 0 /\ rssi > 0) \/ nodeRssiPeakTimestamp \in seen.first .. seen.last
    /\ pc \in InGate => seen.last = rssiTimestamp
    /\ pc \in InGate \ {"peakTime"} => nodeRssiPeakTimestamp \in seen.first .. seen.last

\* A calibration in progress when the loop ends a crossing saw it begin.
CalibInv ==
    crossing \/ pc \in Leaving => calibSeen

-----------------------------------------------------------------------------
(* Clock arithmetic.                                                       *)

\* Reducing a number modulo TimeMod yields a time.
LEMMA ModIsTime == \A n \in Int : n % TimeMod \in Time
  BY LapDetectAssumption DEF Time

\* The average the code takes of two times is a time, also when their sum wraps.
LEMMA CreepIsTime == \A t, p \in Time : Creep(t, p) \in Time
  <1>1. SUFFICES ASSUME NEW t \in Time, NEW p \in Time
                 PROVE  Creep(t, p) \in Time
    OBVIOUS
  <1>2. (t + p) % TimeMod \in Time
    BY ModIsTime DEF Time
  <1>3. \A n \in Time : n \div 2 \in Time
    BY LapDetectAssumption DEF Time
  <1>4. QED
    BY <1>2, <1>3 DEF Creep

\* While the sum of the times does not wrap, the average lies between them.
LEMMA CreepIsBetween ==
  ASSUME NEW t \in Nat, NEW p \in Nat, p <= t, t + p < TimeMod
  PROVE  p <= Creep(t, p) /\ Creep(t, p) <= t
  <1>1. (t + p) % TimeMod = t + p
    BY LapDetectAssumption
  <1>2. p <= (t + p) \div 2 /\ (t + p) \div 2 <= t
    OBVIOUS
  <1>3. QED
    BY <1>1, <1>2 DEF Creep

-----------------------------------------------------------------------------
(* Type correctness, for both builds.                                      *)

LEMMA ZeroInRange ==
    0 \in Rssi /\ Rssi \subseteq Byte /\ 0 \in Time /\ 0 \in 0 .. LapMod - 1 /\ 0 \in Int
  BY LapDetectAssumption DEF Rssi, Byte, Time

LEMMA InitTypeOK == Init => TypeOK
  <1>1. SUFFICES ASSUME Init
                 PROVE  TypeOK
    OBVIOUS
  <1>2. settings \in [triggerThreshold : Byte, calibrationThreshold : Byte,
                      calibrationOffset : Byte]
    BY <1>1, LapDetectAssumption DEF Init
  <1>3. lastPass \in [nodeRssiPeak : Rssi, nodeRssiLaptime : Time,
                      nodeRssiPeakTimestamp : Time, lap : 0 .. LapMod - 1]
    BY <1>1, ZeroInRange DEF Init
  <1>4. seen \in [max : Rssi, first : Time, last : Time]
    BY <1>1, ZeroInRange DEF Init, NoSamples
  <1>5. QED
    BY <1>1, <1>2, <1>3, <1>4, ZeroInRange DEF Init, TypeOK, Locations

LEMMA RecordedLapType ==
  ASSUME TypeOK
  PROVE  RecordedLap \in [nodeRssiPeak : Rssi, nodeRssiLaptime : Time,
                          nodeRssiPeakTimestamp : Time, lap : 0 .. LapMod - 1]
  <1>1. RecordedLap.nodeRssiLaptime \in Time
    BY ModIsTime DEF RecordedLap, TypeOK, Time
  <1>2. (lastPass.lap + 1) % LapMod \in 0 .. LapMod - 1
    BY LapDetectAssumption DEF TypeOK
  <1>3. QED
    BY <1>1, <1>2 DEF RecordedLap, TypeOK

\* A difference kept in a rssi_t is a byte.
LEMMA DifferenceIsByte ==
  \A r \in Rssi, o \in Byte : (r - o) % RssiMod \in Byte
  BY LapDetectAssumption DEF Rssi, Byte

\* The difference that was tested is not negative: it fits without wrapping.
LEMMA RaiseFits ==
  ASSUME ~Preemptive, TypeOK, TriggerFits, pc = "raise"
  PROVE  /\ (rssi - settings.calibrationOffset) % RssiMod
                = rssi - settings.calibrationOffset
         /\ rssi - settings.calibrationOffset \in Rssi
         /\ rssi - settings.calibrationOffset <= rssi
  <1>1. /\ rssi \in 0 .. MaxRssi /\ settings.calibrationOffset \in Nat
        /\ rssiTrigger \in Nat /\ rssiTrigger < rssi - settings.calibrationOffset
        /\ MaxRssi \in Nat /\ RssiMod \in Nat /\ MaxRssi < RssiMod
    BY LapDetectAssumption DEF TypeOK, TriggerFits, Rssi, Byte
  <1>2. \A d \in Nat : d < RssiMod => d % RssiMod = d
    BY <1>1
  <1>3. rssi - settings.calibrationOffset \in 0 .. MaxRssi
    BY <1>1
  <1>4. QED
    BY <1>1, <1>2, <1>3 DEF Rssi

LEMMA LoopTypeOK == TypeOK /\ TriggerFits /\ Loop => TypeOK'
  <1>1. SUFFICES ASSUME TypeOK, TriggerFits, Loop
                 PROVE  TypeOK'
    OBVIOUS
  <1> USE <1>1, LapDetectAssumption
  <1>2. CASE Sample
    <2>1. rssi' \in Rssi
      BY <1>2 DEF Sample, Rssi
    <2>2. rssiTimestamp' \in Time
      BY <1>2, ModIsTime DEF Sample, TypeOK, Time
    <2>3. QED
      BY <1>2, <2>1, <2>2 DEF Sample, TypeOK, locals, history, Locations
  <1>3. CASE EnterTest
    BY <1>3 DEF EnterTest, TypeOK, nodeState, locals, history, Locations
  <1>4. CASE Enter
    <2>1. seen' \in [max : Rssi, first : Time, last : Time]
      BY <1>4 DEF Enter, TypeOK, Rssi
    <2>2. QED
      BY <1>4, <2>1 DEF Enter, TypeOK, locals, Locations
  <1>5. CASE Gate
    BY <1>5 DEF Gate, TypeOK, nodeState, locals, history, Locations
  <1>5a. CASE NewPeak
    <2>1. seen' \in [max : Rssi, first : Time, last : Time]
      BY <1>5a DEF NewPeak, TypeOK
    <2>2. nodeRssiPeak' \in Rssi /\ pc' \in Locations
      BY <1>5a DEF NewPeak, TypeOK, Locations
    <2>3. QED
      BY <1>5a, <2>1, <2>2 DEF NewPeak, TypeOK, locals
  <1>5b. CASE PeakTie \/ CreepAgain
    <2>1. CreepIfEqual /\ pc' \in Locations
      BY <1>5b DEF PeakTie, CreepAgain, Locations
    <2>2. nodeRssiPeakTimestamp' \in Time
      BY <2>1, CreepIsTime DEF CreepIfEqual, TypeOK
    <2>3. QED
      BY <2>1, <2>2 DEF CreepIfEqual, TypeOK, locals, history
  <1>5c. CASE ReadThreshold
    BY <1>5c DEF ReadThreshold, TypeOK, nodeState, history, Locations
  <1>5d. CASE TakeMax
    BY <1>5d DEF TakeMax, TypeOK, nodeState, history, Locations
  <1>5e. CASE KeepPeak
    BY <1>5e, ZeroInRange DEF KeepPeak, TypeOK, history, Locations
  <1>6. CASE PeakTime
    BY <1>6 DEF PeakTime, TypeOK, locals, history, Locations
  <1>7. CASE Calibrate
    BY <1>7 DEF Calibrate, TypeOK, nodeState, locals, history, Locations
  <1>7a. CASE Raise
    <2>1. rssiTrigger' \in IF Preemptive THEN Byte ELSE Rssi
      <3>1. CASE Preemptive
        BY <1>7a, <3>1, DifferenceIsByte DEF Raise, TypeOK
      <3>2. CASE ~Preemptive
        BY <1>7a, <3>2, RaiseFits DEF Raise
      <3>3. QED
        BY <3>1, <3>2
    <2>2. QED
      BY <1>7a, <2>1 DEF Raise, TypeOK, locals, history, Locations
  <1>9. CASE ExitTest \/ DropTest
    BY <1>9, ZeroInRange DEF ExitTest, DropTest, TypeOK, nodeState, history, Locations
  <1>10. CASE EndCrossing
    <2>1. RecordedLap \in [nodeRssiPeak : Rssi, nodeRssiLaptime : Time,
                           nodeRssiPeakTimestamp : Time, lap : 0 .. LapMod - 1]
      BY RecordedLapType
    <2>2. CASE Record
      BY <2>1, <2>2 DEF Record, TypeOK, locals, nodeState, Locations
    <2>3. CASE ClearCrossing \/ ClearCalib
      BY <2>3 DEF ClearCrossing, ClearCalib, TypeOK, locals, history, Locations
    <2>4. CASE ClearPeak
      BY <2>4, ZeroInRange DEF ClearPeak, TypeOK, locals, history, Locations
    <2>5. QED
      BY <1>10, <2>2, <2>3, <2>4 DEF EndCrossing
  <1>11. QED
    BY <1>2, <1>3, <1>4, <1>5, <1>5a, <1>5b, <1>5c, <1>5d, <1>5e, <1>6, <1>7, <1>7a, <1>9, <1>10
       DEF Loop, Peak

LEMMA CommandTypeOK == TypeOK /\ Command => TypeOK'
  <1>1. SUFFICES ASSUME TypeOK, Command
                 PROVE  TypeOK'
    OBVIOUS
  <1> USE <1>1, LapDetectAssumption
  <1>2. CASE AutoCalibrate
    BY <1>2, ZeroInRange DEF AutoCalibrate, TypeOK, locals
  <1>3. CASE ForceEndCrossing
    BY <1>3, ZeroInRange, RecordedLapType DEF ForceEndCrossing, TypeOK, locals
  <1>4. CASE WriteSetting
    <2>1. PICK s \in Settings, f \in DOMAIN settings :
             settings' = [settings EXCEPT ![f] = s[f]]
      BY <1>4 DEF WriteSetting
    <2>2. s \in [triggerThreshold : Byte, calibrationThreshold : Byte,
                 calibrationOffset : Byte]
      BY <2>1
    <2>3. settings' \in [triggerThreshold : Byte, calibrationThreshold : Byte,
                         calibrationOffset : Byte]
      BY <2>1, <2>2 DEF TypeOK
    <2>4. QED
      BY <1>4, <2>3 DEF WriteSetting, TypeOK, nodeState, locals, history
  <1>5. CASE SetFrequency
    BY <1>5, ZeroInRange DEF SetFrequency, TypeOK, locals
  <1>6. QED
    BY <1>2, <1>3, <1>4, <1>5 DEF Command

LEMMA TriggerFitsStep == TriggerFits /\ [Next]_vars => TriggerFits'
  <1>1. SUFFICES ASSUME TriggerFits, [Next]_vars, ~Preemptive, pc' = "raise"
                 PROVE  rssiTrigger' < rssi' - settings'.calibrationOffset
    BY DEF TriggerFits
  <1>2. CASE Calibrate
    BY <1>1, <1>2 DEF Calibrate, nodeState
  <1>3. CASE QuadLeaves \/ UNCHANGED vars
    BY <1>1, <1>3 DEF TriggerFits, QuadLeaves, vars, nodeState
  <1>4. CASE Loop /\ ~Calibrate
    BY <1>1, <1>4
       DEF Loop, Sample, EnterTest, Enter, Gate, Peak, NewPeak, PeakTime, PeakTie, CreepAgain,
           TakeMax, KeepPeak, ReadThreshold, Raise, ExitTest, DropTest, EndCrossing, Record,
           ClearCrossing, ClearCalib, ClearPeak
  <1>5. CASE Command
    BY <1>1, <1>5
       DEF Command, CommandPoint, AutoCalibrate, ForceEndCrossing, WriteSetting, SetFrequency
  <1>6. QED
    BY <1>1, <1>2, <1>3, <1>4, <1>5 DEF Next

\* Every variable of the detector keeps its type whatever the interleaving of
\* the loop and the commands (the fields' widths in src/node/RssiNode.h).
THEOREM TypeCorrect == Spec => []TypeOK
  <1>1. TypeOK /\ TriggerFits /\ [Next]_vars => TypeOK'
    <2>1. SUFFICES ASSUME TypeOK, TriggerFits, [Next]_vars
                   PROVE  TypeOK'
      OBVIOUS
    <2>2. CASE QuadLeaves
      BY <2>1, <2>2 DEF QuadLeaves, TypeOK, nodeState, locals, history
    <2>3. CASE UNCHANGED vars
      BY <2>1, <2>3 DEF vars, TypeOK, nodeState, locals, history
    <2>4. QED
      BY <2>1, <2>2, <2>3, LoopTypeOK, CommandTypeOK DEF Next
  <1>2. Init => TriggerFits
    BY DEF Init, TriggerFits
  <1>3. QED
    BY InitTypeOK, <1>1, <1>2, TriggerFitsStep, PTL DEF Spec

-----------------------------------------------------------------------------
(* The builds in which commands wait for the loop.                         *)

LEMMA CommandsAtIdle ==
  ASSUME ~Preemptive, Command
  PROVE  pc = "idle" /\ pc' = "idle"
  BY DEF Command, CommandPoint, AutoCalibrate, ForceEndCrossing, WriteSetting, SetFrequency

LEMMA OwedInvStep ==
  ASSUME ~Preemptive, TypeOK, OwedInv, [Next]_vars
  PROVE  OwedInv'
  <1> USE DEF OwedInv, InGate, AtGate, Leaving
  <1>1. CASE Sample \/ EnterTest \/ Enter
    BY <1>1 DEF Sample, EnterTest, Enter, nodeState, locals, history
  <1>2. CASE Gate \/ ReadThreshold \/ Calibrate \/ Raise \/ ExitTest \/ DropTest
    BY <1>2 DEF Gate, ReadThreshold, Calibrate, Raise, ExitTest, DropTest, nodeState, history
  <1>2a. CASE Peak
    BY <1>2a DEF Peak, NewPeak, PeakTime, PeakTie, CreepAgain, CreepIfEqual, TakeMax, KeepPeak,
                 nodeState, history
  <1>3. CASE EndCrossing
    BY <1>3 DEF EndCrossing, Record, ClearCrossing, ClearCalib, ClearPeak, nodeState,
                locals, history
  <1>4. CASE Command
    <2>1. pc = "idle" /\ pc' = "idle"
      BY <1>4, CommandsAtIdle
    <2>2. CASE AutoCalibrate \/ ForceEndCrossing
      BY <2>1, <2>2 DEF AutoCalibrate, ForceEndCrossing
    <2>3. CASE WriteSetting \/ SetFrequency
      BY <2>1, <2>3 DEF WriteSetting, SetFrequency, nodeState, locals, history
    <2>4. QED
      BY <1>4, <2>2, <2>3 DEF Command
  <1>5. CASE QuadLeaves \/ UNCHANGED vars
    BY <1>5 DEF QuadLeaves, vars, nodeState, locals, history
  <1>6. QED
    BY <1>1, <1>2, <1>2a, <1>3, <1>4, <1>5 DEF Next, Loop

LEMMA CalibInvStep ==
  ASSUME ~Preemptive, OwedInv, CalibInv, [Next]_vars
  PROVE  CalibInv'
  <1> USE DEF CalibInv, OwedInv, InGate, AtGate, Leaving
  <1>1. CASE Loop
    BY <1>1 DEF Loop, Sample, EnterTest, Enter, Gate, Peak, NewPeak, PeakTime, PeakTie,
                CreepAgain, CreepIfEqual, TakeMax, KeepPeak, ReadThreshold, Calibrate, Raise,
                ExitTest, DropTest, EndCrossing, Record, ClearCrossing, ClearCalib, ClearPeak,
                nodeState, history
  <1>2. CASE Command
    BY <1>2, CommandsAtIdle
       DEF Command, AutoCalibrate, ForceEndCrossing, WriteSetting, SetFrequency,
           nodeState, locals, history
  <1>3. CASE QuadLeaves \/ UNCHANGED vars
    BY <1>3 DEF QuadLeaves, vars, nodeState, locals, history
  <1>4. QED
    BY <1>1, <1>2, <1>3 DEF Next

LEMMA PeakInvStep ==
  ASSUME ~Preemptive, TypeOK, TriggerFits, OwedInv, PeakInv, [Next]_vars
  PROVE  PeakInv'
  <1>0. /\ {rssi, rssiTrigger, nodeRssiPeak} \subseteq Int
        /\ settings.calibrationOffset \in Nat
        /\ seen.max \in Nat
        /\ pc \in Locations /\ maxPeak \in Int
    BY LapDetectAssumption DEF TypeOK, Rssi, Byte
  <1> USE DEF PeakInv, OwedInv, InGate, AtGate, Leaving, Locations
  <1>1. CASE Sample
    BY <1>1, <1>0 DEF Sample, locals, history
  <1>2. CASE EnterTest
    BY <1>2, <1>0 DEF EnterTest, nodeState, locals, history
  <1>3. CASE Enter
    BY <1>3, <1>0 DEF Enter
  <1>4. CASE Gate
    BY <1>4, <1>0 DEF Gate, nodeState, history
  <1>5. CASE NewPeak
    <2>1. seen'.max = IF rssi > seen.max THEN rssi ELSE seen.max
      BY <1>5, <1>0 DEF NewPeak, TypeOK
    <2>2. QED
      BY <1>5, <2>1, <1>0 DEF NewPeak
  <1>5a. CASE PeakTime \/ PeakTie \/ CreepAgain
    BY <1>5a, <1>0 DEF PeakTime, PeakTie, CreepAgain, CreepIfEqual, history
  <1>5b. CASE TakeMax \/ KeepPeak
    BY <1>5b, <1>0 DEF TakeMax, KeepPeak, nodeState, history
  <1>6. CASE ReadThreshold \/ Calibrate \/ ExitTest \/ DropTest
    BY <1>6, <1>0 DEF ReadThreshold, Calibrate, ExitTest, DropTest, nodeState, history
  <1>6a. CASE Raise
    <2>1. pc = "raise" /\ rssiTrigger' <= rssi
      BY <1>6a, RaiseFits, <1>0 DEF Raise
    <2>2. rssiTrigger' \in Int
      BY <1>6a, RaiseFits, <1>0 DEF Raise
    <2>3. QED
      BY <1>6a, <2>1, <2>2, <1>0 DEF Raise, locals, history
  <1>7. CASE EndCrossing
    BY <1>7, <1>0 DEF EndCrossing, Record, ClearCrossing, ClearCalib, ClearPeak,
                      nodeState, locals, history
  <1>8. CASE Command
    <2>1. pc = "idle" /\ pc' = "idle"
      BY <1>8, CommandsAtIdle
    <2>2. CASE AutoCalibrate \/ ForceEndCrossing
      BY <2>1, <2>2 DEF AutoCalibrate, ForceEndCrossing
    <2>3. CASE WriteSetting \/ SetFrequency
      BY <2>1, <2>3, <1>0 DEF WriteSetting, SetFrequency, nodeState, locals, history
    <2>4. QED
      BY <1>8, <2>2, <2>3 DEF Command
  <1>9. CASE QuadLeaves \/ UNCHANGED vars
    BY <1>9 DEF QuadLeaves, vars, nodeState, locals, history
  <1>10. QED
    BY <1>1, <1>2, <1>3, <1>4, <1>5, <1>5a, <1>5b, <1>6, <1>6a, <1>7, <1>8, <1>9
       DEF Next, Loop, Peak

LEMMA TimeInvStep ==
  ASSUME ~Preemptive, 2 * MaxTime < TimeMod,
         TypeOK, OwedInv, PeakInv, TimeInv, [Next]_vars
  PROVE  TimeInv'
  <1>0. /\ {rssi, rssiTrigger, nodeRssiPeak} \subseteq Nat
        /\ {rssiTimestamp, nodeRssiPeakTimestamp, seen.first, seen.last} \subseteq Nat
        /\ MaxTime \in Nat /\ TimeMod \in Nat /\ MaxTime < TimeMod
        /\ pc \in Locations
    BY LapDetectAssumption DEF TypeOK, Rssi, Byte, Time
  <1>00. ASSUME nodeRssiPeakTimestamp \in seen.first .. seen.last,
                seen.last <= rssiTimestamp
         PROVE  Creep(rssiTimestamp, nodeRssiPeakTimestamp) \in seen.first .. rssiTimestamp
    <2>1. rssiTimestamp + nodeRssiPeakTimestamp < TimeMod
      BY <1>0, <1>00 DEF TimeInv
    <2>2. Creep(rssiTimestamp, nodeRssiPeakTimestamp) \in Nat
      <3>1. Creep(rssiTimestamp, nodeRssiPeakTimestamp) \in Time
        BY CreepIsTime DEF TypeOK
      <3>2. QED
        BY <3>1, <1>0 DEF Time
    <2>3. QED
      BY <1>0, <1>00, <2>1, <2>2, CreepIsBetween
  <1> USE DEF TimeInv, OwedInv, InGate, AtGate, Leaving, Locations
  <1>1. CASE Sample
    <2>1. /\ rssiTimestamp' \in Nat
          /\ rssiTimestamp <= rssiTimestamp' /\ rssiTimestamp' <= MaxTime
      BY <1>1, <1>0, LapDetectAssumption DEF Sample
    <2>2. QED
      BY <1>1, <2>1, <1>0 DEF Sample, locals, history
  <1>2. CASE EnterTest
    BY <1>2, <1>0 DEF EnterTest, nodeState, locals, history
  <1>3. CASE Enter
    BY <1>3, <1>0 DEF Enter, PeakInv
  <1>4. CASE Gate
    BY <1>4, <1>0 DEF Gate, nodeState, history
  <1>4a. CASE NewPeak
    <2>1. seen'.first = seen.first /\ seen'.last = rssiTimestamp
      BY <1>4a DEF NewPeak, TypeOK
    <2>2. CASE rssi > nodeRssiPeak
      BY <1>4a, <2>1, <2>2, <1>0 DEF NewPeak
    <2>3. CASE ~(rssi > nodeRssiPeak)
      <3>1. nodeRssiPeakTimestamp \in seen.first .. seen.last
        BY <1>4a, <2>3, <1>0 DEF NewPeak
      <3>2. nodeRssiPeakTimestamp \in seen.first .. rssiTimestamp
        BY <1>4a, <3>1, <1>0 DEF NewPeak
      <3>3. QED
        BY <1>4a, <2>1, <2>3, <3>2, <1>0 DEF NewPeak
    <2>4. QED
      BY <2>2, <2>3
  <1>5. CASE PeakTime
    BY <1>5, <1>0 DEF PeakTime, history
  <1>6. CASE ReadThreshold \/ Calibrate \/ Raise \/ TakeMax \/ KeepPeak \/ ExitTest \/ DropTest
    BY <1>6, <1>0 DEF ReadThreshold, Calibrate, Raise, TakeMax, KeepPeak, ExitTest, DropTest,
                      nodeState, history
  <1>7. CASE PeakTie \/ CreepAgain
    <2>0. CreepIfEqual /\ pc \in {"peakTie", "creep"} /\ pc' \in {"threshold", "max"}
      BY <1>7 DEF PeakTie, CreepAgain
    <2>1. nodeRssiPeakTimestamp' \in seen.first .. seen.last
      BY <2>0, <1>00, <1>0 DEF CreepIfEqual
    <2>2. QED
      BY <2>0, <2>1, <1>0 DEF CreepIfEqual, history
  <1>8. CASE EndCrossing
    BY <1>8, <1>0 DEF EndCrossing, Record, ClearCrossing, ClearCalib, ClearPeak,
                      nodeState, locals, history
  <1>9. CASE Command
    BY <1>9, CommandsAtIdle, <1>0
       DEF Command, AutoCalibrate, ForceEndCrossing, WriteSetting, SetFrequency,
           nodeState, locals, history
  <1>10. CASE QuadLeaves \/ UNCHANGED vars
    BY <1>10 DEF QuadLeaves, vars, nodeState, locals, history
  <1>11. QED
    BY <1>1, <1>2, <1>3, <1>4, <1>4a, <1>5, <1>6, <1>7, <1>8, <1>9, <1>10 DEF Next, Loop, Peak

-----------------------------------------------------------------------------
(* Theorems of the builds in which commands wait for the loop.             *)

LEMMA InitInv == Init => TriggerFits /\ OwedInv /\ PeakInv /\ CalibInv /\ TimeInv
  BY LapDetectAssumption
     DEF Init, TriggerFits, OwedInv, PeakInv, CalibInv, TimeInv, InGate, AtGate, Leaving, NoSamples

LEMMA Invariance ==
  ASSUME ~Preemptive
  PROVE  Spec => [](TypeOK /\ TriggerFits /\ OwedInv /\ PeakInv /\ CalibInv)
  <1>1. TypeOK /\ TriggerFits /\ OwedInv /\ PeakInv /\ CalibInv /\ [Next]_vars
           => OwedInv' /\ PeakInv' /\ CalibInv'
    BY OwedInvStep, PeakInvStep, CalibInvStep
  <1>2. QED
    BY <1>1, InitInv, TypeCorrect, TriggerFitsStep, PTL DEF Spec

\* An RSSI drop never reports a crossing that was already reported or thrown
\* away: RssiNode::rssiProcessValue records one lap per crossing.
THEOREM OneLap ==
  ASSUME ~Preemptive
  PROVE  Spec => []OneLapPerCrossing
  <1>0. Spec => [](TypeOK /\ TriggerFits /\ OwedInv /\ PeakInv /\ CalibInv)
    BY Invariance
  <1>1. TypeOK /\ OwedInv => OneLapPerCrossing
    BY DEF TypeOK, Locations, OwedInv, InGate, AtGate, Leaving, OneLapPerCrossing
  <1>2. QED
    BY <1>0, <1>1, PTL

\* RssiNode::rssiEndCrossing and the reset commands leave no peak behind for
\* the next crossing.
THEOREM FreshPeak ==
  ASSUME ~Preemptive
  PROVE  Spec => []PeakStartsFresh
  <1>0. Spec => [](TypeOK /\ TriggerFits /\ OwedInv /\ PeakInv /\ CalibInv)
    BY Invariance
  <1>1. PeakInv => PeakStartsFresh
    BY DEF PeakInv, PeakStartsFresh
  <1>2. QED
    BY <1>0, <1>1, PTL

\* The trigger level, raised by calibration, stays at or below the peak of
\* the crossing in progress, whatever the settings.
THEOREM TriggerUnderPeak ==
  ASSUME ~Preemptive
  PROVE  Spec => []TriggerBelowPeak
  <1>0. Spec => [](TypeOK /\ TriggerFits /\ OwedInv /\ PeakInv /\ CalibInv)
    BY Invariance
  <1>1. PeakInv => TriggerBelowPeak
    BY DEF PeakInv, TriggerBelowPeak
  <1>2. QED
    BY <1>0, <1>1, PTL

\* The end of a crossing turns calibration off only when that crossing began
\* after the calibrate command.
THEOREM CalibrationKept ==
  ASSUME ~Preemptive
  PROVE  Spec => CalibrationSeesACrossing
  <1>0. Spec => [](TypeOK /\ TriggerFits /\ OwedInv /\ PeakInv /\ CalibInv)
    BY Invariance
  <1>1. TypeOK /\ CalibInv /\ [Next]_vars
           => [calibrationMode /\ ~calibrationMode' /\ pc # "idle" /\ lastPass' = lastPass
                 => calibSeen]_vars
    <2>1. SUFFICES ASSUME CalibInv, Next,
                          calibrationMode, ~calibrationMode', pc # "idle"
                   PROVE  calibSeen
      BY DEF vars
    <2>2. ~Command
      BY <2>1, CommandsAtIdle
    <2>3. ClearCalib
      BY <2>1, <2>2 DEF Next, Loop, Sample, EnterTest, Enter, Gate, Peak, NewPeak, PeakTime,
             PeakTie, CreepAgain, CreepIfEqual, TakeMax, KeepPeak, ReadThreshold, Calibrate, Raise,
             ExitTest, DropTest, EndCrossing, Record, ClearCrossing, ClearPeak,
             QuadLeaves, nodeState
    <2>4. QED
      BY <2>1, <2>3 DEF ClearCalib, CalibInv, Leaving
  <1>2. QED
    BY <1>0, <1>1, PTL DEF Spec, CalibrationSeesACrossing

\* A lap recorded during a crossing carries the highest filtered sample of the
\* crossing and a time inside it, as long as twice the clock does not wrap.
THEOREM Measured ==
  ASSUME ~Preemptive, 2 * MaxTime < TimeMod
  PROVE  Spec => PassIsMeasured
  <1>0. Spec => [](TypeOK /\ TriggerFits /\ OwedInv /\ PeakInv /\ CalibInv)
    BY Invariance
  <1>1. TypeOK /\ OwedInv /\ PeakInv /\ TimeInv /\ [Next]_vars => TimeInv'
    BY TimeInvStep
  <1>2. TypeOK /\ PeakInv /\ TimeInv /\ [Next]_vars
           => [lastPass' # lastPass /\ crossing /\ (pc = "idle" \/ pc' = "clear") =>
                 /\ lastPass'.nodeRssiPeak = seen.max
                 /\ lastPass'.nodeRssiPeakTimestamp \in seen.first .. seen.last]_vars
    <2>1. SUFFICES ASSUME TypeOK, PeakInv, TimeInv, Next,
                          lastPass' # lastPass, crossing
                   PROVE  /\ lastPass'.nodeRssiPeak = seen.max
                          /\ lastPass'.nodeRssiPeakTimestamp \in seen.first .. seen.last
      BY DEF vars
    <2>2. Record \/ ForceEndCrossing
      BY <2>1 DEF Next, Loop, Command, Sample, EnterTest, Enter, Gate, Peak, NewPeak, PeakTime,
             PeakTie, CreepAgain, CreepIfEqual, TakeMax, KeepPeak, ReadThreshold, Calibrate,
             Raise, ExitTest, DropTest, EndCrossing, ClearCrossing, ClearCalib, ClearPeak,
             QuadLeaves, AutoCalibrate, WriteSetting, SetFrequency
    <2>3. pc \in {"record", "idle"}
      BY <2>1, <2>2 DEF Record, ForceEndCrossing, CommandPoint
    <2>4. lastPass' = RecordedLap
      BY <2>2 DEF Record, ForceEndCrossing
    <2>5. nodeRssiPeak = seen.max /\ nodeRssiPeakTimestamp \in seen.first .. seen.last
      BY <2>1, <2>3 DEF PeakInv, TimeInv, InGate
    <2>6. QED
      BY <2>4, <2>5 DEF RecordedLap
  <1>3. QED
    BY <1>0, <1>1, <1>2, InitInv, PTL DEF Spec, PassIsMeasured
=============================================================================
