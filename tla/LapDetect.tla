----------------------------- MODULE LapDetect -----------------------------
(***************************************************************************)
(* The crossing detector of one node: RssiNode::rssiProcessValue and the   *)
(* commands that touch the same state, from src/node/RssiNode.cpp.         *)
(*                                                                         *)
(* The main loop feeds one filtered RSSI sample at a time.  A crossing     *)
(* starts when the sample exceeds the trigger level and reaches the        *)
(* calibration threshold, and ends, recording a lap, when the sample drops *)
(* below the trigger level by more than the trigger threshold.             *)
(*                                                                         *)
(* On the STM32 build, and on an Arduino driven over serial, commands are  *)
(* handled between two iterations of the loop.  On an Arduino driven over  *)
(* I2C they are handled by an interrupt, between any two statements of the *)
(* loop.  Preemptive chooses the build; pc is the loop's position among    *)
(* the statements that read or write state shared with the commands.       *)
(***************************************************************************)
EXTENDS Integers

CONSTANTS
    Preemptive,    \* TRUE: commands are handled by the I2C interrupt
    MaxRssi,       \* largest value of rssi_t the receiver delivers
    RssiMod,       \* rssi_t counts modulo this number (2^8 on the node)
    Settings,      \* values the host writes to the three settings
    SampleGaps,    \* milliseconds between two samples
    TimeMod,       \* mtime_t counts modulo this number (2^32 on the node)
    MaxTime,       \* bound: no sample is taken later than this
    LapMod         \* lap counts modulo this number (2^8 on the node)

Rssi == 0 .. MaxRssi
Byte == 0 .. RssiMod - 1
Time == 0 .. TimeMod - 1

ASSUME LapDetectAssumption ==
    /\ Preemptive \in BOOLEAN
    /\ MaxRssi \in Nat
    /\ RssiMod \in Nat /\ MaxRssi < RssiMod
    /\ Settings \subseteq [triggerThreshold : Byte,
                           calibrationThreshold : Byte,
                           calibrationOffset : Byte]
    /\ SampleGaps \subseteq Nat \ {0}
    /\ TimeMod \in Nat \ {0}
    /\ MaxTime \in Nat
    /\ LapMod \in Nat \ {0}

VARIABLES
    crossing, rssi, rssiTimestamp, rssiTrigger,       \* struct State
    nodeRssiPeak, nodeRssiPeakTimestamp,
    activatedFlag, calibrationMode,
    settings,      \* struct Settings, without vtxFreq
    lastPass,      \* struct LastPass: the last lap, as the host reads it
    pc,            \* where the loop is inside rssiProcessValue
    triggerThreshold,  \* its local variable
    maxPeak,           \* what max() has returned and is not stored yet
    near,          \* environment: the quad is still around the gate
    owed,          \* history: crossings begun and neither reported nor discarded
    seen,          \* history: the samples the present crossing has handled
    calibSeen      \* history: a crossing began after the last calibrate command

nodeState == <<crossing, rssi, rssiTimestamp, rssiTrigger, nodeRssiPeak,
               nodeRssiPeakTimestamp, activatedFlag, calibrationMode>>
locals == <<triggerThreshold, maxPeak>>
history == <<owed, seen, calibSeen>>
vars == <<nodeState, settings, lastPass, pc, locals, near, history>>

NoSamples == [max |-> 0, first |-> 0, last |-> 0]

Init ==
    /\ crossing = FALSE
    /\ rssi = 0
    /\ rssiTimestamp = 0
    /\ rssiTrigger = 0
    /\ nodeRssiPeak = 0
    /\ nodeRssiPeakTimestamp = 0
    /\ activatedFlag = FALSE
    /\ calibrationMode = FALSE
    /\ settings \in Settings
    /\ lastPass = [nodeRssiPeak |-> 0, nodeRssiLaptime |-> 0,
                   nodeRssiPeakTimestamp |-> 0, lap |-> 0]
    /\ pc = "idle"
    /\ triggerThreshold = 0
    /\ maxPeak = 0
    /\ near = TRUE
    /\ owed = 0
    /\ seen = NoSamples
    /\ calibSeen = FALSE

-----------------------------------------------------------------------------
(* One pass of the loop through rssiProcessValue.                          *)

\* A new filtered value and the time of the sample it stands for.
Sample ==
    /\ pc = "idle"
    /\ activatedFlag
    /\ \E v \in (IF near THEN Rssi ELSE {0}), dt \in SampleGaps :
          /\ rssiTimestamp + dt <= MaxTime
          /\ rssi' = v
          /\ rssiTimestamp' = (rssiTimestamp + dt) % TimeMod
    /\ pc' = "enterTest"
    /\ UNCHANGED <<crossing, rssiTrigger, nodeRssiPeak, nodeRssiPeakTimestamp,
                   activatedFlag, calibrationMode, settings, lastPass, locals, near, history>>

EnterTest ==
    /\ pc = "enterTest"
    /\ pc' = IF /\ ~crossing
                /\ rssi > rssiTrigger
                /\ rssi >= settings.calibrationThreshold
             THEN "enter" ELSE "gate"
    /\ UNCHANGED <<nodeState, settings, lastPass, locals, near, history>>

Enter ==
    /\ pc = "enter"
    /\ crossing' = TRUE
    /\ pc' = "gate"
    /\ owed' = 1
    /\ seen' = [max |-> 0, first |-> rssiTimestamp, last |-> rssiTimestamp]
    /\ calibSeen' = TRUE
    /\ UNCHANGED <<rssi, rssiTimestamp, rssiTrigger, nodeRssiPeak, nodeRssiPeakTimestamp,
                   activatedFlag, calibrationMode, settings, lastPass, locals, near>>

\* Faulty variant: the statements under if (crossing) are always reached.
GateUntested ==
    /\ pc = "gate"
    /\ pc' = "peakTest"
    /\ UNCHANGED <<nodeState, settings, lastPass, locals, near, history>>

\* The outer test of crossing.
Gate ==
    /\ pc = "gate"
    /\ pc' = IF crossing THEN "peakTest" ELSE "idle"
    /\ UNCHANGED <<nodeState, settings, lastPass, locals, near, history>>

\* The first update of the peak.  An interrupt only lowers the peak, so one that
\* comes between the test and the assignment might as well come before both.
NewPeak ==
    /\ pc = "peakTest"
    /\ IF rssi > nodeRssiPeak
       THEN nodeRssiPeak' = rssi /\ pc' = "peakTime"
       ELSE pc' = "peakTie" /\ UNCHANGED nodeRssiPeak
    /\ seen' = [seen EXCEPT !.max = IF rssi > @ THEN rssi ELSE @, !.last = rssiTimestamp]
    /\ UNCHANGED <<crossing, rssi, rssiTimestamp, rssiTrigger, nodeRssiPeakTimestamp,
                   activatedFlag, calibrationMode, settings, lastPass, locals, near, owed,
                   calibSeen>>

\* Faulty variant: a new peak keeps the time of the old one.
PeakTimeKept ==
    /\ pc = "peakTime"
    /\ pc' = "threshold"
    /\ UNCHANGED <<nodeState, settings, lastPass, locals, near, history>>

PeakTime ==
    /\ pc = "peakTime"
    /\ nodeRssiPeakTimestamp' = rssiTimestamp
    /\ pc' = "threshold"
    /\ UNCHANGED <<crossing, rssi, rssiTimestamp, rssiTrigger, nodeRssiPeak, activatedFlag,
                   calibrationMode, settings, lastPass, locals, near, history>>

\* Half way between the sample's time and the peak's, in mtime_t arithmetic.
Creep(t, p) == ((t + p) % TimeMod) \div 2

\* A sample that is no new peak: the time of an equal one creeps forward.  No
\* command writes the times.
CreepIfEqual ==
    /\ nodeRssiPeakTimestamp' = IF nodeRssiPeak = rssi
                                THEN Creep(rssiTimestamp, nodeRssiPeakTimestamp)
                                ELSE nodeRssiPeakTimestamp
    /\ UNCHANGED <<crossing, rssi, rssiTimestamp, rssiTrigger, nodeRssiPeak, activatedFlag,
                   calibrationMode, settings, lastPass, locals, near, history>>

PeakTie ==
    /\ pc = "peakTie"
    /\ CreepIfEqual
    /\ pc' = "threshold"

ReadThreshold ==
    /\ pc = "threshold"
    /\ triggerThreshold' = settings.triggerThreshold
    /\ pc' = "calibrate"
    /\ UNCHANGED <<nodeState, settings, lastPass, maxPeak, near, history>>

\* Faulty variant: the trigger follows the signal down as well.
CalibrateBothWays ==
    /\ pc = "calibrate"
    /\ pc' = IF calibrationMode THEN "raise" ELSE "creep"
    /\ UNCHANGED <<nodeState, settings, lastPass, locals, near, history>>

\* In calibration mode the trigger follows the signal up, at the offset.  The
\* test is made in int: a signal below the offset leaves the trigger alone.
Calibrate ==
    /\ pc = "calibrate"
    /\ pc' = IF calibrationMode /\ rssiTrigger < rssi - settings.calibrationOffset
             THEN "raise" ELSE "creep"
    /\ UNCHANGED <<nodeState, settings, lastPass, locals, near, history>>

\* The offset, a volatile, is read again and the difference kept in a rssi_t.
Raise ==
    /\ pc = "raise"
    /\ rssiTrigger' = (rssi - settings.calibrationOffset) % RssiMod
    /\ pc' = "creep"
    /\ UNCHANGED <<crossing, rssi, rssiTimestamp, nodeRssiPeak, nodeRssiPeakTimestamp,
                   activatedFlag, calibrationMode, settings, lastPass, locals, near, history>>

\* The time creeps again, also after a new peak.
CreepAgain ==
    /\ pc = "creep"
    /\ CreepIfEqual
    /\ pc' = "max"

\* The second update of the peak.  What max() has read is stored even if an
\* interrupt has cleared the peak meanwhile.
TakeMax ==
    /\ pc = "max"
    /\ maxPeak' = IF rssi > nodeRssiPeak THEN rssi ELSE nodeRssiPeak
    /\ pc' = "keepPeak"
    /\ UNCHANGED <<nodeState, settings, lastPass, triggerThreshold, near, history>>

KeepPeak ==
    /\ pc = "keepPeak"
    /\ nodeRssiPeak' = maxPeak
    /\ maxPeak' = 0
    /\ pc' = "exitTest"
    /\ UNCHANGED <<crossing, rssi, rssiTimestamp, rssiTrigger, nodeRssiPeakTimestamp,
                   activatedFlag, calibrationMode, settings, lastPass, triggerThreshold, near,
                   history>>

\* The two tests that end a crossing read the trigger one after the other.
ExitTest ==
    /\ pc = "exitTest"
    /\ IF rssiTrigger > triggerThreshold
       THEN pc' = "dropTest" /\ UNCHANGED triggerThreshold
       ELSE pc' = "idle" /\ triggerThreshold' = 0
    /\ UNCHANGED <<nodeState, settings, lastPass, maxPeak, near, history>>

\* Faulty variant: the drop must exceed the threshold by two.
DropTestOffByOne ==
    /\ pc = "dropTest"
    /\ pc' = IF rssi < rssiTrigger - triggerThreshold - 1 THEN "record" ELSE "idle"
    /\ triggerThreshold' = 0
    /\ UNCHANGED <<nodeState, settings, lastPass, maxPeak, near, history>>

DropTest ==
    /\ pc = "dropTest"
    /\ pc' = IF rssi < rssiTrigger - triggerThreshold THEN "record" ELSE "idle"
    /\ triggerThreshold' = 0
    /\ UNCHANGED <<nodeState, settings, lastPass, maxPeak, near, history>>

-----------------------------------------------------------------------------
(* rssiEndCrossing: an atomic block that records the lap, then the flags.  *)

RecordedLap ==
    [nodeRssiPeak |-> nodeRssiPeak,
     nodeRssiLaptime |-> (nodeRssiPeakTimestamp - lastPass.nodeRssiPeakTimestamp) % TimeMod,
     nodeRssiPeakTimestamp |-> nodeRssiPeakTimestamp,
     lap |-> (lastPass.lap + 1) % LapMod]

Record ==
    /\ pc = "record"
    /\ lastPass' = RecordedLap
    /\ owed' = owed - 1
    /\ pc' = "clear"
    /\ UNCHANGED <<nodeState, settings, locals, near, seen, calibSeen>>

\* Faulty variant: the flag is left set.
ClearCrossingForgotten ==
    /\ pc = "clear"
    /\ pc' = "clearCalib"
    /\ UNCHANGED <<nodeState, settings, lastPass, locals, near, history>>

ClearCrossing ==
    /\ pc = "clear"
    /\ crossing' = FALSE
    /\ pc' = "clearCalib"
    /\ UNCHANGED <<rssi, rssiTimestamp, rssiTrigger, nodeRssiPeak, nodeRssiPeakTimestamp,
                   activatedFlag, calibrationMode, settings, lastPass, locals, near, history>>

ClearCalib ==
    /\ pc = "clearCalib"
    /\ calibrationMode' = FALSE
    /\ pc' = "clearPeak"
    /\ UNCHANGED <<crossing, rssi, rssiTimestamp, rssiTrigger, nodeRssiPeak,
                   nodeRssiPeakTimestamp, activatedFlag, settings, lastPass, locals, near,
                   history>>

ClearPeak ==
    /\ pc = "clearPeak"
    /\ nodeRssiPeak' = 0
    /\ pc' = "idle"
    /\ UNCHANGED <<crossing, rssi, rssiTimestamp, rssiTrigger, nodeRssiPeakTimestamp,
                   activatedFlag, calibrationMode, settings, lastPass, locals, near, history>>

-----------------------------------------------------------------------------
(* Commands.  An interrupt handler runs to its end before the loop resumes *)

CommandPoint == Preemptive \/ pc = "idle"

\* Faulty variant: the crossing in progress goes on.
AutoCalibrateMidCrossing ==
    /\ CommandPoint
    /\ calibrationMode' = TRUE
    /\ nodeRssiPeak' = 0
    /\ rssiTrigger' = rssi
    /\ owed' = 0
    /\ calibSeen' = FALSE
    /\ UNCHANGED <<crossing, rssi, rssiTimestamp, nodeRssiPeakTimestamp, activatedFlag,
                   settings, lastPass, pc, locals, near, seen>>

\* WRITE_CALIBRATION_MODE: rssiAutoCalibrate abandons the crossing.
AutoCalibrate ==
    /\ CommandPoint
    /\ crossing' = FALSE
    /\ calibrationMode' = TRUE
    /\ nodeRssiPeak' = 0
    /\ rssiTrigger' = rssi
    /\ owed' = 0
    /\ calibSeen' = FALSE
    /\ UNCHANGED <<rssi, rssiTimestamp, nodeRssiPeakTimestamp, activatedFlag,
                   settings, lastPass, pc, locals, near, seen>>

\* Faulty variant: the lap is recorded, the peak kept.
ForceEndKeepsPeak ==
    /\ CommandPoint
    /\ lastPass' = RecordedLap
    /\ crossing' = FALSE
    /\ calibrationMode' = FALSE
    /\ owed' = 0
    /\ UNCHANGED <<rssi, rssiTimestamp, rssiTrigger, nodeRssiPeak, nodeRssiPeakTimestamp,
                   activatedFlag, settings, pc, locals, near, seen, calibSeen>>

\* FORCE_END_CROSSING: rssiEndCrossing, whether or not a crossing is going on.
ForceEndCrossing ==
    /\ CommandPoint
    /\ lastPass' = RecordedLap
    /\ crossing' = FALSE
    /\ calibrationMode' = FALSE
    /\ nodeRssiPeak' = 0
    /\ owed' = 0
    /\ UNCHANGED <<rssi, rssiTimestamp, rssiTrigger, nodeRssiPeakTimestamp, activatedFlag,
                   settings, pc, locals, near, seen, calibSeen>>

\* WRITE_TRIGGER_THRESHOLD, WRITE_CALIBRATION_THRESHOLD, WRITE_CALIBRATION_OFFSET.
WriteSetting ==
    /\ CommandPoint
    /\ \E s \in Settings, f \in DOMAIN settings :
          settings' = [settings EXCEPT ![f] = s[f]]
    /\ UNCHANGED <<nodeState, lastPass, pc, locals, near, history>>

\* WRITE_FREQUENCY: activates the node and, when the value is new, restarts
\* peak tracking.  Either build does this between two passes of the loop.
SetFrequency ==
    /\ pc = "idle"
    /\ activatedFlag' = TRUE
    /\ \/ UNCHANGED <<crossing, nodeRssiPeak, owed>>
       \/ /\ crossing' = FALSE
          /\ nodeRssiPeak' = 0
          /\ owed' = 0
    /\ UNCHANGED <<rssi, rssiTimestamp, rssiTrigger, nodeRssiPeakTimestamp,
                   calibrationMode, settings, lastPass, pc, locals, near, seen, calibSeen>>

\* The race is over: from now on the receiver sees no signal.
QuadLeaves ==
    /\ near
    /\ near' = FALSE
    /\ UNCHANGED <<nodeState, settings, lastPass, pc, locals, history>>

-----------------------------------------------------------------------------
EndCrossing == Record \/ ClearCrossing \/ ClearCalib \/ ClearPeak

Peak == NewPeak \/ PeakTime \/ PeakTie \/ CreepAgain \/ TakeMax \/ KeepPeak

Loop == Sample \/ EnterTest \/ Enter \/ Gate \/ Peak \/ ReadThreshold \/ Calibrate \/ Raise
        \/ ExitTest \/ DropTest \/ EndCrossing

Command == AutoCalibrate \/ ForceEndCrossing \/ WriteSetting \/ SetFrequency

Next == Loop \/ Command \/ QuadLeaves

Spec == Init /\ [][Next]_vars

\* The main loop never stops; nobody promises commands or quads.
FairSpec == Spec /\ WF_vars(Loop)

-----------------------------------------------------------------------------
Locations == {"idle", "enterTest", "enter", "gate", "peakTest", "peakTime", "peakTie",
              "threshold", "calibrate", "raise", "creep", "max", "keepPeak", "exitTest",
              "dropTest", "record", "clear", "clearCalib", "clearPeak"}

\* Every field keeps its C++ type.  The trigger, an unsigned byte computed from
\* a difference, leaves the range of the signal only where an interrupt can
\* raise the offset between the test of the difference and its use.
TypeOK ==
    /\ crossing \in BOOLEAN
    /\ rssi \in Rssi
    /\ rssiTimestamp \in Time
    /\ rssiTrigger \in IF Preemptive THEN Byte ELSE Rssi
    /\ nodeRssiPeak \in Rssi
    /\ nodeRssiPeakTimestamp \in Time
    /\ activatedFlag \in BOOLEAN
    /\ calibrationMode \in BOOLEAN
    /\ settings \in [triggerThreshold : Byte, calibrationThreshold : Byte,
                     calibrationOffset : Byte]
    /\ lastPass \in [nodeRssiPeak : Rssi, nodeRssiLaptime : Time,
                     nodeRssiPeakTimestamp : Time, lap : 0 .. LapMod - 1]
    /\ pc \in Locations
    /\ triggerThreshold \in Byte /\ maxPeak \in Rssi
    /\ near \in BOOLEAN
    /\ owed \in Int
    /\ seen \in [max : Rssi, first : Time, last : Time]
    /\ calibSeen \in BOOLEAN

\* rssiEndCrossing, reached by an RSSI drop, reports a crossing that no
\* command has already reported or thrown away: one crossing, one lap.
OneLapPerCrossing == owed >= 0

\* A lap recorded while the quad was crossing carries the highest sample of
\* that crossing and a time inside it, although the time is averaged twice.
\* (True while the node's clock is in the lower half of its range.)
PassIsMeasured ==
    [][lastPass' # lastPass /\ crossing /\ (pc = "idle" \/ pc' = "clear") =>
          /\ lastPass'.nodeRssiPeak = seen.max
          /\ lastPass'.nodeRssiPeakTimestamp \in seen.first .. seen.last]_vars

\* No peak survives a crossing: between passes of the loop a clear node has
\* peak 0, so the next crossing takes its time from its own samples.
PeakStartsFresh == pc = "idle" /\ ~crossing => nodeRssiPeak = 0

\* The trigger stays at or below the peak of the crossing in progress, also
\* while calibration raises it and settings change: the crossing can only
\* end by the signal falling.
TriggerBelowPeak == pc = "idle" /\ crossing => rssiTrigger <= nodeRssiPeak

\* The loop takes the node out of calibration mode only at the end of a
\* crossing that began after the calibrate command.
CalibrationSeesACrossing ==
    [][calibrationMode /\ ~calibrationMode' /\ pc # "idle" /\ lastPass' = lastPass
          => calibSeen]_vars

\* Once the quad is gone a crossing comes to its end, unless the trigger
\* threshold is at or above the trigger level.
CrossingCompletes ==
    (crossing /\ ~near /\ rssiTrigger > settings.triggerThreshold)
       ~> (~crossing \/ rssiTrigger <= settings.triggerThreshold)
=============================================================================
