-------------------------- MODULE LapPollingProofs --------------------------
(***************************************************************************)
(* Proofs about the polling of laps.  Everything rests on three facts that *)
(* every step preserves: the lap number a node shows is the one accepted   *)
(* last plus the passes since (Counted), no more records were sent than    *)
(* passes made (Balanced), and the stamps lie in the past of the node's    *)
(* present boot (Stamped).                                                 *)
(***************************************************************************)
EXTENDS LapPolling, TLAPS

-----------------------------------------------------------------------------
(* Remainders                                                              *)

LEMMA Division ==
    ASSUME NEW a \in Int, NEW m \in Nat \ {0}
    PROVE  a \div m \in Int /\ a % m \in 0 .. m - 1 /\ a = m * (a \div m) + (a % m)
  OBVIOUS

LEMMA RemainderOfSum ==
    ASSUME NEW q \in Int, NEW m \in Nat \ {0}, NEW r \in 0 .. m - 1
    PROVE  (m * q + r) % m = r
  OBVIOUS

LEMMA SmallRemainder ==
    ASSUME NEW m \in Nat \ {0}, NEW r \in 0 .. m - 1
    PROVE  r % m = r
  OBVIOUS

LEMMA AddRemainder ==
    ASSUME NEW a \in Int, NEW b \in Int, NEW m \in Nat \ {0}
    PROVE  ((a % m) + b) % m = (a + b) % m
<1> DEFINE q == a \div m
           r == a % m
<1>1. q \in Int /\ r \in Int /\ a = m * q + r
  BY Division
<1> HIDE DEF q, r
<1> DEFINE p == (r + b) \div m
           s == (r + b) % m
<1>2. p \in Int /\ s \in 0 .. m - 1 /\ r + b = m * p + s
  BY <1>1, Division
<1>3. s = (r + b) % m
  OBVIOUS
<1> HIDE DEF p, s
<1>4. a + b = m * (q + p) + s /\ q + p \in Int
  BY <1>1, <1>2
<1>5. (m * (q + p) + s) % m = s
  BY <1>2, <1>4, RemainderOfSum
<1>6. (a + b) % m = (r + b) % m
  BY <1>3, <1>4, <1>5
<1> QED
  BY <1>6, Zenon DEF r

LEMMA SubRemainder ==
    ASSUME NEW a \in Int, NEW b \in Int, NEW m \in Nat \ {0}
    PROVE  ((a % m) - (b % m)) % m = (a - b) % m
<1> DEFINE q == b \div m
           r == b % m
<1>1. q \in Int /\ r \in Int /\ b = m * q + r
  BY Division
<1>2. r = b % m
  OBVIOUS
<1> HIDE DEF q, r
<1> DEFINE s == (a - b) % m
           p == (a - b) \div m
<1>3. p \in Int /\ s \in 0 .. m - 1 /\ a - b = m * p + s
  BY Division
<1>4. s = (a - b) % m
  OBVIOUS
<1> HIDE DEF p, s
<1>5. a + (0 - r) = m * (p + q) + s /\ p + q \in Int /\ 0 - r \in Int
  BY <1>1, <1>3
<1>6. (a + (0 - r)) % m = s
  BY <1>3, <1>5, RemainderOfSum
<1>7. ((a % m) + (0 - r)) % m = s
  BY <1>5, <1>6, AddRemainder
<1>8. a % m \in Int
  BY Division
<1>9. (a % m) + (0 - r) = (a % m) - r
  BY <1>8, <1>1
<1> QED
  BY <1>2, <1>4, <1>7, <1>9

LEMMA RemainderIsLess ==
    ASSUME NEW c \in Nat, NEW m \in Nat \ {0}
    PROVE  c % m \in Nat /\ c % m <= c
<1>1. CASE c < m
  BY <1>1, SmallRemainder
<1>2. CASE c >= m
  BY <1>2, Division
<1> QED
  BY <1>1, <1>2

\* A lap number moves exactly if the passes are not a multiple of its range.
LEMMA Moved ==
    ASSUME NEW m \in Nat \ {0}, NEW i \in 0 .. m - 1, NEW f \in Nat
    PROVE  (i + f) % m # i <=> f % m # 0
<1> DEFINE r == f % m
<1>1. r \in 0 .. m - 1
  BY Division
<1>2. (r + i) % m = (i + f) % m
  <2> f \in Int /\ i \in Int
    OBVIOUS
  <2>1. (r + i) % m = (f + i) % m
    BY AddRemainder
  <2>2. f + i = i + f
    OBVIOUS
  <2> QED
    BY <2>1, <2>2
<1> HIDE DEF r
<1>3. CASE r + i < m
  <2>1. (r + i) % m = r + i
    BY <1>1, <1>3, SmallRemainder
  <2> QED
    BY <2>1, <1>1, <1>2 DEF r
<1>4. CASE r + i >= m
  <2>1. r + i - m \in 0 .. m - 1 /\ r + i = m * 1 + (r + i - m)
    BY <1>1, <1>4
  <2>2. (r + i) % m = r + i - m
    BY <2>1, RemainderOfSum
  <2>3. r + i - m # i /\ r # 0
    BY <1>1, <1>4
  <2> QED
    BY <2>2, <2>3, <1>2 DEF r
<1> QED
  BY <1>1, <1>3, <1>4

-----------------------------------------------------------------------------
(* The invariants                                                          *)

\* The lap number shown is the one accepted last plus the passes since.
Counted ==
    \A n \in Nodes : Polled(n) /\ n \notin rebooted =>
        lastPass[n].lap = (node_lap_id[n] + fresh[n]) % LapMod

\* As long as no node restarts, records sent and passes not yet seen are
\* paid for by passes made.
Balanced ==
    restarts = 0 =>
        /\ rebooted = {}
        /\ \A n \in Nodes : Polled(n) => reported[n] + fresh[n] <= passes[n]
        /\ \A n \in Nodes : ~Polled(n) => reported[n] = 0

\* Times lie in the past, the stamps of a boot within that boot.
Stamped ==
    \A n \in Nodes :
        /\ passAt[n] <= now /\ boot[n] <= now
        /\ lastPass[n].stamp = 0 \/ lastPass[n].stamp <= passAt[n] - boot[n]
        /\ fresh[n] > 0 /\ n \notin rebooted =>
              /\ passAt[n] > boot[n]
              /\ lastPass[n].stamp = (passAt[n] - boot[n]) % TimeMod
              /\ lastPass[n].laptime <= passAt[n] - boot[n]

PollInv == TypeOK /\ Counted /\ Balanced /\ Stamped

LEMMA InitInv == Init => PollInv
BY LapPollingAssumption
   DEF Init, PollInv, TypeOK, Counted, Balanced, Stamped, Polled, All, NoPass, Nodes, Never

-----------------------------------------------------------------------------
(* Type correctness                                                        *)

LEMMA RemainderType ==
    /\ \A a \in Int : a % LapMod \in 0 .. LapMod - 1
    /\ \A a \in Int : a % TimeMod \in 0 .. TimeMod - 1
BY Division, LapPollingAssumption

LEMMA AdvanceType == TypeOK /\ at \in Nodes /\ Advance => at' \in 0 .. N
BY LapPollingAssumption DEF Advance, Nodes, TypeOK

LEMMA TypePreserved == TypeOK /\ [Next]_vars => TypeOK'
<1> SUFFICES ASSUME TypeOK, [Next]_vars PROVE TypeOK'
  OBVIOUS
<1> USE DEF TypeOK
<1>1. CASE StartRound
  BY <1>1, LapPollingAssumption DEF StartRound, env
<1>2. CASE Skip
  BY <1>2, AdvanceType DEF Skip, env
<1>3. CASE Raises
  BY <1>3, LapPollingAssumption DEF Raises, env
<1>4. ASSUME NEW n \in Nodes, Poll(n) PROVE TypeOK'
  <2>1. at' \in 0 .. N
    BY <1>4, AdvanceType DEF Poll
  <2>2. /\ reported' \in [Nodes -> Nat]
        /\ node_lap_id' \in [Nodes -> {Never} \cup 0 .. LapMod - 1]
        /\ fresh' \in [Nodes -> Nat]
        /\ passes' \in [Nodes -> Nat]
    BY <1>4 DEF Poll
  <2> QED
    BY <1>4, <2>1, <2>2 DEF Poll, env
<1>5. CASE Tick
  BY <1>5, LapPollingAssumption DEF Tick, hostVars, env
<1>6. ASSUME NEW n \in Nodes, Pass(n) PROVE TypeOK'
  <2>1. PICK t \in passAt[n] + 1 .. now :
          /\ passAt' = [passAt EXCEPT ![n] = t]
          /\ lastPass' = [lastPass EXCEPT ![n] =
                [lap |-> NextLap(@.lap),
                 stamp |-> (t - boot[n]) % TimeMod,
                 laptime |-> ((t - boot[n]) - @.stamp) % TimeMod]]
    BY <1>6 DEF Pass
  <2>2. /\ NextLap(lastPass[n].lap) \in 0 .. LapMod - 1
        /\ (t - boot[n]) % TimeMod \in 0 .. TimeMod - 1
        /\ ((t - boot[n]) - lastPass[n].stamp) % TimeMod \in 0 .. TimeMod - 1
    BY RemainderType DEF NextLap
  <2>3. lastPass' \in [Nodes -> [lap : 0 .. LapMod - 1, stamp : 0 .. TimeMod - 1,
                                 laptime : 0 .. TimeMod - 1]]
    BY <2>1, <2>2
  <2>4. t \in 0 .. MaxTime
    BY LapPollingAssumption
  <2>5. passAt' \in [Nodes -> 0 .. MaxTime]
    BY <2>1, <2>4
  <2>6. fresh' \in [Nodes -> Nat] /\ passes' \in [Nodes -> Nat]
    BY <1>6 DEF Pass
  <2> QED
    BY <1>6, <2>3, <2>5, <2>6 DEF Pass, hostVars, env
<1>7. ASSUME NEW n \in Nodes, Restart(n) PROVE TypeOK'
  BY <1>7, LapPollingAssumption DEF Restart, NoPass, hostVars
<1>8. ASSUME NEW n \in Nodes, Enable(n) PROVE TypeOK'
  BY <1>8 DEF Enable, hostVars
<1>9. ASSUME NEW n \in Nodes, Unplug(n) PROVE TypeOK'
  BY <1>9 DEF Unplug, hostVars
<1>10. CASE UNCHANGED vars
  BY <1>10 DEF vars, hostVars, env
<1> QED
  BY <1>1, <1>2, <1>3, <1>4, <1>5, <1>6, <1>7, <1>8, <1>9, <1>10
     DEF Next, UpdateLoop, World

\* The clocks, the lap numbers and the counters of the poll are numbers in
\* their range, for any number of nodes and any range of lap number and clock.
THEOREM TypeCorrect == Spec => []TypeOK
<1>1. Init => TypeOK
  BY InitInv DEF PollInv
<1> QED
  BY <1>1, TypePreserved, PTL DEF Spec
-----------------------------------------------------------------------------
(* The lap numbers, the records and the stamps                             *)

\* Steps that leave laps and records alone.
Idle ==
    /\ UNCHANGED <<boot, lastPass, node_lap_id, reported, restarts, passAt, fresh,
                   passes, rebooted>>
    /\ now' >= now

LEMMA StepKinds ==
    TypeOK /\ [Next]_vars =>
        Idle \/ \E n \in Nodes : Poll(n) \/ Pass(n) \/ Restart(n)
<1> SUFFICES ASSUME TypeOK, [Next]_vars
             PROVE  Idle \/ \E n \in Nodes : Poll(n) \/ Pass(n) \/ Restart(n)
  OBVIOUS
<1>0. now \in Nat
  BY LapPollingAssumption DEF TypeOK
<1>1. StartRound \/ Skip \/ Raises => Idle
  BY <1>0 DEF StartRound, Skip, Raises, Idle, env
<1>2. Tick => Idle
  BY <1>0 DEF Tick, Idle, hostVars, env
<1>3. ASSUME NEW n \in Nodes, Enable(n) \/ Unplug(n) PROVE Idle
  BY <1>0, <1>3 DEF Enable, Unplug, Idle, hostVars
<1>4. UNCHANGED vars => Idle
  BY <1>0 DEF vars, Idle, hostVars, env
<1> QED
  BY <1>1, <1>2, <1>3, <1>4 DEF Next, UpdateLoop, World

LEMMA CountedPreserved == TypeOK /\ Counted /\ [Next]_vars => Counted'
<1> SUFFICES ASSUME TypeOK, Counted, [Next]_vars,
                    NEW m \in Nodes, Polled(m)', m \notin rebooted'
             PROVE  lastPass'[m].lap = (node_lap_id'[m] + fresh'[m]) % LapMod
  BY DEF Counted, Polled
<1>1. CASE Idle
  BY <1>1 DEF Idle, Counted, Polled
<1>2. ASSUME NEW n \in Nodes, Poll(n)
      PROVE  lastPass'[m].lap = (node_lap_id'[m] + fresh'[m]) % LapMod
  <2>1. CASE n = m
    <3>1. lastPass'[m].lap = lastPass[m].lap /\ node_lap_id'[m] = lastPass[m].lap /\ fresh'[m] = 0
      BY <1>2, <2>1 DEF Poll, TypeOK
    <3>2. lastPass[m].lap \in 0 .. LapMod - 1
      BY DEF TypeOK
    <3>3. lastPass[m].lap + 0 = lastPass[m].lap
      BY <3>2, LapPollingAssumption
    <3> QED
      BY <3>1, <3>2, <3>3, SmallRemainder, LapPollingAssumption
  <2>2. CASE n # m
    BY <1>2, <2>2 DEF Poll, TypeOK, Counted, Polled
  <2> QED
    BY <2>1, <2>2
<1>3. ASSUME NEW n \in Nodes, Pass(n)
      PROVE  lastPass'[m].lap = (node_lap_id'[m] + fresh'[m]) % LapMod
  <2>1. lastPass[m].lap = (node_lap_id[m] + fresh[m]) % LapMod
    BY <1>3 DEF Pass, hostVars, Counted, Polled
  <2>2. CASE n = m
    <3>1. lastPass'[m].lap = (lastPass[m].lap + 1) % LapMod
      BY <1>3, <2>2 DEF Pass, NextLap, TypeOK
    <3>2. node_lap_id'[m] = node_lap_id[m] /\ fresh'[m] = fresh[m] + 1
      BY <1>3, <2>2 DEF Pass, hostVars, TypeOK
    <3>3. node_lap_id[m] \in Int /\ fresh[m] \in Int
      BY LapPollingAssumption DEF TypeOK, Never
    <3>4. node_lap_id[m] + fresh[m] \in Int
      BY <3>3
    <3>5. lastPass'[m].lap = ((node_lap_id[m] + fresh[m]) + 1) % LapMod
      BY <2>1, <3>1, <3>4, AddRemainder, LapPollingAssumption
    <3>6. (node_lap_id[m] + fresh[m]) + 1 = node_lap_id[m] + (fresh[m] + 1)
      BY <3>3
    <3> QED
      BY <3>2, <3>5, <3>6
  <2>3. CASE n # m
    BY <1>3, <2>1, <2>3 DEF Pass, hostVars, TypeOK
  <2> QED
    BY <2>2, <2>3
<1>4. ASSUME NEW n \in Nodes, Restart(n)
      PROVE  lastPass'[m].lap = (node_lap_id'[m] + fresh'[m]) % LapMod
  BY <1>4 DEF Restart, TypeOK, hostVars, Counted, Polled
<1> QED
  BY <1>1, <1>2, <1>3, <1>4, StepKinds

LEMMA CountedNew == TypeOK /\ Counted => NewLapMeansNewPass
<1> SUFFICES ASSUME TypeOK, Counted, NEW n \in Nodes, Polled(n), n \notin rebooted
             PROVE  lastPass[n].lap # node_lap_id[n] <=> fresh[n] % LapMod # 0
  BY DEF NewLapMeansNewPass
<1>1. node_lap_id[n] \in 0 .. LapMod - 1 /\ fresh[n] \in Nat
  BY DEF TypeOK, Polled
<1>2. lastPass[n].lap = (node_lap_id[n] + fresh[n]) % LapMod
  BY DEF Counted
<1> QED
  BY <1>1, <1>2, Moved, LapPollingAssumption

LEMMA BalancedPreserved == TypeOK /\ Counted /\ Balanced /\ [Next]_vars => Balanced'
<1> SUFFICES ASSUME TypeOK, Counted, Balanced, [Next]_vars, restarts' = 0
             PROVE  /\ rebooted' = {}
                    /\ \A n \in Nodes : Polled(n)' => reported'[n] + fresh'[n] <= passes'[n]
                    /\ \A n \in Nodes : ~Polled(n)' => reported'[n] = 0
  BY DEF Balanced, Polled
<1>1. CASE Idle
  BY <1>1 DEF Idle, Balanced, Polled
<1>2. ASSUME NEW n \in Nodes, Poll(n)
      PROVE  /\ rebooted' = {}
             /\ \A m \in Nodes : Polled(m)' => reported'[m] + fresh'[m] <= passes'[m]
             /\ \A m \in Nodes : ~Polled(m)' => reported'[m] = 0
  <2>1. restarts = 0 /\ rebooted = {}
    BY <1>2 DEF Poll, env, Balanced
  <2>2. /\ \A m \in Nodes \ {n} : /\ reported'[m] = reported[m] /\ fresh'[m] = fresh[m]
                                   /\ passes'[m] = passes[m]
                                   /\ node_lap_id'[m] = node_lap_id[m]
        /\ reported'[n] = reported[n] + IF IsNewLap(n) THEN 1 ELSE 0
        /\ fresh'[n] = 0
        /\ passes'[n] = IF Polled(n) THEN passes[n] ELSE 0
        /\ node_lap_id'[n] = lastPass[n].lap
    BY <1>2 DEF Poll, TypeOK
  <2>3. reported'[n] + fresh'[n] <= passes'[n]
    <3>1. reported[n] \in Nat /\ fresh[n] \in Nat /\ passes[n] \in Nat
      BY DEF TypeOK
    <3>2. CASE Polled(n)
      <4>1. reported[n] + fresh[n] <= passes[n]
        BY <2>1, <3>2 DEF Balanced
      <4>2. IsNewLap(n) => fresh[n] % LapMod # 0
        BY <2>1, <3>2, CountedNew DEF NewLapMeansNewPass, IsNewLap
      <4>3. 0 % LapMod = 0
        BY SmallRemainder, LapPollingAssumption
      <4>4. IsNewLap(n) => fresh[n] >= 1
        BY <3>1, <4>2, <4>3
      <4> QED
        BY <2>2, <3>1, <3>2, <4>1, <4>4
    <3>3. CASE ~Polled(n)
      BY <2>1, <2>2, <3>3 DEF Balanced, IsNewLap
    <3> QED
      BY <3>2, <3>3
  <2>4. lastPass[n].lap # Never
    BY LapPollingAssumption DEF TypeOK, Never
  <2>5. rebooted' = {}
    BY <1>2, <2>1 DEF Poll
  <2> QED
    BY <2>1, <2>2, <2>3, <2>4, <2>5 DEF Balanced, Polled
<1>3. ASSUME NEW n \in Nodes, Pass(n)
      PROVE  /\ rebooted' = {}
             /\ \A m \in Nodes : Polled(m)' => reported'[m] + fresh'[m] <= passes'[m]
             /\ \A m \in Nodes : ~Polled(m)' => reported'[m] = 0
  <2>1. restarts = 0 /\ rebooted' = {}
    BY <1>3 DEF Pass, env, Balanced
  <2>2. UNCHANGED <<reported, node_lap_id>>
    BY <1>3 DEF Pass, hostVars
  <2>3. ASSUME NEW m \in Nodes, Polled(m)' PROVE reported'[m] + fresh'[m] <= passes'[m]
    <3>1. reported[m] + fresh[m] <= passes[m]
      BY <2>1, <2>2, <2>3 DEF Balanced, Polled
    <3>2. reported[m] \in Nat /\ fresh[m] \in Nat /\ passes[m] \in Nat
      BY DEF TypeOK
    <3>3. \/ fresh'[m] = fresh[m] + 1 /\ passes'[m] = passes[m] + 1
          \/ fresh'[m] = fresh[m] /\ passes'[m] = passes[m]
      BY <1>3 DEF Pass, TypeOK
    <3> QED
      BY <2>2, <3>1, <3>2, <3>3
  <2> QED
    BY <2>1, <2>2, <2>3 DEF Balanced, Polled
<1>4. ASSUME NEW n \in Nodes, Restart(n) PROVE FALSE
  BY <1>4 DEF Restart, TypeOK
<1> QED
  BY <1>1, <1>2, <1>3, <1>4, StepKinds
LEMMA StampedPreserved == TypeOK /\ Stamped /\ [Next]_vars => Stamped'
<1> DEFINE InPast(m) ==
        /\ passAt[m] <= now /\ boot[m] <= now
        /\ lastPass[m].stamp = 0 \/ lastPass[m].stamp <= passAt[m] - boot[m]
        /\ fresh[m] > 0 /\ m \notin rebooted =>
              /\ passAt[m] > boot[m]
              /\ lastPass[m].stamp = (passAt[m] - boot[m]) % TimeMod
              /\ lastPass[m].laptime <= passAt[m] - boot[m]
<1> SUFFICES ASSUME TypeOK, Stamped, [Next]_vars, NEW m \in Nodes PROVE InPast(m)'
  BY DEF Stamped
<1>0. InPast(m)
  BY DEF Stamped
<1>t. /\ now \in Nat /\ passAt[m] \in Nat /\ boot[m] \in Nat /\ fresh[m] \in Nat
      /\ lastPass[m].stamp \in Nat /\ lastPass[m].laptime \in Nat
  BY LapPollingAssumption DEF TypeOK
<1>1. CASE Idle
  <2>1. now' \in Nat
    BY <1>1, TypePreserved, LapPollingAssumption DEF TypeOK
  <2> QED
    BY <1>0, <1>1, <1>t, <2>1 DEF Idle
<1>2. ASSUME NEW n \in Nodes, Poll(n) PROVE InPast(m)'
  BY <1>0, <1>2, <1>t DEF Poll, TypeOK
<1>3. ASSUME NEW n \in Nodes, Pass(n) PROVE InPast(m)'
  <2>1. UNCHANGED <<now, boot, rebooted>>
    BY <1>3 DEF Pass
  <2>2. CASE n # m
    BY <1>0, <1>3, <2>1, <2>2 DEF Pass, TypeOK
  <2>3. CASE n = m
    <3>1. PICK t \in passAt[m] + 1 .. now :
            /\ t > boot[m]
            /\ passAt' = [passAt EXCEPT ![m] = t]
            /\ lastPass' = [lastPass EXCEPT ![m] =
                  [lap |-> NextLap(@.lap),
                   stamp |-> (t - boot[m]) % TimeMod,
                   laptime |-> ((t - boot[m]) - @.stamp) % TimeMod]]
      BY <1>3, <2>3 DEF Pass
    <3>2. /\ passAt'[m] = t
          /\ lastPass'[m].stamp = (t - boot[m]) % TimeMod
          /\ lastPass'[m].laptime = ((t - boot[m]) - lastPass[m].stamp) % TimeMod
      BY <3>1 DEF TypeOK
    <3>3. t \in Nat /\ t <= now /\ t > passAt[m]
      BY <1>t, <3>1
    <3>4. t - boot[m] \in Nat /\ (t - boot[m]) - lastPass[m].stamp \in Nat
      BY <1>0, <1>t, <3>1, <3>3
    <3>5. (t - boot[m]) % TimeMod <= t - boot[m]
      BY <3>4, RemainderIsLess, LapPollingAssumption
    <3>6. /\ ((t - boot[m]) - lastPass[m].stamp) % TimeMod <= (t - boot[m]) - lastPass[m].stamp
          /\ ((t - boot[m]) - lastPass[m].stamp) % TimeMod \in Nat
      BY <3>4, RemainderIsLess, LapPollingAssumption
    <3>7. ((t - boot[m]) - lastPass[m].stamp) % TimeMod <= t - boot[m]
      BY <1>t, <3>3, <3>6
    <3> QED
      BY <1>0, <2>1, <3>1, <3>2, <3>3, <3>5, <3>7
  <2> QED
    BY <2>2, <2>3
<1>4. ASSUME NEW n \in Nodes, Restart(n) PROVE InPast(m)'
  BY <1>0, <1>4, <1>t DEF Restart, NoPass, TypeOK, hostVars
<1> QED
  BY <1>1, <1>2, <1>3, <1>4, StepKinds

LEMMA InvPreserved == PollInv /\ [Next]_vars => PollInv'
BY TypePreserved, CountedPreserved, BalancedPreserved, StampedPreserved DEF PollInv

LEMMA Invariant == Spec => []PollInv
BY InitInv, InvPreserved, PTL DEF Spec

\* A record that is sent carries the time of the latest pass.
LEMMA RecordIsRight ==
    ASSUME PollInv, [Next]_vars, NEW n \in Nodes,
           reported'[n] # reported[n], n \notin rebooted, now - passAt[n] < TimeMod
    PROVE  /\ PassRecord(n).timestamp = passAt[n]
           /\ PassRecord(n).lap_time <= now - boot[n]
<1> USE DEF PollInv
<1>1. PICK m \in Nodes : Poll(m)
  BY StepKinds DEF Idle, Pass, Restart, hostVars
<1>2. m = n /\ IsNewLap(n)
  BY <1>1 DEF Poll, TypeOK
<1>3. /\ now \in Nat /\ passAt[n] \in Nat /\ boot[n] \in Nat /\ fresh[n] \in Nat
      /\ lastPass[n].laptime \in Nat
  BY LapPollingAssumption DEF TypeOK
<1>4. fresh[n] > 0
  <2>1. fresh[n] % LapMod # 0
    BY <1>2, CountedNew DEF NewLapMeansNewPass, IsNewLap
  <2>2. 0 % LapMod = 0
    BY SmallRemainder, LapPollingAssumption
  <2> QED
    BY <1>3, <2>1, <2>2
<1>5. /\ passAt[n] <= now
      /\ passAt[n] > boot[n]
      /\ lastPass[n].stamp = (passAt[n] - boot[n]) % TimeMod
      /\ lastPass[n].laptime <= passAt[n] - boot[n]
  BY <1>4 DEF Stamped
<1>6. Since(n) = now - passAt[n]
  <2>1. now - boot[n] \in Int /\ passAt[n] - boot[n] \in Int
    BY <1>3
  <2>2. Since(n) = ((now - boot[n]) - (passAt[n] - boot[n])) % TimeMod
    BY <1>5, <2>1, SubRemainder, LapPollingAssumption DEF Since, Clock
  <2>3. (now - boot[n]) - (passAt[n] - boot[n]) = now - passAt[n]
    BY <1>3
  <2>4. now - passAt[n] \in 0 .. TimeMod - 1
    BY <1>3, <1>5, LapPollingAssumption
  <2> QED
    BY <2>2, <2>3, <2>4, SmallRemainder, LapPollingAssumption
<1> QED
  BY <1>3, <1>5, <1>6 DEF PassRecord

-----------------------------------------------------------------------------
\* A node that did not restart since its last accepted poll shows a new lap
\* number exactly if its passes since are not a multiple of the number's
\* range, for any number of nodes and any range.
THEOREM NewLaps == Spec => []NewLapMeansNewPass
<1>1. PollInv => NewLapMeansNewPass
  BY CountedNew DEF PollInv
<1> QED
  BY <1>1, Invariant, PTL

\* Without restarts, update() sends at most one record per pass.
THEOREM NothingTwice == Spec => []NothingReportedTwice
<1>1. PollInv => NothingReportedTwice
  BY DEF PollInv, Balanced, NothingReportedTwice
<1> QED
  BY <1>1, Invariant, PTL

\* A pass record has the time of the node's latest pass, whatever the range
\* of the node's clock, if the pass is less than a turn of the clock ago.
THEOREM RecordTimes == Spec => RecordTimesThePass
<1>1. PollInv /\ [Next]_vars =>
        [\A n \in Nodes :
           reported'[n] # reported[n] /\ n \notin rebooted /\ now - passAt[n] < TimeMod =>
               /\ PassRecord(n).timestamp = passAt[n]
               /\ PassRecord(n).lap_time <= now - boot[n]]_vars
  BY RecordIsRight
<1> QED
  BY <1>1, Invariant, PTL DEF Spec, RecordTimesThePass
=============================================================================
