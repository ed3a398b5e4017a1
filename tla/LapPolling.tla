----------------------------- MODULE LapPolling -----------------------------
(***************************************************************************)
(* How a lap becomes a pass record: the update loop of                     *)
(* src/interface/LTInterface.py, the reply to READ_LAP_STATS of            *)
(* src/node/commands.cpp and pass_record_callback of src/server/server.py. *)
(*                                                                         *)
(* A node only offers its latest lap, with a lap number of one byte.  The  *)
(* host polls the nodes in turn and reports a pass when the number is not  *)
(* the one of the last poll it accepted.  Between two polls of a node      *)
(* there may be any number of laps, or a restart of the node; a poll may   *)
(* fail, be rejected for its RSSI, or raise an exception that ends the     *)
(* round.  Each node is on a port of its own.                              *)
(*                                                                         *)
(* A poll is one step: update() does not yield between the reply and the   *)
(* record, and a lap that ends in that time is seen by the next poll.      *)
(***************************************************************************)
EXTENDS Integers

CONSTANTS
    N,             \* number of nodes
    LapMod,        \* values of the lap number: 256
    TimeMod,       \* values of a node's clock: 2^32
    MaxTime,       \* bound: the host's clock
    MaxRestarts    \* bound: restarts of nodes

ASSUME LapPollingAssumption ==
    /\ N \in Nat \ {0}
    /\ LapMod \in Nat \ {0} /\ TimeMod \in Nat \ {0}
    /\ MaxTime \in Nat /\ MaxRestarts \in Nat

Nodes == 1 .. N
Never == -1

VARIABLES
    now,           \* the host's clock
    boot,          \* when each node started, on the host's clock
    lastPass,      \* each node's lastPass: [lap, stamp, laptime]
    at,            \* the node update() is at; 0 between two rounds
    node_lap_id,   \* the lap number last accepted of each node
    enabled,       \* nodes whose frequency is not 0
    unplugged,     \* environment: nodes whose port raises exceptions
    restarts,      \* environment: restarts so far
    passAt,        \* history: when the last pass was, on the host's clock
    fresh,         \* history: passes since the last accepted poll
    passes,        \* history: passes since the first accepted poll
    reported,      \* history: pass records sent
    rebooted       \* history: nodes that restarted since the last accepted poll

hostVars == <<at, node_lap_id, reported>>
env == <<enabled, unplugged, restarts>>
vars == <<now, boot, lastPass, hostVars, env, passAt, fresh, passes, rebooted>>

NoPass == [lap |-> 0, stamp |-> 0, laptime |-> 0]
Polled(n) == node_lap_id[n] # Never
Clock(n) == (now - boot[n]) % TimeMod
All(x) == [n \in Nodes |-> x]

Init ==
    /\ now = 0
    /\ boot = All(0)
    /\ lastPass = All(NoPass)
    /\ at = 0
    /\ node_lap_id = All(Never)
    /\ enabled = Nodes
    /\ unplugged = {}
    /\ restarts = 0
    /\ passAt = All(0)
    /\ fresh = All(0)
    /\ passes = All(0)
    /\ reported = All(0)
    /\ rebooted = {}

-----------------------------------------------------------------------------
(* The update loop                                                         *)

Advance == at' = IF at = N THEN 0 ELSE at + 1

StartRound ==
    /\ at = 0
    /\ at' = 1
    /\ UNCHANGED <<now, boot, lastPass, node_lap_id, reported, env, passAt, fresh,
                   passes, rebooted>>

\* A node that is disabled, a read_block that returns None, a reading of
\* the RSSI that is not valid: the round goes on without the node.
Skip ==
    /\ at \in Nodes
    /\ at \notin enabled \cap unplugged
    /\ Advance
    /\ UNCHANGED <<now, boot, lastPass, node_lap_id, reported, env, passAt, fresh,
                   passes, rebooted>>

\* Faulty variant: the difference of two readings of a clock that wraps.
SinceSigned(n) == Clock(n) - lastPass[n].stamp

\* handleReadLapPassStats: unsigned arithmetic.
Since(n) == (Clock(n) - lastPass[n].stamp) % TimeMod

\* pass_record_callback; a node without a lap time gives the time since.
PassRecord(n) ==
    [timestamp |-> now - Since(n),
     lap_time |-> IF lastPass[n].laptime = 0 THEN Since(n) ELSE lastPass[n].laptime]

\* Faulty variant: the first number read of a node counts as a lap.
IsNewLapEager(n) == lastPass[n].lap # node_lap_id[n]

IsNewLap(n) == Polled(n) /\ lastPass[n].lap # node_lap_id[n]

\* Faulty variant: only a larger number is a new lap.
PollOnlyLarger(n) ==
    /\ at = n
    /\ n \in enabled \ unplugged
    /\ reported' = [reported EXCEPT ![n] = @ + IF IsNewLap(n) /\ lastPass[n].lap > node_lap_id[n] THEN 1 ELSE 0]
    /\ node_lap_id' = [node_lap_id EXCEPT ![n] = IF lastPass[n].lap > @ THEN lastPass[n].lap ELSE @]
    /\ fresh' = [fresh EXCEPT ![n] = 0]
    /\ passes' = [passes EXCEPT ![n] = IF Polled(n) THEN @ ELSE 0]
    /\ rebooted' = rebooted \ {n}
    /\ Advance
    /\ UNCHANGED <<now, boot, lastPass, env, passAt>>

\* A reply whose RSSI is valid.
Poll(n) ==
    /\ at = n
    /\ n \in enabled \ unplugged
    /\ reported' = [reported EXCEPT ![n] = @ + IF IsNewLap(n) THEN 1 ELSE 0]
    /\ node_lap_id' = [node_lap_id EXCEPT ![n] = lastPass[n].lap]
    /\ fresh' = [fresh EXCEPT ![n] = 0]
    /\ passes' = [passes EXCEPT ![n] = IF Polled(n) THEN @ ELSE 0]
    /\ rebooted' = rebooted \ {n}
    /\ Advance
    /\ UNCHANGED <<now, boot, lastPass, env, passAt>>

\* update_loop catches the exception and starts the round again.
Raises ==
    /\ at \in enabled \cap unplugged
    /\ at' = 0
    /\ UNCHANGED <<now, boot, lastPass, node_lap_id, reported, env, passAt, fresh,
                   passes, rebooted>>

-----------------------------------------------------------------------------
(* The nodes and the world                                                 *)

\* Faulty variants: the lap number is wider than a byte, or stops at its
\* largest value.
NextLapWide(lap) == lap + 1
NextLapSaturates(lap) == IF lap + 1 = LapMod THEN lap ELSE lap + 1

NextLap(lap) == (lap + 1) % LapMod

\* rssiEndCrossing: a pass whose peak was at some earlier time.
Pass(n) ==
    /\ \E t \in passAt[n] + 1 .. now :
          /\ t > boot[n]
          /\ passAt' = [passAt EXCEPT ![n] = t]
          /\ lastPass' = [lastPass EXCEPT ![n] =
                [lap |-> NextLap(@.lap),
                 stamp |-> (t - boot[n]) % TimeMod,
                 laptime |-> ((t - boot[n]) - @.stamp) % TimeMod]]
    /\ fresh' = [fresh EXCEPT ![n] = @ + 1]
    /\ passes' = [passes EXCEPT ![n] = @ + 1]
    /\ UNCHANGED <<now, boot, hostVars, env, rebooted>>

Restart(n) ==
    /\ restarts < MaxRestarts
    /\ restarts' = restarts + 1
    /\ boot' = [boot EXCEPT ![n] = now]
    /\ lastPass' = [lastPass EXCEPT ![n] = NoPass]
    /\ rebooted' = rebooted \cup {n}
    /\ UNCHANGED <<now, hostVars, enabled, unplugged, passAt, fresh, passes>>

\* set_frequency(n, 0) and set_frequency(n, f).
Enable(n) ==
    /\ enabled' \in {enabled \cup {n}, enabled \ {n}}
    /\ UNCHANGED <<now, boot, lastPass, hostVars, unplugged, restarts, passAt, fresh,
                   passes, rebooted>>

Unplug(n) ==
    /\ unplugged' = unplugged \cup {n}
    /\ UNCHANGED <<now, boot, lastPass, hostVars, enabled, restarts, passAt, fresh,
                   passes, rebooted>>

Tick ==
    /\ now < MaxTime
    /\ now' = now + 1
    /\ UNCHANGED <<boot, lastPass, hostVars, env, passAt, fresh, passes, rebooted>>

-----------------------------------------------------------------------------
UpdateLoop == StartRound \/ Skip \/ Raises \/ \E n \in Nodes : Poll(n)
World == Tick \/ \E n \in Nodes : Pass(n) \/ Restart(n) \/ Enable(n) \/ Unplug(n)

Next == UpdateLoop \/ World

\* The loop keeps running, and the reads of a node do not all fail.
Spec == Init /\ [][Next]_vars /\ WF_vars(UpdateLoop) /\ \A n \in Nodes : SF_vars(Poll(n))

-----------------------------------------------------------------------------
\* The clocks and counters are numbers in their range.
TypeOK ==
    /\ now \in 0 .. MaxTime
    /\ boot \in [Nodes -> 0 .. MaxTime]
    /\ lastPass \in [Nodes -> [lap : 0 .. LapMod - 1, stamp : 0 .. TimeMod - 1,
                               laptime : 0 .. TimeMod - 1]]
    /\ at \in 0 .. N
    /\ node_lap_id \in [Nodes -> {Never} \cup 0 .. LapMod - 1]
    /\ enabled \subseteq Nodes
    /\ unplugged \subseteq Nodes
    /\ restarts \in Nat
    /\ passAt \in [Nodes -> 0 .. MaxTime]
    /\ fresh \in [Nodes -> Nat]
    /\ passes \in [Nodes -> Nat]
    /\ reported \in [Nodes -> Nat]
    /\ rebooted \subseteq Nodes

\* A node that did not restart since its last accepted poll shows a number
\* that is new exactly if its passes since then are not a multiple of 256.
NewLapMeansNewPass ==
    \A n \in Nodes : Polled(n) /\ n \notin rebooted =>
        (lastPass[n].lap # node_lap_id[n] <=> fresh[n] % LapMod # 0)

\* Without restarts no pass is reported twice, and none that was not made.
NothingReportedTwice ==
    restarts = 0 => \A n \in Nodes : Polled(n) => reported[n] + fresh[n] <= passes[n]

\* A record that follows one poll of the same boot carries the time of the
\* latest pass and no lap time longer than the node runs, as long as that
\* pass is less than a turn of the clock ago.
RecordTimesThePass ==
    [][\A n \in Nodes :
         reported'[n] # reported[n] /\ n \notin rebooted /\ now - passAt[n] < TimeMod =>
             /\ PassRecord(n).timestamp = passAt[n]
             /\ PassRecord(n).lap_time <= now - boot[n]]_vars

Served(n) == n \in enabled /\ \A m \in 1 .. n : m \notin enabled \cap unplugged

\* A new lap is reported, unless the node is disabled or a port at or before
\* the node's place in the round raises exceptions.
NewLapIsTaken ==
    \A n \in Nodes : IsNewLap(n) ~> (lastPass[n].lap = node_lap_id[n] \/ ~Served(n))
=============================================================================
