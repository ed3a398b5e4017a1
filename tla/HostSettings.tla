---------------------------- MODULE HostSettings ----------------------------
(***************************************************************************)
(* How a setting a client asks for reaches the configuration, the node and *)
(* the value shown to all clients: the set_* handlers of                   *)
(* src/server/server.py, Config.set_item, and set_and_validate_* with its  *)
(* callers in src/interface/LTInterface.py.                                *)
(*                                                                         *)
(* A handler stores the value in config.json, writes it to the node, reads *)
(* it back, tries again if it differs, and keeps the result as the node's  *)
(* cached value.  Handlers yield to each other around every block.  The    *)
(* server may die at any step; when it starts again, it sets every item of *)
(* its multi-node processor from the configuration, before it serves.      *)
(*                                                                         *)
(* Blocks are used through what they promise, NodeRegisters: one register  *)
(* per item.  The promise holds as long as the link knows which node of    *)
(* the processor is selected, and no longer: that is assumed here.         *)
(***************************************************************************)
EXTENDS Naturals, Sequences

CONSTANTS
    Clients,         \* greenlets of handlers that may overlap
    Main,            \* the greenlet that starts the server
    Items,           \* the settings of the processor's nodes
    Values,          \* accepted by the nodes
    Off,             \* 0: an invalid level, a disabled node's frequency
    PowerDown,       \* written to a disabled node: 1111
    Defaults,        \* of the configuration
    NoResult,        \* None
    Empty,           \* a config.json that does not parse
    MaxRetries,      \* MAX_RETRY_COUNT
    MaxQueue,        \* bound: writes under way
    MaxCrashes       \* bound: crashes of the server

Greenlets == Clients \cup {Main}
Asked == Values \cup {Off}

ASSUME HostSettingsAssumption ==
    /\ Main \notin Clients
    /\ Off \notin Values /\ PowerDown \in Values
    /\ Defaults \in [Items -> Asked]
    /\ NoResult \notin Values \cup {TRUE}
    /\ Empty \notin [Items -> Asked]
    /\ MaxRetries \in Nat /\ MaxQueue \in Nat /\ MaxCrashes \in Nat

VARIABLES
    levels,        \* the items that are RSSI levels; others are frequencies
    value, pending, call,   \* the registers and their port
    tracked,       \* the port finds its registers: TRUE throughout
    file,          \* config.json
    config,        \* ConfigContext.serverconfig, [item -> value]
    cache,         \* node.frequency, node.trigger_threshold, ...
    task,          \* what each greenlet sets: [item, val, step, retry_count]
    up,            \* the server runs
    todo,          \* items the start has still to set
    crashes,       \* environment: crashes so far
    confirmed,     \* history: items whose last task to end read its value back
    alone          \* history: items whose last task never met another

Port == INSTANCE NodeRegisters WITH Nodes <- Items

portVars == <<levels, value, pending, call, tracked>>
vars == <<portVars, file, config, cache, task, up, todo, crashes, confirmed, alone>>

Idle == [step |-> "idle"]
Task(i, v) == [item |-> i, val |-> v, step |-> "write", retry_count |-> 0]
Busy(i) == {g \in Greenlets : task[g] # Idle /\ task[g].item = i}

\* set_frequency writes another frequency for 0.
Sent(v) == IF v = Off THEN PowerDown ELSE v

Init ==
    /\ levels \in SUBSET Items
    /\ Port!Init
    /\ file = Defaults
    /\ config = Defaults
    /\ cache = value
    /\ task = [g \in Greenlets |-> Idle]
    /\ up = TRUE
    /\ todo = Items
    /\ crashes = 0
    /\ confirmed = {}
    /\ alone = {}

-----------------------------------------------------------------------------
(* Handlers and the start of the server                                    *)

\* is_valid_rssi: such a level is not sent.
Accepted(i, v) == i \in levels => v # Off

StartTask(g, i, v) ==
    /\ task' = [task EXCEPT ![g] = IF Accepted(i, v) THEN Task(i, v) ELSE Idle]
    /\ confirmed' = confirmed \ {i}
    /\ alone' = IF Busy(i) = {} THEN alone \cup {i} ELSE alone \ {i}

\* set_item: the configuration is saved first, whatever becomes of the value.
\* A save that fails is caught, and the handler does not ask: see CrashUnsaved.
Request(g, i, v) ==
    /\ up /\ todo = {} /\ task[Main] = Idle
    /\ task[g] = Idle
    /\ config' = [config EXCEPT ![i] = v]
    /\ file' = config'
    /\ StartTask(g, i, v)
    /\ UNCHANGED <<portVars, cache, up, todo, crashes>>

\* LTInterface.__init__: one item after the other.
Push(i) ==
    /\ up /\ i \in todo
    /\ task[Main] = Idle
    /\ todo' = todo \ {i}
    /\ StartTask(Main, i, config[i])
    /\ UNCHANGED <<portVars, file, config, cache, up, crashes>>

BlockFails(g) == Port!Fails(g) /\ tracked'

AtStep(g, s) == task[g] # Idle /\ task[g].step = s

\* A block: a call on the port, and later its result.
Write(g) ==
    /\ AtStep(g, "write")
    /\ Port!Begin(g)
    /\ call'[g] = [kind |-> "write", node |-> task[g].item, val |-> Sent(task[g].val)]
    /\ task' = [task EXCEPT ![g].step = "writing"]
    /\ UNCHANGED <<levels, file, config, cache, up, todo, crashes, confirmed, alone>>

\* The result of the write is not looked at.
Written(g) ==
    /\ AtStep(g, "writing")
    /\ \/ Len(pending) < MaxQueue /\ Port!WriteSent(g)
       \/ BlockFails(g)
    /\ task' = [task EXCEPT ![g].step = "read"]
    /\ UNCHANGED <<levels, file, config, cache, up, todo, crashes, confirmed, alone>>

Read(g) ==
    /\ AtStep(g, "read")
    /\ Port!Begin(g)
    /\ call'[g] = [kind |-> "read", node |-> task[g].item]
    /\ task' = [task EXCEPT ![g].step = "reading"]
    /\ UNCHANGED <<levels, file, config, cache, up, todo, crashes, confirmed, alone>>

Received(g) ==
    /\ AtStep(g, "reading")
    /\ Port!ReadReturns(g) \/ BlockFails(g)

\* Faulty variant: a read that fails counts as a confirmation.
ConfirmsUnread(g) == call'[g].result \in {Sent(task[g].val), NoResult}

Confirms(g) == call'[g].result = Sent(task[g].val)

\* Faulty variants: a retry too many, and one that is not counted.
RetryOnceMore(g) ==
    /\ Received(g)
    /\ ~Confirms(g)
    /\ task[g].retry_count <= MaxRetries
    /\ task' = [task EXCEPT ![g].step = "write", ![g].retry_count = @ + 1]
    /\ UNCHANGED <<levels, file, config, cache, up, todo, crashes, confirmed, alone>>

RetryUncounted(g) ==
    /\ Received(g)
    /\ ~Confirms(g)
    /\ task' = [task EXCEPT ![g].step = "write"]
    /\ UNCHANGED <<levels, file, config, cache, up, todo, crashes, confirmed, alone>>

Retry(g) ==
    /\ Received(g)
    /\ ~Confirms(g)
    /\ task[g].retry_count < MaxRetries
    /\ task' = [task EXCEPT ![g].step = "write", ![g].retry_count = @ + 1]
    /\ UNCHANGED <<levels, file, config, cache, up, todo, crashes, confirmed, alone>>

\* What set_and_validate returns: the value read last or, if that failed,
\* the value asked for.
OutValue(g) == IF call'[g].result = NoResult THEN Sent(task[g].val) ELSE call'[g].result

\* Faulty variant: a disabled node keeps the frequency that was written.
CachedAsRead(g) == IF task[g].item \in levels THEN task[g].val ELSE OutValue(g)

\* A frequency is kept as returned, 0 as 0; a level as asked for, whatever
\* was returned.
Cached(g) ==
    IF task[g].item \in levels \/ task[g].val = Off THEN task[g].val ELSE OutValue(g)

\* The value is confirmed, or no retry is left.
Finish(g) ==
    /\ Received(g)
    /\ Confirms(g) \/ task[g].retry_count = MaxRetries
    /\ cache' = [cache EXCEPT ![task[g].item] = Cached(g)]
    /\ task' = [task EXCEPT ![g] = Idle]
    /\ confirmed' = IF Confirms(g) THEN confirmed \cup {task[g].item}
                                   ELSE confirmed \ {task[g].item}
    /\ UNCHANGED <<levels, file, config, up, todo, crashes, alone>>

-----------------------------------------------------------------------------
(* The node, crashes and the configuration file                            *)

NodeStep ==
    /\ Port!Apply \/ Port!LoseWrite
    /\ UNCHANGED <<levels, file, config, cache, task, up, todo, crashes, confirmed,
                   alone>>

Die ==
    /\ up /\ crashes < MaxCrashes
    /\ up' = FALSE
    /\ crashes' = crashes + 1
    /\ task' = [g \in Greenlets |-> Idle]
    /\ call' = [g \in Greenlets |-> Port!NoCall]
    /\ confirmed' = {}
    /\ alone' = {}
    /\ UNCHANGED <<levels, value, pending, tracked, config, cache, todo>>

Crash == Die /\ UNCHANGED file

\* save_config, called by handlers and at the start, truncates the file and
\* then writes it.
CrashInSave ==
    /\ todo \in {{}, Items} /\ task[Main] = Idle
    /\ Die
    /\ file' = Empty

\* The last saves had failed, in the open or in the write, and nobody was told:
\* the file has an earlier configuration, or does not parse.  As it is only read
\* by the next start, it is told here what the file has, and of all the
\* configurations there are, not only of those that were in use before.
CrashUnsaved ==
    /\ Die
    /\ file' \in [Items -> Asked] \cup {Empty}

\* Config.__init__ and the reads of LTInterface.__init__.  A file that does
\* not parse is replaced by the defaults.
Boot ==
    /\ ~up
    /\ pending = <<>>
    /\ up' = TRUE
    /\ config' = IF file = Empty THEN Defaults ELSE file
    /\ file' = config'
    /\ cache' = value
    /\ todo' = Items
    /\ UNCHANGED <<portVars, task, crashes, confirmed, alone>>

-----------------------------------------------------------------------------
Work(g) == Write(g) \/ Written(g) \/ Read(g) \/ Retry(g) \/ Finish(g)
Start == \E i \in Items : Push(i)

Next ==
    \/ \E g \in Clients, i \in Items, v \in Asked : Request(g, i, v)
    \/ Start
    \/ \E g \in Greenlets : Work(g)
    \/ NodeStep
    \/ Crash \/ CrashInSave \/ CrashUnsaved \/ Boot

Spec == Init /\ [][Next]_vars

\* No wait is without a timeout; every write arrives or is lost; a server
\* that died is started again.
FairSpec ==
    /\ Spec
    /\ \A g \in Greenlets : WF_vars(Work(g))
    /\ WF_vars(NodeStep) /\ WF_vars(Start) /\ WF_vars(Boot)

-----------------------------------------------------------------------------
Tasks == [item : Items, val : Asked, step : {"write", "writing", "read", "reading"},
          retry_count : 0 .. MaxRetries]

\* Every greenlet is idle or in one task, with its retries in their limit.
TypeOK ==
    /\ levels \subseteq Items
    /\ value \in [Items -> Values]
    /\ pending \in Seq([node : Items, val : Values])
    /\ file \in [Items -> Asked] \cup {Empty}
    /\ config \in [Items -> Asked]
    /\ cache \in [Items -> Asked]
    /\ task \in [Greenlets -> {Idle} \cup Tasks]
    /\ up \in BOOLEAN
    /\ todo \subseteq Items
    /\ crashes \in Nat
    /\ confirmed \subseteq Items
    /\ alone \subseteq Items

\* When the tasks on an item are over and the last to end read its value
\* back, the value shown to the clients is the node's, however the tasks
\* overlapped and whatever was lost or late before.
CacheIsTheNodes ==
    \A i \in Items : up /\ i \in confirmed /\ Busy(i) = {} => value[i] = Sent(cache[i])

\* If, besides, that task met no other on the item, the configuration in use,
\* which the next start reads from the file if it was saved, has the same value.
ConfigIsTheNodes ==
    \A i \in Items : up /\ i \in confirmed \cap alone /\ Busy(i) = {} =>
        cache[i] = config[i] /\ value[i] = Sent(config[i])

\* A request is answered: tasks end, even on a dead port.
TaskEnds == \A g \in Greenlets : task[g] # Idle ~> task[g] = Idle
=============================================================================
