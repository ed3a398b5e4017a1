----------------------------- MODULE SerialLink -----------------------------
(***************************************************************************)
(* Block reads and writes of the nodes behind one multi-node processor:    *)
(* read_block, write_block and check_set_multi_node_index of               *)
(* src/interface/serial_node.py, with the processor's side of the          *)
(* commands, src/node/commands.cpp.                                        *)
(*                                                                         *)
(* A command carries no address.  The host first selects a node with       *)
(* WRITE_CURNODE_INDEX, reads the index back, and remembers it in a holder *)
(* that all SerialNodes of the processor share, so that the next command   *)
(* for the same node skips the selection.  Greenlets take a global lock    *)
(* for each block.  Frames may be lost either way (a bad checksum, an      *)
(* IOError); the processor may restart, and then selects node 0.           *)
(*                                                                         *)
(* The port keeps order, and the processor answers within the 0.25 s that  *)
(* the host waits: a wait that times out means that a frame was lost.      *)
(***************************************************************************)
EXTENDS Naturals, Sequences

CONSTANTS
    Greenlets,       \* the update loop and the event handlers
    Nodes,           \* indices of the nodes of the processor
    FirstNode,       \* the one selected after a restart: 0
    NoNode,          \* the holder's -1
    Values,          \* of the setting that is read and written
    DefaultValue,    \* after a restart
    NoResult,        \* None or False
    MaxRetries,      \* MAX_RETRY_COUNT
    MaxSelects,      \* tries of a selection before it gives up
    MaxQueue,        \* bound: commands under way
    MaxRestarts      \* bound: restarts of the processor

ASSUME SerialLinkAssumption ==
    /\ FirstNode \in Nodes /\ NoNode \notin Nodes
    /\ DefaultValue \in Values /\ NoResult \notin Values \cup {TRUE}
    /\ MaxRetries \in Nat /\ MaxSelects \in Nat
    /\ MaxQueue \in Nat /\ MaxRestarts \in Nat

VARIABLES
    call,        \* the block operation each greenlet is in, or its result
    pc,          \* where the holder of the lock is
    lock,        \* the greenlet that holds node_io_rlock_obj
    retry_count, chk_retry_count,
    holder,      \* multi_curnode_index_holder[0]
    toNode,      \* commands under way: [op, val, for]
    toHost,      \* answers under way: [val, life]
    curNode,     \* the processor's cmdRssiNodePtr
    value,       \* the setting each node holds
    restarts,    \* environment: restarts so far
    tracked      \* history: no restart or abandoned selection since the
                 \* last confirmed one

hostVars == <<call, pc, lock, retry_count, chk_retry_count, holder>>
vars == <<hostVars, toNode, toHost, curNode, value, restarts, tracked>>

\* The writes among the commands under way.  They are the first of them:
\* whoever asks a question keeps the lock until nothing is under way.
SentWrites(commands) ==
    [i \in {j \in 1 .. Len(commands) : commands[j].op = "write"} |->
        [node |-> commands[i].for, val |-> commands[i].val]]

Registers == INSTANCE NodeRegisters WITH pending <- SentWrites(toNode)

NoCall == [kind |-> "none"]
Reads == [kind : {"read"}, node : Nodes]
Writes == [kind : {"write"}, node : Nodes, val : Values]
Returned(r) == [kind |-> "returned", result |-> r]
Target == call[lock].node
Command(op, v) == [op |-> op, val |-> v, for |-> Target]

Init ==
    /\ call = [g \in Greenlets |-> NoCall]
    /\ pc = "idle"
    /\ lock \in Greenlets
    /\ retry_count = 0
    /\ chk_retry_count = 0
    /\ holder = NoNode
    /\ toNode = <<>>
    /\ toHost = <<>>
    /\ curNode = FirstNode
    /\ value = [n \in Nodes |-> DefaultValue]
    /\ restarts = 0
    /\ tracked = TRUE

-----------------------------------------------------------------------------
(* The host                                                                *)

Begin(g) ==
    /\ call[g] \notin Reads \cup Writes
    /\ \E c \in Reads \cup Writes : call' = [call EXCEPT ![g] = c]
    /\ UNCHANGED <<pc, lock, retry_count, chk_retry_count, holder, toNode, toHost,
                   curNode, value, restarts, tracked>>

Acquire(g) ==
    /\ pc = "idle"
    /\ call[g] \in Reads \cup Writes
    /\ lock' = g
    /\ retry_count' = 0
    /\ pc' = "check"
    /\ UNCHANGED <<call, chk_retry_count, holder, toNode, toHost, curNode, value,
                   restarts, tracked>>

Return(r) ==
    /\ call' = [call EXCEPT ![lock] = Returned(r)]
    /\ pc' = "idle"

\* check_set_multi_node_index: nothing to do if the holder says so.
Check ==
    /\ pc = "check"
    /\ chk_retry_count' = 0
    /\ pc' = IF holder = Target THEN "send" ELSE "select"
    /\ UNCHANGED <<call, lock, retry_count, holder, toNode, toHost, curNode, value,
                   restarts, tracked>>

\* Write the index and, once the input is flushed, ask for it.
Select ==
    /\ pc = "select"
    /\ Len(toNode) + 2 <= MaxQueue
    /\ toNode' = Append(Append(toNode, Command("index", Target)), Command("readIndex", Target))
    /\ toHost' = <<>>
    /\ pc' = "confirm"
    /\ UNCHANGED <<call, lock, retry_count, chk_retry_count, holder, curNode, value,
                   restarts, tracked>>

\* Faulty variant: any answer will do.
ConfirmedUncompared ==
    /\ pc = "confirm"
    /\ toHost # <<>>
    /\ toHost' = Tail(toHost)
    /\ holder' = Target
    /\ tracked' = (tracked \/ Head(toHost).life = restarts)
    /\ pc' = "send"
    /\ UNCHANGED <<call, lock, retry_count, chk_retry_count, toNode, curNode, value,
                   restarts>>

\* The answer must be the index just written.
Confirmed ==
    /\ pc = "confirm"
    /\ toHost # <<>>
    /\ Head(toHost).val = Target
    /\ toHost' = Tail(toHost)
    /\ holder' = Target
    /\ tracked' = (tracked \/ Head(toHost).life = restarts)
    /\ pc' = "send"
    /\ UNCHANGED <<call, lock, retry_count, chk_retry_count, toNode, curNode, value,
                   restarts>>

\* Another index, or no answer: the read of the index is not retried by itself.
NoAnswer == toHost = <<>> /\ toNode = <<>>
OtherIndex == toHost # <<>> /\ Head(toHost).val # Target

\* Faulty variants: a try too many, a try not counted.
SelectAgainOnceMore ==
    /\ pc = "confirm"
    /\ OtherIndex \/ NoAnswer
    /\ chk_retry_count <= MaxSelects
    /\ chk_retry_count' = chk_retry_count + 1
    /\ toHost' = <<>>
    /\ pc' = "select"
    /\ UNCHANGED <<call, lock, retry_count, holder, toNode, curNode, value, restarts,
                   tracked>>

SelectAgainUncounted ==
    /\ pc = "confirm"
    /\ OtherIndex \/ NoAnswer
    /\ toHost' = <<>>
    /\ pc' = "select"
    /\ UNCHANGED <<call, lock, retry_count, chk_retry_count, holder, toNode, curNode,
                   value, restarts, tracked>>

SelectAgain ==
    /\ pc = "confirm"
    /\ OtherIndex \/ NoAnswer
    /\ chk_retry_count < MaxSelects
    /\ chk_retry_count' = chk_retry_count + 1
    /\ toHost' = <<>>
    /\ pc' = "select"
    /\ UNCHANGED <<call, lock, retry_count, holder, toNode, curNode, value, restarts,
                   tracked>>

\* The holder keeps the node selected before.
GiveUpSelect ==
    /\ pc = "confirm"
    /\ OtherIndex \/ NoAnswer
    /\ chk_retry_count = MaxSelects
    /\ toHost' = <<>>
    /\ tracked' = FALSE
    /\ Return(NoResult)
    /\ UNCHANGED <<lock, retry_count, chk_retry_count, holder, toNode, curNode, value,
                   restarts>>

\* write_block: True as soon as the port takes the bytes.
SendWrite ==
    /\ pc = "send"
    /\ call[lock] \in Writes
    /\ Len(toNode) < MaxQueue
    /\ toNode' = Append(toNode, Command("write", call[lock].val))
    /\ Return(TRUE)
    /\ UNCHANGED <<lock, retry_count, chk_retry_count, holder, toHost, curNode, value,
                   restarts, tracked>>

SendRead ==
    /\ pc = "send"
    /\ call[lock] \in Reads
    /\ Len(toNode) < MaxQueue
    /\ toHost' = <<>>
    /\ toNode' = Append(toNode, Command("read", DefaultValue))
    /\ pc' = "receive"
    /\ UNCHANGED <<call, lock, retry_count, chk_retry_count, holder, curNode, value,
                   restarts, tracked>>

Receive ==
    /\ pc = "receive"
    /\ toHost # <<>>
    /\ toHost' = Tail(toHost)
    /\ Return(Head(toHost).val)
    /\ UNCHANGED <<lock, retry_count, chk_retry_count, holder, toNode, curNode, value,
                   restarts, tracked>>

\* An IOError on the port, or no answer to a read: retried from the check,
\* up to a limit.
Retry ==
    /\ \/ pc = "send"
       \/ pc = "receive" /\ NoAnswer
    /\ IF retry_count < MaxRetries
       THEN /\ retry_count' = retry_count + 1
            /\ pc' = "check"
            /\ UNCHANGED call
       ELSE UNCHANGED retry_count /\ Return(NoResult)
    /\ UNCHANGED <<lock, chk_retry_count, holder, toNode, toHost, curNode, value,
                   restarts, tracked>>

-----------------------------------------------------------------------------
(* The processor and the port                                              *)

Answer(v) == toHost' = Append(toHost, [val |-> v, life |-> restarts])

\* Faulty variant: a read is answered by the first node.
HandleAtFirstNode ==
    /\ toNode # <<>>
    /\ toNode' = Tail(toNode)
    /\ LET c == Head(toNode)
       IN  \/ c.op = "index" /\ curNode' = c.val /\ UNCHANGED <<toHost, value>>
           \/ c.op = "readIndex" /\ Answer(curNode) /\ UNCHANGED <<curNode, value>>
           \/ c.op = "read" /\ Answer(value[FirstNode]) /\ UNCHANGED <<curNode, value>>
           \/ /\ c.op = "write"
              /\ value' = [value EXCEPT ![curNode] = c.val]
              /\ UNCHANGED <<curNode, toHost>>
    /\ UNCHANGED <<hostVars, restarts, tracked>>

Handle ==
    /\ toNode # <<>>
    /\ toNode' = Tail(toNode)
    /\ LET c == Head(toNode)
       IN  \/ c.op = "index" /\ curNode' = c.val /\ UNCHANGED <<toHost, value>>
           \/ c.op = "readIndex" /\ Answer(curNode) /\ UNCHANGED <<curNode, value>>
           \/ c.op = "read" /\ Answer(value[curNode]) /\ UNCHANGED <<curNode, value>>
           \/ /\ c.op = "write"
              /\ value' = [value EXCEPT ![curNode] = c.val]
              /\ UNCHANGED <<curNode, toHost>>
    /\ UNCHANGED <<hostVars, restarts, tracked>>

LoseCommand ==
    /\ toNode # <<>>
    /\ toNode' = Tail(toNode)
    /\ UNCHANGED <<hostVars, toHost, curNode, value, restarts, tracked>>

LoseAnswer ==
    /\ toHost # <<>>
    /\ toHost' = Tail(toHost)
    /\ UNCHANGED <<hostVars, toNode, curNode, value, restarts, tracked>>

\* An answer that is already with the host stays there.
Restart ==
    /\ restarts < MaxRestarts
    /\ restarts' = restarts + 1
    /\ toNode' = <<>>
    /\ curNode' = FirstNode
    /\ value' = [n \in Nodes |-> DefaultValue]
    /\ tracked' = FALSE
    /\ UNCHANGED <<hostVars, toHost>>

-----------------------------------------------------------------------------
Host == Check \/ Select \/ Confirmed \/ SelectAgain \/ GiveUpSelect
        \/ SendWrite \/ SendRead \/ Receive \/ Retry
        \/ \E g \in Greenlets : Acquire(g)
Processor == Handle \/ LoseCommand \/ LoseAnswer

Next == Host \/ Processor \/ Restart \/ \E g \in Greenlets : Begin(g)

Spec == Init /\ [][Next]_vars

\* A greenlet in a block keeps running; every frame arrives or is lost.
FairSpec == Spec /\ WF_vars(Host) /\ WF_vars(Processor)

-----------------------------------------------------------------------------
Commands == [op : {"index", "readIndex"}, val : Nodes, for : Nodes]
            \cup [op : {"read", "write"}, val : Values, for : Nodes]
Results == [kind : {"returned"}, result : Values \cup Nodes \cup {TRUE, NoResult}]

\* One greenlet at a time is on the port, and it is in a call.
TypeOK ==
    /\ call \in [Greenlets -> {NoCall} \cup Reads \cup Writes \cup Results]
    /\ pc \in {"idle", "check", "select", "confirm", "send", "receive"}
    /\ lock \in Greenlets
    /\ pc # "idle" => call[lock] \in Reads \cup Writes
    /\ retry_count \in 0 .. MaxRetries
    /\ chk_retry_count \in 0 .. MaxSelects
    /\ holder \in Nodes \cup {NoNode}
    /\ toNode \in Seq(Commands)
    /\ toHost \in Seq([val : Values \cup Nodes, life : Nat])
    /\ curNode \in Nodes
    /\ value \in [Nodes -> Values]
    /\ restarts \in Nat
    /\ tracked \in BOOLEAN

\* While the selection is tracked, a command for a node finds that node
\* selected when the processor comes to it.
CommandFindsItsNode ==
    \A i \in 1 .. Len(toNode) :
        tracked /\ toNode[i].op \in {"read", "write"} =>
            /\ curNode = toNode[i].for
            /\ \A j \in 1 .. i - 1 : toNode[j].op # "index"

\* While the selection is tracked, the blocks are reads and writes of
\* separate registers.
ImplementsRegisters == Registers!Spec

\* Whatever is lost, a block ends and leaves the lock to the others.
BlockEnds == pc # "idle" ~> pc = "idle"

\* The holder is "tracker for index of current node for processor"
\* (serial_node.py:326): between two blocks it has the selected node.
HolderTracksCurrentNode ==
    pc = "idle" /\ toNode = <<>> => holder \in {NoNode, curNode}
=============================================================================
