--------------------------- MODULE NodeRegisters ---------------------------
(***************************************************************************)
(* What read_block and write_block of src/interface/serial_node.py promise *)
(* their callers: each receiver node is a register of its own, whoever     *)
(* shares the processor and the serial port with it.                       *)
(*                                                                         *)
(* A write that returns True is on its way, not done: the node applies it  *)
(* later, or never.  A read that returns data returns what its own node    *)
(* holds, after every write sent before it was applied or lost.            *)
(*                                                                         *)
(* The promise is suspended while "tracked" is FALSE: the processor may    *)
(* then have another node selected than the host believes.                 *)
(***************************************************************************)
EXTENDS Sequences

CONSTANTS Greenlets, Nodes, Values, NoResult

VARIABLES
    value,      \* what each node holds
    pending,    \* writes under way, in order: [node, val]
    call,       \* the block operation each greenlet is in
    tracked     \* the host knows which node is selected

vars == <<value, pending, call, tracked>>

NoCall == [kind |-> "none"]
Calls == [kind : {"read"}, node : Nodes]
         \cup [kind : {"write"}, node : Nodes, val : Values]
Returned(r) == [kind |-> "returned", result |-> r]

Init ==
    /\ value \in [Nodes -> Values]
    /\ pending = <<>>
    /\ call = [g \in Greenlets |-> NoCall]
    /\ tracked = TRUE

Begin(g) ==
    /\ call[g] \notin Calls
    /\ \E c \in Calls : call' = [call EXCEPT ![g] = c]
    /\ UNCHANGED <<value, pending, tracked>>

WriteSent(g) ==
    /\ call[g] \in Calls
    /\ call[g].kind = "write"
    /\ pending' = Append(pending, [node |-> call[g].node, val |-> call[g].val])
    /\ call' = [call EXCEPT ![g] = Returned(TRUE)]
    /\ UNCHANGED <<value, tracked>>

ReadReturns(g) ==
    /\ call[g] \in Calls
    /\ call[g].kind = "read"
    /\ pending = <<>>
    /\ call' = [call EXCEPT ![g] = Returned(value[call[g].node])]
    /\ UNCHANGED <<value, pending, tracked>>

\* A read that gives up returns None, a write False.
Fails(g) ==
    /\ call[g] \in Calls
    /\ call' = [call EXCEPT ![g] = Returned(NoResult)]
    /\ tracked' \in BOOLEAN
    /\ UNCHANGED <<value, pending>>

Apply ==
    /\ pending # <<>>
    /\ value' = [value EXCEPT ![Head(pending).node] = Head(pending).val]
    /\ pending' = Tail(pending)
    /\ UNCHANGED <<call, tracked>>

LoseWrite ==
    /\ pending # <<>>
    /\ pending' = Tail(pending)
    /\ UNCHANGED <<value, call, tracked>>

\* The processor starts again.
Restart ==
    /\ tracked' = FALSE
    /\ value' \in [Nodes -> Values]
    /\ pending' = <<>>
    /\ UNCHANGED call

Addressed ==
    \/ \E g \in Greenlets : Begin(g) \/ WriteSent(g) \/ ReadReturns(g) \/ Fails(g)
    \/ Apply \/ LoseWrite \/ Restart

Next == tracked => Addressed

Spec == Init /\ [][Next]_vars
=============================================================================
