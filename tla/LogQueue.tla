------------------------------ MODULE LogQueue -------------------------------
(***************************************************************************)
(* The queued log handler of src/server/log.py: a record is put in a       *)
(* bounded queue, and a greenlet hands it to the destinations.             *)
(*                                                                         *)
(* put returns at once unless the queue is full.  Then the greenlet waits, *)
(* and the others run, until there is room or a second has passed; the     *)
(* record is dropped in that case.  The handler's lock is held meanwhile:  *)
(* whoever else logs waits for it, be there room or not.  The order in     *)
(* which those who wait are let go is left open.                           *)
(***************************************************************************)
EXTENDS Naturals

CONSTANTS
    QueueSize,      \* maxsize of the queue
    MaxWaits        \* times that waitForQueueEmpty looks

VARIABLES
    queue,          \* records in it
    blocked         \* greenlets that wait in put, or for the lock

logVars == <<queue, blocked>>

LogInit ==
    /\ queue = 0
    /\ blocked = {}

\* Faulty variant: a queue without maxsize.
EmitUnbounded(g) ==
    /\ queue' = queue + 1
    /\ UNCHANGED blocked

PutAtOnce == blocked = {} /\ queue < QueueSize

\* handle and emit, of greenlet g; what g does next waits for g to leave blocked.
Emit(g) ==
    IF PutAtOnce
    THEN /\ queue' = queue + 1
         /\ UNCHANGED blocked
    ELSE /\ blocked' = blocked \cup {g}
         /\ UNCHANGED queue

\* Faulty variant: put without a timeout.
PutWithoutTimeout(g) ==
    /\ g \in blocked /\ queue < QueueSize
    /\ blocked' = blocked \ {g}
    /\ queue' = queue + 1

\* There is room, or the second is over.
EmitReturns(g) ==
    /\ g \in blocked
    /\ blocked' = blocked \ {g}
    /\ queue' = IF queue < QueueSize THEN queue + 1 ELSE queue

\* queueWorkerFn: a destination that raises costs the record and five seconds.
Work ==
    /\ queue > 0
    /\ queue' = queue - 1
    /\ UNCHANGED blocked

\* waitForQueueEmpty looks every 10 ms, at most 300 times.
WaitIsOver(count) == queue = 0 \/ count >= MaxWaits
=============================================================================
