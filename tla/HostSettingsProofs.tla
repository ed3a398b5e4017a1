------------------------- MODULE HostSettingsProofs -------------------------
(***************************************************************************)
(* Proofs about HostSettings, for any number of handlers, items, values,   *)
(* retries and crashes: after a setting was confirmed, the value shown to  *)
(* the clients is the node's, and the configuration's if no two handlers   *)
(* were setting the same item.                                             *)
(***************************************************************************)
EXTENDS HostSettings, SequenceTheorems, TLAPS

Writes == [node : Items, val : Values]
Returns == [kind : {"returned"}, result : Values \cup {TRUE, NoResult}]

\* A task that waits for a block has started the block on its own item, and a
\* write carries the value the task is to set.
Blocks ==
    /\ call \in [Greenlets -> {Port!NoCall} \cup Port!Calls \cup Returns]
    /\ \A g \in Greenlets :
        /\ AtStep(g, "writing") =>
            call[g] = [kind |-> "write", node |-> task[g].item, val |-> Sent(task[g].val)]
        /\ AtStep(g, "reading") =>
            call[g] = [kind |-> "read", node |-> task[g].item]

\* A server that died has no greenlets and has confirmed nothing.
Down == ~up => /\ \A g \in Greenlets : task[g] = Idle
               /\ confirmed = {} /\ alone = {}

Queued(i) == \E k \in 1 .. Len(pending) : pending[k].node = i

\* A confirmed item that nobody is setting has no write under way either.
Settled ==
    \A i \in confirmed : Busy(i) = {} => value[i] = Sent(cache[i]) /\ ~Queued(i)

\* A task that meets no other is setting what the configuration says.
Undisturbed ==
    \A i \in alone :
        /\ \A g \in Busy(i) : task[g].val = config[i]
        /\ i \in confirmed /\ Busy(i) = {} => cache[i] = config[i]

Inv == TypeOK /\ Blocks /\ Down /\ Settled /\ Undisturbed

(***************************************************************************)
(* Sequences and tasks                                                     *)
(***************************************************************************)

LEMMA SendQueues ==
    ASSUME pending \in Seq(Writes), NEW w \in Writes, pending' = Append(pending, w)
    PROVE  /\ pending' \in Seq(Writes)
           /\ \A i \in Items : i # w.node => (Queued(i)' <=> Queued(i))
<1>1. /\ pending' \in Seq(Writes) /\ Len(pending') = Len(pending) + 1
      /\ \A k \in 1 .. Len(pending) : pending'[k] = pending[k]
      /\ pending'[Len(pending) + 1] = w
  BY AppendProperties
<1>2. Len(pending) \in Nat
  BY LenProperties
<1>3. ASSUME NEW i \in Items, i # w.node PROVE Queued(i)' <=> Queued(i)
  BY <1>1, <1>2, <1>3 DEF Queued
<1>4. QED
  BY <1>1, <1>3

LEMMA HeadLeaves ==
    ASSUME pending \in Seq(Writes), pending # <<>>, pending' = Tail(pending)
    PROVE  /\ pending' \in Seq(Writes)
           /\ Head(pending) \in Writes /\ Queued(Head(pending).node)
           /\ \A i \in Items : Queued(i)' => Queued(i)
<1>1. /\ Head(pending) \in Writes /\ pending' \in Seq(Writes)
      /\ Len(pending') = Len(pending) - 1
      /\ \A k \in 1 .. Len(pending') : pending'[k] = pending[k + 1]
  BY HeadTailProperties
<1>2. Len(pending) \in Nat /\ Len(pending) # 0
  BY EmptySeq, LenProperties
<1>3. Head(pending) = pending[1]
  OBVIOUS
<1>4. Queued(Head(pending).node)
  BY <1>2, <1>3 DEF Queued
<1>5. \A i \in Items : Queued(i)' => Queued(i)
  BY <1>1, <1>2 DEF Queued
<1>6. QED
  BY <1>1, <1>4, <1>5

LEMMA NoneQueued == ASSUME pending = <<>> PROVE \A i \in Items : ~Queued(i)
BY DEF Queued

\* What a greenlet that is not idle may be doing.
LEMMA TaskTypes ==
    ASSUME TypeOK, NEW g \in Greenlets, task[g] # Idle
    PROVE  /\ task[g] \in Tasks
           /\ task[g].item \in Items /\ task[g].val \in Asked
           /\ Sent(task[g].val) \in Values
           /\ g \in Busy(task[g].item)
<1>1. task[g] \in Tasks
  BY DEF TypeOK
<1>2. Sent(task[g].val) \in Values
  BY <1>1, HostSettingsAssumption DEF Tasks, Asked, Sent
<1>3. QED
  BY <1>1, <1>2 DEF Tasks, Busy

LEMMA TasksAreBusy == ASSUME NEW t \in Tasks PROVE t # Idle
BY DEF Tasks, Idle

(***************************************************************************)
(* A task goes on: write, written, read, retry                             *)
(***************************************************************************)

\* A step of a task that does not end it: the greenlet stays with its item.
GoesOn(g) ==
    /\ task[g] # Idle
    /\ task' = [task EXCEPT ![g] = task'[g]]
    /\ task'[g] \in Tasks
    /\ task'[g].item = task[g].item /\ task'[g].val = task[g].val
    /\ UNCHANGED <<levels, value, file, config, cache, up, todo, crashes, confirmed, alone>>
    /\ \/ pending' = pending
       \/ \E w \in Writes : w.node = task[g].item /\ pending' = Append(pending, w)

LEMMA GoesOnStaysBusy ==
    ASSUME TypeOK, NEW g \in Greenlets, GoesOn(g), NEW i \in Items
    PROVE  /\ Busy(i)' = Busy(i)
           /\ \A h \in Busy(i) : task'[h].val = task[h].val
<1>1. task'[g] # Idle
  BY TasksAreBusy DEF GoesOn
<1>2. \A h \in Greenlets : h # g => task'[h] = task[h]
  BY DEF GoesOn, TypeOK
<1>3. task[g] # Idle /\ task'[g].item = task[g].item /\ task'[g].val = task[g].val
  BY DEF GoesOn
<1>4. QED
  BY <1>1, <1>2, <1>3 DEF Busy

LEMMA GoesOnKeeps ==
    ASSUME Inv, NEW g \in Greenlets, GoesOn(g)
    PROVE  TypeOK' /\ Down' /\ Settled' /\ Undisturbed'
<1>1. TypeOK /\ task[g] \in Tasks /\ task[g].item \in Items /\ up
  BY TaskTypes DEF Inv, GoesOn, Down
<1>2. /\ pending' \in Seq(Writes)
      /\ \A i \in Items : i # task[g].item => (Queued(i)' <=> Queued(i))
  <2>1. CASE pending' = pending
    BY <1>1, <2>1 DEF TypeOK, Queued, Writes
  <2>2. ASSUME NEW w \in Writes, w.node = task[g].item, pending' = Append(pending, w)
        PROVE  <1>2
    BY <1>1, <2>2, SendQueues DEF TypeOK, Writes
  <2>3. QED
    BY <2>1, <2>2 DEF GoesOn
<1>3. TypeOK'
  <2>1. task' \in [Greenlets -> {Idle} \cup Tasks]
    BY <1>1 DEF TypeOK, GoesOn
  <2>2. QED
    BY <1>1, <1>2, <2>1 DEF TypeOK, GoesOn, Writes
<1>4. Down'
  BY <1>1 DEF GoesOn, Down
<1>5. Settled'
  <2>1. SUFFICES ASSUME NEW i \in confirmed, Busy(i) = {}
                 PROVE  value'[i] = Sent(cache'[i]) /\ ~Queued(i)'
    BY <1>1, GoesOnStaysBusy DEF Settled, GoesOn, TypeOK
  <2>2. i \in Items /\ i # task[g].item
    BY <1>1, <2>1, TaskTypes DEF TypeOK, GoesOn
  <2>3. value[i] = Sent(cache[i]) /\ ~Queued(i)
    BY <2>1 DEF Inv, Settled
  <2>4. QED
    BY <1>2, <2>2, <2>3 DEF GoesOn
<1>6. Undisturbed'
  <2>1. \A i \in alone : Busy(i)' = Busy(i) /\ \A h \in Busy(i) : task'[h].val = task[h].val
    BY <1>1, GoesOnStaysBusy DEF TypeOK
  <2>2. UNCHANGED <<alone, confirmed, cache, config>>
    BY DEF GoesOn
  <2>3. QED
    BY <2>1, <2>2 DEF Inv, Undisturbed
<1>7. QED
  BY <1>3, <1>4, <1>5, <1>6

\* The greenlet that steps keeps the promise about its block; the others are
\* where they were.
LEMMA BlocksKept ==
    ASSUME Inv, NEW g \in Greenlets,
           task' = [task EXCEPT ![g] = task'[g]],
           NEW c, call' = [call EXCEPT ![g] = c],
           c \in {Port!NoCall} \cup Port!Calls \cup Returns,
           AtStep(g, "writing")' =>
               c = [kind |-> "write", node |-> task'[g].item, val |-> Sent(task'[g].val)],
           AtStep(g, "reading")' => c = [kind |-> "read", node |-> task'[g].item]
    PROVE  Blocks'
<1>1. call \in [Greenlets -> {Port!NoCall} \cup Port!Calls \cup Returns]
  BY DEF Inv, Blocks
<1>2. task \in [Greenlets -> {Idle} \cup Tasks]
  BY DEF Inv, TypeOK
<1>3. call'[g] = c /\ \A h \in Greenlets : h # g => call'[h] = call[h] /\ task'[h] = task[h]
  BY <1>1, <1>2
<1>4. call' \in [Greenlets -> {Port!NoCall} \cup Port!Calls \cup Returns]
  BY <1>1
<1>5. ASSUME NEW h \in Greenlets, AtStep(h, "writing")'
      PROVE  call'[h] = [kind |-> "write", node |-> task'[h].item, val |-> Sent(task'[h].val)]
  <2>1. CASE h = g
    BY <1>3, <1>5, <2>1
  <2>2. CASE h # g
    BY <1>3, <1>5, <2>2 DEF Inv, Blocks, AtStep
  <2>3. QED
    BY <2>1, <2>2
<1>6. ASSUME NEW h \in Greenlets, AtStep(h, "reading")'
      PROVE  call'[h] = [kind |-> "read", node |-> task'[h].item]
  <2>1. CASE h = g
    BY <1>3, <1>6, <2>1
  <2>2. CASE h # g
    BY <1>3, <1>6, <2>2 DEF Inv, Blocks, AtStep
  <2>3. QED
    BY <2>1, <2>2
<1>7. QED
  BY <1>4, <1>5, <1>6 DEF Blocks

LEMMA WriteGoesOn ==
    ASSUME Inv, NEW g \in Greenlets, Write(g)
    PROVE  GoesOn(g) /\ Blocks'
<1>1. /\ task[g] \in Tasks /\ AtStep(g, "write")
      /\ task' = [task EXCEPT ![g].step = "writing"]
      /\ task \in [Greenlets -> {Idle} \cup Tasks]
  BY TaskTypes DEF Inv, TypeOK, Write, AtStep
<1>2. PICK c \in Port!Calls : call' = [call EXCEPT ![g] = c]
  BY DEF Write, Port!Begin
<1>3. c = [kind |-> "write", node |-> task[g].item, val |-> Sent(task[g].val)]
  BY <1>2 DEF Write, Inv, Blocks
<1>4. task'[g] = [task[g] EXCEPT !.step = "writing"] /\ task' = [task EXCEPT ![g] = task'[g]]
  BY <1>1
<1>5. /\ task'[g] \in Tasks /\ task'[g].step = "writing"
      /\ task'[g].item = task[g].item /\ task'[g].val = task[g].val
  BY <1>1, <1>4 DEF Tasks
<1>6. GoesOn(g)
  BY <1>1, <1>4, <1>5 DEF GoesOn, Write, AtStep, Port!Begin
<1>7. Blocks'
  BY <1>2, <1>3, <1>4, <1>5, BlocksKept DEF AtStep
<1>8. QED
  BY <1>6, <1>7

LEMMA ReadGoesOn ==
    ASSUME Inv, NEW g \in Greenlets, Read(g)
    PROVE  GoesOn(g) /\ Blocks'
<1>1. /\ task[g] \in Tasks /\ AtStep(g, "read")
      /\ task' = [task EXCEPT ![g].step = "reading"]
      /\ task \in [Greenlets -> {Idle} \cup Tasks]
  BY TaskTypes DEF Inv, TypeOK, Read, AtStep
<1>2. PICK c \in Port!Calls : call' = [call EXCEPT ![g] = c]
  BY DEF Read, Port!Begin
<1>3. c = [kind |-> "read", node |-> task[g].item]
  BY <1>2 DEF Read, Inv, Blocks
<1>4. task'[g] = [task[g] EXCEPT !.step = "reading"] /\ task' = [task EXCEPT ![g] = task'[g]]
  BY <1>1
<1>5. /\ task'[g] \in Tasks /\ task'[g].step = "reading"
      /\ task'[g].item = task[g].item /\ task'[g].val = task[g].val
  BY <1>1, <1>4 DEF Tasks
<1>6. GoesOn(g)
  BY <1>1, <1>4, <1>5 DEF GoesOn, Read, AtStep, Port!Begin
<1>7. Blocks'
  BY <1>2, <1>3, <1>4, <1>5, BlocksKept DEF AtStep
<1>8. QED
  BY <1>6, <1>7

LEMMA Results ==
    ASSUME Inv, NEW g \in Greenlets, NEW r \in Values \cup {TRUE, NoResult},
           call' = [call EXCEPT ![g] = Port!Returned(r)]
    PROVE  Port!Returned(r) \in Returns /\ call'[g].result = r
BY DEF Inv, Blocks, Port!Returned, Returns

LEMMA WrittenGoesOn ==
    ASSUME Inv, NEW g \in Greenlets, Written(g)
    PROVE  GoesOn(g) /\ Blocks'
<1>1. /\ task[g] \in Tasks /\ AtStep(g, "writing")
      /\ task' = [task EXCEPT ![g].step = "read"]
      /\ task \in [Greenlets -> {Idle} \cup Tasks]
      /\ Sent(task[g].val) \in Values /\ task[g].item \in Items
  BY TaskTypes DEF Inv, TypeOK, Written, AtStep
<1>2. task'[g] = [task[g] EXCEPT !.step = "read"] /\ task' = [task EXCEPT ![g] = task'[g]]
  BY <1>1
<1>3. /\ task'[g] \in Tasks /\ task'[g].step = "read"
      /\ task'[g].item = task[g].item /\ task'[g].val = task[g].val
  BY <1>1, <1>2 DEF Tasks
<1>4. /\ value' = value
      /\ \/ pending' = pending
         \/ \E w \in Writes : w.node = task[g].item /\ pending' = Append(pending, w)
  <2>1. CASE BlockFails(g)
    BY <2>1 DEF BlockFails, Port!Fails
  <2>2. CASE Port!WriteSent(g)
    <3>1. call[g] = [kind |-> "write", node |-> task[g].item, val |-> Sent(task[g].val)]
      BY <1>1 DEF Inv, Blocks
    <3>2. [node |-> call[g].node, val |-> call[g].val] \in Writes /\ call[g].node = task[g].item
      BY <1>1, <3>1 DEF Writes
    <3>3. QED
      BY <2>2, <3>2 DEF Port!WriteSent
  <2>3. QED
    BY <2>1, <2>2 DEF Written
<1>5. GoesOn(g)
  BY <1>1, <1>2, <1>3, <1>4 DEF GoesOn, Written, AtStep
<1>6. \E r \in Values \cup {TRUE, NoResult} : call' = [call EXCEPT ![g] = Port!Returned(r)]
  BY DEF Written, BlockFails, Port!Fails, Port!WriteSent
<1>7. Blocks'
  BY <1>2, <1>3, <1>6, Results, BlocksKept DEF AtStep
<1>8. QED
  BY <1>5, <1>7

\* What a read returns is what the node holds, with no write under way.
LEMMA ReceivedReads ==
    ASSUME Inv, NEW g \in Greenlets, Received(g)
    PROVE  /\ task[g] \in Tasks /\ task[g].item \in Items
           /\ task[g].val \in Asked /\ Sent(task[g].val) \in Values
           /\ UNCHANGED <<value, pending>>
           /\ \E r \in Values \cup {NoResult} :
               /\ call' = [call EXCEPT ![g] = Port!Returned(r)]
               /\ call'[g].result = r
               /\ r # NoResult => pending = <<>> /\ r = value[task[g].item]
<1>1. /\ task[g] \in Tasks /\ task[g].item \in Items
      /\ task[g].val \in Asked /\ Sent(task[g].val) \in Values
  BY TaskTypes DEF Inv, Received, AtStep
<1>2. call[g] = [kind |-> "read", node |-> task[g].item]
  BY DEF Inv, Blocks, Received
<1>3. value[task[g].item] \in Values
  BY <1>1 DEF Inv, TypeOK
<1>4. CASE Port!ReadReturns(g)
  <2>1. /\ call' = [call EXCEPT ![g] = Port!Returned(value[task[g].item])]
        /\ pending = <<>> /\ UNCHANGED <<value, pending>>
    BY <1>2, <1>4 DEF Port!ReadReturns
  <2>2. call'[g].result = value[task[g].item]
    BY <1>3, <2>1, Results
  <2>3. QED
    BY <1>1, <1>3, <2>1, <2>2
<1>5. CASE BlockFails(g)
  <2>1. call' = [call EXCEPT ![g] = Port!Returned(NoResult)] /\ UNCHANGED <<value, pending>>
    BY <1>5 DEF BlockFails, Port!Fails
  <2>2. call'[g].result = NoResult
    BY <2>1, Results
  <2>3. QED
    BY <1>1, <2>1, <2>2
<1>6. QED
  BY <1>4, <1>5 DEF Received

LEMMA RetryGoesOn ==
    ASSUME Inv, NEW g \in Greenlets, Retry(g)
    PROVE  GoesOn(g) /\ Blocks'
<1>1. task[g] \in Tasks /\ UNCHANGED <<value, pending>>
  BY ReceivedReads DEF Retry
<1>2. PICK r \in Values \cup {NoResult} : call' = [call EXCEPT ![g] = Port!Returned(r)]
  BY ReceivedReads DEF Retry
<1>3. /\ task' = [task EXCEPT ![g].step = "write", ![g].retry_count = @ + 1]
      /\ task \in [Greenlets -> {Idle} \cup Tasks]
      /\ task[g].retry_count < MaxRetries
  BY DEF Retry, Inv, TypeOK
<1>4. /\ task'[g] = [task[g] EXCEPT !.step = "write", !.retry_count = @ + 1]
      /\ task' = [task EXCEPT ![g] = task'[g]]
  BY <1>3
<1>5. /\ task'[g] \in Tasks /\ task'[g].step = "write"
      /\ task'[g].item = task[g].item /\ task'[g].val = task[g].val
  BY <1>1, <1>3, <1>4, HostSettingsAssumption DEF Tasks
<1>6. GoesOn(g)
  BY <1>1, <1>4, <1>5, TasksAreBusy DEF GoesOn, Retry
<1>7. Blocks'
  BY <1>2, <1>4, <1>5, Results, BlocksKept DEF AtStep
<1>8. QED
  BY <1>6, <1>7

(***************************************************************************)
(* A task starts                                                           *)
(***************************************************************************)

LEMMA StartBusies ==
    ASSUME TypeOK, NEW g \in Greenlets, NEW i \in Items, NEW v \in Asked,
           StartTask(g, i, v), task[g] = Idle
    PROVE  /\ task' \in [Greenlets -> {Idle} \cup Tasks]
           /\ \A j \in Items \ {i} : Busy(j)' = Busy(j)
           /\ \A j \in Items : \A h \in Busy(j) : h \in Busy(j)' /\ task'[h] = task[h]
           /\ \A h \in Busy(i)' \ Busy(i) : h = g /\ task'[h].val = v
           /\ ~AtStep(g, "writing")' /\ ~AtStep(g, "reading")'
<1>1. Task(i, v) \in Tasks /\ Task(i, v).item = i /\ Task(i, v).val = v
      /\ Task(i, v).step = "write"
  BY HostSettingsAssumption DEF Task, Tasks
<1>2. /\ task \in [Greenlets -> {Idle} \cup Tasks]
      /\ task' = [task EXCEPT ![g] = IF Accepted(i, v) THEN Task(i, v) ELSE Idle]
  BY DEF TypeOK, StartTask
<1>3. task'[g] \in {Task(i, v), Idle} /\ \A h \in Greenlets : h # g => task'[h] = task[h]
  BY <1>2
<1>4. task' \in [Greenlets -> {Idle} \cup Tasks]
  BY <1>1, <1>2
<1>5. \A j \in Items : \A h \in Busy(j) : h # g /\ h \in Greenlets
  BY DEF Busy
<1>6. \A j \in Items : \A h \in Busy(j) : h \in Busy(j)' /\ task'[h] = task[h]
  BY <1>3, <1>5 DEF Busy
<1>7. \A j \in Items : \A h \in Busy(j)' : h \in Busy(j) \/ (h = g /\ task'[g] = Task(i, v) /\ j = i)
  BY <1>1, <1>3 DEF Busy
<1>8. ~AtStep(g, "writing")' /\ ~AtStep(g, "reading")'
  BY <1>1, <1>3 DEF AtStep
<1>9. \A j \in Items \ {i} : Busy(j)' = Busy(j)
  BY <1>6, <1>7
<1>10. QED
  BY <1>1, <1>4, <1>6, <1>7, <1>8, <1>9

\* Configured says what Request and Push have in common: the configuration has
\* the value that is to be set, and nothing else changes but the file.
Configured(i, v) ==
    /\ up /\ up' = up
    /\ config' = [config EXCEPT ![i] = v]
    /\ file' \in [Items -> Asked] \cup {Empty}
    /\ todo' \subseteq Items
    /\ UNCHANGED <<portVars, cache, crashes>>

LEMMA StartKeeps ==
    ASSUME Inv, NEW g \in Greenlets, NEW i \in Items, NEW v \in Asked,
           StartTask(g, i, v), task[g] = Idle, Configured(i, v)
    PROVE  Inv'
<1>1. /\ TypeOK
      /\ task' \in [Greenlets -> {Idle} \cup Tasks]
      /\ \A j \in Items \ {i} : Busy(j)' = Busy(j)
      /\ \A j \in Items : \A h \in Busy(j) : h \in Busy(j)' /\ task'[h] = task[h]
      /\ \A h \in Busy(i)' \ Busy(i) : h = g /\ task'[h].val = v
      /\ ~AtStep(g, "writing")' /\ ~AtStep(g, "reading")'
  BY StartBusies DEF Inv
<1>2. /\ config' \in [Items -> Asked] /\ config'[i] = v
      /\ \A j \in Items \ {i} : config'[j] = config[j]
  BY <1>1 DEF Configured, TypeOK
<1>3. /\ confirmed' = confirmed \ {i}
      /\ alone' = IF Busy(i) = {} THEN alone \cup {i} ELSE alone \ {i}
  BY DEF StartTask
<1>4. UNCHANGED <<levels, value, pending, call, cache, crashes>> /\ up /\ up'
  BY DEF Configured, portVars
<1>5. TypeOK'
  <2>1. confirmed' \subseteq Items /\ alone' \subseteq Items
    BY <1>1, <1>3 DEF TypeOK
  <2>2. file' \in [Items -> Asked] \cup {Empty} /\ todo' \subseteq Items
    BY DEF Configured
  <2>3. QED
    BY <1>1, <1>2, <1>4, <2>1, <2>2 DEF TypeOK
<1>6. Blocks'
  <2>1. \A h \in Greenlets : h # g => task'[h] = task[h]
    BY <1>1 DEF StartTask, TypeOK
  <2>2. QED
    BY <1>1, <1>4, <2>1 DEF Inv, Blocks, AtStep
<1>7. Down'
  BY <1>4 DEF Down
<1>8. Settled'
  <2>1. SUFFICES ASSUME NEW j \in confirmed', Busy(j)' = {}
                 PROVE  value'[j] = Sent(cache'[j]) /\ ~Queued(j)'
    BY DEF Settled
  <2>2. j \in Items \ {i} /\ j \in confirmed /\ Busy(j) = {}
    BY <1>1, <1>3, <2>1 DEF TypeOK
  <2>3. value[j] = Sent(cache[j]) /\ ~Queued(j)
    BY <2>2 DEF Inv, Settled
  <2>4. QED
    BY <1>4, <2>3 DEF Queued
<1>9. Undisturbed'
  <2>1. ASSUME NEW j \in alone', NEW h \in Busy(j)'
        PROVE  task'[h].val = config'[j]
    <3>1. CASE j = i
      BY <1>1, <1>2, <1>3, <2>1, <3>1
    <3>2. CASE j # i
      <4>1. j \in alone /\ j \in Items /\ h \in Busy(j)
        BY <1>1, <1>3, <2>1, <3>2 DEF TypeOK
      <4>2. QED
        BY <1>1, <1>2, <3>2, <4>1 DEF Inv, Undisturbed
    <3>3. QED
      BY <3>1, <3>2
  <2>2. ASSUME NEW j \in alone', j \in confirmed', Busy(j)' = {}
        PROVE  cache'[j] = config'[j]
    <3>1. j \in Items \ {i} /\ j \in alone /\ j \in confirmed /\ Busy(j) = {}
      BY <1>1, <1>3, <2>2 DEF TypeOK
    <3>2. QED
      BY <1>2, <1>4, <3>1 DEF Inv, Undisturbed
  <2>3. QED
    BY <2>1, <2>2 DEF Undisturbed
<1>10. QED
  BY <1>5, <1>6, <1>7, <1>8, <1>9 DEF Inv

LEMMA RequestKeeps ==
    ASSUME Inv, NEW g \in Clients, NEW i \in Items, NEW v \in Asked, Request(g, i, v)
    PROVE  Inv'
<1>1. g \in Greenlets /\ task[g] = Idle /\ StartTask(g, i, v)
  BY DEF Greenlets, Request
<1>2. Configured(i, v)
  BY DEF Request, Configured, Inv, TypeOK
<1>3. QED
  BY <1>1, <1>2, StartKeeps

LEMMA PushKeeps ==
    ASSUME Inv, NEW i \in Items, Push(i)
    PROVE  Inv'
<1>1. /\ Main \in Greenlets /\ task[Main] = Idle
      /\ StartTask(Main, i, config[i]) /\ config[i] \in Asked
  BY DEF Greenlets, Push, Inv, TypeOK
<1>2. Configured(i, config[i])
  BY DEF Push, Configured, Inv, TypeOK
<1>3. QED
  BY <1>1, <1>2, StartKeeps

(***************************************************************************)
(* A task ends                                                             *)
(***************************************************************************)

\* What is kept as the node's value is the value to set, as confirmed.
LEMMA CachedWhatIsConfirmed ==
    ASSUME Inv, NEW g \in Greenlets, Finish(g)
    PROVE  /\ Cached(g) \in Asked
           /\ Confirms(g) => /\ Cached(g) = task[g].val
                             /\ pending = <<>>
                             /\ value[task[g].item] = Sent(task[g].val)
<1>1. task[g].val \in Asked /\ Sent(task[g].val) \in Values
  BY ReceivedReads DEF Finish
<1>2. PICK r \in Values \cup {NoResult} :
        /\ call'[g].result = r
        /\ r # NoResult => pending = <<>> /\ r = value[task[g].item]
  BY ReceivedReads DEF Finish
<1>3. OutValue(g) \in Values /\ (Confirms(g) => OutValue(g) = Sent(task[g].val))
  BY <1>1, <1>2 DEF OutValue, Confirms
<1>4. Cached(g) \in Asked /\ (Confirms(g) => Cached(g) = task[g].val)
  BY <1>1, <1>3 DEF Cached, Asked, Sent
<1>5. Confirms(g) => r = Sent(task[g].val) /\ r # NoResult
  BY <1>1, <1>2, HostSettingsAssumption DEF Confirms
<1>6. QED
  BY <1>2, <1>4, <1>5

LEMMA FinishKeeps ==
    ASSUME Inv, NEW g \in Greenlets, Finish(g)
    PROVE  Inv'
<1> DEFINE i == task[g].item
<1>1. /\ TypeOK /\ task[g] \in Tasks /\ i \in Items /\ task[g].val \in Asked
      /\ g \in Busy(i) /\ up
  BY TaskTypes, ReceivedReads DEF Inv, Finish, Received, AtStep, Down
<1>2. /\ UNCHANGED <<levels, value, pending, file, config, up, todo, crashes, alone>>
      /\ cache' = [cache EXCEPT ![i] = Cached(g)]
      /\ task' = [task EXCEPT ![g] = Idle]
      /\ confirmed' = IF Confirms(g) THEN confirmed \cup {i} ELSE confirmed \ {i}
  BY ReceivedReads DEF Finish
<1>3. cache' \in [Items -> Asked] /\ cache'[i] = Cached(g)
      /\ \A j \in Items \ {i} : cache'[j] = cache[j]
  BY <1>1, <1>2, CachedWhatIsConfirmed DEF TypeOK
<1>4. /\ task' \in [Greenlets -> {Idle} \cup Tasks] /\ task'[g] = Idle
      /\ \A h \in Greenlets \ {g} : task'[h] = task[h]
  BY <1>1, <1>2 DEF TypeOK
<1>5. /\ \A j \in Items \ {i} : Busy(j)' = Busy(j)
      /\ \A j \in Items : \A h \in Busy(j)' : h \in Busy(j) /\ task'[h] = task[h]
  BY <1>4 DEF Busy
<1>6. TypeOK'
  BY <1>1, <1>2, <1>3, <1>4 DEF TypeOK
<1>7. Blocks'
  <2>1. PICK r \in Values \cup {NoResult} : call' = [call EXCEPT ![g] = Port!Returned(r)]
    BY ReceivedReads DEF Finish
  <2>2. task' = [task EXCEPT ![g] = task'[g]] /\ ~AtStep(g, "writing")' /\ ~AtStep(g, "reading")'
    BY <1>2, <1>4 DEF AtStep
  <2>3. Port!Returned(r) \in Returns
    BY <2>1, Results
  <2>4. QED
    BY <2>1, <2>2, <2>3, BlocksKept
<1>8. Down'
  BY <1>1, <1>2 DEF Down
<1>9. Settled'
  <2>1. SUFFICES ASSUME NEW j \in confirmed', Busy(j)' = {}
                 PROVE  value'[j] = Sent(cache'[j]) /\ ~Queued(j)'
    BY DEF Settled
  <2>2. CASE j = i
    <3>1. Confirms(g)
      BY <1>2, <2>1, <2>2
    <3>2. pending' = <<>> /\ value'[i] = Sent(cache'[i])
      BY <1>2, <1>3, <3>1, CachedWhatIsConfirmed
    <3>3. QED
      BY <2>2, <3>2 DEF Queued
  <2>3. CASE j # i
    <3>1. j \in Items /\ j \in confirmed /\ Busy(j) = {}
      BY <1>1, <1>2, <1>5, <2>1, <2>3 DEF TypeOK
    <3>2. value[j] = Sent(cache[j]) /\ ~Queued(j)
      BY <3>1 DEF Inv, Settled
    <3>3. QED
      BY <1>2, <1>3, <2>3, <3>1, <3>2 DEF Queued
  <2>4. QED
    BY <2>2, <2>3
<1>10. Undisturbed'
  <2>1. ASSUME NEW j \in alone', NEW h \in Busy(j)'
        PROVE  task'[h].val = config'[j]
    BY <1>1, <1>2, <1>5, <2>1 DEF Inv, Undisturbed, TypeOK
  <2>2. ASSUME NEW j \in alone', j \in confirmed', Busy(j)' = {}
        PROVE  cache'[j] = config'[j]
    <3>1. CASE j = i
      BY <1>1, <1>2, <1>3, <2>2, <3>1, CachedWhatIsConfirmed DEF Inv, Undisturbed
    <3>2. CASE j # i
      BY <1>1, <1>2, <1>3, <1>5, <2>2, <3>2 DEF Inv, Undisturbed, TypeOK
    <3>3. QED
      BY <3>1, <3>2
  <2>3. QED
    BY <2>1, <2>2 DEF Undisturbed
<1>11. QED
  BY <1>6, <1>7, <1>8, <1>9, <1>10 DEF Inv

(***************************************************************************)
(* The node, crashes and the start                                         *)
(***************************************************************************)

\* A write that arrives or is lost touches no confirmed item at rest: none is
\* under way for it.
LEMMA NodeStepKeeps ==
    ASSUME Inv, NodeStep
    PROVE  Inv'
<1>1. /\ pending # <<>> /\ pending' = Tail(pending) /\ pending \in Seq(Writes)
      /\ UNCHANGED <<levels, call, file, config, cache, task, up, todo, crashes, confirmed,
                     alone>>
  BY DEF NodeStep, Port!Apply, Port!LoseWrite, Inv, TypeOK, Writes
<1>2. /\ pending' \in Seq(Writes)
      /\ Head(pending) \in Writes /\ Queued(Head(pending).node)
      /\ \A i \in Items : Queued(i)' => Queued(i)
  BY <1>1, HeadLeaves
<1>3. /\ Head(pending).node \in Items /\ Head(pending).val \in Values
      /\ value \in [Items -> Values]
  BY <1>2 DEF Writes, Inv, TypeOK
<1>4. value' \in [Items -> Values]
      /\ \A i \in Items : i # Head(pending).node => value'[i] = value[i]
  BY <1>3 DEF NodeStep, Port!Apply, Port!LoseWrite
<1>5. TypeOK'
  BY <1>1, <1>2, <1>4 DEF Inv, TypeOK, Writes
<1>6. \A i \in Items : Busy(i)' = Busy(i)
  BY <1>1 DEF Busy
<1>7. Blocks' /\ Down'
  BY <1>1 DEF Inv, Blocks, Down, AtStep
<1>8. Settled'
  <2>1. SUFFICES ASSUME NEW i \in confirmed, Busy(i) = {}
                 PROVE  value'[i] = Sent(cache[i]) /\ ~Queued(i)'
    BY <1>1, <1>6 DEF Settled, Inv, TypeOK
  <2>2. i \in Items /\ value[i] = Sent(cache[i]) /\ ~Queued(i)
    BY <2>1 DEF Inv, Settled, TypeOK
  <2>3. QED
    BY <1>2, <1>4, <2>2
<1>9. Undisturbed'
  BY <1>1, <1>6 DEF Inv, Undisturbed, TypeOK
<1>10. QED
  BY <1>5, <1>7, <1>8, <1>9 DEF Inv

LEMMA DieKeeps ==
    ASSUME Inv, Die, file' \in [Items -> Asked] \cup {Empty}
    PROVE  Inv'
<1>1. /\ task' = [g \in Greenlets |-> Idle] /\ call' = [g \in Greenlets |-> Port!NoCall]
      /\ confirmed' = {} /\ alone' = {} /\ crashes' = crashes + 1 /\ up' = FALSE
      /\ UNCHANGED <<levels, value, pending, config, cache, todo>>
  BY DEF Die
<1>2. TypeOK'
  <2>1. task' \in [Greenlets -> {Idle} \cup Tasks]
    BY <1>1
  <2>2. crashes' \in Nat
    BY <1>1 DEF Inv, TypeOK
  <2>3. confirmed' \subseteq Items /\ alone' \subseteq Items
    BY <1>1
  <2>4. QED
    BY <1>1, <2>1, <2>2, <2>3 DEF Inv, TypeOK
<1>3. \A g \in Greenlets : task'[g] = Idle /\ ~AtStep(g, "writing")' /\ ~AtStep(g, "reading")'
  BY <1>1 DEF AtStep
<1>4. Blocks'
  BY <1>1, <1>3 DEF Blocks
<1>5. Down' /\ Settled' /\ Undisturbed'
  BY <1>1, <1>3 DEF Down, Settled, Undisturbed
<1>6. QED
  BY <1>2, <1>4, <1>5 DEF Inv

LEMMA BootKeeps ==
    ASSUME Inv, Boot
    PROVE  Inv'
<1>1. /\ ~up /\ up' = TRUE /\ config' = (IF file = Empty THEN Defaults ELSE file)
      /\ file' = config' /\ cache' = value /\ todo' = Items
      /\ UNCHANGED <<levels, value, pending, call, task, crashes, confirmed, alone>>
  BY DEF Boot, portVars
<1>2. config' \in [Items -> Asked]
  BY <1>1, HostSettingsAssumption DEF Inv, TypeOK
<1>3. value \in [Items -> Asked]
  BY DEF Inv, TypeOK, Asked
<1>4. TypeOK'
  BY <1>1, <1>2, <1>3 DEF Inv, TypeOK
<1>5. confirmed = {} /\ alone = {}
  BY <1>1 DEF Inv, Down
<1>6. Blocks' /\ Down' /\ Settled' /\ Undisturbed'
  BY <1>1, <1>5 DEF Inv, Blocks, AtStep, Down, Settled, Undisturbed
<1>7. QED
  BY <1>4, <1>6 DEF Inv

LEMMA StutterKeeps ==
    ASSUME Inv, UNCHANGED vars
    PROVE  Inv'
<1>1. UNCHANGED <<levels, value, pending, call, file, config, cache, task, up, todo, crashes,
                  confirmed, alone>>
  BY DEF vars, portVars
<1>2. QED
  BY <1>1 DEF Inv, TypeOK, Blocks, Down, Settled, Undisturbed, Queued, Busy, AtStep

LEMMA InvNext ==
    ASSUME Inv, [Next]_vars
    PROVE  Inv'
<1>1. ASSUME NEW g \in Clients, NEW i \in Items, NEW v \in Asked, Request(g, i, v)
      PROVE  Inv'
  BY <1>1, RequestKeeps
<1>2. CASE Start
  BY <1>2, PushKeeps DEF Start
<1>3. ASSUME NEW g \in Greenlets, Work(g)
      PROVE  Inv'
  <2>1. CASE Write(g) \/ Written(g) \/ Read(g) \/ Retry(g)
    BY <2>1, WriteGoesOn, WrittenGoesOn, ReadGoesOn, RetryGoesOn, GoesOnKeeps DEF Inv
  <2>2. CASE Finish(g)
    BY <2>2, FinishKeeps
  <2>3. QED
    BY <1>3, <2>1, <2>2 DEF Work
<1>4. CASE NodeStep
  BY <1>4, NodeStepKeeps
<1>5. CASE Crash
  BY <1>5, DieKeeps DEF Crash, Inv, TypeOK
<1>6. CASE CrashInSave \/ CrashUnsaved
  BY <1>6, DieKeeps DEF CrashInSave, CrashUnsaved
<1>7. CASE Boot
  BY <1>7, BootKeeps
<1>8. CASE UNCHANGED vars
  BY <1>8, StutterKeeps
<1>9. QED
  BY <1>1, <1>2, <1>3, <1>4, <1>5, <1>6, <1>7, <1>8 DEF Next

LEMMA InvInit ==
    ASSUME Init
    PROVE  Inv
<1>1. /\ value \in [Items -> Values] /\ pending = <<>>
      /\ call = [g \in Greenlets |-> Port!NoCall]
      /\ task = [g \in Greenlets |-> Idle] /\ confirmed = {} /\ alone = {} /\ up
  BY DEF Init, Port!Init
<1>2. cache \in [Items -> Asked]
  BY <1>1 DEF Init, Asked
<1>3. TypeOK
  BY <1>1, <1>2, HostSettingsAssumption DEF Init, TypeOK
<1>4. \A g \in Greenlets : ~AtStep(g, "writing") /\ ~AtStep(g, "reading")
  BY <1>1 DEF AtStep
<1>5. Blocks
  BY <1>1, <1>4 DEF Blocks
<1>6. Down /\ Settled /\ Undisturbed
  BY <1>1 DEF Down, Settled, Undisturbed
<1>7. QED
  BY <1>3, <1>5, <1>6 DEF Inv

LEMMA Invariance == Spec => []Inv
BY InvInit, InvNext, PTL DEF Spec

\* Every greenlet of the server, handler or start, is idle or in one task with
\* its retries in their limit, whatever overlaps, fails or crashes.
THEOREM TypeCorrect == Spec => []TypeOK
<1>1. Inv => TypeOK
  BY DEF Inv
<1>2. QED
  BY <1>1, Invariance, PTL

\* When the tasks on an item are over and the last to end read its value back,
\* the value kept for the clients is what the node holds: no write sent before
\* that can still arrive, since a read waits for the ones before it.
THEOREM CacheCorrect == Spec => []CacheIsTheNodes
<1>1. Inv => CacheIsTheNodes
  BY DEF Inv, Settled, CacheIsTheNodes
<1>2. QED
  BY <1>1, Invariance, PTL

\* If that task met no other on the item, the configuration in use has the value
\* too, whether or not it could be saved (Config.py:151-157).
THEOREM ConfigCorrect == Spec => []ConfigIsTheNodes
<1>1. Inv => ConfigIsTheNodes
  <2>1. SUFFICES ASSUME Inv, NEW i \in Items, i \in confirmed, i \in alone, Busy(i) = {}
                 PROVE  cache[i] = config[i] /\ value[i] = Sent(config[i])
    BY DEF ConfigIsTheNodes
  <2>2. cache[i] = config[i]
    BY <2>1 DEF Inv, Undisturbed
  <2>3. value[i] = Sent(cache[i])
    BY <2>1 DEF Inv, Settled
  <2>4. QED
    BY <2>2, <2>3
<1>2. QED
  BY <1>1, Invariance, PTL
=============================================================================
