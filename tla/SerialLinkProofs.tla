-------------------------- MODULE SerialLinkProofs --------------------------
(***************************************************************************)
(* Proofs about SerialLink, for any nodes, greenlets, limits and any       *)
(* number of losses and restarts.                                          *)
(***************************************************************************)
EXTENDS SerialLink, SequenceTheorems, TLAPS

Question == {"read", "readIndex"}

\* What is under way: outside a question only writes; an answer only once
\* the question, which is the last command, was handled.
Shape ==
    /\ pc \notin {"confirm", "receive"} =>
          \A i \in 1 .. Len(toNode) : toNode[i].op = "write"
    /\ pc = "receive" => \A i \in 1 .. Len(toNode) : toNode[i].op \in {"read", "write"}
    /\ pc = "confirm" => \A i \in 1 .. Len(toNode) : toNode[i].op # "read"
    /\ pc \in {"confirm", "receive"} =>
          /\ \A i \in 1 .. Len(toNode) : toNode[i].op \in Question => i = Len(toNode)
          /\ toHost # <<>> => toNode = <<>>

\* What an answer about the index is worth.
Answers ==
    /\ \A i \in 1 .. Len(toHost) : toHost[i].life <= restarts
    /\ pc = "confirm" =>
          \A i \in 1 .. Len(toHost) :
              tracked \/ toHost[i].life = restarts => toHost[i].val = curNode

Selected ==
    /\ pc \in {"send", "receive"} => holder = Target
    /\ tracked /\ holder # NoNode /\ pc \notin {"select", "confirm"} => curNode = holder

Finds == Shape /\ Answers /\ Selected /\ CommandFindsItsNode

-----------------------------------------------------------------------------
(* Sequences                                                               *)

LEMMA TailFacts ==
    ASSUME NEW S, NEW s \in Seq(S), s # <<>>
    PROVE  /\ Head(s) = s[1] /\ Head(s) \in S
           /\ Tail(s) \in Seq(S)
           /\ Len(s) \in Nat \ {0}
           /\ Len(Tail(s)) = Len(s) - 1
           /\ \A i \in 1 .. Len(Tail(s)) : Tail(s)[i] = s[i + 1]
BY HeadTailProperties, EmptySeq, LenProperties

LEMMA AppendFacts ==
    ASSUME NEW S, NEW s \in Seq(S), NEW e \in S
    PROVE  /\ Append(s, e) \in Seq(S)
           /\ Append(s, e) # <<>>
           /\ Len(s) \in Nat
           /\ Len(Append(s, e)) = Len(s) + 1
           /\ \A i \in 1 .. Len(s) : Append(s, e)[i] = s[i]
           /\ Append(s, e)[Len(s) + 1] = e
BY AppendProperties, LenProperties

-----------------------------------------------------------------------------
(* Type correctness                                                        *)

LEMMA InitFinds == Init => TypeOK /\ Finds
BY SerialLinkAssumption, EmptySeq, LenProperties
   DEF Init, Finds, TypeOK, Shape, Answers, Selected, CommandFindsItsNode, NoCall, Commands

LEMMA CommandTypes ==
    ASSUME TypeOK, pc # "idle"
    PROVE  /\ Target \in Nodes
           /\ Command("index", Target) \in Commands
           /\ Command("readIndex", Target) \in Commands
           /\ Command("read", DefaultValue) \in Commands
           /\ call[lock] \in Writes => Command("write", call[lock].val) \in Commands
<1>1. call[lock] \in Reads \cup Writes
  BY DEF TypeOK
<1>2. Target \in Nodes
  BY <1>1 DEF Target, Reads, Writes
<1>3. call[lock] \in Writes => call[lock].val \in Values
  BY DEF Writes
<1> QED
  BY <1>2, <1>3, SerialLinkAssumption DEF Command, Commands

LEMMA SelectSends ==
    ASSUME TypeOK, Select
    PROVE  /\ toNode' \in Seq(Commands)
           /\ Len(toNode) \in Nat
           /\ Len(toNode') = Len(toNode) + 2
           /\ \A i \in 1 .. Len(toNode) : toNode'[i] = toNode[i]
           /\ toNode'[Len(toNode) + 1] = Command("index", Target)
           /\ toNode'[Len(toNode) + 2] = Command("readIndex", Target)
<1> DEFINE a == Command("index", Target)
           b == Command("readIndex", Target)
           s == Append(toNode, a)
<1>1. pc # "idle" /\ toNode' = Append(s, b)
  BY DEF Select
<1>2. a \in Commands /\ b \in Commands /\ toNode \in Seq(Commands)
  BY <1>1, CommandTypes DEF TypeOK
<1> HIDE DEF a, b
<1>3. /\ s \in Seq(Commands)
      /\ Len(toNode) \in Nat
      /\ Len(s) = Len(toNode) + 1
      /\ \A i \in 1 .. Len(toNode) : s[i] = toNode[i]
      /\ s[Len(toNode) + 1] = a
  BY <1>2, AppendFacts
<1> HIDE DEF s
<1>4. /\ Append(s, b) \in Seq(Commands)
      /\ Len(Append(s, b)) = Len(s) + 1
      /\ \A i \in 1 .. Len(s) : Append(s, b)[i] = s[i]
      /\ Append(s, b)[Len(s) + 1] = b
  BY <1>2, <1>3, AppendFacts
<1>5. /\ toNode' \in Seq(Commands)
      /\ Len(toNode') = Len(toNode) + 2
      /\ \A i \in 1 .. Len(toNode) : toNode'[i] = toNode[i]
      /\ toNode'[Len(toNode) + 1] = a
      /\ toNode'[Len(toNode) + 2] = b
  BY <1>1, <1>3, <1>4
<1> QED
  BY <1>3, <1>5 DEF a, b

LEMMA ReturnTypes ==
    ASSUME TypeOK, NEW r \in Values \cup Nodes \cup {TRUE, NoResult}, Return(r)
    PROVE  /\ call' \in [Greenlets -> {NoCall} \cup Reads \cup Writes \cup Results]
           /\ pc' = "idle"
BY DEF TypeOK, Return, Returned, Results

LEMMA HandleTypes ==
    ASSUME TypeOK, Handle
    PROVE  TypeOK'
<1> DEFINE c == Head(toNode)
<1>1. c \in Commands /\ Tail(toNode) \in Seq(Commands)
  BY TailFacts DEF TypeOK, Handle
<1>2. ASSUME NEW v \in Values \cup Nodes, Answer(v)
      PROVE  toHost' \in Seq([val : Values \cup Nodes, life : Nat])
  BY <1>2, AppendFacts DEF TypeOK, Answer
<1>3. /\ toNode' = Tail(toNode)
      /\ UNCHANGED <<hostVars, restarts, tracked>>
      /\ \/ c.op = "index" /\ curNode' = c.val /\ UNCHANGED <<toHost, value>>
         \/ c.op = "readIndex" /\ Answer(curNode) /\ UNCHANGED <<curNode, value>>
         \/ c.op = "read" /\ Answer(value[curNode]) /\ UNCHANGED <<curNode, value>>
         \/ /\ c.op = "write"
            /\ value' = [value EXCEPT ![curNode] = c.val]
            /\ UNCHANGED <<curNode, toHost>>
  BY DEF Handle
<1>4. /\ c.op = "index" => c.val \in Nodes
      /\ c.op = "write" => c.val \in Values
  BY <1>1 DEF Commands
<1>5. /\ curNode \in Nodes
      /\ value \in [Nodes -> Values]
      /\ toHost \in Seq([val : Values \cup Nodes, life : Nat])
  BY DEF TypeOK
<1> HIDE DEF c
<1>6. /\ curNode' \in Nodes
      /\ value' \in [Nodes -> Values]
      /\ toHost' \in Seq([val : Values \cup Nodes, life : Nat])
  <2>1. CASE c.op = "index" /\ curNode' = c.val /\ UNCHANGED <<toHost, value>>
    BY <2>1, <1>4, <1>5
  <2>2. CASE c.op = "readIndex" /\ Answer(curNode) /\ UNCHANGED <<curNode, value>>
    BY <2>2, <1>2, <1>5
  <2>3. CASE c.op = "read" /\ Answer(value[curNode]) /\ UNCHANGED <<curNode, value>>
    BY <2>3, <1>2, <1>5
  <2>4. CASE /\ c.op = "write"
             /\ value' = [value EXCEPT ![curNode] = c.val]
             /\ UNCHANGED <<curNode, toHost>>
    BY <2>4, <1>4, <1>5
  <2> QED
    BY <1>3, <2>1, <2>2, <2>3, <2>4
<1> QED
  BY <1>1, <1>3, <1>6 DEF TypeOK, hostVars

LEMMA TypeStep == TypeOK /\ [Next]_vars => TypeOK'
<1> SUFFICES ASSUME TypeOK, [Next]_vars
             PROVE  TypeOK'
  OBVIOUS
<1> USE SerialLinkAssumption
<1>1. ASSUME NEW g \in Greenlets, Begin(g)
      PROVE  TypeOK'
  <2>1. PICK c \in Reads \cup Writes : call' = [call EXCEPT ![g] = c]
    BY <1>1 DEF Begin
  <2>2. /\ call[g] \notin Reads \cup Writes
        /\ UNCHANGED <<pc, lock, retry_count, chk_retry_count, holder, toNode, toHost,
                       curNode, value, restarts, tracked>>
    BY <1>1 DEF Begin
  <2>3. call' \in [Greenlets -> {NoCall} \cup Reads \cup Writes \cup Results]
    BY <2>1 DEF TypeOK
  <2>4. pc' # "idle" => call'[lock'] \in Reads \cup Writes
    BY <2>1, <2>2 DEF TypeOK
  <2> QED
    BY <2>2, <2>3, <2>4 DEF TypeOK
<1>2. ASSUME NEW g \in Greenlets, Acquire(g)
      PROVE  TypeOK'
  BY <1>2 DEF TypeOK, Acquire
<1>3. CASE Check
  BY <1>3 DEF TypeOK, Check
<1>4. CASE Select
  BY <1>4, SelectSends, EmptySeq DEF TypeOK, Select
<1>5. CASE Confirmed
  <2>1. Tail(toHost) \in Seq([val : Values \cup Nodes, life : Nat])
    BY <1>5, TailFacts DEF TypeOK, Confirmed
  <2> QED
    BY <1>5, <2>1, CommandTypes DEF TypeOK, Confirmed
<1>6. CASE SelectAgain
  BY <1>6, EmptySeq DEF TypeOK, SelectAgain
<1>7. CASE GiveUpSelect
  <2>1. /\ call' \in [Greenlets -> {NoCall} \cup Reads \cup Writes \cup Results]
        /\ pc' = "idle"
    BY <1>7, ReturnTypes DEF GiveUpSelect
  <2> QED
    BY <1>7, <2>1, EmptySeq DEF TypeOK, GiveUpSelect
<1>8. CASE SendWrite
  <2>1. toNode' \in Seq(Commands)
    BY <1>8, CommandTypes, AppendFacts DEF TypeOK, SendWrite
  <2> QED
    BY <1>8, <2>1, ReturnTypes DEF TypeOK, SendWrite
<1>9. CASE SendRead
  <2>1. toNode' \in Seq(Commands)
    BY <1>9, CommandTypes, AppendFacts DEF TypeOK, SendRead
  <2> QED
    BY <1>9, <2>1, EmptySeq DEF TypeOK, SendRead
<1>10. CASE Receive
  <2>1. /\ Head(toHost) \in [val : Values \cup Nodes, life : Nat]
        /\ Tail(toHost) \in Seq([val : Values \cup Nodes, life : Nat])
    BY <1>10, TailFacts DEF TypeOK, Receive
  <2>2. Head(toHost).val \in Values \cup Nodes \cup {TRUE, NoResult}
    BY <2>1
  <2> QED
    BY <1>10, <2>1, <2>2, ReturnTypes DEF TypeOK, Receive
<1>11. CASE Retry
  <2>1. CASE retry_count < MaxRetries
    BY <1>11, <2>1 DEF TypeOK, Retry
  <2>2. CASE ~(retry_count < MaxRetries)
    BY <1>11, <2>2, ReturnTypes DEF TypeOK, Retry
  <2> QED
    BY <2>1, <2>2
<1>12. CASE Handle
  BY <1>12, HandleTypes
<1>13. CASE LoseCommand
  <2>1. Tail(toNode) \in Seq(Commands)
    BY <1>13, TailFacts DEF TypeOK, LoseCommand
  <2> QED
    BY <1>13, <2>1 DEF TypeOK, LoseCommand, hostVars
<1>14. CASE LoseAnswer
  <2>1. Tail(toHost) \in Seq([val : Values \cup Nodes, life : Nat])
    BY <1>14, TailFacts DEF TypeOK, LoseAnswer
  <2> QED
    BY <1>14, <2>1 DEF TypeOK, LoseAnswer, hostVars
<1>15. CASE Restart
  <2>1. value' \in [Nodes -> Values] /\ restarts' \in Nat /\ toNode' \in Seq(Commands)
    BY <1>15, EmptySeq DEF TypeOK, Restart
  <2> QED
    BY <1>15, <2>1 DEF TypeOK, Restart, hostVars
<1>16. CASE UNCHANGED vars
  BY <1>16 DEF TypeOK, vars, hostVars
<1> QED
  BY <1>1, <1>2, <1>3, <1>4, <1>5, <1>6, <1>7, <1>8, <1>9, <1>10, <1>11, <1>12, <1>13,
     <1>14, <1>15, <1>16 DEF Next, Host, Processor
-----------------------------------------------------------------------------
(* A command finds its node                                                *)

\* Steps that leave the port and the selection alone.
LEMMA QuietStep ==
    ASSUME TypeOK, Finds,
           UNCHANGED <<holder, toNode, toHost, curNode, restarts, tracked>>,
           pc' \in {"idle", "check", "select", "send"},
           pc \notin {"confirm", "receive"} \/ toNode = <<>> \/ toHost # <<>>,
           pc' = "select" \/ pc \notin {"select", "confirm"},
           pc' = "send" => holder = Target'
    PROVE  Finds'
<1>1. pc \in {"confirm", "receive"} => toNode = <<>>
  BY DEF Finds, Shape
<1>2. Shape'
  BY <1>1, EmptySeq DEF Finds, Shape
<1>3. Answers'
  BY DEF Finds, Answers
<1>4. Selected'
  BY DEF Finds, Selected
<1>5. CommandFindsItsNode'
  BY DEF Finds, CommandFindsItsNode
<1> QED
  BY <1>2, <1>3, <1>4, <1>5 DEF Finds

LEMMA SelectFinds ==
    ASSUME TypeOK, Finds, Select
    PROVE  Finds'
<1>1. /\ Len(toNode) \in Nat
      /\ Len(toNode') = Len(toNode) + 2
      /\ \A i \in 1 .. Len(toNode) : toNode'[i] = toNode[i]
      /\ toNode'[Len(toNode) + 1].op = "index"
      /\ toNode'[Len(toNode) + 2].op = "readIndex"
  BY SelectSends DEF Command
<1>2. /\ pc = "select" /\ pc' = "confirm" /\ toHost' = <<>>
      /\ UNCHANGED <<holder, curNode, restarts, tracked>>
  BY DEF Select
<1>3. \A i \in 1 .. Len(toNode) : toNode[i].op = "write"
  BY <1>2 DEF Finds, Shape
<1>4. \A i \in 1 .. Len(toNode') : \/ i \in 1 .. Len(toNode)
                                   \/ i = Len(toNode) + 1
                                   \/ i = Len(toNode) + 2
  BY <1>1
<1>5. Shape'
  BY <1>1, <1>2, <1>3, <1>4 DEF Shape, Question
<1>6. Answers'
  BY <1>2, EmptySeq DEF Answers
<1>7. Selected'
  BY <1>2 DEF Selected
<1>8. CommandFindsItsNode'
  BY <1>1, <1>2, <1>4 DEF Finds, CommandFindsItsNode
<1> QED
  BY <1>5, <1>6, <1>7, <1>8 DEF Finds

LEMMA ConfirmedFinds ==
    ASSUME TypeOK, Finds, Confirmed
    PROVE  Finds'
<1>1. /\ pc = "confirm" /\ pc' = "send"
      /\ toHost # <<>> /\ toHost' = Tail(toHost)
      /\ Head(toHost).val = Target
      /\ holder' = Target
      /\ tracked' = (tracked \/ Head(toHost).life = restarts)
      /\ UNCHANGED <<call, lock, toNode, curNode, restarts>>
  BY DEF Confirmed
<1>2. toNode = <<>> /\ Len(toNode) = 0
  BY <1>1, EmptySeq DEF Finds, Shape
<1>3. /\ Head(toHost) = toHost[1]
      /\ 1 \in 1 .. Len(toHost)
      /\ Len(toHost) \in Nat
      /\ Len(toHost') = Len(toHost) - 1
      /\ \A i \in 1 .. Len(toHost') : toHost'[i] = toHost[i + 1]
  BY <1>1, TailFacts DEF TypeOK
<1>4. tracked' => curNode = Target
  BY <1>1, <1>3 DEF Finds, Answers
<1>5. Shape'
  BY <1>1, <1>2 DEF Shape
<1>6. Answers'
  BY <1>1, <1>3 DEF Finds, Answers
<1>7. Selected'
  BY <1>1, <1>4 DEF Selected, Target
<1>8. CommandFindsItsNode'
  BY <1>1, <1>2 DEF CommandFindsItsNode
<1> QED
  BY <1>5, <1>6, <1>7, <1>8 DEF Finds

LEMMA SendFinds ==
    ASSUME TypeOK, Finds, SendWrite \/ SendRead
    PROVE  Finds'
<1>1. PICK e \in Commands :
         /\ toNode' = Append(toNode, e)
         /\ e.for = Target
         /\ \/ pc' = "idle" /\ e.op = "write" /\ UNCHANGED toHost
            \/ pc' = "receive" /\ e.op = "read" /\ toHost' = <<>> /\ UNCHANGED call
  <2>1. CASE SendWrite
    BY <2>1, CommandTypes DEF SendWrite, Return, Command
  <2>2. CASE SendRead
    BY <2>2, CommandTypes DEF SendRead, Command
  <2> QED
    BY <2>1, <2>2
<1>2. /\ pc = "send"
      /\ UNCHANGED <<lock, holder, curNode, restarts, tracked>>
  BY DEF SendWrite, SendRead
<1>3. /\ Len(toNode) \in Nat
      /\ Len(toNode') = Len(toNode) + 1
      /\ \A i \in 1 .. Len(toNode) : toNode'[i] = toNode[i]
      /\ toNode'[Len(toNode) + 1] = e
  BY <1>1, AppendFacts DEF TypeOK
<1>4. \A i \in 1 .. Len(toNode') : i \in 1 .. Len(toNode) \/ i = Len(toNode) + 1
  BY <1>3
<1>5. \A i \in 1 .. Len(toNode) : toNode[i].op = "write"
  BY <1>2 DEF Finds, Shape
<1>6. Target \in Nodes /\ holder = Target
  BY <1>2, CommandTypes DEF Finds, Selected
<1>7. tracked => curNode = Target
  BY <1>2, <1>6, SerialLinkAssumption DEF Finds, Selected
<1>8. Shape'
  BY <1>1, <1>3, <1>4, <1>5 DEF Shape, Question
<1>9. Answers'
  BY <1>1, <1>2, EmptySeq DEF Finds, Answers
<1>10. Selected'
  BY <1>1, <1>2, <1>6, <1>7 DEF Selected, Target
<1>11. CommandFindsItsNode'
  BY <1>1, <1>2, <1>3, <1>4, <1>5, <1>7 DEF Finds, CommandFindsItsNode
<1> QED
  BY <1>8, <1>9, <1>10, <1>11 DEF Finds

\* Whatever clears the answers between two blocks or two selections.
LEMMA ClearedFinds ==
    ASSUME TypeOK, Finds, SelectAgain \/ GiveUpSelect
    PROVE  Finds'
<1>1. /\ pc = "confirm" /\ pc' \in {"select", "idle"}
      /\ toHost' = <<>>
      /\ toNode = <<>> \/ toHost # <<>>
      /\ tracked' => tracked
      /\ pc' = "idle" => ~tracked'
      /\ UNCHANGED <<lock, holder, toNode, curNode, restarts>>
  BY DEF SelectAgain, GiveUpSelect, NoAnswer, OtherIndex, Return
<1>2. toNode = <<>> /\ Len(toNode) = 0
  BY <1>1, EmptySeq DEF Finds, Shape
<1>3. Shape'
  BY <1>1, <1>2 DEF Shape
<1>4. Answers'
  BY <1>1, EmptySeq DEF Answers
<1>5. Selected'
  BY <1>1 DEF Selected
<1>6. CommandFindsItsNode'
  BY <1>1, <1>2 DEF CommandFindsItsNode
<1> QED
  BY <1>3, <1>4, <1>5, <1>6 DEF Finds

LEMMA ReceiveFinds ==
    ASSUME TypeOK, Finds, Receive
    PROVE  Finds'
<1>1. /\ pc = "receive" /\ pc' = "idle"
      /\ toHost # <<>> /\ toHost' = Tail(toHost)
      /\ UNCHANGED <<lock, holder, toNode, curNode, restarts, tracked>>
  BY DEF Receive, Return
<1>2. toNode = <<>> /\ Len(toNode) = 0
  BY <1>1, EmptySeq DEF Finds, Shape
<1>3. /\ Len(toHost) \in Nat
      /\ Len(toHost') = Len(toHost) - 1
      /\ \A i \in 1 .. Len(toHost') : toHost'[i] = toHost[i + 1]
  BY <1>1, TailFacts DEF TypeOK
<1>4. Shape'
  BY <1>1, <1>2 DEF Shape
<1>5. Answers'
  BY <1>1, <1>3 DEF Finds, Answers
<1>6. Selected'
  BY <1>1 DEF Finds, Selected
<1>7. CommandFindsItsNode'
  BY <1>1, <1>2 DEF CommandFindsItsNode
<1> QED
  BY <1>4, <1>5, <1>6, <1>7 DEF Finds

\* The facts about the commands left when the first one is gone.
LEMMA TailFinds ==
    ASSUME TypeOK, Finds, toNode # <<>>, toNode' = Tail(toNode),
           UNCHANGED <<hostVars, restarts, tracked>>
    PROVE  /\ Len(toNode) \in Nat \ {0}
           /\ Len(toNode') = Len(toNode) - 1
           /\ \A i \in 1 .. Len(toNode') : toNode'[i] = toNode[i + 1]
           /\ Head(toNode) = toNode[1]
           /\ 1 \in 1 .. Len(toNode)
           /\ \A i \in 1 .. Len(toNode') : i + 1 \in 1 .. Len(toNode)
           /\ pc \notin {"confirm", "receive"} =>
                 \A i \in 1 .. Len(toNode') : toNode'[i].op = "write"
           /\ pc = "receive" => \A i \in 1 .. Len(toNode') : toNode'[i].op \in {"read", "write"}
           /\ pc = "confirm" => \A i \in 1 .. Len(toNode') : toNode'[i].op # "read"
           /\ pc \in {"confirm", "receive"} =>
                 /\ \A i \in 1 .. Len(toNode') : toNode'[i].op \in Question => i = Len(toNode')
                 /\ toHost = <<>>
                 /\ Head(toNode).op \in Question => toNode' = <<>>
           /\ tracked => \A i \in 1 .. Len(toNode') :
                 toNode'[i].op \in {"read", "write"} =>
                     /\ curNode = toNode'[i].for
                     /\ \A j \in 1 .. i - 1 : toNode'[j].op # "index"
                     /\ Head(toNode).op # "index"
<1>1. /\ Len(toNode) \in Nat \ {0}
      /\ Len(toNode') = Len(toNode) - 1
      /\ \A i \in 1 .. Len(toNode') : toNode'[i] = toNode[i + 1]
      /\ Head(toNode) = toNode[1]
      /\ toNode' \in Seq(Commands)
  BY TailFacts DEF TypeOK
<1>2. /\ 1 \in 1 .. Len(toNode)
      /\ \A i \in 1 .. Len(toNode') : i + 1 \in 1 .. Len(toNode)
  BY <1>1
<1>3. /\ pc \notin {"confirm", "receive"} =>
            \A i \in 1 .. Len(toNode') : toNode'[i].op = "write"
      /\ pc = "receive" => \A i \in 1 .. Len(toNode') : toNode'[i].op \in {"read", "write"}
      /\ pc = "confirm" => \A i \in 1 .. Len(toNode') : toNode'[i].op # "read"
  BY <1>1, <1>2 DEF Finds, Shape
<1>4. ASSUME pc \in {"confirm", "receive"}
      PROVE  /\ \A i \in 1 .. Len(toNode') : toNode'[i].op \in Question => i = Len(toNode')
             /\ toHost = <<>>
             /\ Head(toNode).op \in Question => toNode' = <<>>
  <2>1. /\ \A i \in 1 .. Len(toNode) : toNode[i].op \in Question => i = Len(toNode)
        /\ toHost = <<>>
    BY <1>4 DEF Finds, Shape
  <2>2. ASSUME NEW i \in 1 .. Len(toNode'), toNode'[i].op \in Question
        PROVE  i = Len(toNode')
    <3>1. toNode[i + 1].op \in Question /\ i + 1 \in 1 .. Len(toNode)
      BY <2>2, <1>1, <1>2
    <3>2. i + 1 = Len(toNode)
      BY <3>1, <2>1
    <3> QED
      BY <3>2, <1>1
  <2>3. ASSUME Head(toNode).op \in Question
        PROVE  toNode' = <<>>
    <3>1. 1 = Len(toNode)
      BY <2>1, <2>3, <1>1, <1>2
    <3>2. Len(toNode') = 0
      BY <3>1, <1>1
    <3> QED
      BY <3>2, <1>1, EmptySeq
  <2> QED
    BY <2>1, <2>2, <2>3
<1>5. ASSUME tracked, NEW i \in 1 .. Len(toNode'), toNode'[i].op \in {"read", "write"}
      PROVE  /\ curNode = toNode'[i].for
             /\ \A j \in 1 .. i - 1 : toNode'[j].op # "index"
             /\ Head(toNode).op # "index"
  <2>1. /\ i + 1 \in 1 .. Len(toNode)
        /\ toNode[i + 1] = toNode'[i]
    BY <1>1, <1>2
  <2>2. /\ curNode = toNode[i + 1].for
        /\ \A j \in 1 .. (i + 1) - 1 : toNode[j].op # "index"
    BY <1>5, <2>1 DEF Finds, CommandFindsItsNode
  <2>3. \A j \in 1 .. i - 1 : j + 1 \in 1 .. (i + 1) - 1 /\ j \in 1 .. Len(toNode')
    BY <1>1
  <2>4. 1 \in 1 .. (i + 1) - 1
    BY <1>1
  <2> QED
    BY <1>1, <2>1, <2>2, <2>3, <2>4
<1> QED
  BY <1>1, <1>2, <1>3, <1>4, <1>5

LEMMA LoseFinds ==
    ASSUME TypeOK, Finds, LoseCommand
    PROVE  Finds'
<1>1. /\ toNode # <<>> /\ toNode' = Tail(toNode)
      /\ UNCHANGED <<hostVars, toHost, curNode, restarts, tracked>>
  BY DEF LoseCommand
<1>2. UNCHANGED <<call, lock, pc, holder>>
  BY <1>1 DEF hostVars
<1>3. Shape'
  BY <1>1, <1>2, TailFinds DEF Shape
<1>4. Answers'
  BY <1>1, <1>2 DEF Finds, Answers
<1>5. Selected'
  BY <1>1, <1>2 DEF Finds, Selected, Target
<1>6. CommandFindsItsNode'
  BY <1>1, <1>2, TailFinds DEF CommandFindsItsNode
<1> QED
  BY <1>3, <1>4, <1>5, <1>6 DEF Finds

LEMMA LoseAnswerFinds ==
    ASSUME TypeOK, Finds, LoseAnswer
    PROVE  Finds'
<1>1. /\ toHost # <<>> /\ toHost' = Tail(toHost)
      /\ UNCHANGED <<hostVars, toNode, curNode, restarts, tracked>>
      /\ UNCHANGED <<call, lock, pc, holder>>
  BY DEF LoseAnswer, hostVars
<1>2. /\ Len(toHost) \in Nat
      /\ Len(toHost') = Len(toHost) - 1
      /\ \A i \in 1 .. Len(toHost') : toHost'[i] = toHost[i + 1]
  BY <1>1, TailFacts DEF TypeOK
<1>3. Shape'
  BY <1>1 DEF Finds, Shape
<1>4. Answers'
  BY <1>1, <1>2 DEF Finds, Answers
<1>5. Selected' /\ CommandFindsItsNode'
  BY <1>1 DEF Finds, Selected, Target, CommandFindsItsNode
<1> QED
  BY <1>3, <1>4, <1>5 DEF Finds

LEMMA HandleFinds ==
    ASSUME TypeOK, Finds, Handle
    PROVE  Finds'
<1> DEFINE c == Head(toNode)
<1>1. /\ toNode # <<>> /\ toNode' = Tail(toNode)
      /\ UNCHANGED <<hostVars, restarts, tracked>>
      /\ \/ c.op = "index" /\ curNode' = c.val /\ UNCHANGED <<toHost, value>>
         \/ /\ c.op \in Question
            /\ \E v \in Values \cup Nodes : Answer(v) /\ (c.op = "readIndex" => v = curNode)
            /\ UNCHANGED <<curNode, value>>
         \/ c.op = "write" /\ UNCHANGED <<curNode, toHost>>
  BY DEF Handle, Question, TypeOK
<1>2. UNCHANGED <<call, lock, pc, holder>>
  BY <1>1 DEF hostVars
<1>3. /\ c = toNode[1] /\ 1 \in 1 .. Len(toNode)
  BY <1>1, TailFinds
<1>4. c.op = "index" => pc = "confirm"
  BY <1>3 DEF Finds, Shape, TypeOK
<1>5. c.op \in Question => /\ toNode' = <<>>
                           /\ toHost = <<>>
                           /\ \/ pc = "confirm" /\ c.op = "readIndex"
                              \/ pc = "receive"
  <2>1. c.op \in Question => pc \in {"confirm", "receive"}
    BY <1>3 DEF Finds, Shape, Question
  <2>2. c.op \in Question /\ pc = "confirm" => c.op = "readIndex"
    BY <1>3 DEF Finds, Shape, Question
  <2> QED
    BY <1>1, <2>1, <2>2, TailFinds
<1> HIDE DEF c
<1>6. pc \in {"confirm", "receive"} => toHost' = <<>> \/ toNode' = <<>>
  BY <1>1, <1>2, <1>5, TailFinds
<1>7. Shape'
  BY <1>1, <1>2, <1>6, TailFinds DEF Shape
<1>8. /\ Answers'
      /\ c.op \in Question => curNode' = curNode
  <2>1. CASE c.op \notin Question
    <3>1. pc = "confirm" => toHost' = <<>>
      BY <1>1, <2>1, TailFinds DEF Answer
    <3> QED
      BY <1>1, <1>2, <2>1, <3>1, EmptySeq DEF Finds, Answers
  <2>2. CASE c.op \in Question
    <3>1. PICK v \in Values \cup Nodes :
            /\ Answer(v)
            /\ c.op = "readIndex" => v = curNode
            /\ curNode' = curNode
      BY <1>1, <2>2 DEF Question
    <3>2. /\ Len(toHost') = 1
          /\ toHost'[1] = [val |-> v, life |-> restarts]
      <4>1. toHost' = Append(<<>>, [val |-> v, life |-> restarts])
        BY <1>5, <2>2, <3>1 DEF Answer
      <4> QED
        BY <4>1
    <3>3. \A i \in 1 .. Len(toHost') : toHost'[i] = [val |-> v, life |-> restarts]
      BY <3>2
    <3> QED
      BY <1>1, <1>2, <1>5, <2>2, <3>1, <3>3 DEF Answers, TypeOK
  <2> QED
    BY <2>1, <2>2
<1>9. Selected'
  BY <1>1, <1>2, <1>4, <1>8 DEF Finds, Selected, Target
<1>10. CommandFindsItsNode'
  BY <1>1, <1>8, TailFinds DEF CommandFindsItsNode, c
<1> QED
  BY <1>7, <1>8, <1>9, <1>10 DEF Finds

LEMMA FindsStep == TypeOK /\ Finds /\ [Next]_vars => Finds'
<1> SUFFICES ASSUME TypeOK, Finds, [Next]_vars
             PROVE  Finds'
  OBVIOUS
<1>1. ASSUME NEW g \in Greenlets, Begin(g)
      PROVE  Finds'
  <2>1. /\ pc \in {"send", "receive"} => call[lock] \in Reads \cup Writes
        /\ call[g] \notin Reads \cup Writes
    BY <1>1 DEF TypeOK, Begin
  <2>2. pc \in {"send", "receive"} => Target' = Target
    BY <1>1, <2>1 DEF Begin, Target, TypeOK
  <2>3. Selected'
    BY <1>1, <2>2 DEF Begin, Finds, Selected
  <2>4. Shape' /\ Answers' /\ CommandFindsItsNode'
    BY <1>1 DEF Begin, Finds, Shape, Answers, CommandFindsItsNode
  <2> QED
    BY <2>3, <2>4 DEF Finds
<1>2. ASSUME NEW g \in Greenlets, Acquire(g)
      PROVE  Finds'
  BY <1>2, QuietStep DEF Acquire
<1>3. CASE Check
  <2>1. /\ pc = "check" /\ pc' \in {"send", "select"}
        /\ pc' = "send" => holder = Target'
        /\ UNCHANGED <<holder, toNode, toHost, curNode, restarts, tracked>>
    BY <1>3 DEF Check, Target
  <2> QED
    BY <2>1, QuietStep
<1>4. CASE Retry
  <2>1. /\ pc = "send" \/ (pc = "receive" /\ toNode = <<>>)
        /\ UNCHANGED <<holder, toNode, toHost, curNode, restarts, tracked>>
    BY <1>4 DEF Retry, NoAnswer
  <2>2. pc' \in {"check", "idle"}
    <3>1. CASE retry_count < MaxRetries
      BY <1>4, <3>1 DEF Retry
    <3>2. CASE ~(retry_count < MaxRetries)
      BY <1>4, <3>2 DEF Retry, Return
    <3> QED
      BY <3>1, <3>2
  <2> QED
    BY <2>1, <2>2, QuietStep
<1>5. CASE Restart
  <2>1. /\ toNode' = <<>> /\ ~tracked'
        /\ restarts' = restarts + 1
        /\ UNCHANGED <<call, lock, pc, holder, toHost>>
    BY <1>5 DEF Restart, hostVars
  <2>2. Len(toNode') = 0
    BY <2>1, EmptySeq
  <2>3. Shape'
    BY <2>1, <2>2 DEF Shape
  <2>4. Answers'
    <3>1. \A i \in 1 .. Len(toHost) : toHost[i].life \in Nat
      <4>1. toHost \in Seq([val : Values \cup Nodes, life : Nat])
        BY DEF TypeOK
      <4>2. \A i \in 1 .. Len(toHost) : toHost[i] \in [val : Values \cup Nodes, life : Nat]
        BY <4>1, ElementOfSeq
      <4> QED
        BY <4>2
    <3> QED
      BY <2>1, <3>1 DEF Finds, Answers, TypeOK
  <2>5. Selected' /\ CommandFindsItsNode'
    BY <2>1, <2>2 DEF Finds, Selected, Target, CommandFindsItsNode
  <2> QED
    BY <2>3, <2>4, <2>5 DEF Finds
<1>6. CASE UNCHANGED vars
  BY <1>6 DEF vars, hostVars, Finds, Shape, Answers, Selected, Target, CommandFindsItsNode
<1> QED
  BY <1>1, <1>2, <1>3, <1>4, <1>5, <1>6, SelectFinds, ConfirmedFinds, SendFinds,
     ClearedFinds, ReceiveFinds, HandleFinds, LoseFinds, LoseAnswerFinds
     DEF Next, Host, Processor

-----------------------------------------------------------------------------
(* The blocks are operations of registers                                  *)

\* The writes are the first n commands.
WritesEnd(q, n) == \A i \in 1 .. Len(q) : q[i].op = "write" <=> i <= n

\* The writes are sent first, and what answers a read is what its node holds.
Blocks ==
    /\ \E n \in 0 .. Len(toNode) : WritesEnd(toNode, n)
    /\ pc = "receive" =>
          /\ call[lock] \in Reads
          /\ tracked => \A i \in 1 .. Len(toHost) : toHost[i].val = value[Target]

Sent == [node : Nodes, val : Values]
AsSent(c) == [node |-> c.for, val |-> c.val]

LEMMA SentFacts ==
    ASSUME NEW q \in Seq(Commands), NEW n \in 0 .. Len(q), WritesEnd(q, n)
    PROVE  /\ SentWrites(q) \in Seq(Sent) /\ Len(SentWrites(q)) = n
           /\ \A i \in 1 .. n : i \in 1 .. Len(q) /\ SentWrites(q)[i] = AsSent(q[i])
<1>1. Len(q) \in Nat /\ n \in Nat /\ n <= Len(q)
  BY LenProperties
<1>2. {j \in 1 .. Len(q) : q[j].op = "write"} = 1 .. n
  BY <1>1 DEF WritesEnd
<1>3. SentWrites(q) = [i \in 1 .. n |-> AsSent(q[i])]
  BY <1>2 DEF SentWrites, AsSent
<1>4. ASSUME NEW i \in 1 .. n
      PROVE  i \in 1 .. Len(q) /\ AsSent(q[i]) \in Sent
  <2>1. i \in 1 .. Len(q) /\ q[i].op = "write"
    BY <1>1 DEF WritesEnd
  <2>2. q[i] \in Commands
    BY <2>1, ElementOfSeq
  <2>3. QED
    BY <2>1, <2>2 DEF Commands, Sent, AsSent
<1>5. SentWrites(q) \in [1 .. n -> Sent]
  BY <1>3, <1>4
<1>6. SentWrites(q) \in Seq(Sent)
  BY <1>1, <1>5, SeqDef
<1>7. Len(SentWrites(q)) = n
  BY <1>1, <1>5, <1>6, LenProperties
<1>8. QED
  BY <1>3, <1>4, <1>6, <1>7

\* No write among the commands.
LEMMA NothingSent ==
    ASSUME NEW q \in Seq(Commands), WritesEnd(q, 0)
    PROVE  SentWrites(q) = <<>>
<1>1. 0 \in 0 .. Len(q)
  BY LenProperties
<1>2. SentWrites(q) \in Seq(Sent) /\ Len(SentWrites(q)) = 0
  BY <1>1, SentFacts
<1>3. QED
  BY <1>2, EmptySeq

\* A question behind the commands changes no write.
LEMMA QuestionSendsNothing ==
    ASSUME NEW q \in Seq(Commands), NEW n \in 0 .. Len(q), WritesEnd(q, n),
           NEW c \in Commands, c.op # "write"
    PROVE  /\ WritesEnd(Append(q, c), n) /\ n \in 0 .. Len(Append(q, c))
           /\ SentWrites(Append(q, c)) = SentWrites(q)
<1> DEFINE r == Append(q, c)
<1>1. /\ r \in Seq(Commands) /\ Len(q) \in Nat /\ Len(r) = Len(q) + 1
      /\ \A i \in 1 .. Len(q) : r[i] = q[i]
      /\ r[Len(q) + 1] = c
  BY AppendFacts
<1> HIDE DEF r
<1>2. n \in 0 .. Len(r)
  BY <1>1
<1>3. WritesEnd(r, n)
  <2>1. SUFFICES ASSUME NEW i \in 1 .. Len(r) PROVE r[i].op = "write" <=> i <= n
    BY DEF WritesEnd
  <2>2. CASE i \in 1 .. Len(q)
    BY <1>1, <2>2 DEF WritesEnd
  <2>3. CASE i = Len(q) + 1
    BY <1>1, <2>3
  <2>4. QED
    BY <1>1, <2>2, <2>3
<1>4. /\ SentWrites(q) \in Seq(Sent) /\ Len(SentWrites(q)) = n
      /\ \A i \in 1 .. n : i \in 1 .. Len(q) /\ SentWrites(q)[i] = AsSent(q[i])
  BY SentFacts
<1>5. /\ SentWrites(r) \in Seq(Sent) /\ Len(SentWrites(r)) = n
      /\ \A i \in 1 .. n : SentWrites(r)[i] = AsSent(r[i])
  BY <1>1, <1>2, <1>3, SentFacts
<1>6. \A i \in 1 .. n : SentWrites(r)[i] = SentWrites(q)[i]
  BY <1>1, <1>4, <1>5
<1>7. SentWrites(r) = SentWrites(q)
  BY <1>4, <1>5, <1>6, SeqEqual
<1>8. QED
  BY <1>2, <1>3, <1>7 DEF r

\* A write behind other writes is one more of them.
LEMMA WriteSends ==
    ASSUME NEW q \in Seq(Commands), WritesEnd(q, Len(q)), NEW c \in Commands, c.op = "write"
    PROVE  /\ WritesEnd(Append(q, c), Len(Append(q, c)))
           /\ SentWrites(Append(q, c)) = Append(SentWrites(q), AsSent(c))
<1> DEFINE r == Append(q, c)
           s == Append(SentWrites(q), AsSent(c))
<1>1. /\ r \in Seq(Commands) /\ Len(q) \in Nat /\ Len(r) = Len(q) + 1
      /\ \A i \in 1 .. Len(q) : r[i] = q[i]
      /\ r[Len(q) + 1] = c
  BY AppendFacts
<1> HIDE DEF r
<1>2. WritesEnd(r, Len(r))
  <2>1. SUFFICES ASSUME NEW i \in 1 .. Len(r) PROVE r[i].op = "write"
    BY <1>1 DEF WritesEnd
  <2>2. CASE i \in 1 .. Len(q)
    BY <1>1, <2>2 DEF WritesEnd
  <2>3. CASE i = Len(q) + 1
    BY <1>1, <2>3
  <2>4. QED
    BY <1>1, <2>2, <2>3
<1>3. /\ SentWrites(q) \in Seq(Sent) /\ Len(SentWrites(q)) = Len(q)
      /\ \A i \in 1 .. Len(q) : SentWrites(q)[i] = AsSent(q[i])
  BY <1>1, SentFacts
<1>4. /\ SentWrites(r) \in Seq(Sent) /\ Len(SentWrites(r)) = Len(r)
      /\ \A i \in 1 .. Len(r) : SentWrites(r)[i] = AsSent(r[i])
  BY <1>1, <1>2, SentFacts
<1>5. AsSent(c) \in Sent
  BY DEF AsSent, Sent, Commands
<1>6. /\ s \in Seq(Sent) /\ Len(s) = Len(q) + 1
      /\ \A i \in 1 .. Len(q) : s[i] = SentWrites(q)[i]
      /\ s[Len(q) + 1] = AsSent(c)
  BY <1>3, <1>5, AppendFacts
<1> HIDE DEF s
<1>7. ASSUME NEW i \in 1 .. Len(SentWrites(r))
      PROVE  SentWrites(r)[i] = s[i]
  <2>1. CASE i \in 1 .. Len(q)
    BY <1>1, <1>3, <1>4, <1>6, <2>1
  <2>2. CASE i = Len(q) + 1
    BY <1>1, <1>4, <1>6, <2>2
  <2>3. QED
    BY <1>1, <1>4, <2>1, <2>2
<1>8. SentWrites(r) = s
  BY <1>1, <1>4, <1>6, <1>7, SeqEqual
<1>9. QED
  BY <1>2, <1>8 DEF r, s

\* The first command leaves the queue: a write is the first of the writes, and
\* behind another command there are none.
LEMMA FirstLeaves ==
    ASSUME NEW q \in Seq(Commands), q # <<>>, NEW n \in 0 .. Len(q), WritesEnd(q, n)
    PROVE  /\ \E m \in 0 .. Len(Tail(q)) : WritesEnd(Tail(q), m)
           /\ Head(q).op = "write" =>
                 /\ SentWrites(q) # <<>>
                 /\ Head(SentWrites(q)) = AsSent(Head(q))
                 /\ SentWrites(Tail(q)) = Tail(SentWrites(q))
           /\ Head(q).op # "write" => SentWrites(Tail(q)) = SentWrites(q)
<1> DEFINE r == Tail(q)
<1>1. /\ Head(q) = q[1] /\ r \in Seq(Commands) /\ Len(q) \in Nat \ {0}
      /\ Len(r) = Len(q) - 1
      /\ \A i \in 1 .. Len(r) : r[i] = q[i + 1]
  BY TailFacts
<1> HIDE DEF r
<1>2. /\ SentWrites(q) \in Seq(Sent) /\ Len(SentWrites(q)) = n
      /\ \A i \in 1 .. n : i \in 1 .. Len(q) /\ SentWrites(q)[i] = AsSent(q[i])
  BY SentFacts
<1>3. CASE n = 0
  <2>1. WritesEnd(r, 0) /\ 0 \in 0 .. Len(r)
    BY <1>1, <1>3 DEF WritesEnd
  <2>2. SentWrites(r) = <<>> /\ SentWrites(q) = <<>>
    BY <1>1, <1>3, <2>1, NothingSent
  <2>3. Head(q).op # "write"
    BY <1>1, <1>3 DEF WritesEnd
  <2>4. QED
    BY <2>1, <2>2, <2>3 DEF r
<1>4. CASE n # 0
  <2>1. n - 1 \in 0 .. Len(r) /\ n \in Nat \ {0} /\ 1 \in 1 .. n
    BY <1>1, <1>4
  <2>2. WritesEnd(r, n - 1)
    BY <1>1, <2>1 DEF WritesEnd
  <2>3. /\ SentWrites(r) \in Seq(Sent) /\ Len(SentWrites(r)) = n - 1
        /\ \A i \in 1 .. n - 1 : i \in 1 .. Len(r) /\ SentWrites(r)[i] = AsSent(r[i])
    BY <1>1, <2>1, <2>2, SentFacts
  <2>4. SentWrites(q) # <<>> /\ Head(SentWrites(q)) = AsSent(Head(q))
    <3>1. SentWrites(q) # <<>>
      BY <1>2, <2>1, EmptySeq
    <3>2. Head(SentWrites(q)) = SentWrites(q)[1]
      BY <1>2, <3>1, TailFacts
    <3>3. QED
      BY <1>1, <1>2, <2>1, <3>1, <3>2
  <2>5. /\ Tail(SentWrites(q)) \in Seq(Sent) /\ Len(Tail(SentWrites(q))) = n - 1
        /\ \A i \in 1 .. n - 1 : Tail(SentWrites(q))[i] = SentWrites(q)[i + 1]
    BY <1>2, <2>1, <2>4, TailFacts
  <2>6. ASSUME NEW i \in 1 .. n - 1
        PROVE  SentWrites(r)[i] = Tail(SentWrites(q))[i]
    <3>1. i + 1 \in 1 .. n
      BY <2>1
    <3>2. SentWrites(q)[i + 1] = AsSent(q[i + 1])
      BY <1>2, <3>1
    <3>3. SentWrites(r)[i] = AsSent(r[i]) /\ r[i] = q[i + 1]
      BY <1>1, <2>3
    <3>4. QED
      BY <2>5, <3>2, <3>3
  <2>7. SentWrites(r) = Tail(SentWrites(q))
    BY <2>3, <2>5, <2>6, SeqEqual
  <2>8. Head(q).op = "write"
    BY <1>1, <2>1 DEF WritesEnd
  <2>9. QED
    BY <2>1, <2>2, <2>4, <2>7, <2>8 DEF r
<1>5. QED
  BY <1>3, <1>4

\* A step of the link is a step of the registers or leaves them alone.
Mapped == [Registers!Next]_(Registers!vars)

Inv == TypeOK /\ Finds /\ Blocks

\* While the host may be wrong about the selection, nothing is promised.
LEMMA UntrackedMaps == ~tracked => Mapped
BY DEF Mapped, Registers!Next

LEMMA StutterMaps ==
    ASSUME UNCHANGED <<value, call, tracked>>, SentWrites(toNode') = SentWrites(toNode)
    PROVE  Mapped
BY DEF Mapped, Registers!vars

LEMMA AddressedMaps == Registers!Addressed => Mapped
BY DEF Mapped, Registers!Next

LEMMA CallTypes == Registers!Calls = Reads \cup Writes
BY DEF Registers!Calls, Reads, Writes

\* Outside of a question, only writes are under way.
LEMMA OnlyWrites ==
    ASSUME Inv
    PROVE  /\ toNode \in Seq(Commands) /\ Len(toNode) \in Nat
           /\ pc \notin {"confirm", "receive"} => WritesEnd(toNode, Len(toNode))
           /\ toNode = <<>> => SentWrites(toNode) = <<>>
<1>1. toNode \in Seq(Commands) /\ Len(toNode) \in Nat
  BY LenProperties DEF Inv, TypeOK
<1>2. pc \notin {"confirm", "receive"} => WritesEnd(toNode, Len(toNode))
  BY <1>1 DEF Inv, Finds, Shape, WritesEnd
<1>3. ASSUME toNode = <<>> PROVE SentWrites(toNode) = <<>>
  <2>1. Len(toNode) = 0 /\ WritesEnd(toNode, 0)
    BY <1>3 DEF WritesEnd
  <2>2. QED
    BY <1>1, <2>1, NothingSent
<1>4. QED
  BY <1>1, <1>2, <1>3

LEMMA BeginMaps ==
    ASSUME Inv, NEW g \in Greenlets, Begin(g)
    PROVE  Blocks' /\ Mapped
<1>1. PICK c \in Reads \cup Writes : call' = [call EXCEPT ![g] = c]
  BY DEF Begin
<1>2. /\ call[g] \notin Reads \cup Writes
      /\ UNCHANGED <<pc, lock, toNode, toHost, value, tracked>>
  BY DEF Begin
<1>3. pc = "receive" => call[lock] \in Reads /\ call'[lock] = call[lock]
  BY <1>1, <1>2 DEF Inv, TypeOK, Blocks
<1>4. Blocks'
  BY <1>2, <1>3 DEF Inv, Blocks, Target
<1>5. Registers!Begin(g)
  BY <1>1, <1>2, CallTypes DEF Registers!Begin
<1>6. QED
  BY <1>4, <1>5, AddressedMaps DEF Registers!Addressed

\* Steps of the host that send nothing and neither start nor end a block.
LEMMA QuietMaps ==
    ASSUME Inv, UNCHANGED <<call, toNode, value>>, pc' # "receive",
           tracked => tracked'
    PROVE  Blocks' /\ Mapped
<1>1. Blocks'
  BY DEF Inv, Blocks
<1>2. Mapped
  BY UntrackedMaps, StutterMaps DEF Inv, TypeOK
<1>3. QED
  BY <1>1, <1>2

LEMMA SelectMaps ==
    ASSUME Inv, Select
    PROVE  Blocks' /\ Mapped
<1> DEFINE a == Command("index", Target)
           b == Command("readIndex", Target)
           n == Len(toNode)
<1>1. /\ pc = "select" /\ pc' = "confirm" /\ toNode' = Append(Append(toNode, a), b)
      /\ UNCHANGED <<value, call, tracked>>
  BY DEF Select
<1>2. a \in Commands /\ b \in Commands /\ a.op # "write" /\ b.op # "write"
  BY <1>1, CommandTypes DEF Inv, Command
<1>3. toNode \in Seq(Commands) /\ n \in 0 .. Len(toNode) /\ WritesEnd(toNode, n)
  BY <1>1, OnlyWrites
<1> HIDE DEF a, b, n
<1>4. /\ Append(toNode, a) \in Seq(Commands)
      /\ WritesEnd(Append(toNode, a), n) /\ n \in 0 .. Len(Append(toNode, a))
      /\ SentWrites(Append(toNode, a)) = SentWrites(toNode)
  BY <1>2, <1>3, QuestionSendsNothing, AppendFacts
<1>5. /\ WritesEnd(toNode', n) /\ n \in 0 .. Len(toNode')
      /\ SentWrites(toNode') = SentWrites(toNode)
  BY <1>1, <1>2, <1>4, QuestionSendsNothing
<1>6. Blocks'
  BY <1>1, <1>5 DEF Blocks
<1>7. QED
  BY <1>1, <1>5, <1>6, StutterMaps

\* A block that gives up has sent nothing more.
LEMMA FailsMaps ==
    ASSUME Inv, pc # "idle", Return(NoResult), UNCHANGED <<toNode, value>>,
           tracked' \in BOOLEAN
    PROVE  Blocks' /\ Mapped
<1>1. Blocks'
  BY DEF Inv, Blocks, Return
<1>2. lock \in Greenlets /\ call[lock] \in Reads \cup Writes
  BY DEF Inv, TypeOK
<1>3. Registers!Fails(lock)
  BY <1>2, CallTypes DEF Registers!Fails, Registers!Returned, Return, Returned
<1>4. QED
  BY <1>1, <1>2, <1>3, AddressedMaps DEF Registers!Addressed

LEMMA SendWriteMaps ==
    ASSUME Inv, SendWrite
    PROVE  Blocks' /\ Mapped
<1> DEFINE c == Command("write", call[lock].val)
<1>1. /\ pc = "send" /\ pc' = "idle" /\ toNode' = Append(toNode, c)
      /\ call[lock] \in Writes /\ lock \in Greenlets
      /\ call' = [call EXCEPT ![lock] = Returned(TRUE)]
      /\ UNCHANGED <<value, tracked>>
  BY DEF SendWrite, Return, Inv, TypeOK
<1>2. c \in Commands /\ c.op = "write" /\ AsSent(c) = [node |-> Target, val |-> call[lock].val]
  BY <1>1, CommandTypes DEF Inv, Command, AsSent
<1>3. toNode \in Seq(Commands) /\ WritesEnd(toNode, Len(toNode))
  BY <1>1, OnlyWrites
<1> HIDE DEF c
<1>4. /\ WritesEnd(toNode', Len(toNode')) /\ Len(toNode') \in 0 .. Len(toNode')
      /\ SentWrites(toNode') = Append(SentWrites(toNode), AsSent(c))
  BY <1>1, <1>2, <1>3, WriteSends, AppendFacts
<1>5. Blocks'
  BY <1>1, <1>4 DEF Blocks
<1>6. call[lock].kind = "write"
  BY <1>1 DEF Writes
<1>7. Registers!WriteSent(lock)
  BY <1>1, <1>2, <1>4, <1>6, CallTypes
     DEF Registers!WriteSent, Registers!Returned, Returned, Target
<1>8. QED
  BY <1>1, <1>5, <1>7, AddressedMaps DEF Registers!Addressed

LEMMA SendReadMaps ==
    ASSUME Inv, SendRead
    PROVE  Blocks' /\ Mapped
<1> DEFINE c == Command("read", DefaultValue)
           n == Len(toNode)
<1>1. /\ pc = "send" /\ toNode' = Append(toNode, c) /\ call[lock] \in Reads
      /\ toHost' = <<>>
      /\ UNCHANGED <<call, lock, value, tracked>>
  BY DEF SendRead
<1>2. c \in Commands /\ c.op # "write"
  BY <1>1, CommandTypes DEF Inv, Command
<1>3. toNode \in Seq(Commands) /\ n \in 0 .. Len(toNode) /\ WritesEnd(toNode, n)
  BY <1>1, OnlyWrites
<1> HIDE DEF c, n
<1>4. /\ WritesEnd(toNode', n) /\ n \in 0 .. Len(toNode')
      /\ SentWrites(toNode') = SentWrites(toNode)
  BY <1>1, <1>2, <1>3, QuestionSendsNothing
<1>5. Blocks'
  BY <1>1, <1>4 DEF Blocks
<1>6. QED
  BY <1>1, <1>4, <1>5, StutterMaps

\* The answer that is received is the value of the register that was read, and
\* no write is under way to it any more.
LEMMA ReceiveMaps ==
    ASSUME Inv, Receive
    PROVE  Blocks' /\ Mapped
<1>1. /\ pc = "receive" /\ pc' = "idle" /\ toHost # <<>>
      /\ call' = [call EXCEPT ![lock] = Returned(Head(toHost).val)]
      /\ UNCHANGED <<toNode, value, tracked>>
  BY DEF Receive, Return
<1>2. Blocks'
  BY <1>1 DEF Inv, Blocks
<1>3. CASE tracked
  <2>1. SentWrites(toNode) = <<>>
    BY <1>1, OnlyWrites DEF Inv, Finds, Shape
  <2>2. Head(toHost) = toHost[1] /\ 1 \in 1 .. Len(toHost)
    BY <1>1, TailFacts DEF Inv, TypeOK
  <2>3. call[lock] \in Reads /\ lock \in Greenlets /\ Head(toHost).val = value[Target]
    BY <1>1, <1>3, <2>2 DEF Inv, TypeOK, Blocks
  <2>4. call[lock].kind = "read"
    BY <2>3 DEF Reads
  <2>5. Registers!ReadReturns(lock)
    BY <1>1, <2>1, <2>3, <2>4, CallTypes
       DEF Registers!ReadReturns, Registers!Returned, Returned, Target
  <2>6. QED
    BY <1>2, <2>3, <2>5, AddressedMaps DEF Registers!Addressed
<1>4. QED
  BY <1>2, <1>3, UntrackedMaps

LEMMA RetryMaps ==
    ASSUME Inv, Retry
    PROVE  Blocks' /\ Mapped
<1>1. pc \in {"send", "receive"} /\ UNCHANGED <<toNode, value, tracked>>
  BY DEF Retry
<1>2. CASE retry_count < MaxRetries
  BY <1>1, <1>2, QuietMaps DEF Retry
<1>3. CASE ~(retry_count < MaxRetries)
  <2>1. Return(NoResult) /\ tracked' \in BOOLEAN
    BY <1>1, <1>3 DEF Retry, Inv, TypeOK
  <2>2. QED
    BY <1>1, <2>1, FailsMaps
<1>4. QED
  BY <1>2, <1>3

LEMMA LoseMaps ==
    ASSUME Inv, LoseCommand
    PROVE  Blocks' /\ Mapped
<1>1. /\ toNode # <<>> /\ toNode' = Tail(toNode) /\ toNode \in Seq(Commands)
      /\ UNCHANGED <<call, pc, lock, toHost, value, tracked>>
  BY DEF LoseCommand, hostVars, Inv, TypeOK
<1>2. PICK n \in 0 .. Len(toNode) : WritesEnd(toNode, n)
  BY DEF Inv, Blocks
<1>3. Blocks'
  BY <1>1, <1>2, FirstLeaves DEF Inv, Blocks, Target
<1>4. CASE Head(toNode).op = "write"
  <2>1. Registers!LoseWrite
    BY <1>1, <1>2, <1>4, FirstLeaves DEF Registers!LoseWrite
  <2>2. QED
    BY <1>3, <2>1, AddressedMaps DEF Registers!Addressed
<1>5. CASE Head(toNode).op # "write"
  BY <1>1, <1>2, <1>3, <1>5, FirstLeaves, StutterMaps
<1>6. QED
  BY <1>4, <1>5

\* A write is applied to the node it is for, which is the selected one.
LEMMA HandleMaps ==
    ASSUME Inv, Handle
    PROVE  Blocks' /\ Mapped
<1> DEFINE c == Head(toNode)
<1>1. /\ toNode # <<>> /\ toNode' = Tail(toNode) /\ toNode \in Seq(Commands)
      /\ UNCHANGED <<call, pc, lock, tracked>>
      /\ c = toNode[1] /\ 1 \in 1 .. Len(toNode)
  BY TailFacts DEF Handle, hostVars, Inv, TypeOK
<1>2. PICK n \in 0 .. Len(toNode) : WritesEnd(toNode, n)
  BY DEF Inv, Blocks
<1>3. /\ \E m \in 0 .. Len(toNode') : WritesEnd(toNode', m)
      /\ c.op = "write" => /\ SentWrites(toNode) # <<>>
                           /\ Head(SentWrites(toNode)) = AsSent(c)
                           /\ SentWrites(toNode') = Tail(SentWrites(toNode))
      /\ c.op # "write" => SentWrites(toNode') = SentWrites(toNode)
  BY <1>1, <1>2, FirstLeaves
<1>4. /\ c.op = "read" => Answer(value[curNode])
      /\ c.op = "write" => value' = [value EXCEPT ![curNode] = c.val] /\ toHost' = toHost
      /\ c.op # "write" => value' = value
  BY DEF Handle
<1>5. tracked /\ c.op \in {"read", "write"} => curNode = c.for
  BY <1>1 DEF Inv, Finds, CommandFindsItsNode
<1>6. pc = "receive" => toHost = <<>> /\ c.op \in {"read", "write"} /\ call[lock] \in Reads
  BY <1>1 DEF Inv, Finds, Shape, Blocks
<1>7. pc = "receive" /\ tracked => curNode = Target
  <2>1. pc = "receive" => Target \in Nodes /\ holder = Target
    BY CommandTypes DEF Inv, Finds, Selected
  <2>2. QED
    BY <2>1, SerialLinkAssumption DEF Inv, Finds, Selected
<1> HIDE DEF c
<1>8. ASSUME pc = "receive", tracked, NEW i \in 1 .. Len(toHost')
      PROVE  toHost'[i].val = value'[Target]
  <2>1. CASE c.op = "write"
    BY <1>4, <1>6, <1>8, <2>1, EmptySeq
  <2>2. CASE c.op = "read"
    <3>1. toHost' = Append(<<>>, [val |-> value[curNode], life |-> restarts])
      BY <1>4, <1>6, <1>8, <2>2 DEF Answer
    <3>2. Len(toHost') = 1 /\ toHost'[1] = [val |-> value[curNode], life |-> restarts]
      BY <3>1
    <3>3. toHost'[i].val = value[curNode]
      BY <1>8, <3>2
    <3>4. QED
      BY <1>4, <1>7, <1>8, <2>2, <3>3
  <2>3. QED
    BY <1>6, <1>8, <2>1, <2>2
<1>9. Blocks'
  <2>1. Target' = Target
    BY <1>1 DEF Target
  <2>2. QED
    BY <1>1, <1>3, <1>6, <1>8, <2>1 DEF Blocks
<1>10. CASE tracked /\ c.op = "write"
  <2>1. value' = [value EXCEPT ![AsSent(c).node] = AsSent(c).val]
    BY <1>4, <1>5, <1>10 DEF AsSent
  <2>2. Registers!Apply
    BY <1>1, <1>3, <1>10, <2>1 DEF Registers!Apply
  <2>3. QED
    BY <1>9, <2>2, AddressedMaps DEF Registers!Addressed
<1>11. CASE c.op # "write"
  BY <1>1, <1>3, <1>4, <1>9, <1>11, StutterMaps
<1>12. QED
  BY <1>9, <1>10, <1>11, UntrackedMaps

LEMMA RestartMaps ==
    ASSUME Inv, Restart
    PROVE  Blocks' /\ Mapped
<1>1. /\ toNode' = <<>> /\ tracked' = FALSE /\ value' = [n \in Nodes |-> DefaultValue]
      /\ UNCHANGED <<call, pc, lock>>
  BY DEF Restart, hostVars
<1>2. toNode' \in Seq(Commands) /\ Len(toNode') = 0
  BY <1>1
<1>3. WritesEnd(toNode', 0)
  BY <1>2 DEF WritesEnd
<1>4. SentWrites(toNode') = <<>>
  BY <1>2, <1>3, NothingSent
<1>5. Blocks'
  BY <1>1, <1>2, <1>3 DEF Inv, Blocks
<1>6. Registers!Restart
  BY <1>1, <1>4, SerialLinkAssumption DEF Registers!Restart
<1>7. QED
  BY <1>5, <1>6, AddressedMaps DEF Registers!Addressed

LEMMA BlocksStep == Inv /\ [Next]_vars => Blocks' /\ Mapped
<1> SUFFICES ASSUME Inv, [Next]_vars
             PROVE  Blocks' /\ Mapped
  OBVIOUS
<1>1. CASE Check \/ Confirmed \/ SelectAgain \/ \E g \in Greenlets : Acquire(g)
  <2>1. UNCHANGED <<call, toNode, value>> /\ pc' # "receive"
    BY <1>1 DEF Check, Confirmed, SelectAgain, Acquire
  <2>2. CASE Confirmed
    <3>1. tracked => tracked'
      BY <2>2 DEF Confirmed
    <3>2. QED
      BY <2>1, <3>1, QuietMaps
  <2>3. CASE tracked' = tracked
    BY <2>1, <2>3, QuietMaps
  <2>4. QED
    BY <1>1, <2>2, <2>3 DEF Check, SelectAgain, Acquire
<1>2. CASE GiveUpSelect
  BY <1>2, FailsMaps DEF GiveUpSelect
<1>3. CASE LoseAnswer
  <2>1. /\ toHost # <<>> /\ toHost' = Tail(toHost)
        /\ UNCHANGED <<call, pc, lock, toNode, value, tracked>>
    BY <1>3 DEF LoseAnswer, hostVars
  <2>2. \A i \in 1 .. Len(toHost') : i + 1 \in 1 .. Len(toHost) /\ toHost'[i] = toHost[i + 1]
    BY <2>1, TailFacts DEF Inv, TypeOK
  <2>3. Blocks'
    BY <2>1, <2>2 DEF Inv, Blocks, Target
  <2>4. QED
    BY <2>1, <2>3, StutterMaps
<1>4. CASE UNCHANGED vars
  <2>1. UNCHANGED <<call, pc, lock, toNode, toHost, value, tracked>>
    BY <1>4 DEF vars, hostVars
  <2>2. Blocks'
    BY <2>1 DEF Inv, Blocks, Target
  <2>3. QED
    BY <2>1, <2>2, StutterMaps
<1>5. QED
  BY <1>1, <1>2, <1>3, <1>4, BeginMaps, SelectMaps, SendWriteMaps, SendReadMaps,
     ReceiveMaps, RetryMaps, HandleMaps, LoseMaps, RestartMaps
     DEF Next, Host, Processor

LEMMA InitMaps == Init => Inv /\ Registers!Init
<1> SUFFICES ASSUME Init PROVE Inv /\ Registers!Init
  OBVIOUS
<1>1. TypeOK /\ Finds
  BY InitFinds
<1>2. /\ toNode = <<>> /\ Len(toNode) = 0 /\ pc = "idle" /\ tracked = TRUE
      /\ value = [n \in Nodes |-> DefaultValue]
      /\ call = [g \in Greenlets |-> NoCall]
  BY DEF Init
<1>3. WritesEnd(toNode, 0)
  BY <1>2 DEF WritesEnd
<1>4. Inv
  BY <1>1, <1>2, <1>3 DEF Inv, Blocks
<1>5. SentWrites(toNode) = <<>>
  BY <1>2, <1>4, OnlyWrites
<1>6. Registers!Init
  BY <1>2, <1>5, SerialLinkAssumption DEF Registers!Init, Registers!NoCall, NoCall
<1>7. QED
  BY <1>4, <1>6

-----------------------------------------------------------------------------
\* The state of the host, the port and the processor keeps its types, for
\* every number of greenlets, nodes, losses and restarts.
THEOREM TypeCorrect == Spec => []TypeOK
<1>1. Init => TypeOK
  BY InitFinds
<1> QED
  BY <1>1, TypeStep, PTL DEF Spec

\* A block of a node never reaches another one, unless the processor
\* restarted or a selection was abandoned since the last confirmed one.
THEOREM RightNode == Spec => []CommandFindsItsNode
<1>1. Init => TypeOK /\ Finds
  BY InitFinds
<1>2. TypeOK /\ Finds /\ [Next]_vars => (TypeOK /\ Finds)'
  BY TypeStep, FindsStep
<1>3. Finds => CommandFindsItsNode
  BY DEF Finds
<1> QED
  BY <1>1, <1>2, <1>3, PTL DEF Spec

\* The blocks are reads and writes of registers, one for each node, as
\* NodeRegisters promises them: selections, retries, lost frames and the other
\* nodes of the processor do not show.
THEOREM Refinement == Spec => ImplementsRegisters
<1>1. Init => Inv /\ Registers!Init
  BY InitMaps
<1>2. Inv /\ [Next]_vars => Inv'
  BY TypeStep, FindsStep, BlocksStep DEF Inv
<1>3. Inv /\ [Next]_vars => [Registers!Next]_(Registers!vars)
  BY BlocksStep DEF Mapped
<1> QED
  BY <1>1, <1>2, <1>3, PTL DEF Spec, ImplementsRegisters, Registers!Spec
=============================================================================
