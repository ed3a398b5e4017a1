-------------------------- MODULE Stm32LoaderProofs --------------------------
(***************************************************************************)
(* Proofs about Stm32Loader, for any file, any sizes of the flash and of   *)
(* the transfers, and any number of calls and of faults.                   *)
(***************************************************************************)
EXTENDS Stm32Loader, SequenceTheorems, TLAPS

Devices == [phase : Boot!Phases, left : 0 .. 4, addr : 0 .. FlashSize,
            mem : [1 .. FlashSize -> Memory], eraseCommand : {"erase", "extendedErase"}]

Operations == {"sync", "command", "address", "count", "data", "pages"}

\* What the host sends.
IsMessage(m) ==
    /\ m.op \in Operations
    /\ m.len \in Nat \ {0}
    /\ m.op = "address" => m.arg \in 0 .. FlashSize
    /\ m.op = "count" => m.arg \in Nat
    /\ m.op = "data" => m.arg \in Seq(Memory)

-----------------------------------------------------------------------------
(* What arrives of an answer                                               *)

\* got is out, without one of its bytes, with one changed, or nothing.
Garbled(out, got) ==
    /\ got \in Seq(Bytes)
    /\ Len(got) <= Len(out)
    /\ \A i \in 1 .. Len(got) : got[i] = Noise \/ (\E j \in 1 .. Len(out) : got[i] = out[j])
    /\ Len(got) = Len(out) => \A i \in 1 .. Len(out) : got[i] \in {out[i], Noise}
    /\ Len(got) # 0 /\ Len(got) + 1 = Len(out) =>
          got[1] = out[1] \/ (\A i \in 1 .. Len(got) : got[i] = out[i + 1])

LEMMA NoiseIsAByte == Noise \in Bytes
  BY DEF Bytes, Signals

\* All of it arrives.
LEMMA ClearIsGarbled ==
    ASSUME NEW out \in Seq(Bytes)
    PROVE  Garbled(out, out)
  BY DEF Garbled

LEMMA NothingIsGarbled ==
    ASSUME NEW out \in Seq(Bytes)
    PROVE  Garbled(out, <<>>)
  <1>1. <<>> \in Seq(Bytes) /\ Len(<<>>) = 0
    OBVIOUS
  <1>2. Len(out) \in Nat
    OBVIOUS
  <1> QED
    BY <1>1, <1>2 DEF Garbled

LEMMA RemovedIsGarbled ==
    ASSUME NEW out \in Seq(Bytes), NEW i \in DOMAIN out
    PROVE  Garbled(out, RemoveAt(out, i))
  <1> DEFINE a == SubSeq(out, 1, i - 1)
             b == SubSeq(out, i + 1, Len(out))
             got == a \o b
  <1>0. i \in 1 .. Len(out) /\ Len(out) \in Nat
    OBVIOUS
  <1>1. /\ a \in Seq(Bytes) /\ Len(a) = i - 1
        /\ \A k \in 1 .. i - 1 : a[k] = out[k]
    BY <1>0, SubSeqProperties
  <1>2. /\ b \in Seq(Bytes) /\ Len(b) = Len(out) - i
        /\ \A k \in 1 .. Len(out) - i : b[k] = out[k + i]
    BY <1>0, SubSeqProperties
  <1> HIDE DEF a, b
  <1>3. /\ got \in Seq(Bytes) /\ Len(got) = Len(out) - 1
        /\ \A k \in 1 .. Len(got) : got[k] = IF k < i THEN out[k] ELSE out[k + 1]
    <2>1. got \in Seq(Bytes) /\ Len(got) = Len(a) + Len(b)
      BY <1>1, <1>2, ConcatProperties
    <2>2. \A k \in 1 .. Len(got) : got[k] = IF k <= Len(a) THEN a[k] ELSE b[k - Len(a)]
      BY <1>1, <1>2, <2>1, ConcatProperties
    <2>3. Len(a) = i - 1 /\ Len(b) = Len(out) - i /\ i \in 1 .. Len(out) /\ Len(out) \in Nat
      BY <1>0, <1>1, <1>2
    <2>4. Len(got) = Len(out) - 1
      <3> HIDE DEF got
      <3> QED
        BY <2>1, <2>3
    <2>5. ASSUME NEW k \in 1 .. Len(got)
          PROVE  got[k] = IF k < i THEN out[k] ELSE out[k + 1]
      <3>1. got[k] = IF k <= Len(a) THEN a[k] ELSE b[k - Len(a)]
        BY <2>2
      <3>2. k \in 1 .. Len(out) - 1
        BY <2>4
      <3> HIDE DEF got
      <3>3. CASE k < i
        <4>1. k \in 1 .. i - 1
          BY <2>3, <3>2, <3>3
        <4>2. a[k] = out[k]
          BY <4>1, <1>1
        <4> QED
          BY <2>3, <3>1, <3>2, <3>3, <4>2
      <3>4. CASE k >= i
        <4>1. k - (i - 1) \in 1 .. Len(out) - i /\ (k - (i - 1)) + i = k + 1
          BY <2>3, <3>2, <3>4
        <4>2. b[k - (i - 1)] = out[k + 1]
          BY <4>1, <1>2
        <4> QED
          BY <2>3, <3>1, <3>2, <3>4, <4>2
      <3> QED
        BY <2>3, <3>2, <3>3, <3>4
    <2> QED
      BY <2>1, <2>4, <2>5
  <1> HIDE DEF got
  <1>4. Garbled(out, got)
    BY <1>0, <1>3 DEF Garbled
  <1> QED
    BY <1>4 DEF got, a, b, RemoveAt

LEMMA ReplacedIsGarbled ==
    ASSUME NEW out \in Seq(Bytes), NEW i \in DOMAIN out
    PROVE  Garbled(out, ReplaceAt(out, i, Noise))
  <1> DEFINE got == [out EXCEPT ![i] = Noise]
  <1>0. i \in 1 .. Len(out) /\ Len(out) \in Nat
    OBVIOUS
  <1>1. /\ got \in Seq(Bytes) /\ Len(got) = Len(out)
        /\ \A k \in 1 .. Len(got) : got[k] = IF k = i THEN Noise ELSE out[k]
    BY NoiseIsAByte
  <1> HIDE DEF got
  <1>2. Garbled(out, got)
    BY <1>0, <1>1 DEF Garbled
  <1> QED
    BY <1>2 DEF got, ReplaceAt

LEMMA ArrivalIsGarbled ==
    ASSUME NEW out \in Seq(Bytes), NEW a \in Arrivals(out)
    PROVE  Garbled(out, a.out) /\ a.faults \in {0, 1}
  BY ClearIsGarbled, NothingIsGarbled, RemovedIsGarbled, ReplacedIsGarbled DEF Arrivals

-----------------------------------------------------------------------------
(* What the boot loader makes of a message                                 *)

\* It was no message to it: the flash stays, and NACKs are all it may say.
Refused(d, r) ==
    /\ r.dev \in Devices
    /\ r.dev.mem = d.mem /\ r.dev.addr = d.addr /\ r.dev.eraseCommand = d.eraseCommand
    /\ r.out \in Seq({Boot!Nack})
    /\ r.dev.phase \in {d.phase, "mute", "ready"}
    /\ r.out # <<>> => r.dev.phase = "ready"
    /\ d.phase \in {"app", "mute"} => r.dev = d /\ r.out = <<>>
    /\ d.phase = "sync" => r.dev.phase # "ready"

LEMMA NothingIsRefusal ==
    ASSUME NEW d \in Devices
    PROVE  Refused(d, Boot!Does(d, <<>>))
  <1>1. <<>> \in Seq({Boot!Nack})
    OBVIOUS
  <1> QED
    BY <1>1 DEF Refused, Boot!Does

LEMMA EnteringIsADevice ==
    ASSUME NEW d \in Devices, NEW p \in Boot!Phases
    PROVE  /\ Boot!Enter(d, p) \in Devices
           /\ Boot!Enter(d, p).phase = p /\ Boot!Enter(d, p).left = 0
           /\ Boot!Enter(d, p).addr = d.addr /\ Boot!Enter(d, p).mem = d.mem
           /\ Boot!Enter(d, p).eraseCommand = d.eraseCommand
  <1> DEFINE e == [d EXCEPT !.phase = p, !.left = 0]
  <1>1. 0 \in 0 .. 4
    OBVIOUS
  <1>2. e \in Devices
    BY <1>1 DEF Devices
  <1>3. /\ e.phase = p /\ e.left = 0 /\ e.addr = d.addr /\ e.mem = d.mem
        /\ e.eraseCommand = d.eraseCommand
    BY DEF Devices
  <1> QED
    BY <1>2, <1>3 DEF Boot!Enter

LEMMA MuteIsRefusal ==
    ASSUME NEW d \in Devices, d.phase \notin {"app", "mute"}
    PROVE  Refused(d, Boot!Does(Boot!Enter(d, "mute"), <<>>))
  <1>1. <<>> \in Seq({Boot!Nack})
    OBVIOUS
  <1>2. "mute" \in Boot!Phases
    BY DEF Boot!Phases
  <1> QED
    BY <1>1, <1>2, EnteringIsADevice DEF Refused, Boot!Does

LEMMA NackIsRefusal ==
    ASSUME NEW d \in Devices, d.phase \notin {"app", "mute", "sync"},
           NEW left \in 0 .. 4, NEW n \in Nat
    PROVE  Refused(d, Boot!Does([d EXCEPT !.phase = "ready", !.left = left],
                                [i \in 1 .. n |-> Boot!Nack]))
  <1>1. [i \in 1 .. n |-> Boot!Nack] \in Seq({Boot!Nack})
    OBVIOUS
  <1>2. "ready" \in Boot!Phases
    BY DEF Boot!Phases
  <1> DEFINE e == [d EXCEPT !.phase = "ready", !.left = left]
  <1>3. e \in Devices
    BY <1>2 DEF Devices
  <1>4. /\ e.phase = "ready" /\ e.addr = d.addr /\ e.mem = d.mem
        /\ e.eraseCommand = d.eraseCommand
    BY DEF Devices
  <1> HIDE DEF e
  <1>5. Refused(d, Boot!Does(e, [i \in 1 .. n |-> Boot!Nack]))
    BY <1>1, <1>3, <1>4 DEF Refused, Boot!Does
  <1> QED
    BY <1>5 DEF e

LEMMA WaitingIsRefusal ==
    ASSUME NEW d \in Devices, d.phase \notin {"app", "mute"}, NEW left \in 0 .. 4
    PROVE  Refused(d, Boot!Does([d EXCEPT !.left = left], <<>>))
  <1>1. <<>> \in Seq({Boot!Nack})
    OBVIOUS
  <1>2. /\ [d EXCEPT !.left = left] \in Devices
        /\ [d EXCEPT !.left = left] =
              [phase |-> d.phase, left |-> left, addr |-> d.addr, mem |-> d.mem,
               eraseCommand |-> d.eraseCommand]
    BY DEF Devices
  <1>3. d.phase \in {d.phase, "mute", "ready"}
    OBVIOUS
  <1> QED
    BY <1>1, <1>2, <1>3 DEF Refused, Boot!Does

LEMMA FillIsRefusal ==
    ASSUME NEW d \in Devices, d.phase \notin {"app", "mute", "sync"}, NEW n \in Nat \ {0},
           NEW r, r = Boot!Fill(d, n)
    PROVE  Refused(d, r)
  <1> DEFINE need == IF d.left = 0 THEN Boot!BytesOf(Boot!Expects(d.phase)) ELSE d.left
             rest == n - need
  <1>1. need \in 1 .. 5
    BY DEF Boot!BytesOf, Devices
  <1> HIDE DEF need
  <1>2. CASE n < need
    <2>1. need - n \in 0 .. 4
      BY <1>1, <1>2
    <2>2. r = Boot!Does([d EXCEPT !.left = need - n], <<>>)
      BY <1>2 DEF Boot!Fill, need
    <2> QED
      BY <2>1, <2>2, WaitingIsRefusal
  <1>3. CASE n >= need
    <2>1. rest \in Nat
      BY <1>1, <1>3
    <2>2. rest % 2 \in 0 .. 4 /\ 1 + rest \div 2 \in Nat
      <3> HIDE DEF rest
      <3> QED
        BY <2>1
    <2>3. r = Boot!Does([d EXCEPT !.phase = "ready", !.left = rest % 2],
                        [i \in 1 .. 1 + rest \div 2 |-> Boot!Nack])
      <3>1. ~(n < need)
        BY <1>1, <1>3
      <3> QED
        BY <3>1 DEF Boot!Fill, need
    <2> HIDE DEF rest
    <2> QED
      BY <2>2, <2>3, NackIsRefusal
  <1> QED
    BY <1>1, <1>2, <1>3

LEMMA MisreadIsRefusal ==
    ASSUME NEW d \in Devices, NEW n \in Nat \ {0}, NEW r \in Boot!Misread(d, n)
    PROVE  Refused(d, r)
  <1>1. CASE d.phase \in {"app", "mute"}
    BY <1>1, NothingIsRefusal DEF Boot!Misread
  <1>2. CASE d.phase = "sync"
    BY <1>2, MuteIsRefusal DEF Boot!Misread
  <1>3. CASE d.left = 0 /\ d.phase \in {"writeData", "erasePages"}
    <2>1. \/ r = Boot!Does(Boot!Enter(d, "mute"), <<>>)
          \/ r = Boot!Does([d EXCEPT !.left = 1], <<>>)
          \/ r = Boot!Does(Boot!Enter(d, "ready"), <<Boot!Nack>>)
      BY <1>3 DEF Boot!Misread
    <2>2. 1 \in 0 .. 4 /\ 0 \in 0 .. 4 /\ 1 \in Nat
      OBVIOUS
    <2>3. <<Boot!Nack>> = [i \in 1 .. 1 |-> Boot!Nack]
      OBVIOUS
    <2>4. Boot!Enter(d, "ready") = [d EXCEPT !.phase = "ready", !.left = 0]
      BY DEF Boot!Enter
    <2>5. d.phase \notin {"app", "mute", "sync"}
      BY <1>3
    <2>6. CASE r = Boot!Does(Boot!Enter(d, "mute"), <<>>)
      BY <2>5, <2>6, MuteIsRefusal
    <2>7. CASE r = Boot!Does([d EXCEPT !.left = 1], <<>>)
      BY <2>2, <2>5, <2>7, WaitingIsRefusal
    <2>8. CASE r = Boot!Does(Boot!Enter(d, "ready"), <<Boot!Nack>>)
      BY <2>2, <2>3, <2>4, <2>5, <2>8, NackIsRefusal
    <2> QED
      BY <2>1, <2>6, <2>7, <2>8
  <1>4. CASE /\ d.phase \notin {"app", "mute", "sync"}
             /\ ~(d.left = 0 /\ d.phase \in {"writeData", "erasePages"})
    <2>1. r = Boot!Fill(d, n)
      BY <1>4 DEF Boot!Misread
    <2> QED
      BY <1>4, <2>1, FillIsRefusal
  <1> QED
    BY <1>1, <1>2, <1>3, <1>4

\* The device goes on to another phase, and the flash stays as it is.
Moved(d, r, phase, out) ==
    /\ r.dev \in Devices
    /\ r.dev.phase = phase /\ r.dev.left = 0
    /\ r.dev.addr = d.addr /\ r.dev.mem = d.mem /\ r.dev.eraseCommand = d.eraseCommand
    /\ r.out = out

\* The answer to a command that is taken for a count.
LongCount == <<Boot!Ack>> \o [i \in 1 .. Boot!ManyBytes |-> Boot!Info]

\* The answer to a count.
Contents(d, n) == <<Boot!Ack>> \o Boot!MemoryAt(d, n)

LEMMA EnteringIsAMove ==
    ASSUME NEW d \in Devices, NEW p \in Boot!Phases, NEW out
    PROVE  Moved(d, Boot!Does(Boot!Enter(d, p), out), p, out)
  BY EnteringIsADevice DEF Moved, Boot!Does

\* All that a message may do, in order or not.
Reactions(d, m) == Boot!Deliver(d, m) \cup Boot!Spoil(d, m)

LEMMA SpoiltReaction ==
    ASSUME NEW d \in Devices, NEW m, IsMessage(m), NEW r \in Boot!Spoil(d, m)
    PROVE  Refused(d, r) \/ r \in Boot!BadCells(d, m)
  <1>1. CASE r \in {Boot!Does(d, <<>>)}
    BY <1>1, NothingIsRefusal
  <1>2. CASE r \in Boot!Misread(d, m.len)
    BY <1>2, MisreadIsRefusal DEF IsMessage
  <1>3. CASE m.len > 1 /\ r \in Boot!Misread(d, m.len - 1)
    <2>1. m.len - 1 \in Nat \ {0}
      BY <1>3 DEF IsMessage
    <2> QED
      BY <1>3, <2>1, MisreadIsRefusal
  <1> QED
    BY <1>1, <1>2, <1>3 DEF Boot!Spoil

\* The synchronization byte is answered where the speed is not known yet.
LEMMA SyncReaction ==
    ASSUME NEW d \in Devices, NEW m, IsMessage(m), m.op = "sync", NEW r \in Reactions(d, m)
    PROVE  \/ Refused(d, r)
           \/ d.phase = "sync" /\ Moved(d, r, "ready", <<Boot!Ack>>)
  <1>1. ~Boot!Fits(d, m)
    BY DEF Boot!Fits, Boot!Expects
  <1>2. CASE r \in Boot!Spoil(d, m)
    BY <1>1, <1>2, SpoiltReaction DEF Boot!BadCells
  <1>3. CASE r \in Boot!Deliver(d, m)
    <2>1. CASE d.phase = "sync"
      <3>1. r = Boot!Does(Boot!Enter(d, "ready"), <<Boot!Ack>>)
        BY <1>1, <1>3, <2>1 DEF Boot!Deliver
      <3>2. "ready" \in Boot!Phases
        BY DEF Boot!Phases
      <3> QED
        BY <2>1, <3>1, <3>2, EnteringIsAMove
    <2>2. CASE d.phase # "sync"
      BY <1>1, <1>3, <2>2, MisreadIsRefusal DEF Boot!Deliver, IsMessage
    <2> QED
      BY <2>1, <2>2
  <1> QED
    BY <1>2, <1>3 DEF Reactions

\* Any other message is handled where it is expected, and is no message to
\* the device elsewhere; but a command is taken for a count.
LEMMA OtherReaction ==
    ASSUME NEW d \in Devices, NEW m, IsMessage(m), m.op # "sync", NEW r \in Reactions(d, m)
    PROVE  \/ Refused(d, r)
           \/ Boot!Fits(d, m) /\ r = Boot!Handle(d, m)
           \/ r \in Boot!BadCells(d, m)
           \/ /\ d.phase = "readCount" /\ m.op = "command"
              /\ Moved(d, r, "ready", LongCount)
  <1>2. CASE r \in Boot!Spoil(d, m)
    BY <1>2, SpoiltReaction
  <1>3. CASE r \in Boot!Deliver(d, m) /\ ~Boot!Fits(d, m)
    <2>1. CASE d.phase = "readCount" /\ d.left = 0 /\ m.op = "command"
      <3>1. r = Boot!Does(Boot!Enter(d, "ready"), LongCount)
        BY <1>3, <2>1 DEF Boot!Deliver, LongCount
      <3>2. "ready" \in Boot!Phases
        BY DEF Boot!Phases
      <3> QED
        BY <2>1, <3>1, <3>2, EnteringIsAMove
    <2>2. CASE ~(d.phase = "readCount" /\ d.left = 0 /\ m.op = "command")
      BY <1>3, <2>2, MisreadIsRefusal DEF Boot!Deliver, IsMessage
    <2> QED
      BY <2>1, <2>2
  <1>4. CASE r \in Boot!Deliver(d, m) /\ Boot!Fits(d, m)
    BY <1>4 DEF Boot!Deliver
  <1> QED
    BY <1>2, <1>3, <1>4 DEF Reactions

LEMMA CommandsAreMessages ==
    ASSUME NEW c
    PROVE  /\ IsMessage(Boot!CommandMessage(c))
           /\ Boot!CommandMessage(c).op = "command" /\ Boot!CommandMessage(c).arg = c
  BY DEF IsMessage, Boot!CommandMessage, Operations

LEMMA AddressesAreMessages ==
    ASSUME NEW a \in 0 .. FlashSize
    PROVE  /\ IsMessage(Boot!AddressMessage(a))
           /\ Boot!AddressMessage(a).op = "address" /\ Boot!AddressMessage(a).arg = a
  BY DEF IsMessage, Boot!AddressMessage, Operations

LEMMA CountsAreMessages ==
    ASSUME NEW n \in Nat
    PROVE  /\ IsMessage(Boot!CountMessage(n))
           /\ Boot!CountMessage(n).op = "count" /\ Boot!CountMessage(n).arg = n
  BY DEF IsMessage, Boot!CountMessage, Operations

LEMMA DataAreMessages ==
    ASSUME NEW bytes \in Seq(Memory)
    PROVE  /\ IsMessage(Boot!DataMessage(bytes))
           /\ Boot!DataMessage(bytes).op = "data" /\ Boot!DataMessage(bytes).arg = bytes
  <1>1. Len(bytes) + 2 \in Nat \ {0}
    OBVIOUS
  <1> QED
    BY <1>1 DEF IsMessage, Boot!DataMessage, Operations

LEMMA PagesAreMessages ==
    ASSUME NEW extended \in BOOLEAN
    PROVE  /\ IsMessage(Boot!PagesMessage(extended))
           /\ Boot!PagesMessage(extended).op = "pages"
  BY DEF IsMessage, Boot!PagesMessage, Operations

LEMMA SyncIsAMessage == IsMessage(Boot!SyncMessage) /\ Boot!SyncMessage.op = "sync"
  BY DEF IsMessage, Boot!SyncMessage, Operations

\* What a command meets: a device that is ready, one that waits for a count,
\* or one that does not understand it.
LEMMA CommandReaction ==
    ASSUME NEW d \in Devices, NEW c, NEW r \in Reactions(d, Boot!CommandMessage(c))
    PROVE  \/ Refused(d, r)
           \/ d.phase = "ready" /\ r = Boot!HandleCommand(d, c)
           \/ /\ d.phase = "readCount"
              /\ Moved(d, r, "ready", LongCount)
  <1> DEFINE m == Boot!CommandMessage(c)
  <1>1. IsMessage(m) /\ m.op = "command" /\ m.arg = c
    BY CommandsAreMessages
  <1> HIDE DEF m
  <1>2. \/ Refused(d, r)
        \/ Boot!Fits(d, m) /\ r = Boot!Handle(d, m)
        \/ r \in Boot!BadCells(d, m)
        \/ /\ d.phase = "readCount" /\ m.op = "command"
           /\ Moved(d, r, "ready", LongCount)
    <2>1. r \in Reactions(d, m) /\ m.op # "sync"
      BY <1>1 DEF m
    <2> QED
      BY <1>1, <2>1, OtherReaction
  <1>3. Boot!BadCells(d, m) = {}
    BY <1>1 DEF Boot!BadCells
  <1>4. ASSUME Boot!Fits(d, m)
        PROVE  d.phase = "ready" /\ Boot!Handle(d, m) = Boot!HandleCommand(d, c)
    <2>1. d.phase = "ready"
      BY <1>1, <1>4 DEF Boot!Fits, Boot!Expects
    <2> QED
      BY <1>1, <2>1 DEF Boot!Handle
  <1> QED
    BY <1>2, <1>3, <1>4

LEMMA EraseCommandIs ==
    ASSUME NEW d \in Devices
    PROVE  d.eraseCommand \in {"erase", "extendedErase"}
  BY DEF Devices

LEMMA GetReaction ==
    ASSUME NEW d \in Devices, d.phase # "readCount",
           NEW r \in Reactions(d, Boot!CommandMessage("get"))
    PROVE  \/ Refused(d, r)
           \/ /\ d.phase = "ready"
              /\ r = Boot!Does(d, <<Boot!Ack, Boot!Info, Boot!Info, Boot!Commands, Boot!Ack>>)
  BY CommandReaction, EraseCommandIs DEF Boot!HandleCommand

LEMMA GetIdReaction ==
    ASSUME NEW d \in Devices, d.phase # "readCount",
           NEW r \in Reactions(d, Boot!CommandMessage("getId"))
    PROVE  \/ Refused(d, r)
           \/ d.phase = "ready" /\ r = Boot!Does(d, <<Boot!Ack, Boot!Info, Boot!Id, Boot!Ack>>)
  BY CommandReaction, EraseCommandIs DEF Boot!HandleCommand

\* read, write and go: the address is next.
LEMMA OpeningReaction ==
    ASSUME NEW d \in Devices, NEW c \in {"read", "write", "go"},
           NEW r \in Reactions(d, Boot!CommandMessage(c))
    PROVE  \/ Refused(d, r)
           \/ /\ d.phase = "ready"
              /\ \/ c = "read" /\ Moved(d, r, "readAddress", <<Boot!Ack>>)
                 \/ c = "write" /\ Moved(d, r, "writeAddress", <<Boot!Ack>>)
                 \/ c = "go" /\ Moved(d, r, "goAddress", <<Boot!Ack>>)
           \/ /\ d.phase = "readCount"
              /\ Moved(d, r, "ready", LongCount)
  <1> SUFFICES ASSUME d.phase = "ready", r = Boot!HandleCommand(d, c)
               PROVE  \/ c = "read" /\ Moved(d, r, "readAddress", <<Boot!Ack>>)
                      \/ c = "write" /\ Moved(d, r, "writeAddress", <<Boot!Ack>>)
                      \/ c = "go" /\ Moved(d, r, "goAddress", <<Boot!Ack>>)
    BY CommandReaction
  <1>1. {"readAddress", "writeAddress", "goAddress"} \subseteq Boot!Phases
    BY DEF Boot!Phases
  <1>2. CASE c = "read"
    <2>1. r = Boot!Does(Boot!Enter(d, "readAddress"), <<Boot!Ack>>)
      BY <1>2, EraseCommandIs DEF Boot!HandleCommand
    <2> QED
      BY <1>1, <1>2, <2>1, EnteringIsAMove
  <1>3. CASE c = "write"
    <2>1. r = Boot!Does(Boot!Enter(d, "writeAddress"), <<Boot!Ack>>)
      BY <1>3, EraseCommandIs DEF Boot!HandleCommand
    <2> QED
      BY <1>1, <1>3, <2>1, EnteringIsAMove
  <1>4. CASE c = "go"
    <2>1. r = Boot!Does(Boot!Enter(d, "goAddress"), <<Boot!Ack>>)
      BY <1>4, EraseCommandIs DEF Boot!HandleCommand
    <2> QED
      BY <1>1, <1>4, <2>1, EnteringIsAMove
  <1> QED
    BY <1>2, <1>3, <1>4

LEMMA EraseReaction ==
    ASSUME NEW d \in Devices, NEW c \in {"erase", "extendedErase"},
           NEW r \in Reactions(d, Boot!CommandMessage(c))
    PROVE  \/ Refused(d, r)
           \/ d.phase = "ready" /\ Moved(d, r, "erasePages", <<Boot!Ack>>)
           \/ /\ d.phase = "readCount"
              /\ Moved(d, r, "ready", LongCount)
  <1> SUFFICES ASSUME d.phase = "ready", r = Boot!HandleCommand(d, c)
               PROVE  Refused(d, r) \/ Moved(d, r, "erasePages", <<Boot!Ack>>)
    BY CommandReaction
  <1>1. CASE c = d.eraseCommand
    <2>1. r = Boot!Does(Boot!Enter(d, "erasePages"), <<Boot!Ack>>)
      BY <1>1 DEF Boot!HandleCommand
    <2>2. "erasePages" \in Boot!Phases
      BY DEF Boot!Phases
    <2> QED
      BY <2>1, <2>2, EnteringIsAMove
  <1>2. CASE c # d.eraseCommand
    <2>1. r = Boot!Does(d, <<Boot!Nack>>)
      BY <1>2, EraseCommandIs DEF Boot!HandleCommand
    <2>2. <<Boot!Nack>> \in Seq({Boot!Nack})
      OBVIOUS
    <2> QED
      BY <2>1, <2>2 DEF Refused, Boot!Does
  <1> QED
    BY <1>1, <1>2

\* The address that the last command waits for.
LEMMA AddressReaction ==
    ASSUME NEW d \in Devices, NEW a \in 0 .. FlashSize,
           NEW r \in Reactions(d, Boot!AddressMessage(a))
    PROVE  \/ Refused(d, r)
           \/ /\ \/ d.phase = "readAddress" /\ r.dev.phase = "readCount"
                 \/ d.phase = "writeAddress" /\ r.dev.phase = "writeData"
                 \/ d.phase = "goAddress" /\ r.dev.phase = "app"
              /\ r.dev \in Devices
              /\ r.dev.left = 0 /\ r.dev.addr = a /\ r.dev.mem = d.mem
              /\ r.out = <<Boot!Ack>>
  <1> DEFINE m == Boot!AddressMessage(a)
             p == Boot!AfterAddress(d.phase)
             e == Boot!Enter(d, p)
             f == [e EXCEPT !.addr = a]
  <1>1. IsMessage(m) /\ m.op = "address" /\ m.arg = a
    BY AddressesAreMessages
  <1> HIDE DEF m
  <1>2. Refused(d, r) \/ (Boot!Fits(d, m) /\ r = Boot!Handle(d, m)) \/ r \in Boot!BadCells(d, m)
    <2>1. r \in Reactions(d, m) /\ m.op # "sync" /\ m.op # "command"
      BY <1>1 DEF m
    <2> QED
      BY <1>1, <2>1, OtherReaction
  <1>3. Boot!BadCells(d, m) = {}
    BY <1>1 DEF Boot!BadCells
  <1> SUFFICES ASSUME Boot!Fits(d, m), r = Boot!Handle(d, m)
               PROVE  /\ \/ d.phase = "readAddress" /\ r.dev.phase = "readCount"
                         \/ d.phase = "writeAddress" /\ r.dev.phase = "writeData"
                         \/ d.phase = "goAddress" /\ r.dev.phase = "app"
                      /\ r.dev \in Devices
                      /\ r.dev.left = 0 /\ r.dev.addr = a /\ r.dev.mem = d.mem
                      /\ r.out = <<Boot!Ack>>
    BY <1>2, <1>3
  <1>4. d.phase \in {"readAddress", "writeAddress", "goAddress"}
    BY <1>1 DEF Boot!Fits, Boot!Expects
  <1>5. r = Boot!Does(f, <<Boot!Ack>>)
    BY <1>1 DEF Boot!Handle
  <1>6. /\ \/ d.phase = "readAddress" /\ p = "readCount"
           \/ d.phase = "writeAddress" /\ p = "writeData"
           \/ d.phase = "goAddress" /\ p = "app"
        /\ p \in Boot!Phases
    BY <1>4 DEF Boot!AfterAddress, Boot!Phases
  <1> HIDE DEF p
  <1>7. /\ e \in Devices /\ e.phase = p /\ e.left = 0 /\ e.mem = d.mem
    BY <1>6, EnteringIsADevice
  <1> HIDE DEF e
  <1>8. f \in Devices /\ f.phase = p /\ f.left = 0 /\ f.addr = a /\ f.mem = d.mem
    BY <1>7 DEF Devices
  <1>9. r.dev = f /\ r.out = <<Boot!Ack>>
    BY <1>5 DEF Boot!Does
  <1> HIDE DEF f
  <1> QED
    BY <1>6, <1>8, <1>9

\* The number of bytes to read, and the bytes.
LEMMA CountReaction ==
    ASSUME NEW d \in Devices, NEW n \in Nat, NEW r \in Reactions(d, Boot!CountMessage(n))
    PROVE  \/ Refused(d, r)
           \/ /\ d.phase = "readCount"
              /\ Moved(d, r, "ready", Contents(d, n))
  <1> DEFINE m == Boot!CountMessage(n)
  <1>1. IsMessage(m) /\ m.op = "count" /\ m.arg = n
    BY CountsAreMessages
  <1> HIDE DEF m
  <1>2. Refused(d, r) \/ (Boot!Fits(d, m) /\ r = Boot!Handle(d, m)) \/ r \in Boot!BadCells(d, m)
    <2>1. r \in Reactions(d, m) /\ m.op # "sync" /\ m.op # "command"
      BY <1>1 DEF m
    <2> QED
      BY <1>1, <2>1, OtherReaction
  <1>3. Boot!BadCells(d, m) = {}
    BY <1>1 DEF Boot!BadCells
  <1>4. ASSUME Boot!Fits(d, m), r = Boot!Handle(d, m)
        PROVE  /\ d.phase = "readCount"
               /\ Moved(d, r, "ready", Contents(d, n))
    <2>1. d.phase = "readCount"
      BY <1>1, <1>4 DEF Boot!Fits, Boot!Expects
    <2>2. r = Boot!Does(Boot!Enter(d, "ready"), Contents(d, n))
      BY <1>1, <1>4 DEF Boot!Handle, Contents
    <2>3. "ready" \in Boot!Phases
      BY DEF Boot!Phases
    <2> QED
      BY <2>1, <2>2, <2>3, EnteringIsAMove
  <1> QED
    BY <1>2, <1>3, <1>4

\* The pages to erase.
LEMMA PagesReaction ==
    ASSUME NEW d \in Devices, NEW extended \in BOOLEAN,
           NEW r \in Reactions(d, Boot!PagesMessage(extended))
    PROVE  \/ Refused(d, r)
           \/ /\ d.phase = "erasePages"
              /\ r.dev \in Devices
              /\ r.dev.phase = "ready" /\ r.dev.left = 0 /\ r.dev.addr = d.addr
              /\ \A i \in 1 .. FlashSize : r.dev.mem[i] = Blank
              /\ r.out = <<Boot!Ack>>
  <1> DEFINE m == Boot!PagesMessage(extended)
             e == Boot!Enter(d, "ready")
             f == [e EXCEPT !.mem = [i \in DOMAIN @ |-> Blank]]
  <1>1. IsMessage(m) /\ m.op = "pages"
    BY PagesAreMessages
  <1> HIDE DEF m
  <1>2. Refused(d, r) \/ (Boot!Fits(d, m) /\ r = Boot!Handle(d, m)) \/ r \in Boot!BadCells(d, m)
    <2>1. r \in Reactions(d, m) /\ m.op # "sync" /\ m.op # "command"
      BY <1>1 DEF m
    <2> QED
      BY <1>1, <2>1, OtherReaction
  <1>3. Boot!BadCells(d, m) = {}
    BY <1>1 DEF Boot!BadCells
  <1> SUFFICES ASSUME Boot!Fits(d, m), r = Boot!Handle(d, m)
               PROVE  /\ d.phase = "erasePages"
                      /\ r.dev \in Devices
                      /\ r.dev.phase = "ready" /\ r.dev.left = 0 /\ r.dev.addr = d.addr
                      /\ \A i \in 1 .. FlashSize : r.dev.mem[i] = Blank
                      /\ r.out = <<Boot!Ack>>
    BY <1>2, <1>3
  <1>4. d.phase = "erasePages"
    BY <1>1 DEF Boot!Fits, Boot!Expects
  <1>5. r = Boot!Does(f, <<Boot!Ack>>)
    BY <1>1 DEF Boot!Handle
  <1>6. "ready" \in Boot!Phases
    BY DEF Boot!Phases
  <1>7. e \in Devices /\ e.phase = "ready" /\ e.left = 0 /\ e.addr = d.addr
    BY <1>6, EnteringIsADevice
  <1> HIDE DEF e
  <1>8. Blank \in Memory
    BY DEF Memory
  <1>9. DOMAIN e.mem = 1 .. FlashSize
    BY <1>7 DEF Devices
  <1>10. [i \in 1 .. FlashSize |-> Blank] \in [1 .. FlashSize -> Memory]
    BY <1>8
  <1>11. /\ f \in Devices /\ f.phase = "ready" /\ f.left = 0 /\ f.addr = d.addr
         /\ f.mem = [i \in 1 .. FlashSize |-> Blank]
    BY <1>7, <1>9, <1>10 DEF Devices
  <1>12. r.dev = f /\ r.out = <<Boot!Ack>>
    BY <1>5 DEF Boot!Does
  <1> HIDE DEF f
  <1> QED
    BY <1>4, <1>11, <1>12

\* The bytes to write: an erased byte takes what is written, or does not.
LEMMA DataReaction ==
    ASSUME NEW d \in Devices, NEW bytes \in Seq(Memory),
           NEW r \in Reactions(d, Boot!DataMessage(bytes))
    PROVE  \/ Refused(d, r)
           \/ /\ d.phase = "writeData"
              /\ r.dev \in Devices
              /\ r.dev.phase = "ready" /\ r.dev.left = 0 /\ r.dev.addr = d.addr
              /\ \A i \in 1 .. FlashSize :
                    \/ r.dev.mem[i] = d.mem[i]
                    \/ /\ d.mem[i] = Blank /\ i - d.addr \in 1 .. Len(bytes)
                       /\ r.dev.mem[i] = bytes[i - d.addr]
              /\ r.out = <<Boot!Ack>>
  <1> DEFINE m == Boot!DataMessage(bytes)
             e == Boot!Enter(d, "ready")
             new == Boot!Program(e.mem, d.addr, bytes)
             f == [e EXCEPT !.mem = new]
  <1>1. IsMessage(m) /\ m.op = "data" /\ m.arg = bytes
    BY DataAreMessages
  <1> HIDE DEF m
  <1>2. Refused(d, r) \/ (Boot!Fits(d, m) /\ r = Boot!Handle(d, m)) \/ r \in Boot!BadCells(d, m)
    <2>1. r \in Reactions(d, m) /\ m.op # "sync" /\ m.op # "command"
      BY <1>1 DEF m
    <2> QED
      BY <1>1, <2>1, OtherReaction
  <1> SUFFICES ASSUME \/ Boot!Fits(d, m) /\ r = Boot!Handle(d, m)
                      \/ r \in Boot!BadCells(d, m)
               PROVE  /\ d.phase = "writeData"
                      /\ r.dev \in Devices
                      /\ r.dev.phase = "ready" /\ r.dev.left = 0 /\ r.dev.addr = d.addr
                      /\ \A i \in 1 .. FlashSize :
                            \/ r.dev.mem[i] = d.mem[i]
                            \/ /\ d.mem[i] = Blank /\ i - d.addr \in 1 .. Len(bytes)
                               /\ r.dev.mem[i] = bytes[i - d.addr]
                      /\ r.out = <<Boot!Ack>>
    BY <1>2
  <1>3. Boot!Fits(d, m)
    BY DEF Boot!BadCells
  <1>4. d.phase = "writeData"
    BY <1>1, <1>3 DEF Boot!Fits, Boot!Expects
  <1>5. "ready" \in Boot!Phases
    BY DEF Boot!Phases
  <1>6. /\ e \in Devices /\ e.phase = "ready" /\ e.left = 0 /\ e.addr = d.addr
        /\ e.mem = d.mem
    BY <1>5, EnteringIsADevice
  <1>7. Boot!Handle(d, m) = Boot!Does(f, <<Boot!Ack>>)
    BY <1>1 DEF Boot!Handle
  <1> HIDE DEF e
  <1>8. DOMAIN d.mem = 1 .. FlashSize /\ d.mem \in [1 .. FlashSize -> Memory]
        /\ DOMAIN bytes = 1 .. Len(bytes)
    BY DEF Devices
  <1>9. /\ new \in [1 .. FlashSize -> Memory]
        /\ \A i \in 1 .. FlashSize :
              \/ new[i] = d.mem[i]
              \/ /\ d.mem[i] = Blank /\ i - d.addr \in 1 .. Len(bytes)
                 /\ new[i] = bytes[i - d.addr]
    <2>1. new = [i \in 1 .. FlashSize |-> IF i - d.addr \in DOMAIN bytes /\ d.mem[i] = Blank
                                          THEN bytes[i - d.addr] ELSE d.mem[i]]
      BY <1>6, <1>8 DEF Boot!Program
    <2>2. \A k \in DOMAIN bytes : bytes[k] \in Memory
      BY <1>8
    <2>3. \A i \in 1 .. FlashSize : d.mem[i] \in Memory
      BY <1>8
    <2> HIDE DEF new
    <2>4. new \in [1 .. FlashSize -> Memory]
      BY <2>1, <2>2, <2>3
    <2>5. \A i \in 1 .. FlashSize :
              new[i] = IF i - d.addr \in DOMAIN bytes /\ d.mem[i] = Blank
                       THEN bytes[i - d.addr] ELSE d.mem[i]
      BY <2>1
    <2> QED
      BY <2>4, <2>5, <1>8
  <1> HIDE DEF new
  <1>10. /\ f \in Devices /\ f.phase = "ready" /\ f.left = 0 /\ f.addr = d.addr
         /\ f.mem = new
    BY <1>6, <1>9 DEF Devices
  <1> HIDE DEF f
  <1>11. CASE r = Boot!Handle(d, m)
    <2>1. r.dev = f /\ r.out = <<Boot!Ack>>
      BY <1>7, <1>11 DEF Boot!Does
    <2> QED
      BY <1>4, <1>9, <1>10, <2>1
  <1>12. CASE r \in Boot!BadCells(d, m)
    <2>1. PICK i \in DOMAIN d.mem :
              r = Boot!Does([Boot!Handle(d, m).dev EXCEPT !.mem[i] = d.mem[i]], <<Boot!Ack>>)
      BY <1>12 DEF Boot!BadCells
    <2>2. Boot!Handle(d, m).dev = f
      BY <1>7 DEF Boot!Does
    <2>3. r.dev = [f EXCEPT !.mem[i] = d.mem[i]] /\ r.out = <<Boot!Ack>>
      BY <2>1, <2>2 DEF Boot!Does
    <2> DEFINE kept == [new EXCEPT ![i] = d.mem[i]]
    <2>4. i \in 1 .. FlashSize /\ d.mem[i] \in Memory
      BY <1>8
    <2>5. /\ kept \in [1 .. FlashSize -> Memory]
          /\ \A k \in 1 .. FlashSize : kept[k] = IF k = i THEN d.mem[i] ELSE new[k]
      BY <2>4, <1>9
    <2>6. r.dev = [f EXCEPT !.mem = kept]
      BY <2>3, <1>10
    <2> HIDE DEF kept
    <2>7. /\ r.dev \in Devices /\ r.dev.phase = "ready" /\ r.dev.left = 0
          /\ r.dev.addr = d.addr /\ r.dev.mem = kept
      BY <2>5, <2>6, <1>10 DEF Devices
    <2> QED
      BY <1>4, <1>9, <2>3, <2>5, <2>7
  <1> QED
    BY <1>11, <1>12

\* What flash_file_to_stm32 sends.
Messages ==
    {Boot!SyncMessage}
        \cup {Boot!CommandMessage(c) :
                 c \in {"get", "getId", "read", "write", "go", "erase", "extendedErase"}}
        \cup {Boot!AddressMessage(a) : a \in 0 .. FlashSize}
        \cup {Boot!CountMessage(n) : n \in Nat}
        \cup {Boot!DataMessage(bytes) : bytes \in Seq(Memory)}
        \cup {Boot!PagesMessage(extended) : extended \in BOOLEAN}

LEMMA SignalsAre ==
    /\ Boot!Ack \in Signals /\ Boot!Nack \in Signals /\ Boot!Info \in Signals
    /\ Boot!Commands \in Signals /\ Boot!Id \in Signals /\ Noise \in Signals
    /\ Signals \subseteq Bytes /\ Memory \subseteq Bytes
  BY DEF Signals, Bytes

LEMMA SeqSubset ==
    ASSUME NEW S, NEW T, S \subseteq T, NEW s \in Seq(S)
    PROVE  s \in Seq(T)
  <1>1. \A i \in 1 .. Len(s) : s[i] \in T
    OBVIOUS
  <1>2. s = [i \in 1 .. Len(s) |-> s[i]] /\ Len(s) \in Nat
    OBVIOUS
  <1> QED
    BY <1>1, <1>2

LEMMA LongAnswer == LongCount \in Seq(Signals)
  <1>1. [i \in 1 .. 16 |-> Boot!Info] \in Seq(Signals) /\ <<Boot!Ack>> \in Seq(Signals)
    BY SignalsAre
  <1> QED
    BY <1>1, ConcatProperties DEF LongCount, Boot!ManyBytes

\* The memory from the address on, where there is one.
LEMMA MemoryAnswer ==
    ASSUME NEW d \in Devices, NEW n \in Nat
    PROVE  /\ Contents(d, n) \in Seq(Bytes) /\ Len(Contents(d, n)) = n + 1
           /\ Contents(d, n)[1] = Boot!Ack
           /\ \A i \in 1 .. n :
                 Contents(d, n)[i + 1] =
                     IF d.addr + i \in 1 .. FlashSize THEN d.mem[d.addr + i] ELSE Boot!Info
  <1> DEFINE mem == Boot!MemoryAt(d, n)
             ack == <<Boot!Ack>>
             all == ack \o mem
  <1>1. /\ \A k \in 1 .. FlashSize : d.mem[k] \in Bytes
        /\ DOMAIN d.mem = 1 .. FlashSize
    BY SignalsAre DEF Devices
  <1>2. mem = [i \in 1 .. n |-> IF d.addr + i \in 1 .. FlashSize THEN d.mem[d.addr + i]
                                ELSE Boot!Info]
    BY <1>1 DEF Boot!MemoryAt
  <1> HIDE DEF mem
  <1>3. mem \in Seq(Bytes) /\ Len(mem) = n
    BY <1>1, <1>2, SignalsAre
  <1>4. ack \in Seq(Bytes) /\ Len(ack) = 1 /\ ack[1] = Boot!Ack
    BY SignalsAre
  <1> HIDE DEF ack
  <1>5. /\ all \in Seq(Bytes) /\ Len(all) = Len(ack) + Len(mem)
        /\ \A i \in 1 .. Len(ack) + Len(mem) :
              all[i] = IF i <= Len(ack) THEN ack[i] ELSE mem[i - Len(ack)]
    BY <1>3, <1>4, ConcatProperties
  <1> HIDE DEF all
  <1>6. Len(all) = n + 1 /\ all[1] = Boot!Ack
    BY <1>3, <1>4, <1>5
  <1>7. ASSUME NEW i \in 1 .. n
        PROVE  all[i + 1] = mem[i]
    <2>1. i + 1 \in 1 .. Len(ack) + Len(mem) /\ ~(i + 1 <= Len(ack)) /\ (i + 1) - Len(ack) = i
      BY <1>3, <1>4
    <2> QED
      BY <2>1, <1>5
  <1>8. \A i \in 1 .. n : mem[i] = IF d.addr + i \in 1 .. FlashSize THEN d.mem[d.addr + i]
                                   ELSE Boot!Info
    BY <1>2
  <1> QED
    BY <1>3, <1>5, <1>6, <1>7, <1>8 DEF mem, all, ack, Contents

\* Only the answer to a count holds bytes of the flash.
LEMMA AnswerType ==
    ASSUME NEW d \in Devices, NEW m \in Messages, NEW r \in Reactions(d, m)
    PROVE  /\ r.out \in Seq(Bytes)
           /\ r.out \in Seq(Signals) \/ m.op = "count"
  <1>0. <<Boot!Ack>> \in Seq(Signals)
    BY SignalsAre
  <1>1. ASSUME Refused(d, r)
        PROVE  r.out \in Seq(Signals)
    <2>1. r.out \in Seq({Boot!Nack}) /\ {Boot!Nack} \subseteq Signals
      BY <1>1, SignalsAre DEF Refused
    <2> QED
      BY <2>1, SeqSubset
  <1>2. ASSUME r.out \in Seq(Signals)
        PROVE  r.out \in Seq(Bytes)
    BY <1>2, SignalsAre, SeqSubset
  <1>3. CASE m = Boot!SyncMessage
    BY <1>0, <1>1, <1>2, <1>3, SyncReaction, SyncIsAMessage DEF Moved
  <1>4. ASSUME NEW c \in {"get", "getId", "read", "write", "go", "erase", "extendedErase"},
               m = Boot!CommandMessage(c)
        PROVE  r.out \in Seq(Signals)
    <2>1. CASE Refused(d, r)
      BY <1>1, <2>1
    <2>2. CASE Moved(d, r, "ready", LongCount)
      BY <2>2, LongAnswer DEF Moved
    <2>3. CASE r = Boot!HandleCommand(d, c)
      <3>1. <<Boot!Nack>> \in Seq(Signals)
        BY SignalsAre
      <3>2. <<Boot!Ack, Boot!Info, Boot!Id, Boot!Ack>> \in Seq(Signals)
        BY SignalsAre
      <3>3. <<Boot!Ack, Boot!Info, Boot!Info, Boot!Commands, Boot!Ack>> \in Seq(Signals)
        BY SignalsAre
      <3>4. CASE c = "get"
        BY <2>3, <3>3, <3>4, EraseCommandIs DEF Boot!HandleCommand, Boot!Does
      <3>5. CASE c = "getId"
        BY <2>3, <3>2, <3>5, EraseCommandIs DEF Boot!HandleCommand, Boot!Does
      <3>6. CASE c \in {"read", "write", "go"}
        BY <2>3, <1>0, <3>6, EraseCommandIs DEF Boot!HandleCommand, Boot!Does
      <3>7. CASE c \in {"erase", "extendedErase"}
        BY <2>3, <1>0, <3>1, <3>7, EraseCommandIs DEF Boot!HandleCommand, Boot!Does
      <3> QED
        BY <3>4, <3>5, <3>6, <3>7
    <2>4. r \in Reactions(d, Boot!CommandMessage(c))
      BY <1>4
    <2>5. \/ Refused(d, r)
          \/ r = Boot!HandleCommand(d, c)
          \/ Moved(d, r, "ready", LongCount)
      BY <2>4, CommandReaction
    <2> QED
      BY <2>1, <2>2, <2>3, <2>5
  <1>5. ASSUME NEW a \in 0 .. FlashSize, m = Boot!AddressMessage(a)
        PROVE  r.out \in Seq(Signals)
    <2>1. r \in Reactions(d, Boot!AddressMessage(a))
      BY <1>5
    <2>2. Refused(d, r) \/ r.out = <<Boot!Ack>>
      BY <2>1, AddressReaction
    <2> QED
      BY <1>0, <1>1, <2>2
  <1>6. ASSUME NEW n \in Nat, m = Boot!CountMessage(n)
        PROVE  r.out \in Seq(Bytes) /\ m.op = "count"
    <2>1. m.op = "count"
      BY <1>6, CountsAreMessages
    <2>2. CASE Refused(d, r)
      BY <1>1, <1>2, <2>1, <2>2
    <2>3. CASE Moved(d, r, "ready", Contents(d, n))
      BY <2>1, <2>3, MemoryAnswer DEF Moved
    <2>4. r \in Reactions(d, Boot!CountMessage(n))
      BY <1>6
    <2>5. Refused(d, r) \/ Moved(d, r, "ready", Contents(d, n))
      BY <2>4, CountReaction
    <2> QED
      BY <2>2, <2>3, <2>5
  <1>7. ASSUME NEW bytes \in Seq(Memory), m = Boot!DataMessage(bytes)
        PROVE  r.out \in Seq(Signals)
    <2>1. r \in Reactions(d, Boot!DataMessage(bytes))
      BY <1>7
    <2>2. Refused(d, r) \/ r.out = <<Boot!Ack>>
      BY <2>1, DataReaction
    <2> QED
      BY <1>0, <1>1, <2>2
  <1>8. ASSUME NEW extended \in BOOLEAN, m = Boot!PagesMessage(extended)
        PROVE  r.out \in Seq(Signals)
    BY <1>0, <1>1, <1>8, PagesReaction
  <1> QED
    BY <1>2, <1>3, <1>4, <1>5, <1>6, <1>7, <1>8 DEF Messages

-----------------------------------------------------------------------------
(* An exchange                                                             *)

LEMMA SendGives ==
    ASSUME dev \in Devices, NEW m \in Messages, NEW s \in Send(m)
    PROVE  \E r \in Reactions(dev, m) : \E got :
              /\ Garbled(r.out, got)
              /\ s.dev = r.dev /\ s.line = line \o got /\ s.faults \in {0, 1}
  <1>1. ASSUME NEW r \in Boot!Deliver(dev, m), NEW a \in Arrivals(r.out),
               s = [dev |-> r.dev, line |-> line \o a.out, faults |-> a.faults]
        PROVE  \E q \in Reactions(dev, m) : \E got :
                  /\ Garbled(q.out, got)
                  /\ s.dev = q.dev /\ s.line = line \o got /\ s.faults \in {0, 1}
    <2>1. r \in Reactions(dev, m)
      BY DEF Reactions
    <2>2. r.out \in Seq(Bytes)
      BY <2>1, AnswerType
    <2>3. Garbled(r.out, a.out) /\ a.faults \in {0, 1}
      BY <2>2, ArrivalIsGarbled
    <2>4. s.dev = r.dev /\ s.line = line \o a.out /\ s.faults = a.faults
      BY <1>1
    <2> QED
      BY <2>1, <2>3, <2>4
  <1>2. ASSUME NEW r \in Boot!Spoil(dev, m),
               s = [dev |-> r.dev, line |-> line \o r.out, faults |-> 1]
        PROVE  \E q \in Reactions(dev, m) : \E got :
                  /\ Garbled(q.out, got)
                  /\ s.dev = q.dev /\ s.line = line \o got /\ s.faults \in {0, 1}
    <2>1. r \in Reactions(dev, m)
      BY DEF Reactions
    <2>2. Garbled(r.out, r.out)
      BY <2>1, AnswerType, ClearIsGarbled
    <2>3. s.dev = r.dev /\ s.line = line \o r.out /\ s.faults = 1
      BY <1>2
    <2> QED
      BY <2>1, <2>2, <2>3
  <1> QED
    BY <1>1, <1>2 DEF Send

LEMMA ByteGives ==
    ASSUME NEW l, NEW b \in Byte(l)
    PROVE  /\ b.faults \in {0, 1}
           /\ \/ b.reply = Nothing /\ b.line = l
              \/ /\ l # <<>> /\ b.line = Tail(l)
                 /\ \/ b.reply = Head(l)
                    \/ /\ Head(l) \in Memory \cup {Boot!Info}
                       /\ b.reply \in {Boot!Ack, Boot!Nack}
  BY DEF Byte

\* The first byte was read, and it may pass for ACK.
Passed(l, got, rest) ==
    /\ l \o got # <<>>
    /\ rest = Tail(l \o got)
    /\ Head(l \o got) \in Memory \cup {Boot!Info, Boot!Ack}

\* The first byte was read, or none.
Stuck(l, got, rest) ==
    rest = l \o got \/ (l \o got # <<>> /\ rest = Tail(l \o got))

LEMMA AckGives ==
    ASSUME dev \in Devices, faults \in 0 .. MaxFaults,
           NEW m \in Messages, NEW onAck, NEW onError, WriteAndAck(m, onAck, onError)
    PROVE  /\ faults' \in 0 .. MaxFaults
           /\ \E r \in Reactions(dev, m) : \E got :
                 /\ Garbled(r.out, got)
                 /\ dev' = r.dev
                 /\ \/ pc' = onAck /\ Passed(line, got, line')
                    \/ pc' = onError /\ Stuck(line, got, line')
  <1>1. PICK s \in Send(m) : \E b \in Byte(s.line) :
            /\ Fault(s.faults + b.faults)
            /\ dev' = s.dev
            /\ line' = b.line
            /\ pc' = IF b.reply = Boot!Ack THEN onAck ELSE onError
    BY DEF WriteAndAck, Exchange
  <1>2. PICK b \in Byte(s.line) :
            /\ Fault(s.faults + b.faults)
            /\ dev' = s.dev
            /\ line' = b.line
            /\ pc' = IF b.reply = Boot!Ack THEN onAck ELSE onError
    BY <1>1
  <1>3. PICK r \in Reactions(dev, m) : \E got :
              /\ Garbled(r.out, got)
              /\ s.dev = r.dev /\ s.line = line \o got /\ s.faults \in {0, 1}
    BY SendGives
  <1>4. PICK got :
              /\ Garbled(r.out, got)
              /\ s.dev = r.dev /\ s.line = line \o got /\ s.faults \in {0, 1}
    BY <1>3
  <1>5. /\ b.faults \in {0, 1}
        /\ \/ b.reply = Nothing /\ b.line = s.line
           \/ /\ s.line # <<>> /\ b.line = Tail(s.line)
              /\ \/ b.reply = Head(s.line)
                 \/ /\ Head(s.line) \in Memory \cup {Boot!Info}
                    /\ b.reply \in {Boot!Ack, Boot!Nack}
    BY ByteGives
  <1>6. faults' \in 0 .. MaxFaults
    BY <1>2, <1>4, <1>5 DEF Fault
  <1>7. Nothing # Boot!Ack
    BY DEF Nothing, Boot!Ack
  <1>8. \/ pc' = onAck /\ Passed(line, got, line')
        \/ pc' = onError /\ Stuck(line, got, line')
    <2>1. CASE b.reply = Boot!Ack
      BY <1>2, <1>4, <1>5, <1>7, <2>1 DEF Passed
    <2>2. CASE b.reply # Boot!Ack
      BY <1>2, <1>4, <1>5, <2>2 DEF Stuck
    <2> QED
      BY <2>1, <2>2
  <1> QED
    BY <1>2, <1>4, <1>6, <1>8

LEMMA MemoryIsNoSignal == Memory \cap Signals = {}
  BY Stm32LoaderAssumption

LEMMA GarbledIn ==
    ASSUME NEW S, NEW T, S \cup {Noise} \subseteq T, NEW out \in Seq(S), NEW got,
           Garbled(out, got)
    PROVE  got \in Seq(T) /\ Len(got) <= Len(out)
  <1>1. got \in Seq(Bytes) /\ Len(got) \in Nat /\ got = [i \in 1 .. Len(got) |-> got[i]]
    BY DEF Garbled
  <1>2. \A j \in 1 .. Len(out) : out[j] \in T
    OBVIOUS
  <1>3. \A i \in 1 .. Len(got) : got[i] \in T
    BY <1>2 DEF Garbled
  <1> QED
    BY <1>1, <1>3 DEF Garbled

LEMMA RestIn ==
    ASSUME NEW T, NEW l \in Seq(T), NEW got \in Seq(T), NEW rest,
           Passed(l, got, rest) \/ Stuck(l, got, rest)
    PROVE  /\ rest \in Seq(T) /\ Len(rest) <= Len(l) + Len(got)
           /\ l = <<>> /\ got = <<>> => rest = <<>>
           /\ got = <<>> => Len(rest) <= Len(l)
  <1>1. l \o got \in Seq(T) /\ Len(l \o got) = Len(l) + Len(got)
    BY ConcatProperties
  <1>2. rest = l \o got \/ (l \o got # <<>> /\ rest = Tail(l \o got))
    BY DEF Passed, Stuck
  <1> DEFINE all == l \o got
  <1>3. all \in Seq(T) /\ Len(all) = Len(l) + Len(got)
    BY <1>1
  <1>4. rest = all \/ (all # <<>> /\ rest = Tail(all))
    BY <1>2
  <1> HIDE DEF all
  <1>5. rest \in Seq(T) /\ Len(rest) <= Len(all)
    BY <1>3, <1>4
  <1>6. Len(l) \in Nat /\ Len(got) \in Nat /\ (l = <<>> => Len(l) = 0) /\ (got = <<>> => Len(got) = 0)
    OBVIOUS
  <1>7. Len(rest) \in Nat /\ (Len(rest) = 0 => rest = <<>>)
    BY <1>5
  <1> QED
    BY <1>3, <1>5, <1>6, <1>7

LEMMA PassedIs ==
    ASSUME NEW T, NEW l \in Seq(T), NEW got \in Seq(T), NEW rest, Passed(l, got, rest)
    PROVE  /\ rest \in Seq(T) /\ Len(rest) + 1 = Len(l) + Len(got)
           /\ \A i \in 1 .. Len(rest) :
                 rest[i] = IF i < Len(l) THEN l[i + 1] ELSE got[i + 1 - Len(l)]
           /\ l = <<>> => got # <<>> /\ got[1] \in Memory \cup {Boot!Info, Boot!Ack}
  <1> DEFINE all == l \o got
  <1>1. /\ all \in Seq(T) /\ Len(all) = Len(l) + Len(got)
        /\ \A i \in 1 .. Len(l) + Len(got) :
              all[i] = IF i <= Len(l) THEN l[i] ELSE got[i - Len(l)]
    BY ConcatProperties
  <1>2. all # <<>> /\ rest = Tail(all) /\ Head(all) \in Memory \cup {Boot!Info, Boot!Ack}
    BY DEF Passed
  <1> HIDE DEF all
  <1>3. /\ rest \in Seq(T) /\ Len(rest) + 1 = Len(all) /\ Head(all) = all[1]
        /\ \A i \in 1 .. Len(rest) : rest[i] = all[i + 1]
    BY <1>1, <1>2
  <1>4. Len(l) \in Nat /\ Len(got) \in Nat /\ (l = <<>> => Len(l) = 0) /\ Len(rest) \in Nat
    BY <1>3
  <1>5. ASSUME NEW i \in 1 .. Len(rest)
        PROVE  rest[i] = IF i < Len(l) THEN l[i + 1] ELSE got[i + 1 - Len(l)]
    <2>1. i + 1 \in 1 .. Len(l) + Len(got)
      BY <1>1, <1>3, <1>4
    <2>2. rest[i] = all[i + 1]
      BY <1>3
    <2>3. all[i + 1] = IF i + 1 <= Len(l) THEN l[i + 1] ELSE got[i + 1 - Len(l)]
      BY <2>1, <1>1
    <2> QED
      BY <2>2, <2>3, <1>4
  <1>6. ASSUME l = <<>>
        PROVE  got # <<>> /\ got[1] \in Memory \cup {Boot!Info, Boot!Ack}
    <2>1. Len(l) = 0 /\ Len(got) # 0 /\ Len(got) \in Nat
      BY <1>1, <1>3, <1>4, <1>6
    <2>2. 1 \in 1 .. Len(l) + Len(got) /\ ~(1 <= Len(l)) /\ 1 - Len(l) = 1
      BY <2>1
    <2>3. all[1] = got[1]
      BY <2>2, <1>1
    <2> QED
      BY <2>1, <2>3, <1>2, <1>3
  <1> QED
    BY <1>1, <1>3, <1>5, <1>6

LEMMA NothingComes ==
    ASSUME NEW rest, Passed(<<>>, <<>>, rest) \/ Stuck(<<>>, <<>>, rest)
    PROVE  rest = <<>>
  <1>1. <<>> \o <<>> = <<>>
    OBVIOUS
  <1> QED
    BY <1>1 DEF Passed, Stuck

Answers == {Boot!Ack, Boot!Nack, Noise}

LEMMA AnswersAreSignals == Answers \subseteq Signals
  BY DEF Answers, Signals

\* A refusal says nothing, or a NACK, which does not pass.
LEMMA RefusedGives ==
    ASSUME NEW d, NEW r, Refused(d, r), NEW got, Garbled(r.out, got)
    PROVE  /\ got \in Seq({Boot!Nack, Noise}) /\ got \in Seq(Answers) /\ got \in Seq(Signals)
           /\ got # <<>> => r.dev.phase = "ready"
           /\ \A rest : ~Passed(<<>>, got, rest)
  <1>1. r.out \in Seq({Boot!Nack})
    BY DEF Refused
  <1>2. {Boot!Nack} \cup {Noise} \subseteq {Boot!Nack, Noise}
    OBVIOUS
  <1>3. got \in Seq({Boot!Nack, Noise}) /\ Len(got) <= Len(r.out)
    BY <1>1, <1>2, GarbledIn
  <1>4. got \in Seq(Answers) /\ got \in Seq(Signals)
    BY <1>3, SeqSubset, AnswersAreSignals DEF Answers
  <1>5. got # <<>> => r.out # <<>>
    BY <1>1, <1>3
  <1>6. ASSUME NEW rest, Passed(<<>>, got, rest)
        PROVE  FALSE
    <2>1. <<>> \in Seq(Signals)
      OBVIOUS
    <2>2. got # <<>> /\ got[1] \in Memory \cup {Boot!Info, Boot!Ack}
      BY <1>4, <1>6, <2>1, PassedIs
    <2>3. got[1] \in {Boot!Nack, Noise}
      BY <1>3, <2>2
    <2>4. got[1] \in Signals /\ got[1] \notin {Boot!Info, Boot!Ack}
      BY <2>3 DEF Signals, Boot!Nack, Boot!Info, Boot!Ack, Noise
    <2> QED
      BY <2>2, <2>4, MemoryIsNoSignal
  <1> QED
    BY <1>3, <1>4, <1>5, <1>6 DEF Refused

\* ACK arrives, or noise, or nothing.
LEMMA AckedGives ==
    ASSUME NEW got, Garbled(<<Boot!Ack>>, got)
    PROVE  got \in Seq(Answers) /\ got \in Seq(Signals) /\ Len(got) <= 1
  <1>1. <<Boot!Ack>> \in Seq({Boot!Ack}) /\ Len(<<Boot!Ack>>) = 1
    OBVIOUS
  <1>2. {Boot!Ack} \cup {Noise} \subseteq Answers
    BY DEF Answers
  <1>3. got \in Seq(Answers) /\ Len(got) <= 1
    BY <1>1, <1>2, GarbledIn
  <1> QED
    BY <1>3, SeqSubset, AnswersAreSignals

-----------------------------------------------------------------------------
(* The invariant: how far the device can be from where the host thinks it  *)
(* is, and how much of the last answers can still be on the line.          *)

Idle == {"ready", "sync", "mute"}
Counting == {"readAddress", "readCount"}

Early == {"load", "open", "sync", "noSync", "get", "getBody", "getId", "idBody", "unable"}
Family == {"family", "familyAddress", "familyCount", "familyData"}
Erasing == {"erase", "pages"}
Writing == {"write", "writeAddress", "writeData"}
Reading == {"read", "readAddress", "readCount", "readData"}
Ending == {"close", "failed", "done"}

Typed ==
    /\ TypeOK
    /\ dev \in Devices
    /\ pc = "sync" => tries # 0
    /\ pc \in Family => reads # 0

\* The chip id is read in step: only the answers to the synchronization are
\* ahead of it, and a complete list of commands leaves none.
Identifying ==
    /\ pc \in {"sync", "noSync"} /\ line # <<>> => dev.phase \in Idle
    /\ pc \in {"sync", "noSync", "get"} => line \in Seq(Answers)
    /\ pc \in {"get", "getBody", "getId", "idBody", "family"} => dev.phase \in Idle
    /\ pc = "getBody" /\ WellFormed(4) => Len(line) = 4
    /\ pc = "idBody" => Len(line) <= 3
    /\ pc \in {"getId", "family", "familyAddress", "familyCount"} => line = <<>>
    /\ pc = "familyAddress" => dev.phase = "readAddress" /\ dev.left = 0
    /\ pc = "familyCount" => dev.phase = "readCount" /\ dev.addr = FlashSize
    /\ pc = "familyData" => dev.phase = "ready" /\ Len(line) <= UidBytes

\* A read that is left open is closed before the first write, and what is
\* written at an offset lands at it or before it, where the flash is erased.
Replacing ==
    /\ pc \in {"familyData"} \cup Erasing \cup Writing => line \in Seq(Signals)
    /\ pc = "erase" =>
          /\ dev.phase \in Idle \cup Counting
          /\ dev.phase \in Counting => Len(line) <= 1
    /\ pc = "pages" =>
          /\ dev.phase \in Idle \cup Counting \cup {"erasePages"}
          /\ dev.phase \in Counting => line = <<>>
    /\ pc \in Writing =>
          /\ dev.phase \in Idle \cup {"erasePages", "writeAddress", "writeData"}
          /\ dev.phase = "writeData" => dev.addr <= pos
    /\ dev.mem = OldImage \/ (\A i \in 1 .. FlashSize : i > Len(File) => dev.mem[i] = Blank)

\* So far, what was read back is the file.
SoFar == read_data = SubSeq(File, 1, pos)

\* As long as it is, the device is in step: an answer of the right length,
\* of which every byte may be one of the file, is what the flash holds.
ReadingBack ==
    /\ pc \in Early \cup Family \cup Erasing => pos = 0
    /\ pc \in Early \cup Family \cup Erasing \cup Writing => read_data = <<>>
    /\ pc \in Reading \cup {"verify"} => dev.phase \notin {"app", "goAddress"}
    /\ pc \in Reading => Len(read_data) <= pos
    /\ pc \in Reading /\ SoFar =>
          /\ \A i \in 1 .. pos : dev.mem[i] = File[i]
          /\ pc # "readData" => line \in Seq(Signals)
          /\ pc = "read" => dev.phase \notin Counting
          /\ pc = "readAddress" => dev.phase # "readCount"
          /\ pc = "readCount" /\ dev.phase = "readCount" => dev.addr = pos
          /\ /\ pc = "readData" /\ Len(line) >= Len(Chunk)
             /\ \A i \in 1 .. Len(Chunk) : line[i] \in Memory
             => /\ Len(line) = Len(Chunk) /\ dev.phase = "ready"
                /\ \A i \in 1 .. Len(Chunk) : line[i] = dev.mem[pos + i]
    /\ pc = "verify" /\ read_data = File =>
          line = <<>> /\ dev.phase = "ready" /\ dev.mem = NewImage

\* The verified device is in step until it runs.
Running ==
    /\ pc \in {"go", "goAddress"} => line = <<>> /\ dev.mem = NewImage /\ successFlag
    /\ pc = "go" => dev.phase = "ready"
    /\ pc = "goAddress" => dev.phase = "goAddress"
    /\ pc = "close" /\ successFlag /\ ~emptySource => dev.phase = "app" /\ dev.mem = NewImage
    /\ pc \in Early => ~successFlag
    /\ result = "success" => pc = "done"
    /\ result = "success" /\ ~emptySource => dev.phase = "app" /\ dev.mem = NewImage

\* The server's first call resets nothing but an old firmware or a new one.
FirstCall ==
    attempts = 1 /\ ~setup.tool /\ ~emptySource =>
        /\ pc \in Early => dev.mem = OldImage
        /\ pc = "close" /\ ~successFlag => dev.mem = OldImage
        /\ dev.phase = "app" => dev.mem \in {OldImage, NewImage}

Untouched ==
    /\ ~identified => dev.mem = OldImage
    /\ pc \notin Early \cup Ending => identified

IInv ==
    /\ Typed /\ Identifying /\ Replacing /\ ReadingBack /\ Running /\ FirstCall /\ Untouched

-----------------------------------------------------------------------------
(* The steps without an exchange                                           *)

LEMMA FileIs ==
    /\ File \in Seq(Memory) /\ Len(File) \in Nat \ {0} /\ Len(File) <= FlashSize
    /\ FlashSize \in Nat /\ DOMAIN File = 1 .. Len(File)
  <1>1. File \in Seq(ToSet(File)) /\ File # <<>> /\ Len(File) <= FlashSize /\ FlashSize \in Nat
    BY Stm32LoaderAssumption
  <1>2. ToSet(File) \subseteq Memory
    BY DEF Memory
  <1> QED
    BY <1>1, <1>2, SeqSubset

LEMMA OldImageIs == OldImage \in [1 .. FlashSize -> Memory]
  BY DEF OldImage, Memory

LEMMA InitHolds == Init => IInv
  <1> SUFFICES ASSUME Init
               PROVE  IInv
    OBVIOUS
  <1>1. dev \in Devices
    <2>1. 0 \in 0 .. 4 /\ 0 \in 0 .. FlashSize
      BY FileIs
    <2>2. {"app", "sync", "mute"} \subseteq Boot!Phases
      BY DEF Boot!Phases
    <2> QED
      BY <2>1, <2>2, OldImageIs DEF Init, Devices
  <1>2. dev.mem = OldImage
    BY DEF Init
  <1>3. TypeOK
    <2>1. /\ dev.phase \in Boot!Phases /\ dev.left \in 0 .. 4 /\ dev.addr \in 0 .. FlashSize
          /\ dev.mem \in [1 .. FlashSize -> Memory]
      BY <1>1 DEF Devices
    <2>2. <<>> \in Seq(Bytes) /\ Len(<<>>) = 0
      OBVIOUS
    <2>3. /\ 0 \in 0 .. 2 /\ 0 \in 0 .. Len(File) - 1 /\ 0 <= Len(File) /\ 1 \in Nat
          /\ 0 \in 0 .. MaxFaults /\ 1 # 0
      BY FileIs, Stm32LoaderAssumption
    <2> QED
      BY <2>1, <2>2, <2>3 DEF Init, TypeOK
  <1>4. Typed
    BY <1>1, <1>3 DEF Init, Typed, Family
  <1>5. Identifying
    BY DEF Init, Identifying
  <1>6. Replacing
    BY <1>2 DEF Init, Replacing, Erasing, Writing
  <1>7. ReadingBack
    BY DEF Init, ReadingBack, Early, Reading
  <1>8. Running
    BY DEF Init, Running, Early
  <1>9. FirstCall
    BY <1>2 DEF Init, FirstCall
  <1>10. Untouched
    BY <1>2 DEF Init, Untouched, Early
  <1> QED
    BY <1>4, <1>5, <1>6, <1>7, <1>8, <1>9, <1>10 DEF IInv

LEMMA LoadSourceFileKeeps ==
    ASSUME IInv, LoadSourceFile
    PROVE  IInv'
  <1>0. /\ pc = "load" /\ pc' \in {"open", "failed"}
        /\ (emptySource' = TRUE \/ UNCHANGED emptySource)
        /\ UNCHANGED <<setup, dev, line, gpioResetFlag, tries, extended_erase, reads, pos,
                       read_data, successFlag, result, identified, attempts>>
        /\ faults' \in 0 .. MaxFaults
    BY DEF LoadSourceFile, Fault, IInv, Typed, TypeOK
  <1>1. Typed'
    BY <1>0 DEF IInv, Typed, TypeOK, Family, hostVars
  <1>2. Identifying'
    BY <1>0 DEF IInv, Identifying
  <1>3. Replacing'
    BY <1>0 DEF IInv, Replacing, Erasing, Writing
  <1>4. ReadingBack'
    BY <1>0 DEF IInv, ReadingBack, Early, Family, Erasing, Writing, Reading, hostVars
  <1>5. Running'
    BY <1>0 DEF IInv, Running, Early, hostVars
  <1>6. FirstCall'
    BY <1>0 DEF IInv, FirstCall, Early, hostVars
  <1>7. Untouched'
    BY <1>0 DEF IInv, Untouched, Early, Ending, hostVars
  <1> QED
    BY <1>1, <1>2, <1>3, <1>4, <1>5, <1>6, <1>7 DEF IInv

LEMMA OpenPortKeeps ==
    ASSUME IInv, OpenPort
    PROVE  IInv'
  <1>0. /\ pc = "open"
        /\ \/ pc' = "sync" /\ line' = <<>> /\ tries' \in 1 .. 2
           \/ pc' = "failed" /\ UNCHANGED <<line, tries>>
        /\ UNCHANGED <<setup, dev, gpioResetFlag, extended_erase, reads, pos, read_data,
                       successFlag, result, identified, emptySource, attempts>>
        /\ faults' \in 0 .. MaxFaults
    BY DEF OpenPort, Fault, IInv, Typed, TypeOK
  <1>1. Typed'
    <2>1. <<>> \in Seq(Bytes)
      OBVIOUS
    <2>2. line \in Seq(Bytes) /\ tries \in 0 .. 2
      BY DEF IInv, Typed, TypeOK
    <2>3. line' \in Seq(Bytes)
      BY <1>0, <2>1, <2>2
    <2>4. tries' \in 0 .. 2 /\ (pc' = "sync" => tries' # 0)
      BY <1>0, <2>2
    <2> QED
      BY <1>0, <2>3, <2>4 DEF IInv, Typed, TypeOK, Family
  <1>2. Identifying'
    <2>1. <<>> \in Seq(Answers)
      OBVIOUS
    <2> QED
      BY <1>0, <2>1 DEF IInv, Identifying
  <1>3. Replacing'
    BY <1>0 DEF IInv, Replacing, Erasing, Writing
  <1>4. ReadingBack'
    BY <1>0 DEF IInv, ReadingBack, Early, Family, Erasing, Writing, Reading
  <1>5. Running'
    BY <1>0 DEF IInv, Running, Early
  <1>6. FirstCall'
    BY <1>0 DEF IInv, FirstCall, Early
  <1>7. Untouched'
    BY <1>0 DEF IInv, Untouched, Early, Ending
  <1> QED
    BY <1>1, <1>2, <1>3, <1>4, <1>5, <1>6, <1>7 DEF IInv

LEMMA ResetGives ==
    ASSUME dev \in Devices, NEW phase \in Boot!Phases, ResetTo(phase)
    PROVE  /\ dev' \in Devices /\ dev'.phase = phase /\ dev'.mem = dev.mem
           /\ dev'.left = 0 /\ dev'.addr = dev.addr
  <1>1. dev' = Boot!Enter(dev, phase)
    BY DEF ResetTo, Boot!Enter
  <1> QED
    BY <1>1, EnteringIsADevice

\* A step that leaves everything but the device: its type is enough.
LEMMA DeviceType ==
    ASSUME Typed, dev' \in Devices
    PROVE  /\ dev'.phase \in Boot!Phases
           /\ dev'.left \in 0 .. 4 /\ dev'.addr \in 0 .. FlashSize
           /\ dev'.mem \in [1 .. FlashSize -> Memory]
  BY DEF Devices

\* A reset over GPIO, with pins or without, or one that fails.
LEMMA ResetOverGPIOGives ==
    ASSUME dev \in Devices, faults \in 0 .. MaxFaults, NEW phase \in Boot!Phases,
           ResetOverGPIO(phase)
    PROVE  /\ dev' \in Devices /\ dev'.phase \in {dev.phase, phase} /\ dev'.mem = dev.mem
           /\ dev' = dev \/ dev'.phase = phase
           /\ faults' \in 0 .. MaxFaults
  <1>1. CASE UNCHANGED dev
    BY <1>1, Stm32LoaderAssumption DEF ResetOverGPIO, Fault
  <1>2. CASE ResetTo(phase)
    BY <1>2, ResetGives, Stm32LoaderAssumption DEF ResetOverGPIO, Fault
  <1> QED
    BY <1>1, <1>2 DEF ResetOverGPIO

LEMMA ResetToBoot0Keeps ==
    ASSUME IInv, ResetToBoot0
    PROVE  IInv'
  <1>0. /\ pc = "noSync" /\ pc' = "sync" /\ gpioResetFlag' = TRUE /\ tries' = 2
        /\ ResetOverGPIO("sync")
        /\ UNCHANGED <<setup, line, extended_erase, reads, pos, read_data, successFlag, result,
                       identified, emptySource, attempts>>
    BY DEF ResetToBoot0
  <1>d. /\ dev' \in Devices /\ dev'.phase \in {dev.phase, "sync"} /\ dev'.mem = dev.mem
        /\ faults' \in 0 .. MaxFaults
    <2>1. "sync" \in Boot!Phases
      BY DEF Boot!Phases
    <2> QED
      BY <1>0, <2>1, ResetOverGPIOGives DEF IInv, Typed, TypeOK
  <1>1. Typed'
    BY <1>0, <1>d, DeviceType DEF IInv, Typed, TypeOK, Family
  <1>2. Identifying'
    BY <1>0, <1>d DEF IInv, Identifying, Idle
  <1>3. Replacing'
    BY <1>0, <1>d DEF IInv, Replacing, Erasing, Writing
  <1>4. ReadingBack'
    BY <1>0, <1>d DEF IInv, ReadingBack, Early, Family, Erasing, Writing, Reading
  <1>5. Running'
    BY <1>0, <1>d DEF IInv, Running, Early
  <1>6. FirstCall'
    BY <1>0, <1>d DEF IInv, FirstCall, Early
  <1>7. Untouched'
    BY <1>0, <1>d DEF IInv, Untouched, Early, Ending
  <1> QED
    BY <1>1, <1>2, <1>3, <1>4, <1>5, <1>6, <1>7 DEF IInv

LEMMA CannotInitKeeps ==
    ASSUME IInv, CannotInit
    PROVE  IInv'
  <1>0. /\ pc = "noSync" /\ pc' = "failed"
        /\ ResetOverGPIO("app") \/ UNCHANGED <<dev, faults>>
        /\ UNCHANGED <<setup, line, hostVars, attempts>>
    BY DEF CannotInit
  <1>d. dev' \in Devices /\ dev'.mem = dev.mem /\ faults' \in 0 .. MaxFaults
    <2>1. "app" \in Boot!Phases
      BY DEF Boot!Phases
    <2> QED
      BY <1>0, <2>1, ResetOverGPIOGives DEF IInv, Typed, TypeOK
  <1>1. Typed'
    BY <1>0, <1>d, DeviceType DEF IInv, Typed, TypeOK, Family, hostVars
  <1>2. Identifying'
    BY <1>0, <1>d DEF IInv, Identifying
  <1>3. Replacing'
    BY <1>0, <1>d DEF IInv, Replacing, Erasing, Writing
  <1>4. ReadingBack'
    BY <1>0, <1>d DEF IInv, ReadingBack, Early, Family, Erasing, Writing, Reading
  <1>5. Running'
    BY <1>0, <1>d DEF IInv, Running, Early, hostVars
  <1>6. FirstCall'
    BY <1>0, <1>d DEF IInv, FirstCall, Early, hostVars
  <1>7. Untouched'
    BY <1>0, <1>d DEF IInv, Untouched, Early, Ending, hostVars
  <1> QED
    BY <1>1, <1>2, <1>3, <1>4, <1>5, <1>6, <1>7 DEF IInv

LEMMA UnableKeeps ==
    ASSUME IInv, Unable
    PROVE  IInv'
  <1>0. /\ pc = "unable" /\ pc' = "close"
        /\ UNCHANGED <<setup, dev, line, hostVars, attempts, faults>>
    BY DEF Unable
  <1>1. Typed'
    BY <1>0 DEF IInv, Typed, TypeOK, Family, hostVars
  <1>2. Identifying'
    BY <1>0 DEF IInv, Identifying
  <1>3. Replacing'
    BY <1>0 DEF IInv, Replacing, Erasing, Writing
  <1>4. ReadingBack'
    BY <1>0 DEF IInv, ReadingBack, Early, Family, Erasing, Writing, Reading
  <1>5. Running'
    BY <1>0 DEF IInv, Running, Early, hostVars
  <1>6. FirstCall'
    BY <1>0 DEF IInv, FirstCall, Early, hostVars
  <1>7. Untouched'
    BY <1>0 DEF IInv, Untouched, Early, Ending, hostVars
  <1> QED
    BY <1>1, <1>2, <1>3, <1>4, <1>5, <1>6, <1>7 DEF IInv

LEMMA VerifyKeeps ==
    ASSUME IInv, Verify
    PROVE  IInv'
  <1>0. /\ pc = "verify"
        /\ \/ read_data = File /\ pc' = "go" /\ successFlag' = TRUE
           \/ /\ read_data # File /\ successFlag' = FALSE
              /\ \/ setup.tool /\ pc' = "close"
                 \/ pc' = "failed"
        /\ UNCHANGED <<setup, dev, line, gpioResetFlag, tries, extended_erase, reads, pos,
                       read_data, result, identified, emptySource, attempts, faults>>
    BY DEF Verify
  <1>1. Typed'
    BY <1>0 DEF IInv, Typed, TypeOK, Family
  <1>2. Identifying'
    BY <1>0 DEF IInv, Identifying
  <1>3. Replacing'
    BY <1>0 DEF IInv, Replacing, Erasing, Writing
  <1>4. ReadingBack'
    BY <1>0 DEF IInv, ReadingBack, Early, Family, Erasing, Writing, Reading
  <1>5. Running'
    BY <1>0 DEF IInv, Running, ReadingBack, Early
  <1>6. FirstCall'
    BY <1>0 DEF IInv, FirstCall, Early
  <1>7. Untouched'
    BY <1>0 DEF IInv, Untouched, Early, Ending
  <1> QED
    BY <1>1, <1>2, <1>3, <1>4, <1>5, <1>6, <1>7 DEF IInv

LEMMA CloseKeeps ==
    ASSUME IInv, Close
    PROVE  IInv'
  <1>0. /\ pc = "close" /\ pc' = "done"
        /\ ResetOverGPIO("app") \/ UNCHANGED <<dev, faults>>
        /\ result' = IF successFlag THEN "success" ELSE "failure"
        /\ UNCHANGED <<setup, line, gpioResetFlag, tries, extended_erase, reads, pos, read_data,
                       successFlag, identified, emptySource, attempts>>
    BY DEF Close
  <1>d. /\ dev' \in Devices /\ dev'.mem = dev.mem /\ dev'.phase \in {dev.phase, "app"}
        /\ faults' \in 0 .. MaxFaults
    <2>1. "app" \in Boot!Phases
      BY DEF Boot!Phases
    <2> QED
      BY <1>0, <2>1, ResetOverGPIOGives DEF IInv, Typed, TypeOK
  <1>1. Typed'
    BY <1>0, <1>d, DeviceType DEF IInv, Typed, TypeOK, Family
  <1>2. Identifying'
    BY <1>0, <1>d DEF IInv, Identifying
  <1>3. Replacing'
    BY <1>0, <1>d DEF IInv, Replacing, Erasing, Writing
  <1>4. ReadingBack'
    BY <1>0, <1>d DEF IInv, ReadingBack, Early, Family, Erasing, Writing, Reading
  <1>5. Running'
    BY <1>0, <1>d DEF IInv, Running, Early
  <1>6. FirstCall'
    BY <1>0, <1>d DEF IInv, FirstCall, Running, Early
  <1>7. Untouched'
    BY <1>0, <1>d DEF IInv, Untouched, Early, Ending
  <1> QED
    BY <1>1, <1>2, <1>3, <1>4, <1>5, <1>6, <1>7 DEF IInv

LEMMA FailKeeps ==
    ASSUME IInv, Fail
    PROVE  IInv'
  <1>0. /\ pc = "failed" /\ pc' = "done" /\ result' = "failure"
        /\ UNCHANGED <<setup, dev, line, gpioResetFlag, tries, extended_erase, reads, pos,
                       read_data, successFlag, identified, emptySource, attempts, faults>>
    BY DEF Fail
  <1>1. Typed'
    BY <1>0 DEF IInv, Typed, TypeOK, Family
  <1>2. Identifying'
    BY <1>0 DEF IInv, Identifying
  <1>3. Replacing'
    BY <1>0 DEF IInv, Replacing, Erasing, Writing
  <1>4. ReadingBack'
    BY <1>0 DEF IInv, ReadingBack, Early, Family, Erasing, Writing, Reading
  <1>5. Running'
    BY <1>0 DEF IInv, Running, Early
  <1>6. FirstCall'
    BY <1>0 DEF IInv, FirstCall, Early
  <1>7. Untouched'
    BY <1>0 DEF IInv, Untouched, Early, Ending
  <1> QED
    BY <1>1, <1>2, <1>3, <1>4, <1>5, <1>6, <1>7 DEF IInv

LEMMA CallAgainKeeps ==
    ASSUME IInv, CallAgain
    PROVE  IInv'
  <1>0. /\ pc = "done" /\ pc' = "load" /\ attempts' = attempts + 1
        /\ gpioResetFlag' = FALSE /\ tries' = 0 /\ extended_erase' = FALSE /\ reads' = 0
        /\ pos' = 0 /\ read_data' = <<>> /\ successFlag' = FALSE /\ result' = "none"
        /\ emptySource' = FALSE
        /\ UNCHANGED <<setup, dev, line, identified, faults>>
    BY DEF CallAgain
  <1>a. attempts' \in Nat \ {0} /\ attempts' # 1
    BY <1>0 DEF IInv, Typed, TypeOK
  <1>1. Typed'
    <2>1. <<>> \in Seq(Bytes) /\ Len(<<>>) <= Len(File) /\ 0 \in 0 .. Len(File) - 1
      BY FileIs
    <2>a. /\ dev' \in Devices /\ line' \in Seq(Bytes) /\ setup' \in Setups
          /\ identified' \in BOOLEAN /\ faults' \in 0 .. MaxFaults
      BY <1>0 DEF IInv, Typed, TypeOK
    <2>b. /\ dev'.phase \in Boot!Phases /\ dev'.left \in 0 .. 4 /\ dev'.addr \in 0 .. FlashSize
          /\ dev'.mem \in [1 .. FlashSize -> Memory]
      BY <2>a, DeviceType DEF IInv
    <2>2. TypeOK'
      <3>1. 0 \in 0 .. 2
        OBVIOUS
      <3>2. tries' \in 0 .. 2 /\ reads' \in 0 .. 2 /\ pos' \in 0 .. Len(File) - 1
        BY <1>0, <2>1, <3>1
      <3>3. read_data' \in Seq(Bytes) /\ Len(read_data') <= Len(File)
        BY <1>0, <2>1
      <3>4. gpioResetFlag' \in BOOLEAN /\ extended_erase' \in BOOLEAN /\ successFlag' \in BOOLEAN
        BY <1>0
      <3> QED
        BY <1>0, <1>a, <2>a, <2>b, <3>2, <3>3, <3>4 DEF TypeOK
    <2> QED
      BY <1>0, <2>2 DEF IInv, Typed, Family
  <1>2. Identifying'
    BY <1>0 DEF IInv, Identifying
  <1>3. Replacing'
    BY <1>0 DEF IInv, Replacing, Erasing, Writing
  <1>4. ReadingBack'
    BY <1>0 DEF IInv, ReadingBack, Early, Family, Erasing, Writing, Reading
  <1>5. Running'
    BY <1>0 DEF IInv, Running, Early
  <1>6. FirstCall'
    BY <1>0, <1>a DEF FirstCall
  <1>7. Untouched'
    BY <1>0 DEF IInv, Untouched, Early, Ending
  <1> QED
    BY <1>1, <1>2, <1>3, <1>4, <1>5, <1>6, <1>7 DEF IInv

-----------------------------------------------------------------------------
(* Identifying the device                                                  *)

LEMMA SyncGives ==
    ASSUME IInv, Synchronize
    PROVE  /\ faults' \in 0 .. MaxFaults
           /\ pc' \in {"get", "sync", "noSync"} /\ (pc' = "sync" => tries > 1)
           /\ \E r \in Reactions(dev, Boot!SyncMessage) : \E got :
                 /\ Garbled(r.out, got)
                 /\ dev' = r.dev
                 /\ Stuck(line, got, line')
                 /\ pc' = "get" => line \o got # <<>>
  <1> DEFINE m == Boot!SyncMessage
             Goes(reply) == pc' = IF reply \in {Boot!Ack, Boot!Nack} THEN "get"
                                  ELSE IF tries > 1 THEN "sync" ELSE "noSync"
  <1>0. dev \in Devices /\ m \in Messages /\ faults \in 0 .. MaxFaults
    BY DEF IInv, Typed, TypeOK, Messages
  <1>1. PICK s \in Send(m) : \E b \in Byte(s.line) :
            Fault(s.faults + b.faults) /\ dev' = s.dev /\ line' = b.line /\ Goes(b.reply)
    BY DEF Synchronize, Exchange
  <1>2. PICK b \in Byte(s.line) :
            Fault(s.faults + b.faults) /\ dev' = s.dev /\ line' = b.line /\ Goes(b.reply)
    BY <1>1
  <1> HIDE DEF m
  <1>3. PICK r \in Reactions(dev, m) : \E got :
              /\ Garbled(r.out, got)
              /\ s.dev = r.dev /\ s.line = line \o got /\ s.faults \in {0, 1}
    BY <1>0, SendGives
  <1>4. PICK got :
              /\ Garbled(r.out, got)
              /\ s.dev = r.dev /\ s.line = line \o got /\ s.faults \in {0, 1}
    BY <1>3
  <1>5. /\ b.faults \in {0, 1}
        /\ \/ b.reply = Nothing /\ b.line = s.line
           \/ s.line # <<>> /\ b.line = Tail(s.line)
    BY ByteGives
  <1>6. faults' \in 0 .. MaxFaults
    BY <1>0, <1>2, <1>4, <1>5 DEF Fault
  <1>7. Nothing \notin {Boot!Ack, Boot!Nack}
    BY DEF Nothing, Boot!Ack, Boot!Nack
  <1>8. Stuck(line, got, line')
    BY <1>2, <1>4, <1>5 DEF Stuck
  <1>9. pc' = "get" => line \o got # <<>>
    BY <1>2, <1>4, <1>5, <1>7
  <1>10. pc' \in {"get", "sync", "noSync"} /\ (pc' = "sync" => tries > 1)
    BY <1>2
  <1> QED
    BY <1>2, <1>4, <1>6, <1>8, <1>9, <1>10 DEF m

LEMMA SynchronizeKeeps ==
    ASSUME IInv, Synchronize
    PROVE  IInv'
  <1>0. /\ pc = "sync" /\ tries' = tries - 1
        /\ UNCHANGED <<setup, gpioResetFlag, extended_erase, reads, pos, read_data,
                       successFlag, result, identified, emptySource, attempts>>
    BY DEF Synchronize
  <1>s. /\ faults' \in 0 .. MaxFaults
        /\ pc' \in {"get", "sync", "noSync"} /\ (pc' = "sync" => tries > 1)
    BY SyncGives
  <1>r. PICK r \in Reactions(dev, Boot!SyncMessage) : \E got :
            /\ Garbled(r.out, got)
            /\ dev' = r.dev
            /\ Stuck(line, got, line')
            /\ pc' = "get" => line \o got # <<>>
    BY SyncGives
  <1>g. PICK got :
            /\ Garbled(r.out, got)
            /\ dev' = r.dev
            /\ Stuck(line, got, line')
            /\ pc' = "get" => line \o got # <<>>
    BY <1>r
  <1>t. dev \in Devices /\ line \in Seq(Answers) /\ (line # <<>> => dev.phase \in Idle)
    BY <1>0 DEF IInv, Typed, Identifying
  <1>x. Refused(dev, r) \/ Moved(dev, r, "ready", <<Boot!Ack>>)
    BY <1>t, SyncIsAMessage, SyncReaction
  <1>d. /\ dev' \in Devices /\ dev'.mem = dev.mem
        /\ got \in Seq(Answers)
        /\ dev'.phase \in {dev.phase, "ready", "mute"}
        /\ got # <<>> => dev'.phase = "ready"
    <2>1. CASE Refused(dev, r)
      BY <1>g, <2>1, RefusedGives DEF Refused
    <2>2. CASE Moved(dev, r, "ready", <<Boot!Ack>>)
      BY <1>g, <2>2, AckedGives DEF Moved
    <2> QED
      BY <1>x, <2>1, <2>2
  <1>l. /\ line' \in Seq(Answers)
        /\ line = <<>> /\ got = <<>> => line' = <<>>
    BY <1>t, <1>d, <1>g, RestIn
  <1>p. line' # <<>> \/ pc' = "get" => dev'.phase \in Idle
    <2>1. line = <<>> /\ got = <<>> => line \o got = <<>>
      OBVIOUS
    <2> QED
      BY <1>t, <1>d, <1>g, <1>l, <2>1 DEF Idle
  <1>1. Typed'
    <2>1. line' \in Seq(Bytes)
      BY <1>l, SeqSubset, AnswersAreSignals, SignalsAre
    <2>2. tries' \in 0 .. 2 /\ (pc' = "sync" => tries' # 0)
      BY <1>0, <1>s DEF IInv, Typed, TypeOK
    <2>3. TypeOK'
      BY <1>0, <1>s, <1>d, <2>1, <2>2, DeviceType DEF IInv, Typed, TypeOK
    <2> QED
      BY <1>s, <1>d, <2>2, <2>3 DEF Typed, Family
  <1>2. Identifying'
    BY <1>s, <1>l, <1>p DEF Identifying
  <1>3. Replacing'
    BY <1>0, <1>s, <1>d DEF IInv, Replacing, Erasing, Writing
  <1>4. ReadingBack'
    BY <1>0, <1>s, <1>d DEF IInv, ReadingBack, Early, Family, Erasing, Writing, Reading
  <1>5. Running'
    BY <1>0, <1>s, <1>d DEF IInv, Running, Early
  <1>6. FirstCall'
    BY <1>0, <1>s, <1>d DEF IInv, FirstCall, Early
  <1>7. Untouched'
    BY <1>0, <1>s, <1>d DEF IInv, Untouched, Early, Ending
  <1> QED
    BY <1>1, <1>2, <1>3, <1>4, <1>5, <1>6, <1>7 DEF IInv

Places ==
    Early \cup Family \cup Erasing \cup Writing \cup Reading \cup Ending
        \cup {"verify", "go", "goAddress"}

\* The types after an exchange.
LEMMA ExchangeType ==
    ASSUME IInv, dev' \in Devices, line' \in Seq(Bytes), faults' \in 0 .. MaxFaults,
           UNCHANGED <<setup, hostVars, attempts>>,
           pc' \in Places \ {"sync"}, pc' \in Family => pc \in Family
    PROVE  Typed'
  <1>1. pc' \in Family => reads' # 0
    BY DEF IInv, Typed, hostVars
  <1>2. TypeOK'
    BY DeviceType DEF IInv, Typed, TypeOK, hostVars, Places, Early, Family, Erasing, Writing,
                      Reading, Ending
  <1> QED
    BY <1>1, <1>2 DEF Typed

LEMMA GetKeeps ==
    ASSUME IInv, Get
    PROVE  IInv'
  <1> DEFINE m == Boot!CommandMessage("get")
             list == <<Boot!Ack, Boot!Info, Boot!Info, Boot!Commands, Boot!Ack>>
  <1>0. /\ pc = "get" /\ WriteAndAck(m, "getBody", "unable")
        /\ UNCHANGED <<setup, hostVars, attempts>>
    BY DEF Get, Command
  <1>t. /\ dev \in Devices /\ faults \in 0 .. MaxFaults /\ m \in Messages
        /\ line \in Seq(Answers) /\ dev.phase \in Idle
    BY <1>0 DEF IInv, Typed, TypeOK, Identifying, Messages
  <1>r. /\ faults' \in 0 .. MaxFaults
        /\ \E r \in Reactions(dev, m) : \E got :
              /\ Garbled(r.out, got)
              /\ dev' = r.dev
              /\ \/ pc' = "getBody" /\ Passed(line, got, line')
                 \/ pc' = "unable" /\ Stuck(line, got, line')
    BY <1>0, <1>t, AckGives
  <1>got. PICK r \in Reactions(dev, m) : \E got :
            /\ Garbled(r.out, got)
            /\ dev' = r.dev
            /\ \/ pc' = "getBody" /\ Passed(line, got, line')
               \/ pc' = "unable" /\ Stuck(line, got, line')
    BY <1>r
  <1>g. PICK got :
            /\ Garbled(r.out, got)
            /\ dev' = r.dev
            /\ \/ pc' = "getBody" /\ Passed(line, got, line')
               \/ pc' = "unable" /\ Stuck(line, got, line')
    BY <1>got
  <1>x. Refused(dev, r) \/ r = Boot!Does(dev, list)
    BY <1>t, GetReaction DEF Idle
  <1>d. /\ dev' \in Devices /\ dev'.mem = dev.mem
        /\ dev'.phase \in {dev.phase, "ready", "mute"}
    BY <1>t, <1>g, <1>x DEF Refused, Boot!Does
  <1>l. /\ got \in Seq(Signals)
        /\ ~Refused(dev, r) => Len(got) <= 5 /\ (Len(got) = 5 => got[1] # Boot!Info)
    <2>1. CASE Refused(dev, r)
      BY <1>g, <2>1, RefusedGives
    <2>2. CASE r = Boot!Does(dev, list)
      <3>1. list \in Seq(Signals) /\ Len(list) = 5 /\ list[1] = Boot!Ack
        BY SignalsAre
      <3>2. Garbled(list, got)
        BY <1>g, <2>2 DEF Boot!Does
      <3> HIDE DEF list
      <3>3. Signals \cup {Noise} \subseteq Signals
        BY SignalsAre
      <3>a. got \in Seq(Signals) /\ Len(got) <= Len(list)
        BY <3>1, <3>2, <3>3, GarbledIn
      <3>4. got \in Seq(Signals) /\ Len(got) <= 5
        BY <3>1, <3>a
      <3>5. Len(got) = 5 => got[1] \in {Boot!Ack, Noise}
        BY <3>1, <3>2 DEF Garbled
      <3>6. Boot!Info \notin {Boot!Ack, Noise}
        BY DEF Boot!Info, Boot!Ack, Noise
      <3> QED
        BY <3>4, <3>5, <3>6
    <2> QED
      BY <1>x, <2>1, <2>2
  <1>n. line \in Seq(Signals)
    BY <1>t, SeqSubset, AnswersAreSignals
  <1>m. line' \in Seq(Signals)
    BY <1>g, <1>l, <1>n, RestIn
  <1>w. pc' = "getBody" /\ WellFormed(4)' => Len(line') = 4
    <2> SUFFICES ASSUME pc' = "getBody", Len(line') >= 4, line'[1] = Boot!Info
                 PROVE  Len(line') = 4
      BY DEF WellFormed
    <2>1. Passed(line, got, line')
      BY <1>g
    <2>2. /\ line' \in Seq(Signals) /\ Len(line') + 1 = Len(line) + Len(got)
          /\ \A i \in 1 .. Len(line') :
                line'[i] = IF i < Len(line) THEN line[i + 1] ELSE got[i + 1 - Len(line)]
          /\ line = <<>> => got # <<>> /\ got[1] \in Memory \cup {Boot!Info, Boot!Ack}
      BY <2>1, <1>l, <1>n, PassedIs
    <2>3. Len(line) \in Nat /\ Len(got) \in Nat /\ Len(line') \in Nat /\ 1 \in 1 .. Len(line')
      BY <1>l, <1>n, <2>2
    <2>4. Boot!Info = IF 1 < Len(line) THEN line[1 + 1] ELSE got[1 + 1 - Len(line)]
      BY <2>2, <2>3
    <2>5. ~(1 < Len(line))
      <3> SUFFICES ASSUME 1 < Len(line)
                   PROVE  FALSE
        OBVIOUS
      <3>1. line[2] \in Answers
        BY <1>t, <2>3
      <3> QED
        BY <2>4, <3>1 DEF Answers, Boot!Ack, Boot!Nack, Boot!Info, Noise
    <2>6. CASE Len(line) = 0
      <3>1. line = <<>>
        BY <1>n, <2>6
      <3>2. ~Refused(dev, r)
        BY <3>1, <2>1, <1>g, RefusedGives
      <3>3. Len(got) <= 5
        BY <3>2, <1>l
      <3>4. Len(line') + 1 = Len(line) + Len(got)
        BY <2>2
      <3>5. \A a, b \in Nat : a + 1 = 0 + b /\ b <= 5 /\ a >= 4 => a = 4
        OBVIOUS
      <3>6. Len(line') + 1 = 0 + Len(got)
        BY <3>4, <2>6
      <3> QED
        BY <3>3, <3>5, <3>6, <2>3
    <2>7. CASE Len(line) = 1
      <3>1. got[1] = Boot!Info /\ Len(line') = Len(got)
        BY <2>2, <2>3, <2>4, <2>7
      <3>2. ~Refused(dev, r)
        <4> SUFFICES ASSUME Refused(dev, r)
                     PROVE  FALSE
          OBVIOUS
        <4>1. got \in Seq({Boot!Nack, Noise})
          BY <1>g, RefusedGives
        <4>2. got[1] \in {Boot!Nack, Noise}
          BY <4>1, <3>1, <2>3
        <4> QED
          BY <3>1, <4>2 DEF Boot!Nack, Boot!Info, Noise
      <3> QED
        BY <3>1, <3>2, <1>l, <2>3
    <2>8. \A n \in Nat : ~(1 < n) => n = 0 \/ n = 1
      OBVIOUS
    <2>9. Len(line) = 0 \/ Len(line) = 1
      BY <2>3, <2>5, <2>8
    <2> QED
      BY <2>6, <2>7, <2>9
  <1>p. pc' \in {"getBody", "unable"}
    BY <1>g
  <1>1. Typed'
    BY <1>0, <1>r, <1>d, <1>m, <1>p, SeqSubset, SignalsAre, ExchangeType DEF Places, Early, Family
  <1>2. Identifying'
    BY <1>p, <1>w, <1>d, <1>t DEF Identifying, Idle
  <1>3. Replacing'
    BY <1>0, <1>p, <1>d DEF IInv, Replacing, Erasing, Writing
  <1>4. ReadingBack'
    BY <1>0, <1>p, <1>d DEF IInv, ReadingBack, Early, Family, Erasing, Writing, Reading, hostVars
  <1>5. Running'
    BY <1>0, <1>p, <1>d DEF IInv, Running, Early, hostVars
  <1>6. FirstCall'
    BY <1>0, <1>p, <1>d DEF IInv, FirstCall, Early, hostVars
  <1>7. Untouched'
    BY <1>0, <1>p, <1>d DEF IInv, Untouched, Early, Ending, hostVars
  <1> QED
    BY <1>1, <1>2, <1>3, <1>4, <1>5, <1>6, <1>7 DEF IInv

\* What is left of a line of k bytes after k of them.
LEMMA NothingLeft ==
    ASSUME NEW S, NEW l \in Seq(S), NEW k \in Nat, Len(l) <= k
    PROVE  SubSeq(l, k + 1, Len(l)) = <<>>
  <1>1. Len(l) \in Nat /\ k + 1 > Len(l)
    OBVIOUS
  <1>2. Len(SubSeq(l, k + 1, Len(l))) = 0 /\ SubSeq(l, k + 1, Len(l)) \in Seq(S)
    BY <1>1
  <1> QED
    BY <1>2

LEMMA GetBodyKeeps ==
    ASSUME IInv, GetBody
    PROVE  IInv'
  <1>0. /\ pc = "getBody"
        /\ \/ /\ WellFormed(4) /\ pc' = "getId" /\ line' = SubSeq(line, 5, Len(line))
              /\ extended_erase' \in Says(line[3], dev.eraseCommand = "extendedErase")
           \/ pc' = "unable" /\ line' = <<>> /\ UNCHANGED extended_erase
        /\ faults' \in 0 .. MaxFaults
        /\ UNCHANGED <<setup, dev, gpioResetFlag, tries, reads, pos, read_data, successFlag,
                       result, identified, emptySource, attempts>>
    BY DEF GetBody, Fault, IInv, Typed, TypeOK
  <1>l. line' = <<>> /\ pc' \in {"getId", "unable"}
    <2>1. CASE WellFormed(4) /\ pc' = "getId" /\ line' = SubSeq(line, 5, Len(line))
      <3>1. Len(line) = 4 /\ line \in Seq(Bytes)
        BY <1>0, <2>1 DEF IInv, Typed, TypeOK, Identifying
      <3>2. 4 \in Nat /\ 4 + 1 = 5 /\ Len(line) <= 4
        BY <3>1
      <3>3. SubSeq(line, 4 + 1, Len(line)) = <<>>
        BY <3>1, <3>2, NothingLeft
      <3> QED
        BY <2>1, <3>2, <3>3
    <2>2. CASE pc' = "unable" /\ line' = <<>>
      BY <2>2
    <2> QED
      BY <1>0, <2>1, <2>2
  <1>e. extended_erase' \in BOOLEAN
    BY <1>0 DEF Says, IInv, Typed, TypeOK
  <1>1. Typed'
    <2>1. <<>> \in Seq(Bytes)
      OBVIOUS
    <2>2. TypeOK'
      BY <1>0, <1>l, <1>e, <2>1 DEF IInv, Typed, TypeOK
    <2> QED
      BY <1>0, <1>l, <2>2 DEF IInv, Typed, Family
  <1>2. Identifying'
    BY <1>0, <1>l DEF IInv, Identifying
  <1>3. Replacing'
    BY <1>0, <1>l DEF IInv, Replacing, Erasing, Writing
  <1>4. ReadingBack'
    BY <1>0, <1>l DEF IInv, ReadingBack, Early, Family, Erasing, Writing, Reading
  <1>5. Running'
    BY <1>0, <1>l DEF IInv, Running, Early
  <1>6. FirstCall'
    BY <1>0, <1>l DEF IInv, FirstCall, Early
  <1>7. Untouched'
    BY <1>0, <1>l DEF IInv, Untouched, Early, Ending
  <1> QED
    BY <1>1, <1>2, <1>3, <1>4, <1>5, <1>6, <1>7 DEF IInv

LEMMA GetIdKeeps ==
    ASSUME IInv, GetId
    PROVE  IInv'
  <1> DEFINE m == Boot!CommandMessage("getId")
             id == <<Boot!Ack, Boot!Info, Boot!Id, Boot!Ack>>
  <1>0. /\ pc = "getId" /\ WriteAndAck(m, "idBody", "unable")
        /\ UNCHANGED <<setup, hostVars, attempts>>
    BY DEF GetId, Command
  <1>t. /\ dev \in Devices /\ faults \in 0 .. MaxFaults /\ m \in Messages
        /\ line = <<>> /\ dev.phase \in Idle
    BY <1>0 DEF IInv, Typed, TypeOK, Identifying, Messages
  <1>r. /\ faults' \in 0 .. MaxFaults
        /\ \E r \in Reactions(dev, m) : \E got :
              /\ Garbled(r.out, got)
              /\ dev' = r.dev
              /\ \/ pc' = "idBody" /\ Passed(line, got, line')
                 \/ pc' = "unable" /\ Stuck(line, got, line')
    BY <1>0, <1>t, AckGives
  <1>got. PICK r \in Reactions(dev, m) : \E got :
            /\ Garbled(r.out, got)
            /\ dev' = r.dev
            /\ \/ pc' = "idBody" /\ Passed(line, got, line')
               \/ pc' = "unable" /\ Stuck(line, got, line')
    BY <1>r
  <1>g. PICK got :
            /\ Garbled(r.out, got)
            /\ dev' = r.dev
            /\ \/ pc' = "idBody" /\ Passed(line, got, line')
               \/ pc' = "unable" /\ Stuck(line, got, line')
    BY <1>got
  <1>x. Refused(dev, r) \/ r = Boot!Does(dev, id)
    BY <1>t, GetIdReaction DEF Idle
  <1>d. /\ dev' \in Devices /\ dev'.mem = dev.mem
        /\ dev'.phase \in {dev.phase, "ready", "mute"}
    BY <1>t, <1>g, <1>x DEF Refused, Boot!Does
  <1>l. got \in Seq(Signals) /\ (~Refused(dev, r) => Len(got) <= 4)
    <2>1. CASE Refused(dev, r)
      BY <1>g, <2>1, RefusedGives
    <2>2. CASE r = Boot!Does(dev, id)
      <3>1. id \in Seq(Signals) /\ Len(id) = 4
        BY SignalsAre
      <3>2. Garbled(id, got)
        BY <1>g, <2>2 DEF Boot!Does
      <3> HIDE DEF id
      <3>3. Signals \cup {Noise} \subseteq Signals
        BY SignalsAre
      <3>4. got \in Seq(Signals) /\ Len(got) <= Len(id)
        BY <3>1, <3>2, <3>3, GarbledIn
      <3> QED
        BY <3>1, <3>4
    <2> QED
      BY <1>x, <2>1, <2>2
  <1>n. <<>> \in Seq(Signals) /\ Len(<<>>) = 0
    OBVIOUS
  <1>m. line' \in Seq(Signals)
    BY <1>g, <1>l, <1>n, <1>t, RestIn
  <1>w. pc' = "idBody" => Len(line') <= 3
    <2> SUFFICES ASSUME pc' = "idBody"
                 PROVE  Len(line') <= 3
      OBVIOUS
    <2>1. Passed(<<>>, got, line')
      BY <1>g, <1>t
    <2>2. Len(line') + 1 = Len(<<>>) + Len(got)
      BY <2>1, <1>l, <1>n, PassedIs
    <2>3. Len(got) <= 4
      BY <2>1, <1>g, <1>l, RefusedGives
    <2>4. Len(line') \in Nat /\ Len(got) \in Nat
      BY <1>l, <1>m
    <2>5. \A a, b \in Nat : a + 1 = 0 + b /\ b <= 4 => a <= 3
      OBVIOUS
    <2>6. Len(line') + 1 = 0 + Len(got)
      BY <2>2, <1>n
    <2> QED
      BY <2>3, <2>4, <2>5, <2>6
  <1>p. pc' \in {"idBody", "unable"}
    BY <1>g
  <1>1. Typed'
    BY <1>0, <1>r, <1>d, <1>m, <1>p, SeqSubset, SignalsAre, ExchangeType DEF Places, Early, Family
  <1>2. Identifying'
    BY <1>p, <1>w, <1>d, <1>t DEF Identifying, Idle
  <1>3. Replacing'
    BY <1>0, <1>p, <1>d DEF IInv, Replacing, Erasing, Writing
  <1>4. ReadingBack'
    BY <1>0, <1>p, <1>d DEF IInv, ReadingBack, Early, Family, Erasing, Writing, Reading, hostVars
  <1>5. Running'
    BY <1>0, <1>p, <1>d DEF IInv, Running, Early, hostVars
  <1>6. FirstCall'
    BY <1>0, <1>p, <1>d DEF IInv, FirstCall, Early, hostVars
  <1>7. Untouched'
    BY <1>0, <1>p, <1>d DEF IInv, Untouched, Early, Ending, hostVars
  <1> QED
    BY <1>1, <1>2, <1>3, <1>4, <1>5, <1>6, <1>7 DEF IInv

LEMMA GetIdBodyKeeps ==
    ASSUME IInv, GetIdBody
    PROVE  IInv'
  <1>0. /\ pc = "idBody"
        /\ \/ /\ pc' = "family" /\ line' = SubSeq(line, 4, Len(line))
              /\ reads' \in 1 .. 2 /\ successFlag' = TRUE /\ identified' = TRUE
           \/ /\ pc' = "unable" /\ line' = <<>>
              /\ UNCHANGED <<reads, successFlag, identified>>
        /\ faults' \in 0 .. MaxFaults
        /\ UNCHANGED <<setup, dev, gpioResetFlag, tries, extended_erase, pos, read_data, result,
                       emptySource, attempts>>
    <2>1. GetIdBody /\ faults \in 0 .. MaxFaults
      BY DEF IInv, Typed, TypeOK
    <2> QED
      BY <2>1 DEF GetIdBody, Fault
  <1>l. line' = <<>> /\ pc' \in {"family", "unable"}
    <2>1. CASE pc' = "family" /\ line' = SubSeq(line, 4, Len(line))
      <3>1. Len(line) <= 3 /\ line \in Seq(Bytes)
        BY <1>0, <2>1 DEF IInv, Typed, TypeOK, Identifying
      <3>2. 3 \in Nat /\ 3 + 1 = 4
        OBVIOUS
      <3>3. SubSeq(line, 3 + 1, Len(line)) = <<>>
        BY <3>1, <3>2, NothingLeft
      <3> QED
        BY <2>1, <3>2, <3>3
    <2>2. CASE pc' = "unable" /\ line' = <<>>
      BY <2>2
    <2> QED
      BY <1>0, <2>1, <2>2
  <1>e. /\ successFlag' \in BOOLEAN /\ identified' \in BOOLEAN /\ reads' \in 0 .. 2
        /\ pc' = "family" => reads' # 0 /\ identified'
        /\ pc' = "unable" => UNCHANGED <<reads, successFlag, identified>>
        /\ identified => identified'
    <2>1. /\ successFlag \in BOOLEAN /\ identified \in BOOLEAN /\ reads \in 0 .. 2
      BY DEF IInv, Typed, TypeOK
    <2>2. CASE pc' = "family"
      <3>1. reads' \in 1 .. 2 /\ successFlag' = TRUE /\ identified' = TRUE
        BY <1>0, <2>2
      <3> QED
        BY <2>2, <3>1
    <2>3. CASE pc' # "family"
      <3>1. UNCHANGED <<reads, successFlag, identified>>
        BY <1>0, <2>3
      <3> QED
        BY <2>1, <2>3, <3>1
    <2> QED
      BY <2>2, <2>3
  <1>1. Typed'
    <2>1. <<>> \in Seq(Bytes)
      OBVIOUS
    <2>2. TypeOK'
      BY <1>0, <1>l, <1>e, <2>1 DEF IInv, Typed, TypeOK
    <2> QED
      BY <1>0, <1>l, <1>e, <2>2 DEF IInv, Typed, Family
  <1>2. Identifying'
    BY <1>0, <1>l DEF IInv, Identifying
  <1>3. Replacing'
    BY <1>0, <1>l DEF IInv, Replacing, Erasing, Writing
  <1>4. ReadingBack'
    BY <1>0, <1>l DEF IInv, ReadingBack, Early, Family, Erasing, Writing, Reading
  <1>5. Running'
    BY <1>0, <1>l, <1>e DEF IInv, Running, Early
  <1>6. FirstCall'
    BY <1>0, <1>l DEF IInv, FirstCall, Early
  <1>7. Untouched'
    BY <1>0, <1>l, <1>e DEF IInv, Untouched, Early, Ending
  <1> QED
    BY <1>1, <1>2, <1>3, <1>4, <1>5, <1>6, <1>7 DEF IInv

-----------------------------------------------------------------------------
(* Reading the flash size and the unique id                                *)

\* On an empty line, to a message that is answered by ACK if it is expected.
LEMMA InStep ==
    ASSUME NEW d, NEW r, NEW got, NEW rest, Garbled(r.out, got),
           Passed(<<>>, got, rest) \/ Stuck(<<>>, got, rest),
           Refused(d, r) \/ r.out = <<Boot!Ack>>
    PROVE  /\ rest \in Seq(Signals)
           /\ Passed(<<>>, got, rest) => ~Refused(d, r) /\ rest = <<>>
           /\ ~Refused(d, r) => Len(rest) <= 1
           /\ Refused(d, r) /\ r.dev.phase # "ready" => rest = <<>>
  <1>1. <<>> \in Seq(Signals) /\ Len(<<>>) = 0
    OBVIOUS
  <1>2. got \in Seq(Signals) /\ (~Refused(d, r) => Len(got) <= 1)
    BY RefusedGives, AckedGives
  <1>3. rest \in Seq(Signals) /\ Len(rest) <= Len(<<>>) + Len(got)
    BY <1>1, <1>2, RestIn
  <1>4. Len(rest) \in Nat /\ Len(got) \in Nat
    BY <1>2, <1>3
  <1>5. ASSUME ~Refused(d, r)
        PROVE  Len(rest) <= 1
    <2>1. \A a, b \in Nat : a <= 0 + b /\ b <= 1 => a <= 1
      OBVIOUS
    <2> QED
      BY <1>1, <1>2, <1>3, <1>4, <1>5, <2>1
  <1>6. ASSUME Passed(<<>>, got, rest)
        PROVE  ~Refused(d, r) /\ rest = <<>>
    <2>1. ~Refused(d, r)
      BY <1>6, RefusedGives
    <2>2. Len(rest) + 1 = Len(<<>>) + Len(got)
      BY <1>1, <1>2, <1>6, PassedIs
    <2>3. \A a, b \in Nat : a + 1 = 0 + b /\ b <= 1 => a = 0
      OBVIOUS
    <2>4. Len(rest) = 0
      BY <1>1, <1>2, <1>4, <2>1, <2>2, <2>3
    <2> QED
      BY <2>1, <2>4, <1>3
  <1>7. ASSUME Refused(d, r), r.dev.phase # "ready"
        PROVE  rest = <<>>
    <2>1. got = <<>>
      BY <1>7, RefusedGives
    <2> QED
      BY <1>1, <2>1, RestIn
  <1> QED
    BY <1>3, <1>5, <1>6, <1>7

LEMMA FamilyCommandKeeps ==
    ASSUME IInv, pc = "family", Command("read", "familyAddress", "erase"),
           UNCHANGED <<setup, hostVars, attempts>>
    PROVE  IInv'
  <1> DEFINE m == Boot!CommandMessage("read")
  <1>t. /\ dev \in Devices /\ faults \in 0 .. MaxFaults /\ m \in Messages
        /\ line = <<>> /\ dev.phase \in Idle
    BY DEF IInv, Typed, TypeOK, Identifying, Messages
  <1>r. /\ faults' \in 0 .. MaxFaults
        /\ \E r \in Reactions(dev, m) : \E got :
              /\ Garbled(r.out, got)
              /\ dev' = r.dev
              /\ \/ pc' = "familyAddress" /\ Passed(line, got, line')
                 \/ pc' = "erase" /\ Stuck(line, got, line')
    BY <1>t, AckGives DEF Command
  <1>got. PICK r \in Reactions(dev, m) : \E got :
            /\ Garbled(r.out, got)
            /\ dev' = r.dev
            /\ \/ pc' = "familyAddress" /\ Passed(<<>>, got, line')
               \/ pc' = "erase" /\ Stuck(<<>>, got, line')
    BY <1>r, <1>t
  <1>g. PICK got :
            /\ Garbled(r.out, got)
            /\ dev' = r.dev
            /\ \/ pc' = "familyAddress" /\ Passed(<<>>, got, line')
               \/ pc' = "erase" /\ Stuck(<<>>, got, line')
    BY <1>got
  <1>x. Refused(dev, r) \/ Moved(dev, r, "readAddress", <<Boot!Ack>>)
    BY <1>t, OpeningReaction DEF Idle
  <1>y. Refused(dev, r) \/ r.out = <<Boot!Ack>>
    BY <1>x DEF Moved
  <1>d. /\ dev' \in Devices /\ dev'.mem = dev.mem
        /\ dev'.phase \in Idle \cup {"readAddress"}
        /\ Refused(dev, r) => dev'.phase \in Idle
        /\ ~Refused(dev, r) => dev'.phase = "readAddress" /\ dev'.left = 0
    BY <1>t, <1>g, <1>x DEF Refused, Moved, Idle
  <1>l. /\ line' \in Seq(Signals)
        /\ pc' = "familyAddress" =>
              line' = <<>> /\ dev'.phase = "readAddress" /\ dev'.left = 0
        /\ dev'.phase = "readAddress" => Len(line') <= 1
    BY <1>g, <1>y, <1>d, InStep DEF Idle
  <1>p. pc' \in {"familyAddress", "erase"}
    BY <1>g
  <1>1. Typed'
    BY <1>r, <1>d, <1>l, <1>p, SeqSubset, SignalsAre, ExchangeType DEF Places, Erasing, Family
  <1>2. Identifying'
    BY <1>p, <1>l DEF Identifying
  <1>3. Replacing'
    BY <1>p, <1>d, <1>l DEF IInv, Replacing, Erasing, Writing, Idle, Counting
  <1>4. ReadingBack'
    BY <1>p, <1>d DEF IInv, ReadingBack, Early, Family, Erasing, Writing, Reading, hostVars
  <1>5. Running'
    BY <1>p, <1>d DEF IInv, Running, Early, hostVars
  <1>6. FirstCall'
    BY <1>p, <1>d DEF IInv, FirstCall, Early, Idle, hostVars
  <1>7. Untouched'
    BY <1>p, <1>d DEF IInv, Untouched, Early, Ending, hostVars
  <1> QED
    BY <1>1, <1>2, <1>3, <1>4, <1>5, <1>6, <1>7 DEF IInv

LEMMA FamilyAddressKeeps ==
    ASSUME IInv, pc = "familyAddress",
           EncodeAddress(Boot!SystemMemory, "familyCount", "erase"),
           UNCHANGED <<setup, hostVars, attempts>>
    PROVE  IInv'
  <1> DEFINE m == Boot!AddressMessage(FlashSize)
  <1>a. FlashSize \in 0 .. FlashSize
    BY FileIs
  <1>t. /\ dev \in Devices /\ faults \in 0 .. MaxFaults /\ m \in Messages
        /\ line = <<>> /\ dev.phase = "readAddress"
    BY <1>a DEF IInv, Typed, TypeOK, Identifying, Messages
  <1>r. /\ faults' \in 0 .. MaxFaults
        /\ \E r \in Reactions(dev, m) : \E got :
              /\ Garbled(r.out, got)
              /\ dev' = r.dev
              /\ \/ pc' = "familyCount" /\ Passed(line, got, line')
                 \/ pc' = "erase" /\ Stuck(line, got, line')
    BY <1>t, AckGives DEF EncodeAddress, Boot!SystemMemory
  <1>got. PICK r \in Reactions(dev, m) : \E got :
            /\ Garbled(r.out, got)
            /\ dev' = r.dev
            /\ \/ pc' = "familyCount" /\ Passed(<<>>, got, line')
               \/ pc' = "erase" /\ Stuck(<<>>, got, line')
    BY <1>r, <1>t
  <1>g. PICK got :
            /\ Garbled(r.out, got)
            /\ dev' = r.dev
            /\ \/ pc' = "familyCount" /\ Passed(<<>>, got, line')
               \/ pc' = "erase" /\ Stuck(<<>>, got, line')
    BY <1>got
  <1>x. \/ Refused(dev, r)
        \/ /\ r.dev.phase = "readCount" /\ r.dev \in Devices /\ r.dev.addr = FlashSize
           /\ r.dev.mem = dev.mem /\ r.out = <<Boot!Ack>>
    BY <1>a, <1>t, AddressReaction
  <1>d. /\ dev' \in Devices /\ dev'.mem = dev.mem
        /\ Refused(dev, r) => dev'.phase \in Idle \cup {"readAddress"}
        /\ ~Refused(dev, r) => dev'.phase = "readCount" /\ dev'.addr = FlashSize
    BY <1>t, <1>g, <1>x DEF Refused, Idle
  <1>l. /\ line' \in Seq(Signals)
        /\ pc' = "familyCount" =>
              line' = <<>> /\ dev'.phase = "readCount" /\ dev'.addr = FlashSize
        /\ dev'.phase \in Counting => Len(line') <= 1
    <2>1. /\ line' \in Seq(Signals)
          /\ Passed(<<>>, got, line') => ~Refused(dev, r) /\ line' = <<>>
          /\ ~Refused(dev, r) => Len(line') <= 1
          /\ Refused(dev, r) /\ r.dev.phase # "ready" => line' = <<>>
      BY <1>g, <1>x, InStep
    <2>2. Len(<<>>) <= 1
      OBVIOUS
    <2> QED
      BY <2>1, <2>2, <1>g, <1>d DEF Counting
  <1>p. pc' \in {"familyCount", "erase"}
    BY <1>g
  <1>h. dev'.phase \in Idle \cup Counting
    BY <1>d DEF Counting
  <1>1. Typed'
    BY <1>r, <1>d, <1>l, <1>p, SeqSubset, SignalsAre, ExchangeType DEF Places, Erasing, Family
  <1>2. Identifying'
    BY <1>p, <1>l DEF Identifying
  <1>3. Replacing'
    BY <1>p, <1>d, <1>h, <1>l DEF IInv, Replacing, Erasing, Writing
  <1>4. ReadingBack'
    BY <1>p, <1>d DEF IInv, ReadingBack, Early, Family, Erasing, Writing, Reading, hostVars
  <1>5. Running'
    BY <1>p, <1>d DEF IInv, Running, Early, hostVars
  <1>6. FirstCall'
    BY <1>p, <1>d, <1>h DEF IInv, FirstCall, Early, Idle, Counting, hostVars
  <1>7. Untouched'
    BY <1>p, <1>d DEF IInv, Untouched, Early, Ending, hostVars
  <1> QED
    BY <1>1, <1>2, <1>3, <1>4, <1>5, <1>6, <1>7 DEF IInv

LEMMA SeqByElements ==
    ASSUME NEW S, NEW T, NEW s \in Seq(S), \A i \in 1 .. Len(s) : s[i] \in T
    PROVE  s \in Seq(T)
  <1>1. s = [i \in 1 .. Len(s) |-> s[i]] /\ Len(s) \in Nat
    OBVIOUS
  <1> QED
    BY <1>1

\* Beyond the flash there is identification data.
LEMMA UidAnswer ==
    ASSUME NEW d \in Devices, d.addr = FlashSize, NEW n \in Nat
    PROVE  Contents(d, n) \in Seq(Signals) /\ Len(Contents(d, n)) = n + 1
  <1> DEFINE out == Contents(d, n)
  <1>1. /\ out \in Seq(Bytes) /\ Len(out) = n + 1 /\ out[1] = Boot!Ack
        /\ \A i \in 1 .. n :
              out[i + 1] = IF d.addr + i \in 1 .. FlashSize THEN d.mem[d.addr + i] ELSE Boot!Info
    BY MemoryAnswer
  <1> HIDE DEF out
  <1>2. ASSUME NEW i \in 1 .. Len(out)
        PROVE  out[i] \in Signals
    <2>1. CASE i = 1
      BY <1>1, <2>1, SignalsAre
    <2>2. CASE i # 1
      <3>1. i - 1 \in 1 .. n /\ (i - 1) + 1 = i /\ ~(FlashSize + (i - 1) <= FlashSize)
        BY <1>1, <2>2, FileIs
      <3>2. out[i] = Boot!Info
        BY <1>1, <3>1
      <3> QED
        BY <3>2, SignalsAre
    <2> QED
      BY <2>1, <2>2
  <1>3. out \in Seq(Signals)
    BY <1>1, <1>2, SeqByElements
  <1> QED
    BY <1>1, <1>3 DEF out

LEMMA FamilyCountKeeps ==
    ASSUME IInv, pc = "familyCount",
           WriteAndAck(Boot!CountMessage(UidBytes), "familyData", "erase"),
           UNCHANGED <<setup, hostVars, attempts>>
    PROVE  IInv'
  <1> DEFINE m == Boot!CountMessage(UidBytes)
  <1>a. UidBytes \in Nat
    BY Stm32LoaderAssumption
  <1>t. /\ dev \in Devices /\ faults \in 0 .. MaxFaults /\ m \in Messages
        /\ line = <<>> /\ dev.phase = "readCount" /\ dev.addr = FlashSize
    BY <1>a DEF IInv, Typed, TypeOK, Identifying, Messages
  <1>r. /\ faults' \in 0 .. MaxFaults
        /\ \E r \in Reactions(dev, m) : \E got :
              /\ Garbled(r.out, got)
              /\ dev' = r.dev
              /\ \/ pc' = "familyData" /\ Passed(line, got, line')
                 \/ pc' = "erase" /\ Stuck(line, got, line')
    BY <1>t, AckGives
  <1>got. PICK r \in Reactions(dev, m) : \E got :
            /\ Garbled(r.out, got)
            /\ dev' = r.dev
            /\ \/ pc' = "familyData" /\ Passed(<<>>, got, line')
               \/ pc' = "erase" /\ Stuck(<<>>, got, line')
    BY <1>r, <1>t
  <1>g. PICK got :
            /\ Garbled(r.out, got)
            /\ dev' = r.dev
            /\ \/ pc' = "familyData" /\ Passed(<<>>, got, line')
               \/ pc' = "erase" /\ Stuck(<<>>, got, line')
    BY <1>got
  <1>x. Refused(dev, r) \/ Moved(dev, r, "ready", Contents(dev, UidBytes))
    BY <1>a, <1>t, CountReaction
  <1>n. <<>> \in Seq(Signals) /\ Len(<<>>) = 0
    OBVIOUS
  <1>d. /\ dev' \in Devices /\ dev'.mem = dev.mem
        /\ dev'.phase \in Idle \cup {"readCount"}
        /\ ~Refused(dev, r) => dev'.phase = "ready"
        /\ dev'.phase = "readCount" => Refused(dev, r)
    BY <1>t, <1>g, <1>x DEF Refused, Moved, Idle
  <1>l. /\ got \in Seq(Signals)
        /\ ~Refused(dev, r) => Len(got) <= UidBytes + 1
        /\ dev'.phase = "readCount" => got = <<>>
    <2>1. CASE Refused(dev, r)
      BY <1>g, <2>1, RefusedGives
    <2>2. CASE Moved(dev, r, "ready", Contents(dev, UidBytes))
      <3>1. /\ Contents(dev, UidBytes) \in Seq(Signals)
            /\ Len(Contents(dev, UidBytes)) = UidBytes + 1
        BY <1>a, <1>t, UidAnswer
      <3>2. Garbled(Contents(dev, UidBytes), got) /\ dev'.phase = "ready"
        BY <1>g, <2>2 DEF Moved
      <3>3. Signals \cup {Noise} \subseteq Signals
        BY SignalsAre
      <3>4. got \in Seq(Signals) /\ Len(got) <= Len(Contents(dev, UidBytes))
        BY <3>1, <3>2, <3>3, GarbledIn
      <3> QED
        BY <3>1, <3>2, <3>4
    <2> QED
      BY <1>x, <2>1, <2>2
  <1>m. /\ line' \in Seq(Signals)
        /\ got = <<>> => line' = <<>>
    <2>1. Passed(<<>>, got, line') \/ Stuck(<<>>, got, line')
      BY <1>g
    <2>2. got \in Seq(Signals) /\ <<>> \in Seq(Signals)
      BY <1>l, <1>n
    <2>3. line' \in Seq(Signals)
      BY <2>1, <2>2, RestIn
    <2>4. ASSUME got = <<>>
          PROVE  line' = <<>>
      BY <2>1, <2>4, NothingComes
    <2> QED
      BY <2>3, <2>4
  <1>w. pc' = "familyData" => Len(line') <= UidBytes /\ dev'.phase = "ready"
    <2> SUFFICES ASSUME pc' = "familyData"
                 PROVE  Len(line') <= UidBytes /\ dev'.phase = "ready"
      OBVIOUS
    <2>1. Passed(<<>>, got, line')
      BY <1>g
    <2>2. Len(line') + 1 = Len(<<>>) + Len(got)
      BY <2>1, <1>l, <1>n, PassedIs
    <2>3. ~Refused(dev, r)
      BY <2>1, <1>g, RefusedGives
    <2>4. Len(line') \in Nat /\ Len(got) \in Nat
      BY <1>l, <1>m
    <2>5. \A a, b \in Nat : a + 1 = 0 + b /\ b <= UidBytes + 1 => a <= UidBytes
      BY <1>a
    <2>6. Len(line') + 1 = 0 + Len(got) /\ Len(got) <= UidBytes + 1
      BY <2>2, <2>3, <1>l, <1>n
    <2>7. Len(line') <= UidBytes
      BY <2>4, <2>5, <2>6
    <2> QED
      BY <2>3, <2>7, <1>d
  <1>p. pc' \in {"familyData", "erase"}
    BY <1>g
  <1>h. /\ dev'.phase \in Idle \cup Counting
        /\ dev'.phase \in Counting => Len(line') <= 1
    BY <1>d, <1>l, <1>m, <1>n DEF Counting, Idle
  <1>1. Typed'
    BY <1>r, <1>d, <1>m, <1>p, SeqSubset, SignalsAre, ExchangeType DEF Places, Erasing, Family
  <1>2. Identifying'
    BY <1>p, <1>w DEF Identifying
  <1>3. Replacing'
    BY <1>p, <1>d, <1>h, <1>m DEF IInv, Replacing, Erasing, Writing
  <1>4. ReadingBack'
    BY <1>p, <1>d DEF IInv, ReadingBack, Early, Family, Erasing, Writing, Reading, hostVars
  <1>5. Running'
    BY <1>p, <1>d DEF IInv, Running, Early, hostVars
  <1>6. FirstCall'
    BY <1>p, <1>d, <1>h DEF IInv, FirstCall, Early, Idle, Counting, hostVars
  <1>7. Untouched'
    BY <1>p, <1>d DEF IInv, Untouched, Early, Ending, hostVars
  <1> QED
    BY <1>1, <1>2, <1>3, <1>4, <1>5, <1>6, <1>7 DEF IInv

LEMMA MinIs ==
    ASSUME NEW a \in Nat, NEW b \in Nat
    PROVE  Min({a, b}) = IF a <= b THEN a ELSE b
  BY DEF Min

\* k bytes are taken of a line.
LEMMA TakenIs ==
    ASSUME NEW S, NEW l \in Seq(S), NEW k \in 0 .. Len(l)
    PROVE  /\ SubSeq(l, 1, k) \in Seq(S) /\ Len(SubSeq(l, 1, k)) = k
           /\ \A i \in 1 .. k : SubSeq(l, 1, k)[i] = l[i]
           /\ SubSeq(l, k + 1, Len(l)) \in Seq(S)
           /\ k = Len(l) => SubSeq(l, k + 1, Len(l)) = <<>>
  <1>1. Len(l) \in Nat /\ k \in Nat /\ k <= Len(l)
    OBVIOUS
  <1>2. k = Len(l) => SubSeq(l, k + 1, Len(l)) = <<>>
    BY <1>1, NothingLeft
  <1>3. /\ SubSeq(l, 1, k) \in Seq(S) /\ Len(SubSeq(l, 1, k)) = k
        /\ \A i \in 1 .. k : SubSeq(l, 1, k)[i] = l[i]
    BY <1>1, SubSeqProperties
  <1>4. SubSeq(l, k + 1, Len(l)) \in Seq(S)
    BY <1>1
  <1> QED
    BY <1>2, <1>3, <1>4

LEMMA ReceiveFamilyKeeps ==
    ASSUME IInv, ReceiveFamily
    PROVE  IInv'
  <1>a. UidBytes \in Nat \ {0}
    BY Stm32LoaderAssumption
  <1>0. /\ pc = "familyData" /\ reads' = reads - 1
        /\ UNCHANGED <<setup, dev, gpioResetFlag, tries, extended_erase, pos, read_data,
                       successFlag, result, identified, emptySource, attempts>>
        /\ \E k \in 0 .. Min({UidBytes, Len(line)}) :
              /\ faults' \in 0 .. MaxFaults
              /\ line' = SubSeq(line, k + 1, Len(line))
              /\ pc' = IF Len(SubSeq(line, 1, k)) = UidBytes /\ reads > 1 THEN "family" ELSE "erase"
    BY DEF ReceiveFamily, ReadBytes, Fault, IInv, Typed, TypeOK
  <1>k. PICK k \in 0 .. Min({UidBytes, Len(line)}) :
              /\ faults' \in 0 .. MaxFaults
              /\ line' = SubSeq(line, k + 1, Len(line))
              /\ pc' = IF Len(SubSeq(line, 1, k)) = UidBytes /\ reads > 1 THEN "family" ELSE "erase"
    BY <1>0
  <1>t. /\ dev \in Devices /\ line \in Seq(Signals) /\ Len(line) \in Nat
        /\ dev.phase = "ready" /\ Len(line) <= UidBytes
    BY <1>0 DEF IInv, Typed, Identifying, Replacing
  <1>m. k \in 0 .. Len(line)
    BY <1>a, <1>t, <1>k, MinIs
  <1>l. line' \in Seq(Signals) /\ (pc' = "family" => line' = <<>>)
    <2>1. line' \in Seq(Signals) /\ (k = Len(line) => line' = <<>>)
      BY <1>t, <1>k, <1>m, TakenIs
    <2>2. Len(SubSeq(line, 1, k)) = k
      BY <1>t, <1>m, TakenIs
    <2>3. pc' = "family" => k = UidBytes
      BY <1>k, <2>2
    <2> QED
      BY <2>1, <2>3, <1>a, <1>t, <1>m
  <1>p. pc' \in {"family", "erase"} /\ (pc' = "family" => reads > 1)
    BY <1>k
  <1>e. reads' \in 0 .. 2 /\ (pc' = "family" => reads' # 0)
    BY <1>0, <1>p DEF IInv, Typed, TypeOK, Family
  <1>1. Typed'
    <2>1. line' \in Seq(Bytes)
      BY <1>l, SeqSubset, SignalsAre
    <2>2. TypeOK'
      BY <1>0, <1>k, <1>p, <1>e, <2>1 DEF IInv, Typed, TypeOK
    <2> QED
      BY <1>0, <1>p, <1>e, <2>2 DEF IInv, Typed, Family
  <1>2. Identifying'
    BY <1>0, <1>t, <1>l, <1>p DEF Identifying, Idle
  <1>3. Replacing'
    BY <1>0, <1>t, <1>l, <1>p DEF IInv, Replacing, Erasing, Writing, Idle, Counting
  <1>4. ReadingBack'
    BY <1>0, <1>p DEF IInv, ReadingBack, Early, Family, Erasing, Writing, Reading
  <1>5. Running'
    BY <1>0, <1>p DEF IInv, Running, Early
  <1>6. FirstCall'
    BY <1>0, <1>p DEF IInv, FirstCall, Early
  <1>7. Untouched'
    BY <1>0, <1>p DEF IInv, Untouched, Early, Ending, Family
  <1> QED
    BY <1>1, <1>2, <1>3, <1>4, <1>5, <1>6, <1>7 DEF IInv

-----------------------------------------------------------------------------
(* Erasing and writing                                                     *)

LEMMA LastByte ==
    ASSUME NEW l \in Seq(Signals), Len(l) <= 1, NEW rest, Passed(l, <<>>, rest)
    PROVE  rest = <<>>
  <1>1. <<>> \in Seq(Signals) /\ Len(<<>>) = 0
    OBVIOUS
  <1>2. rest \in Seq(Signals) /\ Len(rest) + 1 = Len(l) + Len(<<>>)
    BY <1>1, PassedIs
  <1>3. \A a, b \in Nat : a + 1 = b + 0 /\ b <= 1 => a = 0
    OBVIOUS
  <1>4. Len(rest) \in Nat /\ Len(l) \in Nat
    BY <1>2
  <1>5. Len(rest) + 1 = Len(l) + 0
    BY <1>1, <1>2
  <1>6. Len(rest) = 0
    BY <1>3, <1>4, <1>5
  <1> QED
    BY <1>2, <1>6

\* The answer to a message of this part is short, or no answer to it.
LEMMA ShortAnswer ==
    ASSUME NEW d, NEW r, NEW got, Garbled(r.out, got),
           Refused(d, r) \/ r.out = <<Boot!Ack>> \/ r.out = LongCount
    PROVE  /\ got \in Seq(Signals)
           /\ Refused(d, r) /\ r.dev.phase # "ready" => got = <<>>
  <1>1. CASE Refused(d, r)
    BY <1>1, RefusedGives
  <1>2. CASE r.out = <<Boot!Ack>>
    BY <1>2, AckedGives, RefusedGives
  <1>3. CASE r.out = LongCount
    <2>1. Signals \cup {Noise} \subseteq Signals
      BY SignalsAre
    <2>2. got \in Seq(Signals)
      BY <1>3, <2>1, LongAnswer, GarbledIn
    <2> QED
      BY <2>2, RefusedGives
  <1> QED
    BY <1>1, <1>2, <1>3

LEMMA EraseCommandKeeps ==
    ASSUME IInv, pc = "erase",
           Command(IF extended_erase THEN "extendedErase" ELSE "erase", "pages", "failed"),
           UNCHANGED <<setup, hostVars, attempts>>
    PROVE  IInv'
  <1> DEFINE c == IF extended_erase THEN "extendedErase" ELSE "erase"
             m == Boot!CommandMessage(c)
  <1>c. c \in {"erase", "extendedErase"}
    OBVIOUS
  <1>0. WriteAndAck(m, "pages", "failed")
    BY DEF Command
  <1> HIDE DEF c
  <1>t. /\ dev \in Devices /\ faults \in 0 .. MaxFaults /\ m \in Messages
        /\ line \in Seq(Signals) /\ dev.phase \in Idle \cup Counting
        /\ dev.phase \in Counting => Len(line) <= 1
    BY <1>c DEF IInv, Typed, TypeOK, Replacing, Erasing, Messages
  <1>r. /\ faults' \in 0 .. MaxFaults
        /\ \E r \in Reactions(dev, m) : \E got :
              /\ Garbled(r.out, got)
              /\ dev' = r.dev
              /\ \/ pc' = "pages" /\ Passed(line, got, line')
                 \/ pc' = "failed" /\ Stuck(line, got, line')
    BY <1>0, <1>t, AckGives
  <1>got. PICK r \in Reactions(dev, m) : \E got :
            /\ Garbled(r.out, got)
            /\ dev' = r.dev
            /\ \/ pc' = "pages" /\ Passed(line, got, line')
               \/ pc' = "failed" /\ Stuck(line, got, line')
    BY <1>r
  <1>g. PICK got :
            /\ Garbled(r.out, got)
            /\ dev' = r.dev
            /\ \/ pc' = "pages" /\ Passed(line, got, line')
               \/ pc' = "failed" /\ Stuck(line, got, line')
    BY <1>got
  <1>x. \/ Refused(dev, r)
        \/ dev.phase = "ready" /\ Moved(dev, r, "erasePages", <<Boot!Ack>>)
        \/ dev.phase = "readCount" /\ Moved(dev, r, "ready", LongCount)
    BY <1>c, <1>t, EraseReaction
  <1>y. Refused(dev, r) \/ r.out = <<Boot!Ack>> \/ r.out = LongCount
    BY <1>x DEF Moved
  <1>d. /\ dev' \in Devices /\ dev'.mem = dev.mem
        /\ dev'.phase \in Idle \cup Counting \cup {"erasePages"}
        /\ dev'.phase \in Counting => Refused(dev, r) /\ dev'.phase = dev.phase
    BY <1>t, <1>g, <1>x DEF Refused, Moved, Idle, Counting
  <1>l. got \in Seq(Signals) /\ (dev'.phase \in Counting => got = <<>>)
    BY <1>g, <1>y, <1>d, ShortAnswer DEF Counting
  <1>m. line' \in Seq(Signals)
    BY <1>g, <1>t, <1>l, RestIn
  <1>w. pc' = "pages" /\ dev'.phase \in Counting => line' = <<>>
    <2> SUFFICES ASSUME pc' = "pages", dev'.phase \in Counting
                 PROVE  line' = <<>>
      OBVIOUS
    <2>1. Passed(line, <<>>, line') /\ Len(line) <= 1
      BY <1>g, <1>l, <1>d, <1>t
    <2> QED
      BY <2>1, <1>t, LastByte
  <1>p. pc' \in {"pages", "failed"}
    BY <1>g
  <1>1. Typed'
    BY <1>r, <1>d, <1>m, <1>p, SeqSubset, SignalsAre, ExchangeType
       DEF Places, Erasing, Ending, Family
  <1>2. Identifying'
    BY <1>p DEF Identifying
  <1>3. Replacing'
    BY <1>p, <1>d, <1>w, <1>m DEF IInv, Replacing, Erasing, Writing
  <1>4. ReadingBack'
    BY <1>p, <1>d DEF IInv, ReadingBack, Early, Family, Erasing, Writing, Reading, hostVars
  <1>5. Running'
    BY <1>p, <1>d DEF IInv, Running, Early, hostVars
  <1>6. FirstCall'
    BY <1>p, <1>d DEF IInv, FirstCall, Early, Idle, Counting, hostVars
  <1>7. Untouched'
    BY <1>p, <1>d DEF IInv, Untouched, Early, Ending, hostVars
  <1> QED
    BY <1>1, <1>2, <1>3, <1>4, <1>5, <1>6, <1>7 DEF IInv

LEMMA ErasePagesKeeps ==
    ASSUME IInv, pc = "pages",
           WriteAndAck(Boot!PagesMessage(extended_erase),
                       IF emptySource THEN "close" ELSE "write", "failed"),
           UNCHANGED <<setup, hostVars, attempts>>
    PROVE  IInv'
  <1> DEFINE m == Boot!PagesMessage(extended_erase)
             next == IF emptySource THEN "close" ELSE "write"
  <1>t. /\ dev \in Devices /\ faults \in 0 .. MaxFaults /\ extended_erase \in BOOLEAN
        /\ line \in Seq(Signals) /\ dev.phase \in Idle \cup Counting \cup {"erasePages"}
        /\ dev.phase \in Counting => line = <<>>
    BY DEF IInv, Typed, TypeOK, Replacing, Erasing
  <1>n. m \in Messages
    BY <1>t DEF Messages
  <1>r. /\ faults' \in 0 .. MaxFaults
        /\ \E r \in Reactions(dev, m) : \E got :
              /\ Garbled(r.out, got)
              /\ dev' = r.dev
              /\ \/ pc' = next /\ Passed(line, got, line')
                 \/ pc' = "failed" /\ Stuck(line, got, line')
    BY <1>n, <1>t, AckGives
  <1>got. PICK r \in Reactions(dev, m) : \E got :
            /\ Garbled(r.out, got)
            /\ dev' = r.dev
            /\ \/ pc' = next /\ Passed(line, got, line')
               \/ pc' = "failed" /\ Stuck(line, got, line')
    BY <1>r
  <1>g. PICK got :
            /\ Garbled(r.out, got)
            /\ dev' = r.dev
            /\ \/ pc' = next /\ Passed(line, got, line')
               \/ pc' = "failed" /\ Stuck(line, got, line')
    BY <1>got
  <1>x. \/ Refused(dev, r)
        \/ /\ r.dev \in Devices /\ r.dev.phase = "ready" /\ r.out = <<Boot!Ack>>
           /\ \A i \in 1 .. FlashSize : r.dev.mem[i] = Blank
    BY <1>t, PagesReaction
  <1>d. /\ dev' \in Devices
        /\ dev'.mem = dev.mem \/ (\A i \in 1 .. FlashSize : dev'.mem[i] = Blank)
        /\ dev'.phase \in Idle \cup Counting \cup {"erasePages"}
        /\ dev'.phase \in Counting => Refused(dev, r) /\ dev'.phase = dev.phase
    BY <1>t, <1>g, <1>x DEF Refused, Idle, Counting
  <1>l. got \in Seq(Signals) /\ (dev'.phase \in Counting => got = <<>>)
    BY <1>g, <1>x, <1>d, ShortAnswer DEF Counting
  <1>m. line' \in Seq(Signals)
    BY <1>g, <1>t, <1>l, RestIn
  <1>w. pc' = "write" => dev'.phase \notin Counting
    <2> SUFFICES ASSUME pc' = "write", dev'.phase \in Counting
                 PROVE  FALSE
      OBVIOUS
    <2>1. Passed(<<>>, got, line') /\ Refused(dev, r)
      <3>1. Passed(line, got, line')
        BY <1>g
      <3> QED
        BY <3>1, <1>l, <1>d, <1>t
    <2> QED
      BY <2>1, <1>g, RefusedGives
  <1>p. pc' \in {"write", "close", "failed"} /\ (pc' = "close" => emptySource')
    BY <1>g DEF hostVars
  <1>1. Typed'
    BY <1>r, <1>d, <1>m, <1>p, SeqSubset, SignalsAre, ExchangeType
       DEF Places, Writing, Ending, Family
  <1>2. Identifying'
    BY <1>p DEF Identifying
  <1>3. Replacing'
    BY <1>p, <1>d, <1>w, <1>m DEF IInv, Replacing, Erasing, Writing, Idle
  <1>4. ReadingBack'
    BY <1>p, <1>d DEF IInv, ReadingBack, Early, Family, Erasing, Writing, Reading, hostVars
  <1>5. Running'
    BY <1>p, <1>d DEF IInv, Running, Early, hostVars
  <1>6. FirstCall'
    BY <1>p, <1>d DEF IInv, FirstCall, Early, Idle, Counting, hostVars
  <1>7. Untouched'
    BY <1>p, <1>d DEF IInv, Untouched, Early, Ending, hostVars
  <1> QED
    BY <1>1, <1>2, <1>3, <1>4, <1>5, <1>6, <1>7 DEF IInv

LEMMA WriteCommandKeeps ==
    ASSUME IInv, pc = "write", Command("write", "writeAddress", "failed"),
           UNCHANGED <<setup, hostVars, attempts>>
    PROVE  IInv'
  <1> DEFINE m == Boot!CommandMessage("write")
  <1>t. /\ dev \in Devices /\ faults \in 0 .. MaxFaults /\ m \in Messages
        /\ line \in Seq(Signals)
        /\ dev.phase \in Idle \cup {"erasePages", "writeAddress", "writeData"}
        /\ dev.phase = "writeData" => dev.addr <= pos
    BY DEF IInv, Typed, TypeOK, Replacing, Writing, Messages
  <1>r. /\ faults' \in 0 .. MaxFaults
        /\ \E r \in Reactions(dev, m) : \E got :
              /\ Garbled(r.out, got)
              /\ dev' = r.dev
              /\ \/ pc' = "writeAddress" /\ Passed(line, got, line')
                 \/ pc' = "failed" /\ Stuck(line, got, line')
    BY <1>t, AckGives DEF Command
  <1>got. PICK r \in Reactions(dev, m) : \E got :
            /\ Garbled(r.out, got)
            /\ dev' = r.dev
            /\ \/ pc' = "writeAddress" /\ Passed(line, got, line')
               \/ pc' = "failed" /\ Stuck(line, got, line')
    BY <1>r
  <1>g. PICK got :
            /\ Garbled(r.out, got)
            /\ dev' = r.dev
            /\ \/ pc' = "writeAddress" /\ Passed(line, got, line')
               \/ pc' = "failed" /\ Stuck(line, got, line')
    BY <1>got
  <1>x. Refused(dev, r) \/ Moved(dev, r, "writeAddress", <<Boot!Ack>>)
    BY <1>t, OpeningReaction DEF Idle
  <1>y. Refused(dev, r) \/ r.out = <<Boot!Ack>> \/ r.out = LongCount
    BY <1>x DEF Moved
  <1>d. /\ dev' \in Devices /\ dev'.mem = dev.mem
        /\ dev'.phase \in Idle \cup {"erasePages", "writeAddress", "writeData"}
        /\ dev'.phase = "writeData" => dev'.addr <= pos
    BY <1>t, <1>g, <1>x DEF Refused, Moved, Idle
  <1>l. got \in Seq(Signals)
    BY <1>g, <1>y, ShortAnswer
  <1>m. line' \in Seq(Signals)
    BY <1>g, <1>t, <1>l, RestIn
  <1>p. pc' \in {"writeAddress", "failed"} /\ pos' = pos
    BY <1>g DEF hostVars
  <1>1. Typed'
    BY <1>r, <1>d, <1>m, <1>p, SeqSubset, SignalsAre, ExchangeType
       DEF Places, Writing, Ending, Family
  <1>2. Identifying'
    BY <1>p DEF Identifying
  <1>3. Replacing'
    BY <1>p, <1>d, <1>m DEF IInv, Replacing, Erasing, Writing, Idle
  <1>4. ReadingBack'
    BY <1>p, <1>d DEF IInv, ReadingBack, Early, Family, Erasing, Writing, Reading, hostVars
  <1>5. Running'
    BY <1>p, <1>d DEF IInv, Running, Early, hostVars
  <1>6. FirstCall'
    BY <1>p, <1>d DEF IInv, FirstCall, Early, Idle, hostVars
  <1>7. Untouched'
    BY <1>p, <1>d DEF IInv, Untouched, Early, Ending, Writing, hostVars
  <1> QED
    BY <1>1, <1>2, <1>3, <1>4, <1>5, <1>6, <1>7 DEF IInv

LEMMA WriteAddressKeeps ==
    ASSUME IInv, pc = "writeAddress", EncodeAddress(pos, "writeData", "failed"),
           UNCHANGED <<setup, hostVars, attempts>>
    PROVE  IInv'
  <1> DEFINE m == Boot!AddressMessage(pos)
  <1>a. pos \in 0 .. FlashSize /\ pos \in Nat
    BY FileIs DEF IInv, Typed, TypeOK
  <1>t. /\ dev \in Devices /\ faults \in 0 .. MaxFaults /\ m \in Messages
        /\ line \in Seq(Signals)
        /\ dev.phase \in Idle \cup {"erasePages", "writeAddress", "writeData"}
        /\ dev.phase = "writeData" => dev.addr <= pos
    BY <1>a DEF IInv, Typed, TypeOK, Replacing, Writing, Messages
  <1>r. /\ faults' \in 0 .. MaxFaults
        /\ \E r \in Reactions(dev, m) : \E got :
              /\ Garbled(r.out, got)
              /\ dev' = r.dev
              /\ \/ pc' = "writeData" /\ Passed(line, got, line')
                 \/ pc' = "failed" /\ Stuck(line, got, line')
    BY <1>t, AckGives DEF EncodeAddress
  <1>got. PICK r \in Reactions(dev, m) : \E got :
            /\ Garbled(r.out, got)
            /\ dev' = r.dev
            /\ \/ pc' = "writeData" /\ Passed(line, got, line')
               \/ pc' = "failed" /\ Stuck(line, got, line')
    BY <1>r
  <1>g. PICK got :
            /\ Garbled(r.out, got)
            /\ dev' = r.dev
            /\ \/ pc' = "writeData" /\ Passed(line, got, line')
               \/ pc' = "failed" /\ Stuck(line, got, line')
    BY <1>got
  <1>x. \/ Refused(dev, r)
        \/ /\ r.dev \in Devices /\ r.dev.phase = "writeData" /\ r.dev.addr = pos
           /\ r.dev.mem = dev.mem /\ r.out = <<Boot!Ack>>
    BY <1>a, <1>t, AddressReaction DEF Idle
  <1>y. Refused(dev, r) \/ r.out = <<Boot!Ack>> \/ r.out = LongCount
    BY <1>x
  <1>d. /\ dev' \in Devices /\ dev'.mem = dev.mem
        /\ dev'.phase \in Idle \cup {"erasePages", "writeAddress", "writeData"}
        /\ dev'.phase = "writeData" => dev'.addr <= pos
    BY <1>a, <1>t, <1>g, <1>x DEF Refused, Idle
  <1>l. got \in Seq(Signals)
    BY <1>g, <1>y, ShortAnswer
  <1>m. line' \in Seq(Signals)
    BY <1>g, <1>t, <1>l, RestIn
  <1>p. pc' \in {"writeData", "failed"} /\ pos' = pos
    BY <1>g DEF hostVars
  <1>1. Typed'
    BY <1>r, <1>d, <1>m, <1>p, SeqSubset, SignalsAre, ExchangeType
       DEF Places, Writing, Ending, Family
  <1>2. Identifying'
    BY <1>p DEF Identifying
  <1>3. Replacing'
    BY <1>p, <1>d, <1>m DEF IInv, Replacing, Erasing, Writing, Idle
  <1>4. ReadingBack'
    BY <1>p, <1>d DEF IInv, ReadingBack, Early, Family, Erasing, Writing, Reading, hostVars
  <1>5. Running'
    BY <1>p, <1>d DEF IInv, Running, Early, hostVars
  <1>6. FirstCall'
    BY <1>p, <1>d DEF IInv, FirstCall, Early, Idle, hostVars
  <1>7. Untouched'
    BY <1>p, <1>d DEF IInv, Untouched, Early, Ending, Writing, hostVars
  <1> QED
    BY <1>1, <1>2, <1>3, <1>4, <1>5, <1>6, <1>7 DEF IInv

\* The chunk at pos is a part of the file that is not empty.
LEMMA ChunkIs ==
    ASSUME pos \in 0 .. Len(File) - 1
    PROVE  /\ Chunk \in Seq(Memory) /\ Len(Chunk) \in 1 .. Len(File) - pos
           /\ \A i \in 1 .. Len(Chunk) : Chunk[i] = File[pos + i]
  <1> DEFINE e == Min({pos + TransferSize, Len(File)})
  <1>1. TransferSize \in Nat \ {0} /\ Len(File) \in Nat \ {0} /\ pos \in Nat /\ pos < Len(File)
    BY FileIs, Stm32LoaderAssumption
  <1>2. e \in pos + 1 .. Len(File)
    <2>1. pos + TransferSize \in Nat
      BY <1>1
    <2>2. e = IF pos + TransferSize <= Len(File) THEN pos + TransferSize ELSE Len(File)
      BY <1>1, <2>1, MinIs
    <2> HIDE DEF e
    <2> QED
      BY <1>1, <2>2
  <1> HIDE DEF e
  <1>3. /\ SubSeq(File, pos + 1, e) \in Seq(Memory)
        /\ Len(SubSeq(File, pos + 1, e)) = e - pos
        /\ \A i \in 1 .. e - pos : SubSeq(File, pos + 1, e)[i] = File[pos + i]
    <2>1. pos + 1 \in 1 .. Len(File) + 1 /\ e \in (pos + 1) - 1 .. Len(File)
      BY <1>1, <1>2
    <2>2. /\ SubSeq(File, pos + 1, e) \in Seq(Memory)
          /\ Len(SubSeq(File, pos + 1, e)) = IF pos + 1 <= e THEN e - (pos + 1) + 1 ELSE 0
          /\ \A i \in 1 .. e - (pos + 1) + 1 :
                SubSeq(File, pos + 1, e)[i] = File[(pos + 1) + i - 1]
      BY <2>1, FileIs, SubSeqProperties
    <2>3. pos + 1 <= e /\ e - (pos + 1) + 1 = e - pos
      BY <1>1, <1>2
    <2>4. \A i \in 1 .. e - pos : (pos + 1) + i - 1 = pos + i
      BY <1>1, <1>2
    <2> QED
      BY <2>2, <2>3, <2>4
  <1>4. e - pos \in 1 .. Len(File) - pos
    BY <1>1, <1>2
  <1>5. Chunk = SubSeq(File, pos + 1, e)
    BY DEF Chunk, e
  <1> QED
    BY <1>3, <1>4, <1>5

\* What is behind the chunk is blank.
LEMMA PaddedIs ==
    ASSUME NEW bytes \in Seq(Memory)
    PROVE  /\ Padded(bytes) \in Seq(Memory)
           /\ \A i \in 1 .. Len(Padded(bytes)) : i > Len(bytes) => Padded(bytes)[i] = Blank
  <1> DEFINE n == (PadUnit - (Len(bytes) % PadUnit)) % PadUnit
             pad == [i \in 1 .. n |-> Blank]
  <1>1. PadUnit \in Nat \ {0} /\ Len(bytes) \in Nat /\ Blank \in Memory
    BY Stm32LoaderAssumption DEF Memory
  <1>2. n \in Nat
    BY <1>1
  <1> HIDE DEF n
  <1>3. pad \in Seq(Memory) /\ Len(pad) = n /\ \A i \in 1 .. n : pad[i] = Blank
    BY <1>1, <1>2
  <1> HIDE DEF pad
  <1> DEFINE all == bytes \o pad
  <1>4. /\ all \in Seq(Memory) /\ Len(all) = Len(bytes) + Len(pad)
        /\ \A i \in 1 .. Len(bytes) + Len(pad) :
              all[i] = IF i <= Len(bytes) THEN bytes[i] ELSE pad[i - Len(bytes)]
    BY <1>3, ConcatProperties
  <1> HIDE DEF all
  <1>5. ASSUME NEW i \in 1 .. Len(all), i > Len(bytes)
        PROVE  all[i] = Blank
    <2>1. i \in 1 .. Len(bytes) + Len(pad) /\ ~(i <= Len(bytes)) /\ i - Len(bytes) \in 1 .. n
      BY <1>1, <1>2, <1>3, <1>4, <1>5
    <2> QED
      BY <2>1, <1>3, <1>4
  <1>6. Padded(bytes) = all
    BY DEF Padded, all, pad, n
  <1> QED
    BY <1>4, <1>5, <1>6

\* Nothing that is written at or before pos reaches behind the file, except
\* for blanks; where nothing was erased, nothing is written.
LEMMA DataStaysInTheFile ==
    ASSUME pos \in 0 .. Len(File) - 1, NEW d \in Devices, NEW e \in Devices, d.addr <= pos,
           \A i \in 1 .. FlashSize :
              \/ e.mem[i] = d.mem[i]
              \/ /\ d.mem[i] = Blank /\ i - d.addr \in 1 .. Len(Padded(Chunk))
                 /\ e.mem[i] = Padded(Chunk)[i - d.addr],
           d.mem = OldImage \/ (\A i \in 1 .. FlashSize : i > Len(File) => d.mem[i] = Blank)
    PROVE  e.mem = OldImage \/ (\A i \in 1 .. FlashSize : i > Len(File) => e.mem[i] = Blank)
  <1> DEFINE bytes == Padded(Chunk)
  <1>1. /\ Chunk \in Seq(Memory) /\ Len(Chunk) \in 1 .. Len(File) - pos
        /\ d.addr \in Nat /\ Len(File) \in Nat /\ FlashSize \in Nat /\ pos \in Nat
    BY ChunkIs, FileIs DEF Devices
  <1>2. \A i \in 1 .. Len(bytes) : i > Len(Chunk) => bytes[i] = Blank
    BY <1>1, PaddedIs
  <1>3. \A i \in 1 .. FlashSize :
              \/ e.mem[i] = d.mem[i]
              \/ /\ d.mem[i] = Blank /\ i - d.addr \in 1 .. Len(bytes)
                 /\ e.mem[i] = bytes[i - d.addr]
    OBVIOUS
  <1> HIDE DEF bytes
  <1>4. ASSUME NEW i \in 1 .. FlashSize, i > Len(File), d.mem[i] = Blank
        PROVE  e.mem[i] = Blank
    <2>1. CASE e.mem[i] = d.mem[i]
      BY <1>4, <2>1
    <2>2. CASE i - d.addr \in 1 .. Len(bytes) /\ e.mem[i] = bytes[i - d.addr]
      <3>1. i - d.addr > Len(Chunk)
        BY <1>1, <1>4
      <3> QED
        BY <1>2, <2>2, <3>1
    <2> QED
      BY <1>3, <2>1, <2>2
  <1>5. CASE d.mem = OldImage /\ Old # Blank
    <2>1. \A i \in 1 .. FlashSize : d.mem[i] # Blank
      BY <1>5 DEF OldImage
    <2>2. \A i \in 1 .. FlashSize : e.mem[i] = d.mem[i]
      BY <1>3, <2>1
    <2>3. d.mem \in [1 .. FlashSize -> Memory] /\ e.mem \in [1 .. FlashSize -> Memory]
      BY DEF Devices
    <2>4. e.mem = [i \in 1 .. FlashSize |-> e.mem[i]]
      BY <2>3
    <2>5. \A i \in 1 .. FlashSize : e.mem[i] = Old
      BY <1>5, <2>2 DEF OldImage
    <2>6. e.mem = OldImage
      BY <2>4, <2>5 DEF OldImage
    <2> QED
      BY <2>6
  <1>6. CASE d.mem = OldImage /\ Old = Blank
    <2>1. \A i \in 1 .. FlashSize : d.mem[i] = Blank
      BY <1>6 DEF OldImage
    <2> QED
      BY <1>4, <2>1
  <1>7. CASE \A i \in 1 .. FlashSize : i > Len(File) => d.mem[i] = Blank
    BY <1>4, <1>7
  <1> QED
    BY <1>5, <1>6, <1>7

LEMMA WriteDataKeeps ==
    ASSUME IInv, WriteData
    PROVE  IInv'
  <1> DEFINE last == pos + Len(Chunk) = Len(File)
             onAck == IF last THEN "read" ELSE "write"
             m == Boot!DataMessage(Padded(Chunk))
  <1>0. /\ pc = "writeData"
        /\ WriteAndAck(m, onAck, "failed")
        /\ pos' = IF last THEN 0 ELSE pos + Len(Chunk)
        /\ UNCHANGED <<setup, gpioResetFlag, tries, extended_erase, reads, read_data, successFlag,
                       result, identified, emptySource, attempts>>
    BY DEF WriteData
  <1>a. /\ pos \in 0 .. Len(File) - 1 /\ Len(File) \in Nat \ {0}
        /\ Chunk \in Seq(Memory) /\ Len(Chunk) \in 1 .. Len(File) - pos
        /\ Padded(Chunk) \in Seq(Memory)
    BY FileIs, ChunkIs, PaddedIs DEF IInv, Typed, TypeOK
  <1>t. /\ dev \in Devices /\ faults \in 0 .. MaxFaults /\ m \in Messages
        /\ line \in Seq(Signals)
        /\ dev.phase \in Idle \cup {"erasePages", "writeAddress", "writeData"}
        /\ dev.phase = "writeData" => dev.addr <= pos
    BY <1>0, <1>a DEF IInv, Typed, TypeOK, Replacing, Writing, Messages
  <1>r. /\ faults' \in 0 .. MaxFaults
        /\ \E r \in Reactions(dev, m) : \E got :
              /\ Garbled(r.out, got)
              /\ dev' = r.dev
              /\ \/ pc' = onAck /\ Passed(line, got, line')
                 \/ pc' = "failed" /\ Stuck(line, got, line')
    BY <1>0, <1>t, AckGives
  <1>got. PICK r \in Reactions(dev, m) : \E got :
            /\ Garbled(r.out, got)
            /\ dev' = r.dev
            /\ \/ pc' = onAck /\ Passed(line, got, line')
               \/ pc' = "failed" /\ Stuck(line, got, line')
    BY <1>r
  <1>g. PICK got :
            /\ Garbled(r.out, got)
            /\ dev' = r.dev
            /\ \/ pc' = onAck /\ Passed(line, got, line')
               \/ pc' = "failed" /\ Stuck(line, got, line')
    BY <1>got
  <1>x. \/ Refused(dev, r)
        \/ /\ dev.phase = "writeData" /\ r.dev \in Devices
           /\ r.dev.phase = "ready" /\ r.out = <<Boot!Ack>>
           /\ \A i \in 1 .. FlashSize :
                 \/ r.dev.mem[i] = dev.mem[i]
                 \/ /\ dev.mem[i] = Blank /\ i - dev.addr \in 1 .. Len(Padded(Chunk))
                    /\ r.dev.mem[i] = Padded(Chunk)[i - dev.addr]
    BY <1>a, <1>t, DataReaction
  <1>y. Refused(dev, r) \/ r.out = <<Boot!Ack>> \/ r.out = LongCount
    BY <1>x
  <1>d. /\ dev' \in Devices
        /\ dev'.phase \in Idle \cup {"erasePages", "writeAddress", "writeData"}
        /\ dev'.phase = "writeData" => dev'.addr <= pos
    BY <1>t, <1>g, <1>x DEF Refused, Idle
  <1>e. dev'.mem = OldImage \/ (\A i \in 1 .. FlashSize : i > Len(File) => dev'.mem[i] = Blank)
    <2>1. dev.mem = OldImage \/ (\A i \in 1 .. FlashSize : i > Len(File) => dev.mem[i] = Blank)
      BY DEF IInv, Replacing
    <2>2. CASE Refused(dev, r)
      <3>1. dev'.mem = dev.mem
        BY <1>g, <2>2 DEF Refused
      <3> QED
        BY <2>1, <3>1
    <2>3. CASE ~Refused(dev, r)
      <3>1. r.dev \in Devices /\ dev.addr <= pos
        BY <1>x, <1>t, <2>3
      <3>2. \A i \in 1 .. FlashSize :
                 \/ r.dev.mem[i] = dev.mem[i]
                 \/ /\ dev.mem[i] = Blank /\ i - dev.addr \in 1 .. Len(Padded(Chunk))
                    /\ r.dev.mem[i] = Padded(Chunk)[i - dev.addr]
        BY <1>x, <2>3
      <3>3. \/ r.dev.mem = OldImage
            \/ \A i \in 1 .. FlashSize : i > Len(File) => r.dev.mem[i] = Blank
        BY <1>a, <1>t, <2>1, <3>1, <3>2, DataStaysInTheFile
      <3> QED
        BY <3>3, <1>g
    <2> QED
      BY <2>2, <2>3
  <1>l. got \in Seq(Signals)
    BY <1>g, <1>y, ShortAnswer
  <1>m. line' \in Seq(Signals)
    BY <1>g, <1>t, <1>l, RestIn
  <1>p. /\ pc' \in {"read", "write", "failed"}
        /\ pos' \in 0 .. Len(File) - 1
        /\ pc' = "read" => pos' = 0
        /\ pc' = "write" => pos <= pos'
    <2> DEFINE n == Len(Chunk)
    <2>1. n \in 1 .. Len(File) - pos /\ pos' = IF pos + n = Len(File) THEN 0 ELSE pos + n
      BY <1>a, <1>0
    <2>2. pc' = "read" => pos + n = Len(File)
      BY <1>g
    <2>3. pc' = "write" => pos + n # Len(File)
      BY <1>g
    <2>4. pc' \in {"read", "write", "failed"}
      BY <1>g
    <2> HIDE DEF n, last, onAck
    <2> QED
      BY <1>a, <2>1, <2>2, <2>3, <2>4
  <1> HIDE DEF last, onAck, m
  <1>b. read_data = <<>> /\ read_data' = <<>>
    BY <1>0 DEF IInv, ReadingBack, Writing
  <1>1. Typed'
    <2>1. line' \in Seq(Bytes)
      BY <1>m, SeqSubset, SignalsAre
    <2>2. TypeOK'
      BY <1>0, <1>r, <1>d, <1>p, <2>1, DeviceType DEF IInv, Typed, TypeOK
    <2> QED
      BY <1>p, <1>d, <2>2 DEF Typed, Family
  <1>2. Identifying'
    BY <1>p DEF Identifying
  <1>3. Replacing'
    <2>1. pc' \in Writing /\ dev'.phase = "writeData" => dev'.addr <= pos'
      <3>1. pos \in Nat /\ pos' \in Nat /\ dev'.addr \in Nat
        BY <1>a, <1>p, <1>d DEF Devices
      <3> QED
        BY <1>p, <1>d, <3>1 DEF Writing
    <2> QED
      BY <1>p, <1>d, <1>e, <1>m, <2>1 DEF Replacing, Erasing, Writing
  <1>4. ReadingBack'
    <2>1. Len(<<>>) = 0
      OBVIOUS
    <2>2. pc' = "read" =>
              /\ dev'.phase \notin {"app", "goAddress"} /\ Len(read_data') <= pos'
              /\ \A i \in 1 .. pos' : dev'.mem[i] = File[i]
              /\ line' \in Seq(Signals)
              /\ dev'.phase \notin Counting
      BY <1>p, <1>b, <1>d, <1>m, <2>1 DEF Idle, Counting
    <2> QED
      BY <1>p, <1>b, <2>2 DEF ReadingBack, Early, Family, Erasing, Writing, Reading
  <1>5. Running'
    BY <1>0, <1>p DEF IInv, Running, Early
  <1>6. FirstCall'
    BY <1>0, <1>p, <1>d DEF IInv, FirstCall, Early, Idle
  <1>7. Untouched'
    BY <1>0, <1>p DEF IInv, Untouched, Early, Ending
  <1> QED
    BY <1>1, <1>2, <1>3, <1>4, <1>5, <1>6, <1>7 DEF IInv

-----------------------------------------------------------------------------
(* Reading back                                                            *)

\* What the invariant says before a chunk is read back.
LEMMA ReadingGives ==
    ASSUME IInv, pc \in Reading
    PROVE  /\ dev \in Devices /\ faults \in 0 .. MaxFaults /\ line \in Seq(Bytes)
           /\ pos \in 0 .. Len(File) - 1 /\ pos \in 0 .. FlashSize /\ Len(read_data) <= pos
           /\ dev.phase \notin {"app", "goAddress"}
           /\ SoFar /\ pc # "readData" => line \in Seq(Signals)
  BY FileIs DEF IInv, Typed, TypeOK, ReadingBack

LEMMA ReadCommandKeeps ==
    ASSUME IInv, pc = "read", Command("read", "readAddress", "failed"),
           UNCHANGED <<setup, hostVars, attempts>>
    PROVE  IInv'
  <1> DEFINE m == Boot!CommandMessage("read")
  <1>t. /\ dev \in Devices /\ faults \in 0 .. MaxFaults /\ m \in Messages
        /\ line \in Seq(Bytes) /\ (SoFar => line \in Seq(Signals))
        /\ dev.phase \notin {"app", "goAddress"}
    BY ReadingGives DEF Messages, Reading
  <1>s. SoFar => dev.phase \notin Counting
    BY DEF IInv, ReadingBack, Reading
  <1>r. /\ faults' \in 0 .. MaxFaults
        /\ \E r \in Reactions(dev, m) : \E got :
              /\ Garbled(r.out, got)
              /\ dev' = r.dev
              /\ \/ pc' = "readAddress" /\ Passed(line, got, line')
                 \/ pc' = "failed" /\ Stuck(line, got, line')
    BY <1>t, AckGives DEF Command
  <1>got. PICK r \in Reactions(dev, m) : \E got :
            /\ Garbled(r.out, got)
            /\ dev' = r.dev
            /\ \/ pc' = "readAddress" /\ Passed(line, got, line')
               \/ pc' = "failed" /\ Stuck(line, got, line')
    BY <1>r
  <1>g. PICK got :
            /\ Garbled(r.out, got)
            /\ dev' = r.dev
            /\ \/ pc' = "readAddress" /\ Passed(line, got, line')
               \/ pc' = "failed" /\ Stuck(line, got, line')
    BY <1>got
  <1>x. \/ Refused(dev, r)
        \/ Moved(dev, r, "readAddress", <<Boot!Ack>>)
        \/ dev.phase = "readCount" /\ Moved(dev, r, "ready", LongCount)
    BY <1>t, OpeningReaction
  <1>y. Refused(dev, r) \/ r.out = <<Boot!Ack>> \/ r.out = LongCount
    BY <1>x DEF Moved
  <1>d. /\ dev' \in Devices /\ dev'.mem = dev.mem
        /\ dev'.phase \notin {"app", "goAddress"}
        /\ SoFar => dev'.phase # "readCount"
    BY <1>t, <1>s, <1>g, <1>x DEF Refused, Moved, Counting
  <1>l. got \in Seq(Signals) /\ got \in Seq(Bytes)
    BY <1>g, <1>y, ShortAnswer, SeqSubset, SignalsAre
  <1>m. line' \in Seq(Bytes)
    BY <1>g, <1>t, <1>l, RestIn
  <1>n. SoFar => line' \in Seq(Signals)
    <2> SUFFICES ASSUME SoFar
                 PROVE  line' \in Seq(Signals)
      OBVIOUS
    <2> QED
      BY <1>g, <1>t, <1>l, RestIn
  <1>p. pc' \in {"readAddress", "failed"} /\ pos' = pos /\ read_data' = read_data
    BY <1>g DEF hostVars
  <1>1. Typed'
    BY <1>r, <1>d, <1>m, <1>p, ExchangeType DEF Places, Reading, Ending, Family
  <1>2. Identifying'
    BY <1>p DEF Identifying
  <1>3. Replacing'
    BY <1>p, <1>d DEF IInv, Replacing, Erasing, Writing
  <1>4. ReadingBack'
    <2>1. SoFar' <=> SoFar
      BY <1>p DEF SoFar
    <2>2. SoFar => \A i \in 1 .. pos' : dev'.mem[i] = File[i]
      BY <1>p, <1>d DEF IInv, ReadingBack, Reading
    <2>3. Len(read_data') <= pos'
      BY <1>p, ReadingGives DEF Reading
    <2> QED
      BY <1>p, <1>d, <1>n, <2>1, <2>2, <2>3
         DEF ReadingBack, Early, Family, Erasing, Writing, Reading
  <1>5. Running'
    BY <1>p, <1>d DEF IInv, Running, Early, hostVars
  <1>6. FirstCall'
    BY <1>p, <1>d DEF IInv, FirstCall, Early, hostVars
  <1>7. Untouched'
    BY <1>p, <1>d DEF IInv, Untouched, Early, Ending, hostVars
  <1> QED
    BY <1>1, <1>2, <1>3, <1>4, <1>5, <1>6, <1>7 DEF IInv

LEMMA ReadAddressKeeps ==
    ASSUME IInv, pc = "readAddress", EncodeAddress(pos, "readCount", "failed"),
           UNCHANGED <<setup, hostVars, attempts>>
    PROVE  IInv'
  <1> DEFINE m == Boot!AddressMessage(pos)
  <1>t. /\ dev \in Devices /\ faults \in 0 .. MaxFaults /\ m \in Messages
        /\ pos \in 0 .. FlashSize
        /\ line \in Seq(Bytes) /\ (SoFar => line \in Seq(Signals))
        /\ dev.phase \notin {"app", "goAddress"}
    BY ReadingGives DEF Messages, Reading
  <1>s. SoFar => dev.phase # "readCount"
    BY DEF IInv, ReadingBack, Reading
  <1>r. /\ faults' \in 0 .. MaxFaults
        /\ \E r \in Reactions(dev, m) : \E got :
              /\ Garbled(r.out, got)
              /\ dev' = r.dev
              /\ \/ pc' = "readCount" /\ Passed(line, got, line')
                 \/ pc' = "failed" /\ Stuck(line, got, line')
    BY <1>t, AckGives DEF EncodeAddress
  <1>got. PICK r \in Reactions(dev, m) : \E got :
            /\ Garbled(r.out, got)
            /\ dev' = r.dev
            /\ \/ pc' = "readCount" /\ Passed(line, got, line')
               \/ pc' = "failed" /\ Stuck(line, got, line')
    BY <1>r
  <1>g. PICK got :
            /\ Garbled(r.out, got)
            /\ dev' = r.dev
            /\ \/ pc' = "readCount" /\ Passed(line, got, line')
               \/ pc' = "failed" /\ Stuck(line, got, line')
    BY <1>got
  <1>x. \/ Refused(dev, r)
        \/ /\ r.dev.phase \in {"readCount", "writeData"}
           /\ r.dev \in Devices /\ r.dev.addr = pos
           /\ r.dev.mem = dev.mem /\ r.out = <<Boot!Ack>>
    BY <1>t, AddressReaction
  <1>y. Refused(dev, r) \/ r.out = <<Boot!Ack>> \/ r.out = LongCount
    BY <1>x
  <1>d. /\ dev' \in Devices /\ dev'.mem = dev.mem
        /\ dev'.phase \notin {"app", "goAddress"}
        /\ SoFar /\ dev'.phase = "readCount" => dev'.addr = pos
    BY <1>t, <1>s, <1>g, <1>x DEF Refused
  <1>l. got \in Seq(Signals) /\ got \in Seq(Bytes)
    BY <1>g, <1>y, ShortAnswer, SeqSubset, SignalsAre
  <1>m. line' \in Seq(Bytes)
    BY <1>g, <1>t, <1>l, RestIn
  <1>n. SoFar => line' \in Seq(Signals)
    <2> SUFFICES ASSUME SoFar
                 PROVE  line' \in Seq(Signals)
      OBVIOUS
    <2> QED
      BY <1>g, <1>t, <1>l, RestIn
  <1>p. pc' \in {"readCount", "failed"} /\ pos' = pos /\ read_data' = read_data
    BY <1>g DEF hostVars
  <1>1. Typed'
    BY <1>r, <1>d, <1>m, <1>p, ExchangeType DEF Places, Reading, Ending, Family
  <1>2. Identifying'
    BY <1>p DEF Identifying
  <1>3. Replacing'
    BY <1>p, <1>d DEF IInv, Replacing, Erasing, Writing
  <1>4. ReadingBack'
    <2>1. SoFar' <=> SoFar
      BY <1>p DEF SoFar
    <2>2. SoFar => \A i \in 1 .. pos' : dev'.mem[i] = File[i]
      BY <1>p, <1>d DEF IInv, ReadingBack, Reading
    <2>3. Len(read_data') <= pos'
      BY <1>p, ReadingGives DEF Reading
    <2> QED
      BY <1>p, <1>d, <1>n, <2>1, <2>2, <2>3
         DEF ReadingBack, Early, Family, Erasing, Writing, Reading
  <1>5. Running'
    BY <1>p, <1>d DEF IInv, Running, Early, hostVars
  <1>6. FirstCall'
    BY <1>p, <1>d DEF IInv, FirstCall, Early, hostVars
  <1>7. Untouched'
    BY <1>p, <1>d DEF IInv, Untouched, Early, Ending, hostVars
  <1> QED
    BY <1>1, <1>2, <1>3, <1>4, <1>5, <1>6, <1>7 DEF IInv

\* After the ACK, c bytes that may all be bytes of the flash are those that
\* were asked for: with one too many in front, or one missing, a byte of the
\* protocol is among the first c.
LEMMA ContentsArrive ==
    ASSUME NEW d \in Devices, NEW c \in Nat \ {0}, d.addr + c <= FlashSize,
           NEW l \in Seq(Signals), NEW got, NEW rest,
           Garbled(Contents(d, c), got), Passed(l, got, rest),
           Len(rest) >= c, \A i \in 1 .. c : rest[i] \in Memory
    PROVE  Len(rest) = c /\ \A i \in 1 .. c : rest[i] = d.mem[d.addr + i]
  <1> DEFINE out == Contents(d, c)
  <1>1. out \in Seq(Bytes) /\ Len(out) = c + 1 /\ out[1] = Boot!Ack
    BY MemoryAnswer
  <1>2. \A i \in 1 .. c : out[i + 1] = d.mem[d.addr + i]
    <2>1. \A i \in 1 .. c : d.addr + i \in 1 .. FlashSize
      BY FileIs DEF Devices
    <2> QED
      BY <2>1, MemoryAnswer
  <1>3. /\ got \in Seq(Bytes) /\ Len(got) <= c + 1
        /\ Len(got) = c + 1 => \A i \in 1 .. c + 1 : got[i] \in {out[i], Noise}
        /\ Len(got) # 0 /\ Len(got) + 1 = c + 1 =>
              got[1] = out[1] \/ (\A i \in 1 .. Len(got) : got[i] = out[i + 1])
    BY <1>1 DEF Garbled
  <1> HIDE DEF out
  <1>4. /\ rest \in Seq(Bytes) /\ Len(rest) + 1 = Len(l) + Len(got)
        /\ \A i \in 1 .. Len(rest) :
              rest[i] = IF i < Len(l) THEN l[i + 1] ELSE got[i + 1 - Len(l)]
    BY <1>3, SeqSubset, SignalsAre, PassedIs
  <1>5. Len(rest) \in Nat /\ Len(l) \in Nat /\ Len(got) \in Nat
    BY <1>3, <1>4
  <1> DEFINE nr == Len(rest)
             nl == Len(l)
             ng == Len(got)
  <1>6. /\ nr \in Nat /\ nl \in Nat /\ ng \in Nat /\ nr >= c /\ nr + 1 = nl + ng /\ ng <= c + 1
        /\ \A i \in 1 .. nr : rest[i] = IF i < nl THEN l[i + 1] ELSE got[i + 1 - nl]
    BY <1>3, <1>4, <1>5
  <1>7. /\ ng = c + 1 => \A i \in 1 .. c + 1 : got[i] \in {out[i], Noise}
        /\ ng = c => got[1] = out[1] \/ (\A i \in 1 .. c : got[i] = out[i + 1])
    BY <1>3, <1>5
  <1>n. \A i \in 1 .. nl : l[i] \in Signals
    OBVIOUS
  <1> HIDE DEF nr, nl, ng
  <1>8. Noise \notin Memory /\ Boot!Ack \notin Memory /\ \A b \in Signals : b \notin Memory
    BY SignalsAre, MemoryIsNoSignal
  <1>9. 1 \in 1 .. c /\ 1 \in 1 .. nr /\ 1 \in 1 .. c + 1 /\ rest[1] \in Memory
    BY <1>6
  <1>10. ~(1 < nl)
    <2> SUFFICES ASSUME 1 < nl
                 PROVE  FALSE
      OBVIOUS
    <2>1. rest[1] = l[1 + 1] /\ 1 + 1 \in 1 .. nl
      BY <1>6, <1>9
    <2> QED
      BY <2>1, <1>8, <1>9, <1>n
  <1>11. CASE nl = 0
    <2>1. nr = c /\ ng = c + 1
      BY <1>6, <1>11
    <2>2. ASSUME NEW i \in 1 .. c
          PROVE  rest[i] = d.mem[d.addr + i]
      <3>1. i \in 1 .. nr /\ ~(i < nl) /\ i + 1 - nl = i + 1 /\ i + 1 \in 1 .. c + 1
        BY <2>1, <1>11
      <3>2. rest[i] = got[i + 1]
        BY <3>1, <1>6
      <3>3. got[i + 1] \in {out[i + 1], Noise}
        BY <2>1, <3>1, <1>7
      <3>4. rest[i] \in Memory
        OBVIOUS
      <3> QED
        BY <3>2, <3>3, <3>4, <1>2, <1>8
    <2> QED
      BY <2>1, <2>2 DEF nr
  <1>12. CASE nl = 1
    <2>1. nr = ng
      BY <1>6, <1>12
    <2>2. \A i \in 1 .. nr : rest[i] = got[i]
      <3>1. \A i \in 1 .. nr : ~(i < nl) /\ i + 1 - nl = i
        BY <1>6, <1>12
      <3> QED
        BY <3>1, <1>6
    <2>3. got[1] \in Memory
      BY <2>2, <1>9
    <2>4. ng # c + 1
      BY <2>3, <1>1, <1>7, <1>8, <1>9
    <2>5. ng = c
      BY <2>1, <2>4, <1>6
    <2>6. \A i \in 1 .. c : got[i] = out[i + 1]
      BY <2>3, <2>5, <1>1, <1>7, <1>8
    <2>7. \A i \in 1 .. c : rest[i] = d.mem[d.addr + i]
      BY <2>1, <2>2, <2>5, <2>6, <1>2
    <2> QED
      BY <2>1, <2>5, <2>7 DEF nr
  <1> QED
    BY <1>6, <1>10, <1>11, <1>12

LEMMA ReadCountKeeps ==
    ASSUME IInv, pc = "readCount",
           WriteAndAck(Boot!CountMessage(Len(Chunk)), "readData", "failed"),
           UNCHANGED <<setup, hostVars, attempts>>
    PROVE  IInv'
  <1> DEFINE c == Len(Chunk)
             m == Boot!CountMessage(c)
  <1>c. /\ c \in Nat \ {0} /\ pos \in Nat /\ pos + c <= FlashSize
    BY ReadingGives, ChunkIs, FileIs DEF Reading
  <1> HIDE DEF c
  <1>t. /\ dev \in Devices /\ faults \in 0 .. MaxFaults /\ m \in Messages
        /\ line \in Seq(Bytes) /\ (SoFar => line \in Seq(Signals))
        /\ dev.phase \notin {"app", "goAddress"}
    BY <1>c, ReadingGives DEF Messages, Reading
  <1>s. SoFar /\ dev.phase = "readCount" => dev.addr = pos
    BY DEF IInv, ReadingBack, Reading
  <1>r. /\ faults' \in 0 .. MaxFaults
        /\ \E r \in Reactions(dev, m) : \E got :
              /\ Garbled(r.out, got)
              /\ dev' = r.dev
              /\ \/ pc' = "readData" /\ Passed(line, got, line')
                 \/ pc' = "failed" /\ Stuck(line, got, line')
    BY <1>t, AckGives DEF c
  <1>got. PICK r \in Reactions(dev, m) : \E got :
            /\ Garbled(r.out, got)
            /\ dev' = r.dev
            /\ \/ pc' = "readData" /\ Passed(line, got, line')
               \/ pc' = "failed" /\ Stuck(line, got, line')
    BY <1>r
  <1>g. PICK got :
            /\ Garbled(r.out, got)
            /\ dev' = r.dev
            /\ \/ pc' = "readData" /\ Passed(line, got, line')
               \/ pc' = "failed" /\ Stuck(line, got, line')
    BY <1>got
  <1>x. \/ Refused(dev, r)
        \/ dev.phase = "readCount" /\ Moved(dev, r, "ready", Contents(dev, c))
    BY <1>c, <1>t, CountReaction
  <1>d. /\ dev' \in Devices /\ dev'.mem = dev.mem
        /\ dev'.phase \notin {"app", "goAddress"}
    BY <1>t, <1>g, <1>x DEF Refused, Moved
  <1>l. got \in Seq(Bytes)
    BY <1>g DEF Garbled
  <1>m. line' \in Seq(Bytes)
    BY <1>g, <1>t, <1>l, RestIn
  <1>n. SoFar /\ pc' = "readData" /\ Len(line') >= c /\ (\A i \in 1 .. c : line'[i] \in Memory) =>
            /\ Len(line') = c /\ dev'.phase = "ready"
            /\ \A i \in 1 .. c : line'[i] = dev'.mem[pos + i]
    <2> SUFFICES ASSUME SoFar, pc' = "readData", Len(line') >= c,
                        \A i \in 1 .. c : line'[i] \in Memory
                 PROVE  /\ Len(line') = c /\ dev'.phase = "ready"
                        /\ \A i \in 1 .. c : line'[i] = dev'.mem[pos + i]
      OBVIOUS
    <2>1. Passed(line, got, line') /\ line \in Seq(Signals)
      BY <1>g, <1>t
    <2>2. CASE Refused(dev, r)
      <3>1. got \in Seq(Signals)
        BY <1>g, <2>2, RefusedGives
      <3>2. line' \in Seq(Signals)
        BY <2>1, <3>1, RestIn
      <3>3. 1 \in 1 .. c /\ 1 \in 1 .. Len(line')
        BY <1>c, <3>2
      <3> QED
        BY <3>2, <3>3, MemoryIsNoSignal
    <2>3. CASE dev.phase = "readCount" /\ Moved(dev, r, "ready", Contents(dev, c))
      <3>1. dev.addr = pos /\ dev.addr + c <= FlashSize
        BY <1>s, <1>c, <2>3
      <3>2. Garbled(Contents(dev, c), got) /\ dev'.phase = "ready"
        BY <1>g, <2>3 DEF Moved
      <3>3. Len(line') = c /\ \A i \in 1 .. c : line'[i] = dev.mem[dev.addr + i]
        BY <1>c, <1>t, <2>1, <3>1, <3>2, ContentsArrive
      <3> QED
        BY <3>1, <3>2, <3>3, <1>d
    <2> QED
      BY <1>x, <2>2, <2>3
  <1>p. /\ pc' \in {"readData", "failed"} /\ pos' = pos /\ read_data' = read_data
    BY <1>g DEF hostVars
  <1>q. Len(Chunk') = c
    BY <1>p DEF Chunk, c
  <1>1. Typed'
    BY <1>r, <1>d, <1>m, <1>p, ExchangeType DEF Places, Reading, Ending, Family
  <1>2. Identifying'
    BY <1>p DEF Identifying
  <1>3. Replacing'
    BY <1>p, <1>d DEF IInv, Replacing, Erasing, Writing
  <1>4. ReadingBack'
    <2>1. SoFar' <=> SoFar
      BY <1>p DEF SoFar
    <2>2. SoFar => \A i \in 1 .. pos' : dev'.mem[i] = File[i]
      BY <1>p, <1>d DEF IInv, ReadingBack, Reading
    <2>3. Len(read_data') <= pos'
      BY <1>p, ReadingGives DEF Reading
    <2> QED
      BY <1>p, <1>d, <1>n, <1>q, <2>1, <2>2, <2>3
         DEF ReadingBack, Early, Family, Erasing, Writing, Reading
  <1>5. Running'
    BY <1>p, <1>d DEF IInv, Running, Early, hostVars
  <1>6. FirstCall'
    BY <1>p, <1>d DEF IInv, FirstCall, Early, hostVars
  <1>7. Untouched'
    BY <1>p, <1>d DEF IInv, Untouched, Early, Ending, hostVars
  <1> QED
    BY <1>1, <1>2, <1>3, <1>4, <1>5, <1>6, <1>7 DEF IInv

LEMMA FileStartIs ==
    ASSUME NEW n \in 0 .. Len(File)
    PROVE  /\ SubSeq(File, 1, n) \in Seq(Memory) /\ Len(SubSeq(File, 1, n)) = n
           /\ \A i \in 1 .. n : SubSeq(File, 1, n)[i] = File[i]
           /\ n = Len(File) => SubSeq(File, 1, n) = File
  <1>1. /\ SubSeq(File, 1, n) \in Seq(Memory) /\ Len(SubSeq(File, 1, n)) = n
        /\ \A i \in 1 .. n : SubSeq(File, 1, n)[i] = File[i]
    BY FileIs, TakenIs
  <1>2. n = Len(File) => SubSeq(File, 1, n) = File
    BY FileIs
  <1> QED
    BY <1>1, <1>2

\* If a piece completes the file so far, so did what was there before, and
\* the piece has its full length.
LEMMA PieceIs ==
    ASSUME NEW a \in Seq(Bytes), NEW b \in Seq(Bytes), NEW p \in Nat, NEW c \in Nat,
           p + c <= Len(File), Len(a) <= p, Len(b) <= c, a \o b = SubSeq(File, 1, p + c)
    PROVE  /\ Len(b) = c /\ a = SubSeq(File, 1, p)
           /\ \A i \in 1 .. c : b[i] = File[p + i]
  <1> DEFINE f == SubSeq(File, 1, p + c)
             h == SubSeq(File, 1, p)
             all == a \o b
  <1>0. Len(File) \in Nat /\ p + c \in 0 .. Len(File) /\ p \in 0 .. Len(File)
    BY FileIs
  <1>1. Len(f) = p + c /\ \A i \in 1 .. p + c : f[i] = File[i]
    BY <1>0, FileStartIs
  <1>2. h \in Seq(Memory) /\ Len(h) = p /\ \A i \in 1 .. p : h[i] = File[i]
    BY <1>0, FileStartIs
  <1>3. /\ Len(all) = Len(a) + Len(b)
        /\ \A i \in 1 .. Len(a) + Len(b) :
              all[i] = IF i <= Len(a) THEN a[i] ELSE b[i - Len(a)]
    BY ConcatProperties
  <1>4. all = f
    OBVIOUS
  <1> HIDE DEF all, f, h
  <1>5. Len(a) \in Nat /\ Len(b) \in Nat /\ Len(a) + Len(b) = p + c
    BY <1>1, <1>3, <1>4
  <1>6. \A x, y \in Nat : x <= p /\ y <= c /\ x + y = p + c => x = p /\ y = c
    OBVIOUS
  <1>7. Len(a) = p /\ Len(b) = c
    BY <1>5, <1>6
  <1>8. \A i \in 1 .. p : a[i] = File[i]
    <2> TAKE i \in 1 .. p
    <2>1. i \in 1 .. p + c /\ i <= p
      OBVIOUS
    <2> QED
      BY <2>1, <1>1, <1>3, <1>4, <1>7
  <1>9. \A i \in 1 .. c : b[i] = File[p + i]
    <2> TAKE i \in 1 .. c
    <2>1. p + i \in 1 .. p + c /\ ~(p + i <= p) /\ (p + i) - p = i
      OBVIOUS
    <2> QED
      BY <2>1, <1>1, <1>3, <1>4, <1>7
  <1>10. a = h
    <2>1. a = [i \in 1 .. Len(a) |-> a[i]] /\ h = [i \in 1 .. Len(h) |-> h[i]]
      BY <1>2
    <2> QED
      BY <2>1, <1>2, <1>7, <1>8
  <1> QED
    BY <1>7, <1>9, <1>10 DEF h

LEMMA NewImageIs ==
    ASSUME NEW mem \in [1 .. FlashSize -> Memory],
           \A i \in 1 .. Len(File) : mem[i] = File[i],
           mem = OldImage \/ (\A i \in 1 .. FlashSize : i > Len(File) => mem[i] = Blank)
    PROVE  mem = NewImage
  <1>1. PICK j \in 1 .. Len(File) : File[j] # Old
    BY FileIs, Stm32LoaderAssumption
  <1>2. mem[j] # Old /\ j \in 1 .. FlashSize
    BY <1>1, FileIs
  <1>3. mem # OldImage
    BY <1>2 DEF OldImage
  <1>4. \A i \in 1 .. FlashSize : mem[i] = IF i \in DOMAIN File THEN File[i] ELSE Blank
    BY <1>3, FileIs
  <1>5. mem = [i \in 1 .. FlashSize |-> mem[i]]
    OBVIOUS
  <1> QED
    BY <1>4, <1>5 DEF NewImage

LEMMA ReadDataKeeps ==
    ASSUME IInv, ReadData
    PROVE  IInv'
  <1> DEFINE c == Len(Chunk)
             last == pos + c = Len(File)
  <1>0. /\ pc = "readData"
        /\ pos' = IF last THEN 0 ELSE pos + c
        /\ pc' = IF last THEN "verify" ELSE "read"
        /\ UNCHANGED <<setup, dev, gpioResetFlag, tries, extended_erase, reads, successFlag,
                       result, identified, emptySource, attempts>>
        /\ \E k \in 0 .. Min({c, Len(line)}) :
              /\ faults' \in 0 .. MaxFaults
              /\ line' = SubSeq(line, k + 1, Len(line))
              /\ read_data' = read_data \o SubSeq(line, 1, k)
    <2>1. faults \in 0 .. MaxFaults
      BY DEF IInv, Typed, TypeOK
    <2>2. ReadBytes(c, LAMBDA data : read_data' = read_data \o data)
      BY DEF ReadData
    <2> HIDE DEF c
    <2>3. PICK k \in 0 .. Min({c, Len(line)}) :
              /\ Fault(IF k < Min({c, Len(line)}) THEN 1 ELSE 0)
              /\ line' = SubSeq(line, k + 1, Len(line))
              /\ read_data' = read_data \o SubSeq(line, 1, k)
      BY <2>2 DEF ReadBytes
    <2>4. faults' \in 0 .. MaxFaults
      BY <2>1, <2>3 DEF Fault
    <2> QED
      BY <2>3, <2>4 DEF ReadData, c
  <1>k. PICK k \in 0 .. Min({c, Len(line)}) :
              /\ faults' \in 0 .. MaxFaults
              /\ line' = SubSeq(line, k + 1, Len(line))
              /\ read_data' = read_data \o SubSeq(line, 1, k)
    BY <1>0
  <1>t. /\ dev \in Devices /\ line \in Seq(Bytes) /\ read_data \in Seq(Bytes)
        /\ pos \in 0 .. Len(File) - 1 /\ Len(read_data) <= pos
        /\ dev.phase \notin {"app", "goAddress"}
    BY <1>0, ReadingGives DEF IInv, Typed, TypeOK, Reading
  <1>c. /\ c \in Nat \ {0} /\ pos \in Nat /\ Len(File) \in Nat /\ pos + c <= Len(File)
        /\ c \in 1 .. Len(File) - pos
    BY <1>t, ChunkIs, FileIs
  <1> DEFINE data == SubSeq(line, 1, k)
  <1> HIDE DEF c
  <1>m. k \in 0 .. Len(line) /\ k \in 0 .. c
    <2>1. Len(line) \in Nat
      BY <1>t
    <2> QED
      BY <2>1, <1>c, MinIs
  <1>l. /\ data \in Seq(Bytes) /\ Len(data) = k
        /\ \A i \in 1 .. k : data[i] = line[i]
        /\ line' \in Seq(Bytes)
        /\ k = Len(line) => line' = <<>>
    BY <1>t, <1>k, <1>m, TakenIs
  <1>d. read_data' = read_data \o data
    BY <1>k
  <1> HIDE DEF data
  <1>n. read_data' \in Seq(Bytes) /\ Len(read_data') = Len(read_data) + k
    BY <1>d, <1>l, <1>t, ConcatProperties
  <1>o. Len(read_data') <= pos + c
    <2>1. \A a, b, x, y \in Nat : a <= x /\ b <= y => a + b <= x + y
      OBVIOUS
    <2>2. Len(read_data) \in Nat /\ k \in Nat /\ k <= c
      BY <1>t, <1>m, <1>c
    <2> QED
      BY <2>1, <2>2, <1>n, <1>t, <1>c
  \* What was read so far is the file: so is what the flash holds.
  <1>f. ASSUME read_data' = SubSeq(File, 1, pos + c)
        PROVE  /\ line' = <<>> /\ dev.phase = "ready"
               /\ \A i \in 1 .. pos + c : dev.mem[i] = File[i]
    <2>1. Len(data) = c /\ SoFar /\ \A i \in 1 .. c : data[i] = File[pos + i]
      <3>1. read_data \o data = SubSeq(File, 1, pos + c)
        BY <1>f, <1>d
      <3>2. Len(data) <= c
        BY <1>l, <1>m
      <3>3. c \in Nat /\ pos \in Nat /\ pos + c <= Len(File)
        BY <1>c
      <3>4. /\ Len(data) = c /\ read_data = SubSeq(File, 1, pos)
            /\ \A i \in 1 .. c : data[i] = File[pos + i]
        <4>1. read_data \in Seq(Bytes) /\ data \in Seq(Bytes) /\ Len(read_data) <= pos
          BY <1>t, <1>l
        <4> QED
          BY <3>1, <3>2, <3>3, <4>1, PieceIs
      <3> QED
        BY <3>4 DEF SoFar
    <2>2. k = c /\ Len(line) >= c
      BY <2>1, <1>l, <1>m
    <2>3. \A i \in 1 .. c : line[i] = File[pos + i]
      BY <2>1, <2>2, <1>l
    <2>4. \A i \in 1 .. c : line[i] \in Memory
      <3>1. \A i \in 1 .. c : pos + i \in 1 .. Len(File)
        BY <1>c
      <3> QED
        BY <2>3, <3>1, FileIs
    <2>5. /\ \A i \in 1 .. pos : dev.mem[i] = File[i]
          /\ Len(line) = c /\ dev.phase = "ready"
          /\ \A i \in 1 .. c : line[i] = dev.mem[pos + i]
      BY <1>0, <2>1, <2>2, <2>4 DEF IInv, ReadingBack, Reading, c
    <2>6. line' = <<>>
      BY <2>2, <2>5, <1>l
    <2>7. ASSUME NEW i \in 1 .. pos + c
          PROVE  dev.mem[i] = File[i]
      <3>1. CASE i <= pos
        BY <2>5, <3>1
      <3>2. CASE i > pos
        <4>1. i - pos \in 1 .. c /\ pos + (i - pos) = i
          BY <1>c, <3>2
        <4>2. line[i - pos] = File[pos + (i - pos)] /\ line[i - pos] = dev.mem[pos + (i - pos)]
          BY <4>1, <2>3, <2>5
        <4> QED
          BY <4>1, <4>2
      <3> QED
        BY <1>c, <3>1, <3>2
    <2> QED
      BY <2>5, <2>6, <2>7
  <1>p. /\ pc' \in {"verify", "read"}
        /\ pos' \in 0 .. Len(File) - 1
        /\ pc' = "read" => pos' = pos + c
        /\ pc' = "verify" => pos + c = Len(File)
    BY <1>0, <1>c
  <1> HIDE DEF last
  <1>1. Typed'
    <2>1. Len(read_data') <= Len(File)
      <3>1. Len(read_data') \in Nat /\ pos + c \in Nat
        BY <1>n, <1>c
      <3>2. \A a, b, x \in Nat : a <= b /\ b <= x => a <= x
        OBVIOUS
      <3> QED
        BY <3>1, <3>2, <1>c, <1>o
    <2>2. TypeOK'
      BY <1>0, <1>k, <1>l, <1>n, <1>p, <2>1 DEF IInv, Typed, TypeOK
    <2> QED
      BY <1>0, <1>p, <2>2 DEF IInv, Typed, Family
  <1>2. Identifying'
    BY <1>p DEF Identifying
  <1>3. Replacing'
    BY <1>0, <1>p DEF IInv, Replacing, Erasing, Writing
  <1>4. ReadingBack'
    <2>1. ASSUME pc' = "read", SoFar'
          PROVE  /\ \A i \in 1 .. pos' : dev'.mem[i] = File[i]
                 /\ line' \in Seq(Signals)
                 /\ dev'.phase \notin Counting
      <3>1. read_data' = SubSeq(File, 1, pos + c)
        BY <2>1, <1>p DEF SoFar
      <3>2. <<>> \in Seq(Signals)
        OBVIOUS
      <3> QED
        BY <3>1, <3>2, <2>1, <1>0, <1>f, <1>p DEF Counting
    <2>2. ASSUME pc' = "verify", read_data' = File
          PROVE  line' = <<>> /\ dev'.phase = "ready" /\ dev'.mem = NewImage
      <3>1. pos + c = Len(File) /\ pos + c \in 0 .. Len(File)
        BY <2>2, <1>p, <1>c
      <3>2. read_data' = SubSeq(File, 1, pos + c)
        BY <2>2, <3>1, FileStartIs
      <3>3. \A i \in 1 .. Len(File) : dev.mem[i] = File[i]
        BY <3>1, <3>2, <1>f
      <3>4. dev.mem = NewImage
        <4>1. dev.mem \in [1 .. FlashSize -> Memory]
          BY <1>t DEF Devices
        <4>2. \/ dev.mem = OldImage
              \/ \A i \in 1 .. FlashSize : i > Len(File) => dev.mem[i] = Blank
          BY DEF IInv, Replacing
        <4> QED
          BY <3>3, <4>1, <4>2, NewImageIs
      <3> QED
        BY <3>2, <3>4, <1>0, <1>f
    <2>3. pc' = "read" => Len(read_data') <= pos'
      BY <1>o, <1>p
    <2>4. dev'.phase \notin {"app", "goAddress"}
      BY <1>0, <1>t
    <2> QED
      BY <1>p, <2>1, <2>2, <2>3, <2>4
         DEF ReadingBack, Early, Family, Erasing, Writing, Reading
  <1>5. Running'
    BY <1>0, <1>p DEF IInv, Running, Early
  <1>6. FirstCall'
    BY <1>0, <1>p DEF IInv, FirstCall, Early
  <1>7. Untouched'
    BY <1>0, <1>p DEF IInv, Untouched, Early, Ending, Reading
  <1> QED
    BY <1>1, <1>2, <1>3, <1>4, <1>5, <1>6, <1>7 DEF IInv


-----------------------------------------------------------------------------
(* Starting the firmware                                                   *)

LEMMA GoCommandKeeps ==
    ASSUME IInv, pc = "go", Command("go", "goAddress", "failed"),
           UNCHANGED <<setup, hostVars, attempts>>
    PROVE  IInv'
  <1> DEFINE m == Boot!CommandMessage("go")
  <1>t. /\ dev \in Devices /\ faults \in 0 .. MaxFaults /\ m \in Messages
        /\ line = <<>> /\ dev.phase = "ready" /\ dev.mem = NewImage /\ successFlag
    BY DEF IInv, Typed, TypeOK, Running, Messages
  <1>r. /\ faults' \in 0 .. MaxFaults
        /\ \E r \in Reactions(dev, m) : \E got :
              /\ Garbled(r.out, got)
              /\ dev' = r.dev
              /\ \/ pc' = "goAddress" /\ Passed(line, got, line')
                 \/ pc' = "failed" /\ Stuck(line, got, line')
    BY <1>t, AckGives DEF Command
  <1>got. PICK r \in Reactions(dev, m) : \E got :
            /\ Garbled(r.out, got)
            /\ dev' = r.dev
            /\ \/ pc' = "goAddress" /\ Passed(<<>>, got, line')
               \/ pc' = "failed" /\ Stuck(<<>>, got, line')
    BY <1>r, <1>t
  <1>g. PICK got :
            /\ Garbled(r.out, got)
            /\ dev' = r.dev
            /\ \/ pc' = "goAddress" /\ Passed(<<>>, got, line')
               \/ pc' = "failed" /\ Stuck(<<>>, got, line')
    BY <1>got
  <1>x. Refused(dev, r) \/ Moved(dev, r, "goAddress", <<Boot!Ack>>)
    BY <1>t, OpeningReaction
  <1>d. /\ dev' \in Devices /\ dev'.mem = dev.mem /\ dev'.phase # "app"
        /\ ~Refused(dev, r) => dev'.phase = "goAddress"
    BY <1>t, <1>g, <1>x DEF Refused, Moved
  <1>l. /\ line' \in Seq(Signals)
        /\ pc' = "goAddress" => line' = <<>> /\ dev'.phase = "goAddress"
    <2>1. Refused(dev, r) \/ r.out = <<Boot!Ack>>
      BY <1>x DEF Moved
    <2> QED
      BY <1>g, <1>d, <2>1, InStep
  <1>p. pc' \in {"goAddress", "failed"}
    BY <1>g
  <1>1. Typed'
    BY <1>r, <1>d, <1>l, <1>p, SeqSubset, SignalsAre, ExchangeType DEF Places, Ending, Family
  <1>2. Identifying'
    BY <1>p DEF Identifying
  <1>3. Replacing'
    BY <1>p, <1>d DEF IInv, Replacing, Erasing, Writing
  <1>4. ReadingBack'
    BY <1>p DEF ReadingBack, Early, Family, Erasing, Writing, Reading
  <1>5. Running'
    BY <1>t, <1>p, <1>d, <1>l DEF IInv, Running, Early, hostVars
  <1>6. FirstCall'
    BY <1>p, <1>d DEF FirstCall, Early
  <1>7. Untouched'
    BY <1>p, <1>d DEF IInv, Untouched, Early, Ending, hostVars
  <1> QED
    BY <1>1, <1>2, <1>3, <1>4, <1>5, <1>6, <1>7 DEF IInv

\* The address of the image: with its ACK the new firmware runs.
LEMMA GoAddressKeeps ==
    ASSUME IInv, pc = "goAddress", EncodeAddress(0, "close", "failed"),
           UNCHANGED <<setup, hostVars, attempts>>
    PROVE  IInv'
  <1> DEFINE m == Boot!AddressMessage(0)
  <1>a. 0 \in 0 .. FlashSize
    BY FileIs
  <1>t. /\ dev \in Devices /\ faults \in 0 .. MaxFaults /\ m \in Messages
        /\ line = <<>> /\ dev.phase = "goAddress" /\ dev.mem = NewImage /\ successFlag
    BY <1>a DEF IInv, Typed, TypeOK, Running, Messages
  <1>r. /\ faults' \in 0 .. MaxFaults
        /\ \E r \in Reactions(dev, m) : \E got :
              /\ Garbled(r.out, got)
              /\ dev' = r.dev
              /\ \/ pc' = "close" /\ Passed(line, got, line')
                 \/ pc' = "failed" /\ Stuck(line, got, line')
    BY <1>t, AckGives DEF EncodeAddress
  <1>got. PICK r \in Reactions(dev, m) : \E got :
            /\ Garbled(r.out, got)
            /\ dev' = r.dev
            /\ \/ pc' = "close" /\ Passed(<<>>, got, line')
               \/ pc' = "failed" /\ Stuck(<<>>, got, line')
    BY <1>r, <1>t
  <1>g. PICK got :
            /\ Garbled(r.out, got)
            /\ dev' = r.dev
            /\ \/ pc' = "close" /\ Passed(<<>>, got, line')
               \/ pc' = "failed" /\ Stuck(<<>>, got, line')
    BY <1>got
  <1>x. \/ Refused(dev, r)
        \/ /\ r.dev \in Devices /\ r.dev.phase = "app"
           /\ r.dev.mem = dev.mem /\ r.out = <<Boot!Ack>>
    BY <1>a, <1>t, AddressReaction
  <1>d. /\ dev' \in Devices /\ dev'.mem = NewImage
        /\ ~Refused(dev, r) => dev'.phase = "app"
    BY <1>t, <1>g, <1>x DEF Refused
  <1>l. line' \in Seq(Signals) /\ (pc' = "close" => dev'.phase = "app")
    BY <1>g, <1>x, <1>d, InStep
  <1>p. pc' \in {"close", "failed"}
    BY <1>g
  <1>1. Typed'
    BY <1>r, <1>d, <1>l, <1>p, SeqSubset, SignalsAre, ExchangeType DEF Places, Ending, Family
  <1>2. Identifying'
    BY <1>p DEF Identifying
  <1>3. Replacing'
    BY <1>t, <1>p, <1>d DEF IInv, Replacing, Erasing, Writing
  <1>4. ReadingBack'
    BY <1>p DEF ReadingBack, Early, Family, Erasing, Writing, Reading
  <1>5. Running'
    BY <1>t, <1>p, <1>d, <1>l DEF IInv, Running, Early, hostVars
  <1>6. FirstCall'
    BY <1>t, <1>p, <1>d DEF FirstCall, Early, hostVars
  <1>7. Untouched'
    BY <1>t, <1>p, <1>d DEF IInv, Untouched, Early, Ending, hostVars
  <1> QED
    BY <1>1, <1>2, <1>3, <1>4, <1>5, <1>6, <1>7 DEF IInv

-----------------------------------------------------------------------------
(* The theorems                                                            *)

LEMMA NextHolds == IInv /\ [Next]_vars => IInv'
  <1> SUFFICES ASSUME IInv, [Next]_vars
               PROVE  IInv'
    OBVIOUS
  <1>1. CASE LoadSourceFile
    BY <1>1, LoadSourceFileKeeps
  <1>2. CASE OpenPort
    BY <1>2, OpenPortKeeps
  <1>3. CASE Synchronize
    BY <1>3, SynchronizeKeeps
  <1>4. CASE ResetToBoot0
    BY <1>4, ResetToBoot0Keeps
  <1>5. CASE CannotInit
    BY <1>5, CannotInitKeeps
  <1>6. CASE Get
    BY <1>6, GetKeeps
  <1>7. CASE GetBody
    BY <1>7, GetBodyKeeps
  <1>8. CASE GetId
    BY <1>8, GetIdKeeps
  <1>9. CASE GetIdBody
    BY <1>9, GetIdBodyKeeps
  <1>10. CASE Unable
    BY <1>10, UnableKeeps
  <1>11. CASE ReadFamily
    BY <1>11, FamilyCommandKeeps, FamilyAddressKeeps, FamilyCountKeeps DEF ReadFamily
  <1>12. CASE ReceiveFamily
    BY <1>12, ReceiveFamilyKeeps
  <1>13. CASE Erase
    BY <1>13, EraseCommandKeeps, ErasePagesKeeps DEF Erase
  <1>14. CASE WriteCommand
    BY <1>14, WriteCommandKeeps, WriteAddressKeeps DEF WriteCommand
  <1>15. CASE WriteData
    BY <1>15, WriteDataKeeps
  <1>16. CASE ReadCommand
    BY <1>16, ReadCommandKeeps, ReadAddressKeeps, ReadCountKeeps DEF ReadCommand
  <1>17. CASE ReadData
    BY <1>17, ReadDataKeeps
  <1>18. CASE Verify
    BY <1>18, VerifyKeeps
  <1>19. CASE Go
    BY <1>19, GoCommandKeeps, GoAddressKeeps DEF Go
  <1>20. CASE Close
    BY <1>20, CloseKeeps
  <1>21. CASE Fail
    BY <1>21, FailKeeps
  <1>22. CASE CallAgain
    BY <1>22, CallAgainKeeps
  <1>23. CASE UNCHANGED vars
    <2>1. Typed'
      BY <1>23 DEF vars, IInv, Typed, TypeOK
    <2>2. Identifying'
      BY <1>23 DEF vars, IInv, Identifying, WellFormed
    <2>3. Replacing'
      BY <1>23 DEF vars, IInv, Replacing
    <2>4. ReadingBack'
      BY <1>23 DEF vars, IInv, ReadingBack, SoFar, Chunk
    <2>5. Running' /\ FirstCall' /\ Untouched'
      BY <1>23 DEF vars, IInv, Running, FirstCall, Untouched
    <2> QED
      BY <2>1, <2>2, <2>3, <2>4, <2>5 DEF IInv
  <1> QED
    BY <1>1, <1>2, <1>3, <1>4, <1>5, <1>6, <1>7, <1>8, <1>9, <1>10, <1>11, <1>12, <1>13,
       <1>14, <1>15, <1>16, <1>17, <1>18, <1>19, <1>20, <1>21, <1>22, <1>23
       DEF Next, Loader

LEMMA Invariance == Spec => []IInv
  BY InitHolds, NextHolds, PTL DEF Spec

\* Through any garbled, lost or late byte and any unfinished call, the update
\* stays within its types: the offset within the file, no more read back than
\* the file is long, and in the flash only bytes of the old firmware, of the
\* new one, or none.
THEOREM TypeCorrect == Spec => []TypeOK
  <1>1. IInv => TypeOK
    BY DEF IInv, Typed
  <1> QED
    BY <1>1, Invariance, PTL

\* flash_file_to_stm32 returns True only when the flash holds the whole file,
\* blank behind it, and the processor runs it, whatever happened on the line,
\* and whatever earlier calls left in the boot loader.
THEOREM SuccessCorrect == Spec => []SuccessRunsTheFile
  <1>1. IInv => SuccessRunsTheFile
    BY DEF IInv, Running, SuccessRunsTheFile
  <1> QED
    BY <1>1, Invariance, PTL

\* Until some call has read the chip id, no message of any call, in order or
\* garbled, changes a byte of the flash.
THEOREM UnidentifiedCorrect == Spec => []UnidentifiedIsUntouched
  <1>1. IInv => UnidentifiedIsUntouched
    BY DEF IInv, Untouched, UnidentifiedIsUntouched
  <1> QED
    BY <1>1, Invariance, PTL

\* The server's first call never starts a firmware that is half written: it
\* resets the processor on success, or before anything was erased.
THEOREM ImageCorrect == Spec => []RunsWholeImage
  <1>1. IInv => RunsWholeImage
    BY DEF IInv, FirstCall, RunsWholeImage
  <1> QED
    BY <1>1, Invariance, PTL
=============================================================================
