----------------------------- MODULE BootLoader ------------------------------
(***************************************************************************)
(* The boot loader in the ROM of the STM32, as stm32loader.py relies on    *)
(* it (ST AN3155).  It is not code of the repository.                      *)
(*                                                                         *)
(* A message is a record: what it is, its argument, and its bytes.  The    *)
(* boot loader counts bytes: a message that lost one, or that arrives when *)
(* another one is expected, fills what is missing of the expected one, is  *)
(* refused, and what is left over is taken for commands.                   *)
(***************************************************************************)
EXTENDS Naturals, Sequences

CONSTANTS
    FlashSize,      \* bytes of flash memory
    Blank           \* an erased byte, 0xFF

SystemMemory == FlashSize       \* address of the identification data

\* Bytes that the boot loader sends; the others are contents of the memory.
Ack == "ACK"
Nack == "NACK"
Info == "info"                  \* a length, a version, identification data
Commands == "commands"          \* the list of the supported commands
Id == "id"                      \* the chip id

SyncMessage == [op |-> "sync", arg |-> 0, len |-> 1]
CommandMessage(c) == [op |-> "command", arg |-> c, len |-> 2]
AddressMessage(a) == [op |-> "address", arg |-> a, len |-> 5]
CountMessage(n) == [op |-> "count", arg |-> n, len |-> 2]
DataMessage(bytes) == [op |-> "data", arg |-> bytes, len |-> Len(bytes) + 2]
PagesMessage(extended) == [op |-> "pages", arg |-> 0, len |-> IF extended THEN 3 ELSE 2]

\* The phase is the message that is expected, "app" while the firmware runs,
\* "sync" before the speed is known, and "mute" once the boot loader waits
\* for bytes that never come: it was given another speed or another length.
Expects(phase) ==
    CASE phase = "ready" -> "command"
      [] phase \in {"readAddress", "writeAddress", "goAddress"} -> "address"
      [] phase = "readCount" -> "count"
      [] phase = "writeData" -> "data"
      [] phase = "erasePages" -> "pages"
      [] OTHER -> "nothing"
BytesOf(op) == IF op = "address" THEN 5 ELSE 2
Phases == {"app", "sync", "mute", "ready", "readAddress", "writeAddress", "goAddress",
           "readCount", "writeData", "erasePages"}

Does(d, answer) == [dev |-> d, out |-> answer]
Enter(d, phase) == [d EXCEPT !.phase = phase, !.left = 0]

\* A byte is only written where the flash is erased.
Program(mem, a, bytes) ==
    [i \in DOMAIN mem |->
        IF i - a \in DOMAIN bytes /\ mem[i] = Blank THEN bytes[i - a] ELSE mem[i]]

MemoryAt(d, n) ==
    [i \in 1 .. n |-> IF d.addr + i \in DOMAIN d.mem THEN d.mem[d.addr + i] ELSE Info]

HandleCommand(d, c) ==
    CASE c = "get" -> Does(d, <<Ack, Info, Info, Commands, Ack>>)
      [] c = "getId" -> Does(d, <<Ack, Info, Id, Ack>>)
      [] c = "read" -> Does(Enter(d, "readAddress"), <<Ack>>)
      [] c = "write" -> Does(Enter(d, "writeAddress"), <<Ack>>)
      [] c = "go" -> Does(Enter(d, "goAddress"), <<Ack>>)
      [] c = d.eraseCommand -> Does(Enter(d, "erasePages"), <<Ack>>)
      [] OTHER -> Does(d, <<Nack>>)

AfterAddress(phase) ==
    CASE phase = "readAddress" -> "readCount"
      [] phase = "writeAddress" -> "writeData"
      [] phase = "goAddress" -> "app"

Handle(d, m) ==
    CASE m.op = "command" -> HandleCommand(d, m.arg)
      [] m.op = "address" ->
            Does([Enter(d, AfterAddress(d.phase)) EXCEPT !.addr = m.arg], <<Ack>>)
      [] m.op = "count" -> Does(Enter(d, "ready"), <<Ack>> \o MemoryAt(d, m.arg))
      [] m.op = "data" ->
            Does([Enter(d, "ready") EXCEPT !.mem = Program(@, d.addr, m.arg)], <<Ack>>)
      [] m.op = "pages" ->
            Does([Enter(d, "ready") EXCEPT !.mem = [i \in DOMAIN @ |-> Blank]], <<Ack>>)

\* n bytes that are no message, or not the one expected.
Fill(d, n) ==
    LET need == IF d.left = 0 THEN BytesOf(Expects(d.phase)) ELSE d.left
        rest == n - need
    IN  IF n < need
        THEN Does([d EXCEPT !.left = need - n], <<>>)
        ELSE Does([d EXCEPT !.phase = "ready", !.left = rest % 2],
                  [i \in 1 .. 1 + rest \div 2 |-> Nack])

\* Where the first byte is a length, a wrong one may ask for any number.
Misread(d, n) ==
    IF d.phase \in {"app", "mute"} THEN {Does(d, <<>>)}
    ELSE IF d.phase = "sync" THEN {Does(Enter(d, "mute"), <<>>)}
    ELSE IF d.left = 0 /\ d.phase \in {"writeData", "erasePages"}
         THEN {Does(Enter(d, "mute"), <<>>), Does([d EXCEPT !.left = 1], <<>>),
               Does(Enter(d, "ready"), <<Nack>>)}
    ELSE {Fill(d, n)}

Fits(d, m) ==
    /\ d.left = 0
    /\ Expects(d.phase) = m.op

\* A command and its complement are also a number and its complement: where a
\* count is expected, some ManyBytes are sent, more than any caller reads.
ManyBytes == 16

Deliver(d, m) ==
    IF Fits(d, m) THEN {Handle(d, m)}
    ELSE IF d.phase = "sync" /\ m.op = "sync" THEN {Does(Enter(d, "ready"), <<Ack>>)}
    ELSE IF d.phase = "readCount" /\ d.left = 0 /\ m.op = "command"
         THEN {Does(Enter(d, "ready"), <<Ack>> \o [i \in 1 .. ManyBytes |-> Info])}
    ELSE Misread(d, m.len)

\* A byte that the flash does not take, although the write is acknowledged.
BadCells(d, m) ==
    IF Fits(d, m) /\ m.op = "data"
    THEN {Does([Handle(d, m).dev EXCEPT !.mem[i] = d.mem[i]], <<Ack>>) :
             i \in {k \in DOMAIN d.mem : k - d.addr \in DOMAIN m.arg}}
    ELSE {}

\* A message that is lost, that loses a byte, or that has one changed.
Spoil(d, m) ==
    {Does(d, <<>>)} \cup Misread(d, m.len) \cup BadCells(d, m)
        \cup (IF m.len > 1 THEN Misread(d, m.len - 1) ELSE {})
=============================================================================
