----------------------------- MODULE Stm32Loader -----------------------------
(***************************************************************************)
(* flash_file_to_stm32 of src/server/util/stm32loader.py: the firmware     *)
(* file is written to the flash memory of the node processor through its   *)
(* boot loader, over a serial port that may lose, garble or delay what     *)
(* goes either way.  A byte of the flash may not take what is written.     *)
(*                                                                         *)
(* An exchange, a message and the first byte of the answer, is one step.   *)
(* A byte that arrives after the host stopped waiting for it stays on the  *)
(* line and is read as part of the next answer.  The answers do not say    *)
(* what they answer.                                                       *)
(*                                                                         *)
(* The same function is the command-line tool src/node/scripts/util, with  *)
(* print for the console output.                                           *)
(***************************************************************************)
EXTENDS Naturals, Sequences, SequencesExt, FiniteSetsExt

CONSTANTS
    File,           \* the bytes of the firmware file
    Old,            \* a byte of the firmware that it replaces
    Blank,          \* 0xFF
    FlashSize,
    TransferSize,   \* DATA_TRANSFER_SIZE
    PadUnit,        \* write_memory pads to multiples of 4
    UidBytes,       \* bytes of a read of identification data
    MaxAttempts,    \* bound: calls of flash_file_to_stm32
    MaxFaults       \* bound: failures of source, port, line and flash

Boot == INSTANCE BootLoader

Noise == "noise"        \* a byte changed on the line: never ACK or NACK
Nothing == "nothing"    \* read() timed out
Memory == ToSet(File) \cup {Old, Blank}
Signals == {Boot!Ack, Boot!Nack, Boot!Info, Boot!Commands, Boot!Id, Noise}
Bytes == Memory \cup Signals

\* The bytes of a memory are told from those of the protocol, and the file from
\* what is there already.
ASSUME Stm32LoaderAssumption ==
    /\ TransferSize \in Nat \ {0} /\ PadUnit \in Nat \ {0} /\ UidBytes \in Nat \ {0}
    /\ FlashSize \in Nat /\ File # <<>> /\ File \in Seq(ToSet(File))
    /\ Len(File) <= FlashSize /\ TransferSize % PadUnit = 0
    /\ Memory \cap Signals = {} /\ \E i \in DOMAIN File : File[i] # Old
    /\ MaxAttempts \in Nat /\ MaxFaults \in Nat

VARIABLES
    setup,          \* [rpi: is_sys_raspberry_pi(); pins: the processor is wired to
                    \*  GPIO, as on an S32_BPill board; tool: output with print]
    dev,            \* the processor, see BootLoader
    line,           \* bytes sent by the processor and not read yet
    pc,
    gpioResetFlag,
    tries,          \* attempts of the synchronization that are left
    extended_erase,
    reads,          \* reads of identification data that are left
    pos,            \* offset in the file
    read_data,
    successFlag,
    result,         \* of the last call
    identified,     \* history: some call has read the chip id
    emptySource,    \* binaryData is empty: the download had no body
    attempts, faults

vars == <<setup, dev, line, pc, gpioResetFlag, tries, extended_erase, reads, pos, read_data,
          successFlag, result, identified, emptySource, attempts, faults>>
hostVars == <<gpioResetFlag, tries, extended_erase, reads, pos, read_data, successFlag,
              result, identified, emptySource>>

Setups == {s \in [rpi : BOOLEAN, pins : BOOLEAN, tool : BOOLEAN] : s.pins => s.rpi}

OldImage == [i \in 1 .. FlashSize |-> Old]
NewImage == [i \in 1 .. FlashSize |-> IF i \in DOMAIN File THEN File[i] ELSE Blank]

\* The node's firmware runs, or jump_to_bootloader has started the boot loader,
\* which may have taken its speed from a byte of the update loop.
Init ==
    /\ setup \in Setups
    /\ dev \in [phase : {"app", "sync", "mute"}, left : {0}, addr : {0}, mem : {OldImage},
                eraseCommand : {"erase", "extendedErase"}]
    /\ line = <<>>
    /\ pc = "load"
    /\ gpioResetFlag = FALSE
    /\ tries = 0
    /\ extended_erase = FALSE
    /\ reads = 0
    /\ pos = 0
    /\ read_data = <<>>
    /\ successFlag = FALSE
    /\ result = "none"
    /\ identified = FALSE
    /\ emptySource = FALSE
    /\ attempts = 1
    /\ faults = 0

-----------------------------------------------------------------------------
(* The line                                                                *)

\* An answer arrives as it was sent, or it is lost, or a byte of it is.
Arrivals(out) ==
    {[out |-> out, faults |-> 0], [out |-> <<>>, faults |-> 1]}
        \cup {[out |-> RemoveAt(out, i), faults |-> 1] : i \in DOMAIN out}
        \cup {[out |-> ReplaceAt(out, i, Noise), faults |-> 1] : i \in DOMAIN out}

\* The state of the processor and of the line after a message was sent.
Send(m) ==
    LET Clean == UNION {{[dev |-> r.dev, line |-> line \o a.out, faults |-> a.faults] :
                            a \in Arrivals(r.out)} : r \in Boot!Deliver(dev, m)}
        Spoiled == {[dev |-> r.dev, line |-> line \o r.out, faults |-> 1] :
                     r \in Boot!Spoil(dev, m)}
    IN  Clean \cup Spoiled

\* The next byte if it is there in time.  Data may happen to be 0x79 or 0x1F.
Byte(l) ==
    IF l = <<>> THEN {[reply |-> Nothing, line |-> l, faults |-> 0]}
    ELSE {[reply |-> Nothing, line |-> l, faults |-> 1]}
         \cup [reply : IF Head(l) \in Memory \cup {Boot!Info} THEN {Head(l), Boot!Ack, Boot!Nack}
                       ELSE {Head(l)},
               line : {Tail(l)}, faults : {0}]

Fault(n) ==
    /\ faults + n <= MaxFaults
    /\ faults' = faults + n

\* Write a message and read a byte.
Exchange(m, P(_)) ==
    \E s \in Send(m) : \E b \in Byte(s.line) :
        /\ Fault(s.faults + b.faults)
        /\ dev' = s.dev
        /\ line' = b.line
        /\ P(b.reply)

\* write_and_ack, which raises CommandError for anything but ACK.
WriteAndAck(m, onAck, onError) ==
    Exchange(m, LAMBDA reply : pc' = IF reply = Boot!Ack THEN onAck ELSE onError)

Command(c, onAck, onError) == WriteAndAck(Boot!CommandMessage(c), onAck, onError)
EncodeAddress(a, onAck, onError) == WriteAndAck(Boot!AddressMessage(a), onAck, onError)

\* read(n): what has come when the time is over.
ReadBytes(n, P(_)) ==
    \E k \in 0 .. Min({n, Len(line)}) :
        /\ Fault(IF k < Min({n, Len(line)}) THEN 1 ELSE 0)
        /\ line' = SubSeq(line, k + 1, Len(line))
        /\ P(SubSeq(line, 1, k))

-----------------------------------------------------------------------------
(* Opening the port and starting the boot loader                           *)

\* The file cannot be read, is empty or too large.  Of a download only the
\* header tells the length: the body may be empty all the same.
LoadSourceFile ==
    /\ pc = "load"
    /\ \/ Fault(0) /\ pc' = "open" /\ UNCHANGED emptySource
       \/ Fault(1) /\ pc' = "open" /\ emptySource' = TRUE
       \/ Fault(1) /\ pc' = "failed" /\ UNCHANGED emptySource
    /\ UNCHANGED <<setup, dev, line, gpioResetFlag, tries, extended_erase, reads, pos,
                   read_data, successFlag, result, identified, attempts>>

\* Opening flushes the input, or fails.  A Raspberry Pi first tries once.
OpenPort ==
    /\ pc = "open"
    /\ \/ /\ Fault(0)
          /\ pc' = "sync"
          /\ line' = <<>>
          /\ tries' = IF setup.rpi THEN 1 ELSE 2
       \/ /\ Fault(1)
          /\ pc' = "failed"
          /\ UNCHANGED <<line, tries>>
    /\ UNCHANGED <<setup, dev, gpioResetFlag, extended_erase, reads, pos, read_data,
                   successFlag, result, identified, emptySource, attempts>>

\* reset_from_system_memory: NACK is an answer, too.
Synchronize ==
    /\ pc = "sync"
    /\ Exchange(Boot!SyncMessage,
                LAMBDA reply :
                    pc' = IF reply \in {Boot!Ack, Boot!Nack} THEN "get"
                          ELSE IF tries > 1 THEN "sync" ELSE "noSync")
    /\ tries' = tries - 1
    /\ UNCHANGED <<setup, gpioResetFlag, extended_erase, reads, pos, read_data,
                   successFlag, result, identified, emptySource, attempts>>

ResetTo(phase) == dev' = [dev EXCEPT !.phase = phase, !.left = 0]

\* A Raspberry Pi's pins are moved, be they connected or not; an exception, of
\* which the first use of GPIO is the likely place, is caught and logged.
ResetOverGPIO(phase) ==
    \/ Fault(0) /\ IF setup.pins THEN ResetTo(phase) ELSE UNCHANGED dev
    \/ Fault(1) /\ UNCHANGED dev

\* Faulty variant: Boot0 is already low when the reset ends.
ResetWithoutBoot0 ==
    /\ pc = "noSync" /\ setup.rpi /\ ~gpioResetFlag
    /\ gpioResetFlag' = TRUE
    /\ tries' = 2
    /\ ResetOverGPIO("app")
    /\ pc' = "sync"
    /\ UNCHANGED <<setup, line, extended_erase, reads, pos, read_data, successFlag, result,
                   identified, emptySource, attempts>>

\* reset_to_boot_0.
ResetToBoot0 ==
    /\ pc = "noSync" /\ setup.rpi /\ ~gpioResetFlag
    /\ gpioResetFlag' = TRUE
    /\ tries' = 2
    /\ ResetOverGPIO("sync")
    /\ pc' = "sync"
    /\ UNCHANGED <<setup, line, extended_erase, reads, pos, read_data, successFlag, result,
                   identified, emptySource, attempts>>

\* Can't init into bootloader: reset_to_run on a Raspberry Pi.
CannotInit ==
    /\ pc = "noSync" /\ (setup.rpi => gpioResetFlag)
    /\ IF setup.rpi THEN ResetOverGPIO("app") ELSE UNCHANGED <<dev, faults>>
    /\ pc' = "failed"
    /\ UNCHANGED <<setup, line, hostVars, attempts>>

-----------------------------------------------------------------------------
(* Identifying the device                                                  *)

\* An answer of k bytes with its length in front and ACK at the end.
WellFormed(k) == Len(line) >= k /\ line[1] = Boot!Info /\ line[k] = Boot!Ack

\* Whether a list or an id says x; one that was changed may say anything.
Says(b, x) == IF b = Noise THEN BOOLEAN ELSE {x}

Get ==
    /\ pc = "get"
    /\ Command("get", "getBody", "unable")
    /\ UNCHANGED <<setup, hostVars, attempts>>

\* Length, version, commands, ACK; bytes that are late make it fail.
GetBody ==
    /\ pc = "getBody"
    /\ \/ /\ WellFormed(4)
          /\ extended_erase' \in Says(line[3], dev.eraseCommand = "extendedErase")
          /\ pc' = "getId"
          /\ line' = SubSeq(line, 5, Len(line))
          /\ Fault(0)
       \/ /\ Fault(IF WellFormed(4) THEN 1 ELSE 0)
          /\ pc' = "unable"
          /\ line' = <<>>
          /\ UNCHANGED extended_erase
    /\ UNCHANGED <<setup, dev, gpioResetFlag, tries, reads, pos, read_data, successFlag,
                   result, identified, emptySource, attempts>>

GetId ==
    /\ pc = "getId"
    /\ Command("getId", "idBody", "unable")
    /\ UNCHANGED <<setup, hostVars, attempts>>

\* The id tells the family: F4, which also knows the extended erase here, is
\* read at once, F1 in two reads.  successFlag is set before they begin.
GetIdBody ==
    /\ pc = "idBody"
    /\ \/ /\ WellFormed(3)
          /\ \E f4 \in Says(line[2], dev.eraseCommand = "extendedErase") :
                reads' = IF f4 THEN 1 ELSE 2
          /\ successFlag' = TRUE
          /\ identified' = TRUE
          /\ pc' = "family"
          /\ line' = SubSeq(line, 4, Len(line))
          /\ Fault(0)
       \/ /\ Fault(IF WellFormed(3) THEN 1 ELSE 0)
          /\ pc' = "unable"
          /\ line' = <<>>
          /\ UNCHANGED <<reads, successFlag, identified>>
    /\ UNCHANGED <<setup, dev, gpioResetFlag, tries, extended_erase, pos, read_data, result,
                   emptySource, attempts>>

\* Faulty variant: success before the device has answered.
UnableAnyway ==
    /\ pc = "unable"
    /\ pc' = "erase"
    /\ successFlag' = TRUE
    /\ UNCHANGED <<setup, dev, line, gpioResetFlag, tries, extended_erase, reads, pos,
                   read_data, result, identified, emptySource, attempts, faults>>

\* Unable to communicate with device.
Unable ==
    /\ pc = "unable"
    /\ pc' = "close"
    /\ UNCHANGED <<setup, dev, line, hostVars, attempts, faults>>

\* Reading the flash size and the unique id.  A CommandError is caught; a
\* short read raises IndexError, which is caught outside, and says "Unable to
\* communicate": successFlag is set in both, and the flash is erased.
ReadFamily ==
    /\ \/ pc = "family" /\ Command("read", "familyAddress", "erase")
       \/ pc = "familyAddress"
            /\ EncodeAddress(Boot!SystemMemory, "familyCount", "erase")
       \/ pc = "familyCount"
            /\ WriteAndAck(Boot!CountMessage(UidBytes), "familyData", "erase")
    /\ UNCHANGED <<setup, hostVars, attempts>>

ReceiveFamily ==
    /\ pc = "familyData"
    /\ ReadBytes(UidBytes, LAMBDA data :
                    /\ pc' = IF Len(data) = UidBytes /\ reads > 1 THEN "family" ELSE "erase"
                    /\ reads' = reads - 1)
    /\ UNCHANGED <<setup, dev, gpioResetFlag, tries, extended_erase, pos, read_data,
                   successFlag, result, identified, emptySource, attempts>>

-----------------------------------------------------------------------------
(* Erasing, writing, reading back                                          *)

\* Without data to write the call is done: "Source file is empty; device
\* firmware erased", and successFlag stays set.
Erase ==
    /\ \/ pc = "erase"
            /\ Command(IF extended_erase THEN "extendedErase" ELSE "erase", "pages", "failed")
       \/ pc = "pages"
            /\ WriteAndAck(Boot!PagesMessage(extended_erase),
                           IF emptySource THEN "close" ELSE "write", "failed")
    /\ UNCHANGED <<setup, hostVars, attempts>>

Chunk == SubSeq(File, pos + 1, Min({pos + TransferSize, Len(File)}))

\* Padded with 0xFF to a multiple.
Padded(bytes) == bytes \o [i \in 1 .. (PadUnit - (Len(bytes) % PadUnit)) % PadUnit |-> Blank]

WriteCommand ==
    /\ \/ pc = "write" /\ Command("write", "writeAddress", "failed")
       \/ pc = "writeAddress" /\ EncodeAddress(pos, "writeData", "failed")
    /\ UNCHANGED <<setup, hostVars, attempts>>

\* The chunk and its ACK; after the last chunk the reading back begins.
WriteData ==
    /\ pc = "writeData"
    /\ LET last == pos + Len(Chunk) = Len(File)
       IN  /\ WriteAndAck(Boot!DataMessage(Padded(Chunk)), IF last THEN "read" ELSE "write",
                          "failed")
           /\ pos' = IF last THEN 0 ELSE pos + Len(Chunk)
    /\ UNCHANGED <<setup, gpioResetFlag, tries, extended_erase, reads, read_data, successFlag,
                   result, identified, emptySource, attempts>>

ReadCommand ==
    /\ \/ pc = "read" /\ Command("read", "readAddress", "failed")
       \/ pc = "readAddress" /\ EncodeAddress(pos, "readCount", "failed")
       \/ pc = "readCount"
            /\ WriteAndAck(Boot!CountMessage(Len(Chunk)), "readData", "failed")
    /\ UNCHANGED <<setup, hostVars, attempts>>

\* Faulty variant: the offset is not started again.
ReadDataToTheEnd ==
    /\ pc = "readData"
    /\ ReadBytes(Len(Chunk), LAMBDA data : read_data' = read_data \o data)
    /\ pos' = pos + Len(Chunk)
    /\ pc' = IF pos + Len(Chunk) = Len(File) THEN "verify" ELSE "read"
    /\ UNCHANGED <<setup, dev, gpioResetFlag, tries, extended_erase, reads, successFlag,
                   result, identified, emptySource, attempts>>

\* The length that was asked for is counted, not the one that came.
ReadData ==
    /\ pc = "readData"
    /\ LET last == pos + Len(Chunk) = Len(File)
       IN  /\ ReadBytes(Len(Chunk), LAMBDA data : read_data' = read_data \o data)
           /\ pos' = IF last THEN 0 ELSE pos + Len(Chunk)
           /\ pc' = IF last THEN "verify" ELSE "read"
    /\ UNCHANGED <<setup, dev, gpioResetFlag, tries, extended_erase, reads, successFlag,
                   result, identified, emptySource, attempts>>

\* Faulty variant: only the lengths are compared.
VerifyLength ==
    /\ pc = "verify"
    /\ pc' = IF Len(read_data) = Len(File) THEN "go"
             ELSE IF setup.tool THEN "close" ELSE "failed"
    /\ successFlag' = (Len(read_data) = Len(File))
    /\ UNCHANGED <<setup, dev, line, gpioResetFlag, tries, extended_erase, reads, pos,
                   read_data, result, identified, emptySource, attempts, faults>>

\* Faulty variant: the server's console function takes the argument.
VerifyAndRun ==
    /\ pc = "verify"
    /\ pc' = IF read_data = File THEN "go" ELSE "close"
    /\ successFlag' = (read_data = File)
    /\ UNCHANGED <<setup, dev, line, gpioResetFlag, tries, extended_erase, reads, pos,
                   read_data, result, identified, emptySource, attempts, faults>>

\* To report a mismatch, Console_output_fn is called with file=sys.stdout.
\* print takes it; the server's doS32Log raises TypeError, so that the call
\* fails without closing the port or resetting the processor.
Verify ==
    /\ pc = "verify"
    /\ pc' = IF read_data = File THEN "go"
             ELSE IF setup.tool THEN "close" ELSE "failed"
    /\ successFlag' = (read_data = File)
    /\ UNCHANGED <<setup, dev, line, gpioResetFlag, tries, extended_erase, reads, pos,
                   read_data, result, identified, emptySource, attempts, faults>>

Go ==
    /\ \/ pc = "go" /\ Command("go", "goAddress", "failed")
       \/ pc = "goAddress" /\ EncodeAddress(0, "close", "failed")
    /\ UNCHANGED <<setup, hostVars, attempts>>

\* The processor that was reset into the boot loader is reset to run.
Close ==
    /\ pc = "close"
    /\ IF gpioResetFlag THEN ResetOverGPIO("app") ELSE UNCHANGED <<dev, faults>>
    /\ result' = IF successFlag THEN "success" ELSE "failure"
    /\ pc' = "done"
    /\ UNCHANGED <<setup, line, gpioResetFlag, tries, extended_erase, reads, pos, read_data,
                   successFlag, identified, emptySource, attempts>>

\* return False, early or from the outer except: the processor stays as it is.
Fail ==
    /\ pc = "failed"
    /\ result' = "failure"
    /\ pc' = "done"
    /\ UNCHANGED <<setup, dev, line, gpioResetFlag, tries, extended_erase, reads, pos,
                   read_data, successFlag, identified, emptySource, attempts, faults>>

\* The user calls again.
CallAgain ==
    /\ pc = "done" /\ attempts < MaxAttempts
    /\ attempts' = attempts + 1
    /\ pc' = "load"
    /\ gpioResetFlag' = FALSE
    /\ tries' = 0
    /\ extended_erase' = FALSE
    /\ reads' = 0
    /\ pos' = 0
    /\ read_data' = <<>>
    /\ successFlag' = FALSE
    /\ result' = "none"
    /\ emptySource' = FALSE
    /\ UNCHANGED <<setup, dev, line, identified, faults>>

Loader ==
    \/ LoadSourceFile \/ OpenPort \/ Synchronize \/ ResetToBoot0 \/ CannotInit
    \/ Get \/ GetBody \/ GetId \/ GetIdBody \/ Unable \/ ReadFamily \/ ReceiveFamily
    \/ Erase \/ WriteCommand \/ WriteData \/ ReadCommand \/ ReadData \/ Verify \/ Go
    \/ Close \/ Fail

Next == Loader \/ CallAgain

Spec == Init /\ [][Next]_vars

\* Every read of the port has a timeout, so that the call goes on.
FairSpec == Spec /\ WF_vars(Loader)

-----------------------------------------------------------------------------
(* Properties                                                              *)

\* Types: the flash holds bytes of the old firmware, of the file, or none; a
\* call has either opened the port or not tried to synchronize yet.
TypeOK ==
    /\ setup \in Setups
    /\ dev.phase \in Boot!Phases
    /\ dev.left \in 0 .. 4 /\ dev.addr \in 0 .. FlashSize
    /\ dev.mem \in [1 .. FlashSize -> Memory]
    /\ line \in Seq(Bytes)
    /\ pc \in {"load", "open", "sync", "noSync", "get", "getBody", "getId", "idBody", "unable",
               "family", "familyAddress", "familyCount", "familyData", "erase", "pages",
               "write", "writeAddress", "writeData", "read", "readAddress", "readCount",
               "readData", "verify", "go", "goAddress", "close", "failed", "done"}
    /\ tries \in 0 .. 2 /\ reads \in 0 .. 2
    /\ pos \in 0 .. Len(File) - 1
    /\ read_data \in Seq(Bytes) /\ Len(read_data) <= Len(File)
    /\ gpioResetFlag \in BOOLEAN /\ extended_erase \in BOOLEAN
    /\ successFlag \in BOOLEAN /\ identified \in BOOLEAN /\ emptySource \in BOOLEAN
    /\ result \in {"none", "success", "failure"}
    /\ attempts \in Nat \ {0} /\ faults \in 0 .. MaxFaults

\* A call that returns True (stm32loader.py:956) has left the whole file in the
\* flash, and the processor runs it, whatever the line did to the messages.
\* Excepted is a download without a body, for which the code returns True when
\* it has erased the flash (stm32loader.py:947-948); a body that is shorter
\* than its header said is a file like any other.
SuccessRunsTheFile ==
    result = "success" /\ ~emptySource => dev.mem = NewImage /\ dev.phase = "app"

\* The flash of a device whose chip id was never read is not touched: what the
\* flag that is set at stm32loader.py:911 is for.
UnidentifiedIsUntouched ==
    ~identified => dev.mem = OldImage

\* The server's call never lets the processor run an image that is neither the
\* old firmware nor the whole file.  The command-line tool does, when the
\* verification fails and it resets the processor all the same, and so may a
\* call after one that failed, or one that got a download without a body.
RunsWholeImage ==
    dev.phase = "app" /\ ~setup.tool /\ attempts = 1 /\ ~emptySource =>
        dev.mem \in {OldImage, NewImage}

\* On a Raspberry Pi with the pins of an S32_BPill board, a call during which
\* port and pins are in order succeeds, in whatever state the calls before it
\* left the processor: what the reset over GPIO is for (stm32loader.py:884-891).
CleanCallSucceeds ==
    \A f \in 0 .. MaxFaults :
        pc = "open" /\ setup.pins /\ faults = f ~> result = "success" \/ faults > f
=============================================================================
