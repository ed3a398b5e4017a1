# A verification project for ZippyDecoder

ZippyDecoder is a lap timer for drone races. Receiver nodes (Arduino or STM32 firmware) measure
the strength (RSSI) of a video signal and decide when a quad passes the gate. A Raspberry Pi polls
the nodes over I2C or a serial port, sends pass records to browsers and race software, and can
write new firmware to the nodes.

This directory holds TLA+ modules that model the timing core and the server around it, TLC configurations that check them on
small instances, and proofs for the TLA+ proof system (TLAPS) that hold for every value of the
constants. `PROJECT.json` maps every definition to the lines it models.

## 1. The system

| Part | State | Operations | Model |
|---|---|---|---|
| Lap detector (`RssiNode.cpp`) | crossing flag, trigger, peak and its time, calibration mode, last lap | one RSSI sample per pass of the loop; calibrate, force-end, threshold and frequency commands | `LapDetect` |
| Node loop (`ltnode.cpp`, `lteeprom.cpp`) | settings in RAM, change flags, EEPROM bytes, receiver frequency, comms monitor | `setup`, `loop`, command handlers, power cycle | `NodeLoop` |
| Serial link (`serial_node.py`) | lock, retry counters, shared index holder, frames under way, selected node | `read_block`, `write_block`, `check_set_multi_node_index` | `SerialLink`, `NodeRegisters` |
| Lap polling (`LTInterface.py`, `server.py`) | last accepted lap number per node, place in the round | `update`, `update_loop`, `pass_record_callback` | `LapPolling` |
| Median filter (`FastRunningMedian.h`, `median-filter.h`) | ring of values, sorted copy, ring of times | `addRawValue`, `getFilteredValue`, `getFilterTimestamp` | `MedianFilter` |
| Host settings (`server.py`, `Config.py`, `LTInterface.py`) | configuration in memory and file, cached values, retry counters | `set_*` handlers, `set_and_validate_*`, start of the server | `HostSettings` |
| Settings file (`Config.py`, `ConfigContext.py`) | the file, its time, the values read from it | constructor, backup, save; edits and crashes | `ConfigFile` |
| Host start (`LTUtils.py`, `i2c_node.py`, `serial_node.py`, `LTInterface.py`) | list of nodes with their indices, place of the search, port of the update | `discover`, `discoverserial`, `LTInterface.__init__` | `NodeDiscovery` |
| Log queue (`log.py`) | bounded queue, greenlets that wait | `emit`, worker, `wait_for_queue_empty` | `LogQueue` |
| Server process (`server.py`) | connections, polling loops, firmware update | start, `connect`, `check_bpillfw_file`, `do_bpillfw_update` | `HostServer` |
| Firmware loader (`stm32loader.py`) | place in the protocol, bytes read back | `flash_file_to_stm32` | `Stm32Loader`, `BootLoader` |
| Frame parser (`serialEvent`, `i2cReceive`) | command, buffer index and size | bytes of a frame | planned |
| Module detection (`setup`, STM32) | node array and count | compaction of absent modules | planned |
| RPi signal and shutdown | button, heartbeat and shutdown flags | status messages, pin samples | planned |
| Sensors, web pages, mock and older interfaces | | | not modelled, see section 7 |

How the parts meet. Commands travel from the host to the node as frames: a command byte, a payload
and a checksum. A read is answered by the node. On an STM32 one processor serves up to eight nodes;
a command carries no node index, so the host selects the node first and remembers the selection. The node
handles commands between two passes of its loop (serial) or in an interrupt (I2C), and the
handlers share the detector's state and `settingChangedFlags` with the loop. The host is one
process of greenlets: the update loop and one handler per browser event. They yield only at I/O,
sleeps, locks and a full log queue, and share one lock for the port. A firmware update closes the server's
serial port, opens it again for the loader, and ends with the shutdown of the machine.

What is hard about it: an interrupt between two statements of the loop; a power failure between
two EEPROM bytes; a selection the host believes and the processor has not made; frames lost after they took
effect; a node that restarts between two polls; lap numbers of 8 bits and clocks of 32 bits that
wrap; one failing port in a round over many; bounded retries that must end; a start that is cut short while
it rewrites a file the user has edited; log calls that yield between a test and its use; a boot loader that counts
bytes on a line that loses some. `PROJECT.json` lists these
hazards line by line with the properties that cover them.

## 2. Modules

`LapDetect` models `rssiProcessValue` and `rssiEndCrossing` statement by statement: `pc` stands for the
statements that touch state shared with the commands. Where one statement reads such state and then writes it, it has a step for each,
with what was read in a local (`triggerThreshold`, `maxPeak`): a command that comes between is undone by the write. `Preemptive` chooses between the I2C build,
where a command may come at any statement, and the builds where it waits for the loop. The filter's
output is the input: any sample, as long as the quad is near, then falling to 0.
History variables (`owed`, `seen`, `calibSeen`) record what the properties need: crossings begun and
not yet reported, the samples of the present crossing, a crossing since the last calibrate command.
Raising the trigger is two steps, the test of `rssi - calibrationOffset` in int and the assignment of the same difference to a byte
(`RssiNode.cpp:298-299`), because an interrupt can change the volatile offset between them. An assignment of a multi-byte time is one step:
a command that interrupts it on an AVR and reads or writes half of it is not modelled.

`NodeLoop` models `setup()` and `loop()` with the snapshot of `settingChangedFlags`, the tuning, the EEPROM
words written byte by byte, the communications monitor, and power cycles at any step. Both links are in
one model, chosen in the initial state. Whether the pass shows a crossing is any choice, since `LapDetect` says when there is one. A pass ends either
off the 20 ms tick of the status LED or on it (`LedStays`, `LedTick`), and only on the tick, and with no crossing to show, is the activity bit cleared.

`NodeRegisters` is what the callers of `read_block` and `write_block` rely on: each node is a register of its own;
a write that returned `True` is on its way and is applied later or never, in order; a read
returns what its own node holds after the earlier writes have arrived or were lost.

`SerialLink` is how the code does it: the lock, the holder, the selection with its confirmation, both
retry loops, and a port that loses frames. It implements `NodeRegisters` as long as the selection is tracked:
the variable `tracked` is false after a restart of the processor or an abandoned selection until the next
confirmed one. The refinement mapping (`Registers == INSTANCE NodeRegisters WITH pending <- SentWrites(toNode)`) takes the write
commands among those under way as the pending writes; they are the first of them, because whoever asks a question keeps the lock
until nothing is under way.

`LapPolling` models the round over the nodes and the pass records. A poll is one step, since `update()`
does not yield between the answer and the record; any number of passes, a restart or an error may
come between two polls.

`HostSettings` models what a `set_*` event does: the configuration entry and its file, the write, the read-back,
the retries and the cached value, with other handlers between any two blocks and a server that dies at any of
them. It instantiates `NodeRegisters` with an item (frequency, threshold, calibration value) for each register, so
it uses what `SerialLink` is checked to implement, for a tracked selection. `levels` says which
items are RSSI levels and which are frequencies; the two differ in which values are sent and what is cached.
History variables `confirmed` and `alone` record whether the last task on an item read its value back, and
whether it met another task. A save that fails is caught in `set_item` and nobody asks for its result; what it left in the file is only read by the next
start, so it is chosen by the crash before that start (`CrashUnsaved`).

`MedianFilter` has the ring of values, its sorted copy and the ring of times, with the indices of the code. A bubble pass
is one definition: each slot the new value passes gives its value to its neighbour. The history variable `recent` is
the window as the samples came, which the properties compare with the rings. `LapDetect` takes
the filter's answers as arbitrary input; what these answers are is the subject of `MedianFilter`.

`HostServer` is the server as a process, composed of three modules that have no `Next` of their own. `ConfigFile` has the
steps of one `Config` constructor: read, backup of a file that seems edited by hand, truncation, write.
A start constructs five of them at most, and `HostServer` says how many before which part of the search for nodes. `NodeDiscovery` has
that search: identification of the board, I2C addresses, serial ports with two that search: identification of the board, I2C addresses, serial ports with two baud rates and several tries, and
the set-up of each node found; every read can fail, and what is not caught ends the process. `LogQueue` has the
queue and the greenlets that wait: one for room in it, the others for the handler's lock that this one holds meanwhile. After the start, each client, the polling loop, the log worker and the
update are greenlets; an action is what one does between two points where it may yield. A greenlet in `blocked`
does nothing until its record is in the queue or a second is over. `skipped` is a history variable: the index of an I2C node is that of its address
and so has gaps, while those of the nodes at serial ports count on without them. `HostServer` does not know what the
loader does with its port: it writes messages to the log and ends. Which port that is, it does know: the one the server has noted in `fwPort` and
closes, if the close does not raise (`CloseRaises`), or the loader's own default when there is none (`LoaderPort`).

`Stm32Loader` is that loader, one exchange (a message and the first byte of its answer) per step, with a port that
loses, garbles or delays, a flash cell that does not take its byte, and calls that fail. `BootLoader` is the ROM at the
other end, not code of the repository: it counts bytes, so a message that lost one is completed by the
next. `setup.tool` chooses between the command-line tool, whose console is `print`, and the server's console function; `setup.pins` says whether
the GPIO pins that a Raspberry Pi moves lead to the processor, as on an S32_BPill board. An exception of the GPIO library is a fault: it is caught, and the call goes on
without the reset. `emptySource` is a download without a body, after which the flash is erased and the call returns True. The application
ignores bytes at the loader's speed; a changed byte is never taken for ACK; data read from the ROM may happen
to look like ACK or NACK; the Boot0 jumper is not installed by hand, as a message of the loader asks for. A byte of the flash that does not take what is
written keeps what it had, although the write is acknowledged. `Stm32LoaderAssumption` keeps the bytes of the memory apart from those that only the protocol
knows (lengths, versions, noise): a byte that was changed on the line, or is left of an earlier answer, does not happen to be the
one the file has at that place. It also says that the file differs from the old firmware in some byte; section 6 says what happens without.

Each component has a module with its behaviour and properties; `LapDetectMC`, `NodeLoopMC`, `HostSettingsMC`, `HostServerMC` and
`Stm32LoaderMC` only give values to constants that a `.cfg` cannot write down. Proofs are in `*Proofs` modules. Operators
commented "Faulty variant" are plausible bugs of a definition; each property is checked to fail
when the definition is replaced by one of them.

## 3. Runs

| Run | Module, configuration | Question |
|---|---|---|
| `lap_serial` | `LapDetectMC`, `LapDetectSerial.cfg` | commands between passes: one lap per crossing, with its own peak and time, a trigger below the peak, calibration that sees a crossing |
| `lap_live` | `LapDetectMC`, `LapDetectLive.cfg` | I2C build, wrapping clock: crossings end |
| `lap_double` (violation) | `LapDetectMC`, `LapDetectDouble.cfg` | I2C build: one crossing can be counted twice |
| `node_settings` | `NodeLoopMC`, `NodeLoopPass.cfg` | nothing set over serial is forgotten; the EEPROM returns only what was set; the receiver is tuned; a silent bus is reset, if the crossings end |
| `node_lost` (violation) | `NodeLoopMC`, `NodeLoopLost.cfg` | over I2C a setting can be forgotten |
| `link_blocks` | `SerialLink`, `SerialLink.cfg` | commands find their node; the link implements the registers; blocks end |
| `link_desync` (violation) | `SerialLink`, `SerialLinkDesync.cfg` | the holder can differ from the selected node |
| `lap_polling` | `LapPolling`, `LapPolling.cfg` | what a pass record says of the passes; a new lap is reported |
| `settings` | `HostSettingsMC`, `HostSettings.cfg` | a confirmed setting is what the clients see and what the next start finds in the configuration; tasks end |
| `filter` | `MedianFilter`, `MedianFilter.cfg` | the answer is the median of the window, with the time of its middle |
| `host` | `HostServerMC`, `HostServer.cfg` | edits of the settings file are kept, nodes are numbered, polling loops are counted, an update is for one processor and ends |
| `flash` | `Stm32LoaderMC`, `Stm32Loader.cfg` | success means that the file is in the flash and runs; a failed call does no more damage than it must; a Raspberry Pi that is wired to the processor recovers it |

Bounds, and why they are enough.

- `lap_serial`: four RSSI values (0 to 3) give room below, at and above every threshold and for an offset, and one of
  the two offsets is as large as the strongest signal, so that it forbids every raise; a byte counts modulo 8, so that a negative difference shows;
  two settings written field by field give every mixture; gaps of 1 and 2 ms make the averaged peak time
  round; `MaxTime` 5 fits two crossings with a command between them. The clock is below half its
  range, as in the first 24 days of a node; `lap_live` lets it wrap (`TimeMod` 2), and does not count laps (`LapMod` 1), which its property does not look at.
- `node_settings`: three byte values (erased, zero, one) tell the halves of a word and an unwritten byte
  apart; one threshold stands for the three, which the code treats alike; one power failure reaches each
  pair of an interrupted and a repeated boot, and the proofs cover any number.
- `link_blocks`: two greenlets and two nodes are enough to disturb each other; one retry and two
  selections reach every counter's end (the code has 4 and 20 retries); three frames are the most one block
  has under way together with one write left from the block before.
- `lap_polling`: two nodes, one behind the other in the round; lap number and clock of two values wrap after two steps; one restart.
- `settings`: two handlers and the starting server are all that can meet on one item, and items do not influence each
  other once the registers are those of `NodeRegisters`; a level and a frequency are both initial choices; one retry reaches the end
  of the counter; one write under way (`MaxQueue`) can be late or lost while the other handler works; one crash, also inside
  `save_config`, is followed by a complete start.
- `filter`: five slots have an end, a middle and an inner slot on either side; three values give ties and both
  directions; two times tell neighbours apart, and the rings turn with coprime periods (5 and 3).

- `host`: what the run explores is a set of scenarios, since edits, faults and clients do not influence each other in all
  combinations. Seven machines (nodes on either address, behind one or both ports, absent, an Arduino or a processor with 0 to 3 modules, with and without the
  S32_BPill board) start with up to two failing reads; those with a board, and the one with two I2C nodes, also with clients, and so does one with two processors. One machine has clients and a fault, one has two edits and
  two crashes, which reaches a second edit while the first is being saved, and one has a crash with clients. Two clients
  are enough for two starts that overlap, and a queue of one record is full as soon as anybody logs,
  as the start does when it has deleted old log files (the code's queue has 99). Two addresses, two ports, two
  baud rates and two tries reach the end of each loop of the search (the code has 8, any number, 2 and 4). One message of the loader waits for the log while everybody else logs.
- `flash`: a file of one whole chunk and one that is padded, in a flash with a byte to spare; two calls, so that the second one meets whatever the
  first left; two faults among all the calls, bytes, cells, resets and downloads, so that one may hide another.

## 4. Fairness

`LapDetect` and `NodeLoop`: weak fairness of the processor's loop, which has no blocking statement, and none for
commands, quads or power. `NodeLoop` adds strong fairness of `LedTick`: a pass takes much less
than the 20 ms between two ticks, so passes keep falling on the millisecond of one. Nothing is assumed of crossings: `SilentBusIsReset` has as its hypothesis that from some
time on no pass shows one, since one that never ends keeps the activity bit up. `SerialLink`: weak fairness of the host, because every
wait has a timeout, and of the port, where every frame arrives or is lost. `LapPolling`: weak fairness of the
update loop and strong fairness of an accepted poll of each node, since not every read fails.
`HostSettings`: weak fairness of each greenlet (every block returns), of the node's side (every write
arrives or is lost), of the start and of the restart of the server. `HostServer`: weak fairness of the update, whose greenlet gevent
schedules again after every sleep, and of the end of its wait for the log, since `put` has a timeout of one second; none for the
worker, the clients or the polling loop. `Stm32Loader`: weak fairness of the loader, whose reads of the port all have a timeout; none for a
second call. `MedianFilter` has no liveness property.

## 5. Proofs

All theorems hold for every value of the constants under the assumptions the modules name.

- `LapDetectProofs`: `TypeOK` on both builds, where the trigger is a byte, and with commands between passes one in the range of the
  signal, because the difference it takes has been tested (`TriggerFits`); the four safety properties and `PassIsMeasured` with commands between
  passes. None is inductive: at each `pc` the invariant relates the crossing flag, the pending
  crossings, the peak, the trigger, the sample in hand and the times of the crossing (`OwedInv`,
  `PeakInv`, `TimeInv`, `CalibInv`). `PassIsMeasured` needs the clock to stay in the lower half of its range, because the averaging of two
  32-bit times overflows above it.
- `NodeLoopProofs`: `TypeOK`, `SerialSettled` and `RestoredWasSet`. `SerialSettled` is only a claim about the end of a pass; the
  invariant says at every statement where a value that the receiver or the EEPROM lacks is still
  remembered: in the flags, in the snapshot, in the word being written, or in the list of words to
  write. `RestoredWasSet` needs that every byte on its way to the EEPROM is from a value that was set,
  and that the check word is written last.
- `SerialLinkProofs`: `TypeOK`, `CommandFindsItsNode` and `ImplementsRegisters`. The invariant adds what can be under way at each point of the
  protocol (`Shape`), what an answer about the index is worth after restarts (`Answers`), and when the
  holder names the selected node (`Selected`). For the refinement (`Refinement`), `Blocks` adds that writes go ahead of questions on the
  line, so that the writes under way are a sequence, and each action of the link is shown to be a step of the registers (a call, an
  arrival, a loss, a return) or to leave them alone (the lock, the selection, a retry).
- `LapPollingProofs`: `TypeOK`, `NewLapMeansNewPass`, `NothingReportedTwice` and the action property `RecordTimesThePass`. The
  invariant counts passes modulo the lap number's range (`Counted`), pays records with passes
  (`Balanced`) and bounds the stamps by the boot (`Stamped`); the arithmetic of wrapping clocks is in lemmas about
  remainders.
- `MedianFilterProofs`: the four properties of the run, and that the buffer is always sorted (`InOrder`), for every odd window. The invariant says which slot holds which sample of the
  window (`Ring`), that the sorted buffer is the ring permuted (`SameValues`: an injection of slots), and where the last
  times are (`Stamps`). A bubble pass is shown to keep the order and to move each value to one slot; the
  median follows by counting, since more than half of the window cannot be on one side of the middle slot.

- `HostServerProofs`: all invariants of the run, for any number of clients, edits, crashes and faults and
  any hardware. `EditInv` says what the constructor has found out about the file between its read and its write: once it is past the backup,
  a backup that is still due can only be one of an edit too recent to be seen. `JumpInv` follows the port of the update through the search and the set-up: the
  nodes are all on the bus or all behind ports, none has flags before it is set up, and the port noted is that of the first with flags, if it has one. So the node that is
  looked for by its flags much later (`LTInterface.py:344`) is at the port that was noted. `LoopInv` counts the starts that wait for the log together with the loops, because each will spawn one whatever happens meanwhile;
  cardinalities need the clients to be finite, which the module assumes. `NodesNumbered` is about a list that grows while two offsets are
  counted: `Numbered` says for every place of the search how the next index relates to those in the list, and `OnePort` which of the nodes have had their
  settings while `LTInterface.__init__` goes through them.
- `HostSettingsProofs`: `TypeOK`, `CacheIsTheNodes` and `ConfigIsTheNodes`, for any number of handlers, items, values and crashes. Neither is inductive: a late
  write of an earlier task could still overwrite what was confirmed. `Settled` adds that no write to a confirmed item is
  under way (a read of `NodeRegisters` waits for the writes before it), `Blocks` ties each block to the task that waits for it, and `Undisturbed` says that a task that meets no other
  is setting what the configuration says.
- `Stm32LoaderProofs`: the four invariants of the run, for any file, sizes, calls and faults, along one invariant (`IInv`) that
  TLC also checked, with three faults and two calls. An exchange is first reduced to two facts: how the boot loader may react (`Refused`: not the message it waits for, so
  the flash stays and it says NACK at most; or the one change the message asks for), and what may arrive of an answer (`Garbled`: all of it, with one byte
  changed, with one missing, or nothing). Three ideas carry the invariant. (1) From the id to the first erase the host and the boot loader are in
  lock-step, with nothing left on the line (`Identifying`); so nothing is erased or written before the id is read (`Untouched`). (2) While it is written, the loader may be
  behind or in front of the host, but an address is never past the offset, so the flash behind the file stays as the erase left it (`Replacing`). (3) What is read back proves
  something only as long as it equals the file (`SoFar`): then the line held no byte of an earlier answer, since those are no bytes of the file, so that each chunk came from the
  address it was asked for (`ReadingBack`). From the comparison on, both are in step again until the firmware runs (`Running`). `FirstCall` says
  when the server's first call may reset the processor.

Only model-checked: the liveness properties `CrossingCompletes`, `FrequencyIsTuned`, `SilentBusIsReset`, `BlockEnds`, `NewLapIsTaken`, `TaskEnds`, `CleanCallSucceeds` and
`UpdateEnds`, since fairness and ENABLED are out of the prover's reach. Every invariant and action property of the passing runs is proved. The two properties of the I2C
build that the violating runs refute have no theorem, and `LapDetectProofs` proves its safety for commands between passes only.

## 6. What the violations show

- `lap_double`: on an I2C node, a force-end command between the exit test and `rssiEndCrossing` counts a crossing twice (`RssiNode.cpp:322`).
- With `Preemptive` set to TRUE, `LapDetectSerial.cfg` also refutes `PeakStartsFresh`, `PassIsMeasured` and `CalibrationSeesACrossing`: a command that
  interrupts a crossing is followed by the rest of the statements under `if (crossing)`, which write a peak that stays. A larger
  offset that arrives between lines 298 and 299 wraps the trigger to a value the signal never reaches (`TypeOK` only says it is a byte): the crossing ends at once, and none
  begins until the next calibration.
- `node_lost`: `settingChangedFlags = 0` (`ltnode.cpp:429`) throws away bits an I2C interrupt raised during the pass:
  the setting is confirmed to the host and neither tuned nor saved.
- `link_desync`: the holder is only written when a selection succeeds (`serial_node.py:163`); after an abandoned one, or a restart
  of the processor, blocks go to another node than the host means.

What the passing runs and the proofs say about doubtful code, by what their properties leave out or depend on:

- `OneLoop` allows a second polling loop for each start whose log call waited: `start()` does not look at `update_thread` again after it (`LTInterface.py:114`).
  With the code's 99 records this needs a log that is full before the first client has connected.
- `EditNotLost` excludes an edit within 5 s of a save, which looks like the server's own (`Config.py:171`).
- `NodesNumbered` asks the settings to be at their own module only with one processor: `LTInterface.__init__` passes the index within the processor
  where `set_frequency` and the others take an index of the list (`LTInterface.py:67`), so the modules of a second processor get none.
- `UpdateEnds` holds although `stop_background_threads` raises at its first call (`server.py:342`), which leaves the polling loop
  running: the loop's errors only fill the log.
- `UpdateIsForOneProcessor` says which port is flashed, not that the server has let go of it: a close that raises is logged, and the loader opens the port all the
  same (`LTInterface.py:386-387`). When no node has the flag, nothing is closed, and the loader takes `/dev/serial0` (`stm32loader.py:841-842`), which the
  server may have open as the port of a node whose flags it could not read.
- `SilentBusIsReset` needs crossings to end, and `CrossingCompletes` a trigger above the trigger threshold, which the code does not enforce: a node
  with levels the other way round stays in its crossing, and its monitor never resets the bus (`ltnode.cpp:424-429`).
- `SuccessRunsTheFile` and `RunsWholeImage` except a call whose download had no body: the flash is erased and True returned (`stm32loader.py:947-948`).
- `CleanCallSucceeds` is about a Raspberry Pi whose pins lead to the processor. Without them the first call may leave a firmware or a half-read
  message that no later call gets past.
- `RunsWholeImage` is about the server. It holds because reporting a mismatch raises TypeError there (`stm32loader.py:944`): the processor is not
  reset. The command-line tool resets it, and runs an image that was just found to be wrong.
- `SuccessRunsTheFile` needs the assumption that the file differs from the old firmware. The proof found the case: a file that is the beginning of the firmware that is there. Three faults then
  make the loader take bytes that were left of the identification for the acknowledgement of an erase and of writes that never took place, and the
  verification, which reads no more than the length of the file (`stm32loader.py:607-628`), finds it there: success, with the old firmware running. Only
  bytes behind the file's end would show it.
- `SuccessRunsTheFile` does not depend on the flag set at `stm32loader.py:911`: a short read of the chip data is reported as
  a failure to communicate, and the flash is erased and written all the same.

## 7. Not modelled

I2C nodes of the host need no selection; one lock covers a transaction, and only their discovery is modelled. The
discovery leaves out firmware of an API level below 34. A download whose body is shorter than its header says is flashed
as it is (`stm32loader.py:808`), which is the model's call with that file; the empty one is modelled. The request has no timeout (`stm32loader.py:805`): `UpdateEnds` takes the loader
to end, which it does with a file of the disk. An exception of the GPIO library comes before the first pin is moved. Two updates at the same time, which the
web page does not offer, are left out, and so are the functions of the loader that nobody calls. The low-pass filters are
not built in. Sensors, web pages, vendored libraries, the mock and the older interfaces, the
installer and the hardware documents have no part in timing. `HostSettings` leaves out what overlapping handlers do to the
configuration: the last writer of the file and of the node may be different handlers, and then the next start
restores another value than the one in use. It also leaves out a value that no read-back confirmed: the code shows it as set. Bits on the receiver's tuning bus are below the
level of the models. A late answer that is taken for the next command's, after the 0.25 s
timeout, is assumed away in `SerialLink` (an answer comes in time or is lost).

## 8. Plan

Modules to come, in order of what they add to the behaviour that is checked:

1. Frame parser: `serialEvent` and `i2cReceive` with lost bytes, the payload size of -1 and late answers, as a refinement of the
   frames that `SerialLink` uses. This also removes the assumption about late answers.
2. The loop's clock: the comparison of `loopMillis` across the wrap, and the 20 ms tick counted by that clock, which
   would prove the fairness of `LedTick`; several nodes on one processor, with the activation of the selected node by `LAPSTATS_READ`.
3. Module detection: the compaction of the node array, with the read past its end.
4. RPi signal and shutdown flags.
5. `stop_background_threads` as it would be if its first call existed, with the end of the polling loop.

Proofs to come: an abstract specification of the update (old image, erased, file written, running) that `Stm32Loader` implements; for `LapDetect`
with interrupts at any statement, that only a crossing a command interrupted can be reported wrongly; of the liveness properties, the
safety facts they rest on (counters that only fall, locations that are left).
