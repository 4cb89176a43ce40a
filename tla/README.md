# Verification of the Robotiq gripper driver and tactile-sensor tools

TLA+ modules kept beside the code of this repository: models of its components,
TLC runs on small instances, and TLAPS proofs for every instance. Paths below are
relative to the repository; `sdk/` stands for `grippers/sdk_cpp/`.

## 1. Inventory

The repository holds two products.

**grippers/** - a C++ driver. A `Gripper` owns a background thread that writes the
pending command block to the gripper and reads its status back, over and over. The
application never touches the bus: it reads and writes a process image and waits on it.

| component | state | operations | hard behaviour |
|---|---|---|---|
| process image (`sdk/src/process_image.cpp`) | pending command, last record (count, command, status), closed flag, mutex, condition variable | seed, setCommand, publish, sync, close, three reads | notification after unlock, waiters with far deadlines, close |
| hosted platform (`sdk/src/hosted/std_platform.cpp`) | generation counter, std condition variable | waitUntil, notifyAll, join | spurious wake-ups, bump and notify outside the lock |
| ThreadX port (`sdk/ports/threadx/`) | counting semaphore, waiter count | waitUntil, notifyAll, join, tick conversion | tokens taken by the wrong waiter, time-outs racing puts |
| gripper state (`sdk/src/gripper_state.cpp`) | running flag, connection state, failure counter, thread | construct, exchange cycle, stop | failures half way through an exchange, counter wrap, stop at any point |
| waits (`sdk/src/wait.cpp`, `wait.hpp`, `gripper.cpp`) | locals of the caller | waitForExchange(Count), waitFor, setCommandAndWaitForExchange | a record of an earlier exchange taken for the one awaited |
| activation (`sdk/src/gripper.cpp`) | locals of the caller | activate, recoverFromFault | lost replies, stale status, power loss, deadline half way |
| Modbus client (`sdk/src/modbus_client.cpp`, `sdk/third_party/nanomodbus/`) | receive buffer | construct, readStatus, writeCommand, exchange | late, partial, damaged and exception replies, requests cut short by a time-out; no transaction number on the wire |
| serial port (`sdk/src/detail/`) | descriptor or handle, the time-outs Windows was last given | open, configure, read, write, drain, close | short transfers and interrupted polls against one deadline, hang-ups, an open that fails half way, a stale readiness flag, stale cached time-outs |
| fake gripper (`sdk/src/fake/`) | register file, rACT edge tracking | Modbus server (functions 3, 16, 23) over the register model, staging of faults | accesses at the edges of the register file, an access that has written when its read is refused |
| values (`command`, `status`, `fault_status`, `units`, `byte_packing`, `throttle`, `frequency`) | none | conversions | rounding, clamping, unknown codes |

**tsf/** - the tactile sensor.

| component | state | operations | hard behaviour |
|---|---|---|---|
| sensor SDK (`tsf/sdk_cpp/RobotiqTactileSensor.cpp`) | port, thread handle, atomic flags, vector of samples, slot for the version reply | constructor, start, stop, destructor, findBaseline, getFirmwareVersion, the acquisition thread | start/stop against the thread handle, samples and replies that belong to an earlier call, the port's end against the thread's |
| viewer's gripper controller (`tsf/sensor_quickstart/gripper_control.py`) | two pending flags, the sliders' command, last status, error | request_move, request_activate, worker loop | requests during calls that take seconds, calls that raise half way, a status that is no longer true |
| web viewer (`tsf/sensor_quickstart/web_viewer.py`) | clients and their tabs, clients still sending, data buffers | connect, tab change, disconnect with grace period, broadcast | pages that come and go while handlers sleep, browsers that take no frames |
| packet parser, monitor, force-torque stream, recorder (`tsf/sensor_quickstart/`) | byte buffer, snapshots | read, reconnect, write to file | resynchronisation on a damaged stream |
| firmware flasher (`tsf/firmware/bootloader_host.py`) | file and protocol position | flash row by row, verify | a flash that fails half way |

The two C++ products are modelled, and of the Python tools the viewer's gripper controller;
section 8 says why not the others.

How they interact: `Gripper` calls `GripperState`; the exchange thread calls the Modbus
client and publishes to the process image; application threads read the image and block in
`sync()`, which calls the platform's condition variable; `activate()` and the waits are
built on `Gripper`'s public calls only. The Modbus client drives a `Serial`, which is either
`DefaultSerial` over the operating system's port or the fake gripper's `GripperSerial`, and
cannot tell them apart. The sensor SDK shares a vector of samples, a slot for the version
reply and a few flags between its thread and its callers. The viewer's websocket handlers and
its broadcast loop share one asyncio thread; they hand requests to the gripper controller's
worker thread under its lock.

Correctness, in one line each: no waiter sleeps through what it waits for; a closed image
lets everyone go; the record a waiter gets is a recent one, and one exchange unless replies
come late; the connection state tells the truth about the image; connecting moves nothing; destruction ends and
leaves nothing running; a procedure's result says what happened to the gripper; an answer
belongs to the request or to one already given up; every transaction and every call ends, under
its own time-outs; a port is open and configured or closed; a move ends where it was asked to; a baseline is made
of fresh samples; damaged framing is found again and whole packets decode to what was sent; a
page's last request is sent, its activation obeyed, and no move is sent to a gripper known not
to be ready.

## 2. Modules

| module | models | state and actions |
|---|---|---|
| `ExchangeFeed` | abstract: what `sync()` promises | a count, a closed flag, calls with a count and a deadline; no lock, no notification |
| `ProcessImage` | `process_image.cpp` over the condition-variable contract of `platform.hpp` | one action per critical section; `publish()` and `close()` unlock before they notify, so `NotifyAll` is an action of its own |
| `StdImage` | the same image on `StdConditionVariable` | adds the mutex, the generation, and each step of `waitUntil()`/`notifyAll()` |
| `ThreadXImage` | the same image on `ThreadXConditionVariable` | adds the semaphore, its queue of suspended threads, and each `tx_semaphore` call |
| `Link` | what an `exchange()` that gave up leaves to the next: replies still owed, oldest first | operators only; `Take` is an exchange that returns the first reply to come, its own or an owed one, `GiveUp` one that throws. `ModbusLink` shows why |
| `GripperState` | `gripper_state.cpp`, `gripper.cpp`, `wait.cpp` on `ProcessImage` and `Link` | owner (construct, start, stop), exchange thread (one action per atomic access or critical section), commander, observers; one exchange is one step that returns a status or throws, and either way the gripper may or may not have got the block |
| `Activation` | `activate()`, `recoverFromFault()`, fault severity, the register model's reaction to a block | procedure steps, exchange cycle over `Link`, and a gripper that sweeps, faults and loses power by itself |
| `Serial` | abstract: what `serial.hpp` promises a caller | calls and returns over counted bytes; a constant says whether a read may raise on a live line |
| `SerialPort` | the POSIX and the Windows `SerialPort` | one action per system call (`read`, `poll`, `write`, `tcdrain`, `ReadFile`, `SetCommTimeouts`, ...) on a line that moves by itself; Windows' `setTimeouts()` skips, is refused or sets, before the call it is for |
| `SerialCaller` | `DefaultSerial` with any caller | open, close, read, write with drain |
| `ModbusLink` | `GripperModbusClient` and nanomodbus' client half over `SerialPort`; gripper and line are external | construction, a transaction (flush, send, drain, then one action per read of nanomodbus: address, function code, byte count, data, CRC, or exception code and CRC), replies that come late, in part, damaged, as exceptions or never |
| `Units` | `units.cpp`, `frequency.hpp`, `exchange_period.hpp` | operators only |
| `FakeDevice` | abstract: the fake gripper as its headers describe it | one typed status, no registers |
| `FakeGripper` | `src/fake/`, the packing of command and status, the client calls, `moveTo()` | register file, rACT edges, Modbus functions 3, 16, 23, a second client, the exchange thread (copy, exchange, publish), moves and the waits they are made of (the count and the command are two steps) |
| `TactileSensor` | `RobotiqTactileSensor` | owner (construct, stop, start, destroy), acquisition thread (autosend on, loop test, read, one packet at a time, store, autosend off), caller (`findBaseline()`, `getFirmwareVersion()`); one action per atomic access, critical section or call of the port; a sample is the number under which it was parsed |
| `BoundedQueue` | abstract: a queue of the newest items | push, pop, peek, extract, clear |
| `CircularBuffer` | `SafeCircularBuffer` | one action per member function |
| `SensorStream` | `usbReadByte()`, `parseSensors()`, callback into a `CircularBuffer` | one action per byte; wire losses, thread restarts |
| `GripperController` | `gripper_control.py` | handlers record requests; the worker takes them, calls the gripper (an activation is three steps), follows it and stores its status; any call may raise, with or without having read the status |
| `MC*` | instances for TLC | |
| `*Proofs` | theorems about the module they are named after; `PlatformImageProofs` about `StdImage` and `ThreadXImage`, `ModbusLinkProofs` also about `SerialPort` and `SerialCaller`, `TactileSensorProofs` also about `CircularBuffer` and `SensorStream` | |

`StdImage`, `ThreadXImage` and `GripperState` EXTEND `ProcessImage` and conjoin their own
steps to its actions, so a change of the image changes them all. `Activation` keeps of the
image only what the procedures see (pending block, last record, is it new), which is what
`ImplementsFeed` shows the image to provide. `SerialCaller` and `ModbusLink` both EXTEND
`SerialPort`; `GripperState` and `Activation` EXTEND `Link`; `SensorStream` EXTENDS `CircularBuffer`; `FakeGripper` EXTENDS `Units`.

What is abstracted: a command block is a record of the fields a property tells apart
(`GripperState`: rACT, rGTO, position and one field without echo; `Activation`: rACT, rGTO);
time stamps, logging and the log throttle are left out; time is a flag per deadline that
may turn at any moment. On the serial line a byte is its position in the stream, in
`ModbusLink` also the transaction and part it belongs to, so that a reply taken by the wrong
request can be told although the code cannot tell it. `FakeGripper` and `SensorStream` keep
the bytes, since their properties are about the packing.

In `TactileSensor` packets arrive whole, several in one read; the sensor may ignore a
request, answer late, and send samples when nobody asked (an earlier session may have left
it sending). The result of a failed write is ignored where the code ignores it, and the
period goes out in one byte. One thread makes the calls, another may stop and start the
sensor meanwhile; the destructor overlaps no call.

In `GripperController` speed and force, which the code treats alike, are one field; the
library and the gripper are external: the gripper may fault, lose power or be activated by
somebody else at any time, and a call may raise before or after it has had its effect.

Operators introduced as "Mutant of X" are faulty variants of X: with X replaced by the
variant, TLC must find the property named in `PROJECT.json` violated. No specification
uses them.

## 3. Runs

| run | shows |
|---|---|
| `std_image` | hosted platform: the generation never forgets a notification, every call returns once its deadline has passed. That every return has a reason is proved (`StdImplementsFeed`) |
| `threadx_image` | ThreadX: enough tokens for all on close, everyone leaves a closed image; a token left over from a get that timed out is taken for no record: every return has a reason (`ImplementsFeedSafety`) |
| `gripper_state` | Faulted means stale and conversely (`FaultedIffStale`, with a wrapping counter); a record is one exchange, unless the exchange took a reply owed to an earlier one, which only a failed exchange makes possible (`RecordIsOneExchange`); a carried command holds under the conditions of `CarriedCommandHolds` (section 6); until the application commands, the exchanges neither reset, start, stop nor redirect the gripper (`ConnectingMovesNothing`); nothing runs after destruction; destruction ends; on a condition variable that keeps its contract no wake-up is lost (`NoLostWakeup`), and `sync()` returns whenever it has a reason, and only then: the gripper refines `ExchangeFeed` with its fairness (`ImplementsFeed`) |
| `activation` | Activated from `recoverFromFault()` means a reset and a whole sweep during the call, if the call was not made with an exchange under way behind a reply still owed (`caughtUp`); `activate()` resets no gripper that is active, activating or in a major fault, unless a status still to be published shows it otherwise (`spared`); a sweep of the handshake ends at rest unless the call times out; both return |
| `modbus` | both operating systems: an answer arrived after its request, is nobody else's, and is its own or that of an earlier request that failed (`AnswerIsOwnOrLate`); between calls the port is open and configured exactly when there is a client; on Windows a read or write runs under the time-outs it asked for, whatever `setTimeouts()` skipped or was refused (`CallsKeepTheirTimeouts`); the port refines `Serial` except for the finding of `serial_hangup`; every call into the client ends |
| `fake` | the fake gripper, packed to bits, bytes and registers, refines `FakeDevice`; a move ends within half a register step of the opening asked for: the exchange taken for its end carried it, though another may be on the wire when it is commanded |
| `tactile` | a baseline is made of as many samples as it divides by, and only the first can be older than the call; a version is a reply; the port outlives the thread; the flag is cleared however the search ends; the sensor is left quiet; every call returns |
| `stream` | the framing, once in step, stays so whatever bytes the packets carry, and after a loss or a restart finds its place within a bounded number of bytes of packets without a start byte inside; a packet read whole decodes to what was sent, finger by finger; the ring refines `BoundedQueue` |
| `controller` | once nothing is pending the gripper has been told what the sliders show (`LatestIsSent`); no move goes where a page asked to before an activation that returned; a move, which would activate a gripper in reset, goes only to a ready one (`MovesOnlyReady`); an activation is not starved by moves |

Runs that TLC refutes, each a disagreement between a comment or document and the code:

| run | what happens |
|---|---|
| `std_lost_wakeup` | a waiter woken for another reason tests the generation, `close()` bumps it and calls `notify_all()`, the waiter falls asleep: it stays until its deadline. `notifyAll()` holds no lock |
| `tactile_restart` | `stop()`, the loop ends, `start()`: the thread handle is still joinable, so no thread is created; `m_running` says yes and nobody reads |
| `serial_hangup` | POSIX: a read polls, takes the first piece of its bytes, and reads again at once with `polledReadable` still set; the second piece is not there yet, the zero-length read passes for a hang-up, and the first piece is thrown away |

Further divergences are visible in the modules without a run of their own:

- `ExchangeSucceeds`: `gripper.hpp:46` says of a record "Two fields never come from different
  exchange cycles". `exchange()` may return the reply to an earlier request that timed out
  (`modbus_client.cpp:184`; RTU replies carry no number), and is published with the command
  of this one. A record then joins two cycles until one finds the line empty again;
  `RecordIsOneExchange` says when.
- `SeedCommand`: `gripper.hpp:37` says that connecting never disturbs a gripper that is
  already running. Speed and force have no echo, so the first exchange sends the defaults,
  full scale (`gripper_state.cpp:67`; `test_gripper.cpp:262` documents it): one that goes to
  its position slowly goes on at full speed. `ConnectingMovesNothing` says what is left.
- `Carried`: block A on the wire, B set, A set again with `setCommandAndWaitForExchange()`:
  the first record of A satisfies it while B is on the wire, or is copied next.
  `CarriedCommandHolds` claims nothing of such a record.
- `CommandMove`: the same for a move. The count is read, the exchange of an equal block that
  had been commanded before the last one is published, the move is commanded: the exchange
  is taken for the move's, and its opening may be reported while the last command is still
  on the wire (`wait.cpp:24-29` compares blocks by value; `ahead` marks it).
- `Begin`, `ExchangeSucceeds` of `Activation`: a reply that comes late and shows a reset
  makes `activate()` reset a gripper that has become active since (`gripper.cpp:179-203`).
  When records come two exchanges late, because a reply was owed and an exchange under way
  at the call, `recoverFromFault()` may take the reset from before the call for its own and
  report Activated without a sweep.
- `activateEnds`: the comment at `gripper_control.py:210` says that the command follows what
  the gripper reports after an activation. One that has reset and swept and then raises skips
  those lines, and the next move goes where a page asked before it. `outdated` tells the two.
- `Realigns`: while packets that have the start byte among their data keep coming, the
  framing may stay out of step: `calcCrc8()` is a placeholder that accepts every packet, so
  the search behind it (`RobotiqTactileSensor.cpp:160`) is never reached.
- `ResetTimesOut`, `CompleteTimesOut`: reset applied, replies lost, time-out: the restored
  block re-activates the gripper with rGTO set. `SweepEndsAtRest` excludes the time-out.
- `Begin`: after `setCommand()` with rACT clear the exchange on the wire may still show an
  active gripper; `activate()` returns AlreadyActive and the next cycle deactivates.
  `ActivateSpares` speaks of calls with no reset on its way (`NoResetOnItsWay`).
- `ActivateAlreadyActive`: the comment of `ActivationResult::AlreadyActive` says
  "fault-free", the code (and a test) returns it with a minor fault.
- `LoadWaiters`, `PutToken`: `threadx_platform.hpp` says that no token is ever lost, but a
  thread that registers between the count and the puts can take one meant for an earlier
  waiter. `EnoughTokensToClose` shows that this is harmless once the image is closed;
  otherwise the waiter sleeps until the next exchange.
- `activateBegins`, `activateStarts`, `Dropped`: `activate()` resets the gripper and may then
  raise something else than a gripper fault (a lost link). The status from before the reset
  stays, so the next move counts as one to a ready gripper, is sent with `start=True` and
  makes the gripper sweep. `MovesOnlyReady` excepts the time in which `error` says so.
- `SendPeriod`: a period that is a multiple of 256 ms goes out as 0, which tells the sensor
  not to send; the constructor takes any.
- `parseSensors()` skips a sensor type it does not know by its type byte only and reads its
  values as types. No source names such a type, so `SensorStream` sends none.

## 4. Bounds

- `MaxExchanges` 1: publishing is symmetric in the count. One record and a close already give
  the two notifications that the platform models need to overlap, and exchanges that fail
  are not bounded, so the one record may come after any of them. The proofs have no bound.
- `MaxLate` 1: one reply still owed. A longer queue delays a record by more exchanges; the
  theorems take any length.
- two waiters where they compete (mutex, tokens); one in `GripperState`, where the waiter
  is the commander and, between commands, an observer: waiters of the image do not disturb
  each other, and `ImageImplementsFeed` takes any number of them.
- two command blocks in `GripperState`, a gripper at rest and one moving, each found at a
  speed of its own (`Found`): enough for a block on the wire, one pending and a record that
  is neither. The theorems
  cover every set of blocks, also those that differ in a field the gripper does not echo.
- `FaultThreshold` 2 and `CounterRange` 3 instead of 3 and 2^32: the counter wraps within
  reach. The theorems take any threshold below the range.
- `MaxUpsets` 1: one fault or power cycle, at any point of any number of calls; a minor
  and a major code, since the code only asks whether a fault is major. The theorems hold for any fault codes and any number
  of upsets.
- `ModbusLink`: two transactions (`MaxTx`), since a late reply needs one to miss it and one
  to take it; `MaxFaults` 1 byte lost or damaged; a transmit buffer of one byte (`Room`), so
  every request is written in pieces; `Buffer` 8 bounds what a flush may read (the theorems
  take any buffer that holds a request, and so a flush that leaves bytes behind). A reply is
  five bytes, in the reads in which nanomodbus takes it, two of them for the data of a reply
  to a write; refusing a request counts as a fault. `readStatus` is left out of `Kinds`: its
  steps are those of `exchange` with another function code.
- `serial_hangup`: reads of 0 or 2 bytes, three bytes on the line: the least that splits.
- `fake`: the gripper's two blocks of registers, in their order and with a gap before and
  between, at lower addresses and with four registers instead of eight; two profiles (one whose registers do not
  reach 0 or 255, one without a range, for which conversions decline); openings beyond an end
  and between two registers; two paces: one declines a speed below zero, the other asks for full speed
  and effort, which every command of the instance has (a second force would multiply the states
  and is in neither property); one fault byte.
  The theorems take any of them, and any layout.
- `stream`: packets with one finger whose value has the start byte in it, with two fingers and
  two fields, and a version reply whose text would parse as a sample; ring of 2; one loss or
  restart, anywhere. What a message looks like on the wire is a relation (`LaidOut`), which
  `MessageAssumption` makes TLC check of the instance's messages and the theorems take of any.
- `TactileSensor`: 2 samples and 3 polls instead of 1000 and 500, 4 sensor packets, up to 2
  packets per read, one unanswered request: a search can give up with none, some or all of
  its samples, and a second one can begin while the thread holds a sample for the first.
- `controller`: two positions, so that a slider can have moved; one speed. Two requests of
  any kind overlap every step of the worker, since requests are not counted.

Deadlock is not checked where the system may stop: an image that was closed, a gripper
or sensor that was destroyed, a port whose other end hung up.
`Activation`, `FakeGripper`, `SensorStream` and `GripperController` never stop and are checked.

## 5. Fairness

- A thread inside a driver call keeps running (weak fairness per thread). On the hosted
  platform a thread that keeps asking for the mutex gets it (strong fairness).
- No exchange need succeed, no owner need stop, no deadline need come, unless stated:
  `StdTimedSpec` lets the deadlines of the calls in question come.
- `ProcedureReturns` assumes the clock (`DeadlineComes`), and that a wait past its deadline
  once finds no new record: a turn of the loop takes microseconds, an exchange milliseconds.
- `TransactionEnds` assumes that the client and the port run and that the clock does, so a
  deadline of a call under way passes; the gripper owes nothing and the POSIX line may
  stall. On Windows, where `FlushFileBuffers()` has no deadline, the driver sends what it
  was given: without that the call would hang, which is what the code risks there too.
- `SensorCallsReturn` assumes that the threads run and that time passes for a caller that
  waits; the sensor owes nothing, and nobody need start a stopped thread again.
- `HandshakeCompletes` assumes a link that answers again and again (`LinkAnswers`) instead
  of a clock.
- `ActivateIsObeyed` assumes that the worker goes on, so every call on the gripper ends, one
  way or another; the gripper owes nothing.

## 6. Proofs

All theorems are about the safety part of a specification and hold for every value of the
constants under the assumption named in the module.

`ProcessImageProofs`, for any waiters, blocks, statuses and bound (`ImageAssumption` only
says that the "no command" and "no status" values are not commands and statuses):

- `ImageTypeCorrect`: the type invariant.
- `ImageLosesNoWakeup`: `NoLostWakeup`. With types it is inductive: a waiter enters
  "waiting" only when its loop condition holds, and the only actions that end the condition
  (`Publish`, `Close`) put their caller into `notifying`.
- `ImageImplementsFeed`: initial states map to initial states and every step maps to a step
  of `ExchangeFeed` or a stutter. Needs that an unseeded image has count 0, so that seeding
  is a stutter.

`PlatformImageProofs`, first for any waiters on the hosted platform (`StdAssumption`: the free mutex is
not a waiter): `StdTypeCorrect`, `StdMutexCoversTest`, `StdGenerationRecordsWakeup`,
`StdImplementsFeed`. The inductive invariant adds two facts to the named ones: no waiter has
seen a generation from the future, and only `close()` puts the stopping thread among the
notifiers.

Its second part, for any finite set of waiters on ThreadX (`WaitersAssumption`; tokens are
counted): `TxEnoughTokensToClose`, `TxImplementsFeed`. The invariant `TxInv` joins the first
with the agreement of the semaphore's queue with the waiters (`SemaphoreConsistent`), the types, the unseeded image and the order
of the notifiers (`NotifiersInOrder`). `TxStepIsImageStep` shows each step to be a step of
`ProcessImage`, an expired wait or the end of a notification, so the lemmas of
`ProcessImageProofs` are used again instead of proved again.

`GripperStateProofs`, for any blocks, statuses, thresholds, counter range and number of
replies still owed (`GripperAssumption`: statuses are the echoes of commands, the seed of a
status is a command, the counter can reach the threshold): types, `FaultedIffStale`,
`RecordIsOneExchange`, `ConnectingMovesNothing`, `CarriedCommandHolds`,
`DestroyedIsQuiet`, and that the connected gripper still keeps `NoLostWakeup` and implements
the safety part of `ExchangeFeed`. `GripperInv` has four parts next to the types: `Places` (where
owner, thread and commander are, and what that says of the image), `Health` (the counter
against the exchanges that failed), `BlocksHold` (what the gripper has against what is on the
wire, pending, owed and recorded) and `CallsHold` (what a call in progress may conclude from a
count). A record is whole when its exchange found nothing owed; `lagging` says that an
exchange has failed since the last whole one, and while it has not, nothing is owed.
`CarriedCommandHolds` is about whole records: one of an exchange that copied its block after
the call had set it (`copied`), or one of a block that was under way already, if no other
block was when the call began (`settled`). It then says that the gripper acts on the target
and that no superseded block is on its way. Of any other record it says nothing.

`ActivationProofs`, for any fault codes, number of upsets and of replies still owed: types,
`RecoveredBySweep`, `ActivateSpares`, `SweepEndsAtRest`. All statuses still to be published
are one queue (`Unpublished`). `ActivationInv` adds `Locals`, `ActiveOnly` (only an exchange
takes the gripper out of reset), and, for a call that was caught up, `Pipeline` (at most the
first of the queue is older than the call, and the first record takes it away; whatever shows
a reset after that shows one of this call), `Resets` (so a reset that was seen is real) and
`Sweeps` (after it the only way to Complete is the sweep); then `AtRest` (no block with rGTO
is under way) and `Spares` (a gripper to be left alone shows it in every status of the queue).
`Pipeline` is the heart: it is why the handshake waits for one exchange before it trusts what
it reads, and why that is not enough when two are behind.

`TactileSensorProofs`, for any numbers of samples, polls, packets and requests: all safety
properties of the `tactile` run. The inductive invariant `SensorInv` adds: the thread has a
packet in hand while it parses; the thread's life lies within the port's; a thread that has
ended told the sensor to stop; a slot that is ready holds a reply; and, during a search,
that once a sample is in the vector the one in the thread's hand is younger than the call -
which is why only the first sample can be stale. `Frames` says which steps touch which part
of the state, so that each part is proved against the few steps that disturb it.

Its part on the ring of samples, for any capacity and items (`BufferAssumption`: a positive capacity,
at least one item): `RingIsQueue`, the refinement of `BoundedQueue`. `RoundOnce` says that an
index never reaches twice the capacity, so `%` takes the capacity off at most once; the rest
compares sequences item by item.

Its last part, on the sensor's bytes, for any set of messages that are laid out as the parser
expects them (`MessageAssumption`), any number of losses and restarts and any number of
static values that `extractUint16()` can count:

- `StreamRealigns`, the framing. `ShapeInv` says what is on the
  line (the end of the packet under way) and what the receiver may hold (a start byte first,
  and less than the length byte asks for). To be in step is to have received what the line
  has given (`StepByStep` says so in lengths and bytes). `AstrayInv` makes the bound
  inductive: out of step with a packet begun, fewer bytes have gone by than were received;
  with none begun, at most what is left of the packet under way is still to be searched. The
  count starts again with every packet that has a start byte inside.
- `StreamDecodesWhatWasSent`, the parser. `ParseExists` gives the recursive function of
  `PartsOf` for any data, `PartThere` reads one part at the place where it was laid out,
  `PartsFound` all of them, from the last back to the first; `LatestStays` says which value a
  field has after `StoreParts`. `DecodeInv` adds to `ShapeInv` that as long as the packet
  under way is whole the receiver is in step, so its last byte hands the parser that packet.
- `StreamBufferIsQueue`, from `RingIsQueue`: every step is one of the ring's operations or
  leaves it alone.

What the parser computes needs induction over data, for which the library's theorems take an
operator as a parameter. `Induct` does without: a set of numbers that has 0 and the successor
of each is all of them, since the least number outside it (`LeastMember`, from `WFMin`)
cannot be. `RecursionDown` and `RecursionUp` get from it that a recursive function exists,
with its step given as a function instead of an operator.

`GripperControllerProofs`, for any positions and speeds (`ControllerAssumption`: `None` is
neither): types, `NoRequestIsLost`, `ActivationIsFollowed`, `ReadyMovesOnly`. `ControllerInv` adds `SeenIsRead`
(the library has read the gripper before its status is stored), `Placed` (only an activation
takes the position away, and a move asked for without one waits until a status is stored),
`Sent` (what the gripper was told, or is about to be, against what the sliders show) and
`ReadyIsReal` (a status that says ready is true unless an error or the gripper's own doing
came after it). `Placed` is why a move never goes to None.

`ModbusLinkProofs`, for any rates, transmit buffer, number of transactions and of bytes lost
or damaged (`PortAssumption`: the transmit buffer has room, what the port supports is among
what is asked for; `LinkAssumption`: a request fits the frame buffer), on both operating
systems. The port comes first, in anybody's hands: `PortInv` says that an operation under
way has a configured handle, that no call takes or puts more than it was given room for,
that Windows' cached time-outs are the driver's and a call under way runs under its own
(`TimeoutsInv`, which gives `CallsRunUnderTheirTimeouts`), and when a read that polled may find
nothing. From it `PortActsRefine` shows every system call to be a step of `Serial` or a
stutter; `CallerKeepsLooseContract` (`DefaultSerial` with any caller) and
`LinkKeepsLooseContract` (the Modbus client) both follow. The contract is the loose one, in
which a read may raise on a live line: the exception that `serial_hangup` exhibits.

The client's `LinkInv` adds to `PortInv`: `ShapeInv` (which call goes with which phase),
`FlushInv` (once the flush is over, what `since` counts has been taken, or the line is gone
and the request fails), `HeadInv` (the parts read so far came after the flush and the second
may be the right function code), `WireInv` (request bytes go out in order, none twice),
`ReplyInv` (a reply answers a request that was heard, in the order of the requests) and
`AnswerInv` (an answer once given was complete before the last flush). They give
`LinkTypeCorrect`, `OpenLeavesNothingHalf` and `AnswersAreFresh`: the reply a transaction
takes is complete behind its flush, every earlier answer was complete before it, and replies
come in the order of requests, so it answers a later request than any answer before.

`FakeGripperProofs`, for any commands, faults, profiles, openings and register layout
(`RegisterAssumption`: the blocks do not overlap and are longer than the three documented
registers; `InputAssumption`: bytes are bytes): `FakeActsAsDevice` and `MovesEndWhereAsked`.
The lemmas come in three groups. Packing: six bytes survive three registers (`BytesKept`), a
typed command or status survives its bytes (`CommandUnpacked`, `StatusUnpacked`). The
register file: a block written is the block read, and writing commands leaves the status
alone (`CommandWritten`, `StatusWritten`, `StatusRead`). Rounding: `RoundedBounds` is what
`lround` does, `RegisterOfSpan` that the register lies in the profile's band and is off by
at most half a step, `OpeningThereAndBack` and `NormalizedThereAndBack` the two conversions.
The invariant `FakeInv` has `DeviceInv` (the status block always unpacks to a status, and an
activation is done with the write that asks for it), `AppInv` (types), `ImageInv` (an image
carries the position it answers with; past the first wait of a move that is the move's, and so
is what is on the wire) and
`GoalInv` (the command lies on the register of what was asked for, and a report is its
opening). `ImageInv` is what a test would hardly reach: other clients and time-outs change
the registers at any time and an earlier block may be on the wire when the move is commanded,
yet what ends the move is its own exchange.

## 7. Model-checked only

- Liveness everywhere (`CloseReturnsWaiters`, `ImplementsFeed`'s fairness,
  `EveryCallReturns`, `DestructionCompletes`, `SensorCallsReturn`,
  `ProcedureReturns`, `HandshakeCompletes`, `TransactionEnds`, `ActivateIsObeyed`): out of the prover's reach.
- Every other property of the passing runs has a theorem; what the runs that TLC refutes say
  is false at the bounds given, which needs no more.

## 8. Not modelled

- Of the Python tools around the sensor (`tsf/sensor_quickstart/`): the packet parser (the
  same wire protocol is modelled from the C++ SDK), the monitor and the force-torque stream
  (one polling loop each, over third-party libraries), the recorder (writes what it reads).
  Of the gripper controller the search for its port.
- The web viewer: its sessions are one asyncio thread over a websocket library, and what a
  frame shows is sequential computation. One thing a reader of it notices: the handler of a
  page that left asks after its two seconds only whether somebody is there, so a page opened
  and closed again meanwhile does not get two seconds of its own (`web_viewer.py:642`).
- The firmware flasher (`tsf/firmware/`): a sequential script against a bootloader whose
  source is not here; what a reply means could only be guessed.
- The browser front end: rendering.
- Text and logging, time stamps, the log throttle: no state a property is about.
- `ThreadXThread`, the conversion to ticks and the hosted platform's sleeps: how long a wait
  lasts, which the models leave open anyway.
- The FTDI latency timer: it changes when bytes arrive, never which.
- The deprecated polling waits and the sensor SDK's estimate of its data rate.
- Example programs other than the moves of `gripper_events.cpp` and `move_gripper.cpp`,
  vendored libraries beyond what the driver relies on, build files.
