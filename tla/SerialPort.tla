----------------------------- MODULE SerialPort -----------------------------
(***************************************************************************)
(* SerialPort, the one class with a POSIX and a Windows body               *)
(* (detail/posix/serial_port.cpp, detail/win32/serial_port.cpp), system    *)
(* call by system call, on a line that moves by itself.  A call runs from  *)
(* its Begin action to the action that sets op back to "none".             *)
(*                                                                         *)
(* Bytes are counted as in Serial, time is a deadline that is far away     *)
(* ("later"), reached ("now") or not there ("never").  External: the       *)
(* terminal and its driver, which fail only once the other end has gone.   *)
(***************************************************************************)
EXTENDS Naturals

CONSTANTS
  Room,       (* bytes the transmit buffer holds                            *)
  Baudrates,  (* the rates callers ask for                                  *)
  Supported   (* those baudConstant() or SetCommState() know                *)

ASSUME PortAssumption == Room \in Nat \ {0} /\ Supported \subseteq Baudrates

VARIABLES
  arrived, taken, queued, gone,  (* the line and the driver's two buffers   *)
  os,                            (* which body was compiled                 *)
  handle,                        (* _fd or _handle: closed, raw, ready      *)
  cache, driver,                 (* Windows: _readTimeoutMs and             *)
                                 (* _writeTimeoutMs, and what was set last  *)
  op, size, deadline,            (* the call under way and its arguments    *)
  done, polledReadable,          (* its locals                              *)
  count, outcome                 (* what the last call came to              *)

line  == <<arrived, taken, queued, gone>>
port  == <<os, handle, cache, driver>>
locals == <<size, deadline, done, polledReadable>>
reply == <<count, outcome>>
portVars == <<line, port, op, locals, reply>>

Ops == {"none", "opening", "reading", "polling", "writing", "awaiting", "draining",
        "refusedRead", "refusedWrite"}
NoTimeouts == [read |-> "unset", write |-> "unset"]

PortInit ==
  /\ arrived = 0 /\ taken = 0 /\ queued = 0 /\ gone = FALSE
  /\ os \in {"posix", "win32"}
  /\ handle = "closed" /\ cache = NoTimeouts /\ driver = NoTimeouts
  /\ op = "none" /\ size = 0 /\ deadline = "never"
  /\ done = 0 /\ polledReadable = FALSE
  /\ count = 0 /\ outcome = "none"

-----------------------------------------------------------------------------
(* The line.                                                               *)

ByteArrives ==
  /\ ~gone /\ handle = "ready"
  /\ arrived' = arrived + 1
  /\ UNCHANGED <<taken, queued, gone, port, op, locals, reply>>

Transmit ==
  /\ ~gone /\ queued > 0
  /\ queued' = queued - 1
  /\ UNCHANGED <<arrived, taken, gone, port, op, locals, reply>>

HangUp ==
  /\ ~gone /\ gone' = TRUE
  /\ UNCHANGED <<arrived, taken, queued, port, op, locals, reply>>

TimePasses ==
  /\ deadline = "later" /\ deadline' = "now"
  /\ UNCHANGED <<line, port, op, size, done, polledReadable, reply>>

-----------------------------------------------------------------------------
(* How calls begin and end.                                                *)

Begin(call, n, when) ==
  /\ op = "none" /\ op' = call
  /\ size' = n /\ deadline' = when
  /\ done' = 0 /\ polledReadable' = FALSE
  /\ UNCHANGED <<line, os, handle, reply>>

End(result, n) ==
  /\ op' = "none" /\ outcome' = result /\ count' = n
  /\ size' = 0 /\ deadline' = "never" /\ done' = 0 /\ polledReadable' = FALSE
  /\ UNCHANGED port

Goto(where) == op' = where /\ UNCHANGED <<line, port, size, deadline, done, reply>>

OpenHandle ==
  /\ op = "none" /\ handle = "closed" /\ ~gone
  /\ op' = "opening" /\ handle' = "raw"
  /\ UNCHANGED <<line, os, cache, driver, locals, reply>>

(* configure(): the rate is known and the terminal takes its attributes.   *)
Accepts(baudrate) == op = "opening" /\ ~gone /\ baudrate \in Supported

PosixConfigured(baudrate) ==
  /\ os = "posix" /\ Accepts(baudrate)
  /\ op' = "none" /\ handle' = "ready"
  /\ UNCHANGED <<line, os, cache, driver, locals, reply>>

(* Windows' setTimeouts(): nothing to do when the pair is the one that was *)
(* set last.  "now" stands for zero: return at once for a read, no         *)
(* time-out for a write.                                                   *)
SetTimeouts(pair) ==
  IF pair = cache THEN UNCHANGED <<cache, driver>>
                  ELSE cache' = pair /\ driver' = pair

(* Mutant of RefusesTimeouts: remembered before SetCommTimeouts() is asked. *)
RemembersFirst(pair) ==
  /\ gone /\ pair # cache
  /\ cache' = pair /\ UNCHANGED driver

(* SetCommTimeouts() fails: the old pair is in force, and still known.     *)
RefusesTimeouts(pair) ==
  /\ gone /\ pair # cache
  /\ UNCHANGED <<cache, driver>>

WinConfigured(baudrate) ==
  /\ os = "win32" /\ Accepts(baudrate)
  /\ op' = "none" /\ handle' = "ready"
  /\ SetTimeouts([read |-> "now", write |-> "now"])
  /\ UNCHANGED <<line, os, locals, reply>>

Configured(baudrate) == PosixConfigured(baudrate) \/ WinConfigured(baudrate)

(* Mutant of NotConfigured: the handle is left open.                       *)
NotConfiguredLeftOpen(baudrate) ==
  /\ op = "opening" /\ (gone \/ baudrate \notin Supported)
  /\ op' = "none"
  /\ UNCHANGED <<line, port, locals, reply>>

(* configure() throws, or Windows' setTimeouts() does; close(), rethrow.    *)
NotConfigured(baudrate) ==
  /\ op = "opening" /\ (gone \/ baudrate \notin Supported)
  /\ op' = "none" /\ handle' = "closed"
  /\ cache' = NoTimeouts /\ driver' = NoTimeouts
  /\ UNCHANGED <<line, os, locals, reply>>

(* What the driver still holds, either way, goes with the handle, and so   *)
(* do its time-outs; close() unsets the pair the port remembers.           *)
CloseHandle ==
  /\ op = "none" /\ handle = "ready"
  /\ handle' = "closed" /\ cache' = NoTimeouts /\ driver' = NoTimeouts
  /\ taken' = arrived /\ queued' = 0
  /\ UNCHANGED <<arrived, gone, os, op, locals, reply>>

-----------------------------------------------------------------------------
(* POSIX: non-blocking calls, with poll() for the waiting.                 *)

PosixBegin(call, n, when) ==
  /\ os = "posix" /\ handle = "ready"
  /\ Begin(call, n, when) /\ UNCHANGED <<cache, driver>>

(* Mutant of TakeBytes: read() is offered the whole buffer again.          *)
TakePastTheEnd ==
  /\ op = "reading" /\ os = "posix" /\ done < size
  /\ \E k \in 1 .. size : /\ k <= arrived - taken
                          /\ taken' = taken + k /\ done' = done + k
  /\ UNCHANGED <<arrived, queued, gone, port, op, size, deadline, polledReadable, reply>>

TakeBytes ==
  /\ op = "reading" /\ os = "posix" /\ done < size
  /\ \E k \in 1 .. size - done : /\ k <= arrived - taken
                                 /\ taken' = taken + k /\ done' = done + k
  /\ UNCHANGED <<arrived, queued, gone, port, op, size, deadline, polledReadable, reply>>

ReadComplete ==
  /\ op = "reading" /\ os = "posix" /\ done = size
  /\ End("done", done) /\ UNCHANGED line

(* Zero bytes after poll() said "readable": "the other end hung up".       *)
ReadHungUp ==
  /\ op = "reading" /\ os = "posix" /\ done < size
  /\ arrived = taken /\ polledReadable
  /\ End("raised", 0) /\ UNCHANGED line

ReadFails ==
  /\ op = "reading" /\ os = "posix" /\ done < size /\ gone
  /\ End("raised", 0) /\ UNCHANGED line

ReadNothing ==
  /\ op = "reading" /\ os = "posix" /\ done < size
  /\ arrived = taken /\ ~polledReadable
  /\ \/ deadline = "now" /\ End("short", done) /\ UNCHANGED line
     \/ deadline # "now" /\ Goto("polling") /\ UNCHANGED polledReadable

(* waitReady(POLLIN): readable, a signal, nothing in time, or a hang-up    *)
(* with nothing buffered in front of it.                                   *)
PollReady ==
  /\ op = "polling" /\ (arrived > taken \/ gone)
  /\ Goto("reading") /\ polledReadable' = TRUE

(* Mutant of PollInterrupted: EINTR taken for a time-out.                  *)
InterruptedIsTimeout ==
  op = "polling" /\ End("short", done) /\ UNCHANGED line

PollInterrupted ==
  /\ op = "polling" /\ Goto("reading") /\ polledReadable' = FALSE

PollTimesOut ==
  /\ op = "polling" /\ arrived = taken /\ deadline = "now"
  /\ End("short", done) /\ UNCHANGED line

PollHangUp ==
  /\ op = "polling" /\ gone
  /\ End("raised", 0) /\ UNCHANGED line

PutBytes ==
  /\ op = "writing" /\ os = "posix" /\ done < size /\ ~gone
  /\ \E k \in 1 .. size - done : /\ k <= Room - queued
                                 /\ queued' = queued + k /\ done' = done + k
  /\ UNCHANGED <<arrived, taken, gone, port, op, size, deadline, polledReadable, reply>>

WriteComplete ==
  /\ op = "writing" /\ os = "posix" /\ done = size
  /\ End("done", done) /\ UNCHANGED line

WriteFull ==
  /\ op = "writing" /\ os = "posix" /\ done < size /\ queued = Room
  /\ \/ deadline = "now" /\ End("short", done) /\ UNCHANGED line
     \/ deadline # "now" /\ Goto("awaiting") /\ UNCHANGED polledReadable

(* waitReady(POLLOUT); a signal sends the loop round as well.              *)
RoomOrSignal ==
  /\ op = "awaiting" /\ Goto("writing") /\ UNCHANGED polledReadable

RoomTimesOut ==
  /\ op = "awaiting" /\ queued = Room /\ deadline = "now"
  /\ End("short", done) /\ UNCHANGED line

WriteFails ==
  /\ op \in {"writing", "awaiting"} /\ os = "posix" /\ done < size /\ gone
  /\ End("raised", 0) /\ UNCHANGED line

(* TIOCOUTQ against the deadline, then tcdrain().                          *)
Drained ==
  /\ op = "draining" /\ queued = 0
  /\ End("done", 0) /\ UNCHANGED line

DrainTimesOut ==
  /\ op = "draining" /\ os = "posix" /\ queued > 0 /\ deadline = "now"
  /\ End("short", 0) /\ UNCHANGED line

DrainFails ==
  /\ op = "draining" /\ gone
  /\ End("raised", 0) /\ UNCHANGED line

PosixCall ==
  \/ TakeBytes \/ ReadComplete \/ ReadHungUp \/ ReadFails \/ ReadNothing
  \/ PollReady \/ PollInterrupted \/ PollTimesOut \/ PollHangUp
  \/ PutBytes \/ WriteComplete \/ WriteFull
  \/ RoomOrSignal \/ RoomTimesOut \/ WriteFails
  \/ Drained \/ DrainTimesOut \/ DrainFails

-----------------------------------------------------------------------------
(* Windows: blocking calls under the timeouts the driver was last given.   *)

(* What a call asks setTimeouts() for; an empty one asks for nothing.      *)
Asks(call, n, when) ==
  CASE call = "reading" /\ n > 0 -> [cache EXCEPT !.read = when]
    [] call = "writing" /\ n > 0 -> [cache EXCEPT !.write = IF when = "never" THEN "now" ELSE when]
    [] OTHER -> cache

(* A call whose time-outs are refused raises before it touches the line.   *)
WinBegin(call, n, when) ==
  /\ os = "win32" /\ handle = "ready"
  /\ \/ Begin(call, n, when) /\ SetTimeouts(Asks(call, n, when))
     \/ /\ Begin(IF call = "reading" THEN "refusedRead" ELSE "refusedWrite", n, when)
        /\ RefusesTimeouts(Asks(call, n, when))

ReadFile ==
  /\ op = "reading" /\ os = "win32"
  /\ LET buffered == arrived - taken
         n == IF buffered < size THEN buffered ELSE size IN
       /\ n = size \/ driver.read = "now" \/ deadline = "now"
       /\ taken' = taken + n
       /\ End(IF n = size THEN "done" ELSE "short", n)
  /\ UNCHANGED <<arrived, queued, gone>>

(* Bytes reach the transmit buffer while WriteFile blocks.                 *)
WriteSome ==
  /\ op = "writing" /\ os = "win32" /\ done < size /\ queued < Room /\ ~gone
  /\ queued' = queued + 1 /\ done' = done + 1
  /\ UNCHANGED <<arrived, taken, gone, port, op, size, deadline, polledReadable, reply>>

WriteFile ==
  /\ op = "writing" /\ os = "win32"
  /\ \/ done = size /\ End("done", done)
     \/ done < size /\ driver.write # "now" /\ deadline = "now" /\ End("short", done)
  /\ UNCHANGED line

WinFails ==
  /\ op \in {"reading", "writing", "refusedRead", "refusedWrite"}
  /\ os = "win32" /\ size > 0 /\ gone
  /\ End("raised", 0) /\ UNCHANGED line

WinCall == ReadFile \/ WriteSome \/ WriteFile \/ WinFails

-----------------------------------------------------------------------------
BeginCall(call, n, when) == PosixBegin(call, n, when) \/ WinBegin(call, n, when)

PortStep == PosixCall \/ WinCall

-----------------------------------------------------------------------------
(* The port as a Serial: the bytes a read has taken are its caller's only  *)
(* once it returns.                                                        *)

Busy == CASE op \in {"reading", "polling", "refusedRead"}   -> "read"
          [] op \in {"writing", "awaiting", "refusedWrite"} -> "write"
          [] op = "draining"                                -> "drain"
          [] OTHER                                          -> "none"

InHand == IF op \in {"reading", "polling"} THEN done ELSE 0

Loose == INSTANCE Serial WITH busy <- Busy, taken <- taken - InHand, RaiseOnLive <- TRUE
=============================================================================
