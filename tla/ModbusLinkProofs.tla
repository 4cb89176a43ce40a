-------------------------- MODULE ModbusLinkProofs --------------------------
(***************************************************************************)
(* Proofs about the serial port, in the hands of any caller and of the     *)
(* Modbus client, for every size of its buffer, every number of            *)
(* transactions and any losses on the line.                                *)
(*                                                                         *)
(* The port part shows, step by step, that the port is a Serial; the link  *)
(* part follows a request out, its reply back and the bytes a late one     *)
(* leaves behind.                                                          *)
(***************************************************************************)
EXTENDS ModbusLink, SerialCaller, SequenceTheorems, TLAPS

Deadlines == {"now", "later", "never"}
Timeouts == {"unset"} \cup Deadlines

PortTypeOK ==
  /\ arrived \in Nat /\ taken \in Nat /\ queued \in Nat /\ gone \in BOOLEAN
  /\ os \in {"posix", "win32"} /\ handle \in {"closed", "raw", "ready"}
  /\ cache \in [read : Timeouts, write : Timeouts]
  /\ op \in Ops /\ size \in Nat /\ deadline \in Deadlines
  /\ done \in Nat /\ polledReadable \in BOOLEAN
  /\ count \in Nat /\ outcome \in {"none", "done", "short", "raised"}

(* Buffers and calls never hold more than they have room for.              *)
BuffersInBounds ==
  /\ taken <= arrived /\ queued <= Room
  /\ done <= size /\ InHand <= taken

(* A handle that is not configured yet is seen by nobody but open().       *)
HandleInv ==
  /\ op = "opening" <=> handle = "raw"
  /\ op \notin {"none", "opening"} => handle = "ready"

CallInv ==
  /\ op \in {"none", "opening"} => size = 0 /\ done = 0 /\ deadline = "never"
  /\ op \in {"polling", "awaiting"} => os = "posix" /\ done < size
  /\ op = "reading" /\ os = "win32" => done = 0
  /\ op = "reading" /\ polledReadable => arrived > taken \/ gone \/ done > 0

(* Windows' cached time-outs are the driver's, and a call that has begun   *)
(* runs under those it asked for: a read that returns at once was asked to. *)
TimeoutsInv ==
  /\ cache = driver
  /\ os = "win32" /\ handle = "ready" => driver.read # "unset" /\ driver.write # "unset"
  /\ os = "win32" /\ op = "reading" /\ size > 0 =>
       /\ driver.read = "now" => deadline = "now"
       /\ deadline = "later" => driver.read = "later"
  /\ os = "win32" /\ op = "writing" /\ size > 0 /\ deadline = "later" => driver.write = "later"

PortInv == PortTypeOK /\ BuffersInBounds /\ HandleInv /\ CallInv /\ TimeoutsInv

(* What anybody can do to the port.                                        *)
LineActs == ByteArrives \/ Transmit \/ HangUp \/ TimePasses

HandleActs ==
  \/ OpenHandle \/ CloseHandle
  \/ \E baudrate \in Baudrates : Configured(baudrate) \/ NotConfigured(baudrate)

CallBegins ==
  \E call \in {"reading", "writing", "draining"}, n \in Nat, when \in Deadlines :
    BeginCall(call, n, when)

PortActs == LineActs \/ HandleActs \/ CallBegins \/ PortStep \/ UNCHANGED portVars

LEMMA PortInitially == PortInit => PortInv
<1> SUFFICES ASSUME PortInit PROVE PortInv
  OBVIOUS
<1> USE DEF PortInit, Ops, Deadlines, Timeouts, NoTimeouts
<1>1. PortTypeOK
  BY DEF PortTypeOK
<1>2. BuffersInBounds /\ HandleInv
  BY PortAssumption DEF BuffersInBounds, InHand, HandleInv
<1>3. CallInv /\ TimeoutsInv
  BY DEF CallInv, TimeoutsInv
<1> QED
  BY <1>1, <1>2, <1>3 DEF PortInv

LEMMA LineActsKeepPort == PortInv /\ LineActs => PortInv'
<1> SUFFICES ASSUME PortInv, LineActs PROVE PortInv'
  OBVIOUS
<1> USE DEF PortInv, PortTypeOK, BuffersInBounds, HandleInv, CallInv, TimeoutsInv, InHand, port, line,
            locals, reply, Ops, Deadlines, Timeouts
<1>1. CASE ByteArrives
  BY <1>1 DEF ByteArrives
<1>2. CASE Transmit
  BY <1>2, PortAssumption DEF Transmit
<1>3. CASE HangUp
  BY <1>3 DEF HangUp
<1>4. CASE TimePasses
  BY <1>4 DEF TimePasses
<1> QED
  BY <1>1, <1>2, <1>3, <1>4 DEF LineActs

LEMMA HandleActsKeepPort == PortInv /\ HandleActs => PortInv'
<1> SUFFICES ASSUME PortInv, HandleActs PROVE PortInv'
  OBVIOUS
<1> USE DEF PortInv, PortTypeOK, BuffersInBounds, HandleInv, CallInv, TimeoutsInv, InHand, port, line,
            locals, reply, Ops, Deadlines, Timeouts, NoTimeouts
<1>1. CASE OpenHandle
  BY <1>1 DEF OpenHandle
<1>2. CASE CloseHandle
  BY <1>2, PortAssumption DEF CloseHandle
<1>3. ASSUME NEW baudrate \in Baudrates, Configured(baudrate) PROVE PortInv'
  <2>1. CASE PosixConfigured(baudrate)
    BY <2>1 DEF PosixConfigured, Accepts
  <2>2. CASE WinConfigured(baudrate)
    <3>1. cache' = [read |-> "now", write |-> "now"] /\ driver' = cache'
      BY <2>2 DEF WinConfigured, SetTimeouts
    <3> QED
      BY <2>2, <3>1 DEF WinConfigured, Accepts
  <2> QED
    BY <1>3, <2>1, <2>2 DEF Configured
<1>4. ASSUME NEW baudrate \in Baudrates, NotConfigured(baudrate) PROVE PortInv'
  BY <1>4 DEF NotConfigured
<1> QED
  BY <1>1, <1>2, <1>3, <1>4 DEF HandleActs

LEMMA CallBeginsKeepsPort == PortInv /\ CallBegins => PortInv'
<1> SUFFICES ASSUME PortInv, NEW call \in {"reading", "writing", "draining"}, NEW n \in Nat,
                    NEW when \in Deadlines, BeginCall(call, n, when)
             PROVE PortInv'
  BY DEF CallBegins
<1>1. /\ op = "none" /\ size' = n /\ deadline' = when
      /\ done' = 0 /\ polledReadable' = FALSE /\ handle = "ready"
      /\ op' = call \/ op' \in {"refusedRead", "refusedWrite"}
      /\ UNCHANGED <<line, os, handle, reply>>
  BY DEF BeginCall, PosixBegin, WinBegin, Begin
<1>2. /\ cache' = driver' /\ cache' \in [read : Timeouts, write : Timeouts]
      /\ os = "win32" => driver'.read # "unset" /\ driver'.write # "unset"
      /\ op' = "reading" /\ os = "win32" /\ n > 0 => driver'.read = when
      /\ op' = "writing" /\ os = "win32" /\ n > 0 /\ when = "later" => driver'.write = when
  <2> USE DEF PortInv, PortTypeOK, TimeoutsInv, Deadlines, Timeouts
  <2>1. CASE os = "posix"
    BY <2>1 DEF BeginCall, PosixBegin, WinBegin
  <2>2. CASE os = "win32" /\ op' \in {"refusedRead", "refusedWrite"}
    BY <1>1, <2>2 DEF BeginCall, PosixBegin, WinBegin, Begin, RefusesTimeouts
  <2>3. CASE os = "win32" /\ op' \notin {"refusedRead", "refusedWrite"}
    <3> DEFINE pair == Asks(call, n, when)
    <3>1. op' = call /\ SetTimeouts(pair)
      BY <2>3 DEF BeginCall, PosixBegin, WinBegin, Begin
    <3>2. cache' = pair /\ driver' = pair
      BY <3>1 DEF SetTimeouts
    <3>3. /\ cache \in [read : Timeouts, write : Timeouts]
          /\ cache.read # "unset" /\ cache.write # "unset"
      BY <1>1, <2>3
    <3>4. /\ pair \in [read : Timeouts, write : Timeouts]
          /\ pair.read # "unset" /\ pair.write # "unset"
          /\ call = "reading" /\ n > 0 => pair.read = when
          /\ call = "writing" /\ n > 0 /\ when = "later" => pair.write = when
      BY <3>3 DEF Asks
    <3> QED
      BY <3>1, <3>2, <3>4
  <2> QED
    BY <2>1, <2>2, <2>3
<1>3. PortTypeOK'
  BY <1>1, <1>2 DEF PortInv, PortTypeOK, line, reply, Ops
<1>4. BuffersInBounds'
  BY <1>1 DEF PortInv, PortTypeOK, BuffersInBounds, InHand, line
<1>5. HandleInv' /\ CallInv' /\ TimeoutsInv'
  BY <1>1, <1>2 DEF HandleInv, CallInv, TimeoutsInv, line
<1> QED
  BY <1>3, <1>4, <1>5 DEF PortInv

LEMMA EndKeepsPort ==
  ASSUME PortInv, NEW n \in Nat, NEW result \in {"done", "short", "raised"}, End(result, n),
         op \notin {"none", "opening"},
         taken' \in Nat, taken <= taken', taken' <= arrived, UNCHANGED <<arrived, queued, gone>>
  PROVE  PortInv'
<1> USE DEF End, port, Ops, Deadlines, PortInv
<1>1. PortTypeOK'
  BY DEF PortTypeOK
<1>2. BuffersInBounds'
  BY DEF BuffersInBounds, InHand, PortTypeOK
<1>3. HandleInv' /\ CallInv' /\ TimeoutsInv'
  BY DEF HandleInv, CallInv, TimeoutsInv
<1> QED
  BY <1>1, <1>2, <1>3

LEMMA PosixCallKeepsPort == PortInv /\ PosixCall => PortInv'
<1> SUFFICES ASSUME PortInv, PosixCall PROVE PortInv'
  OBVIOUS
<1>1. CASE ReadComplete \/ ReadHungUp \/ ReadFails \/ PollTimesOut \/ PollHangUp \/ WriteComplete
           \/ RoomTimesOut \/ WriteFails \/ Drained \/ DrainTimesOut \/ DrainFails
  <2>1. PICK result \in {"done", "short", "raised"}, n \in {0, done} : End(result, n)
    BY <1>1 DEF ReadComplete, ReadHungUp, ReadFails, PollTimesOut, PollHangUp, WriteComplete,
       RoomTimesOut, WriteFails, Drained, DrainTimesOut, DrainFails
  <2>2. UNCHANGED line /\ op \notin {"none", "opening"}
    BY <1>1 DEF ReadComplete, ReadHungUp, ReadFails, PollTimesOut, PollHangUp, WriteComplete,
       RoomTimesOut, WriteFails, Drained, DrainTimesOut, DrainFails
  <2> QED
    BY <2>1, <2>2, EndKeepsPort DEF PortInv, PortTypeOK, BuffersInBounds, line
<1> USE DEF PortInv, PortTypeOK, BuffersInBounds, HandleInv, CallInv, TimeoutsInv, InHand, port, line,
            locals, reply, Ops, Deadlines, Timeouts
<1>2. CASE TakeBytes
  BY <1>2 DEF TakeBytes
<1>3. CASE ReadNothing
  <2>1. CASE deadline = "now"
    BY <1>3, <2>1, EndKeepsPort DEF ReadNothing
  <2>2. CASE deadline # "now"
    BY <1>3, <2>2 DEF ReadNothing, Goto
  <2> QED
    BY <2>1, <2>2
<1>4. CASE PollReady
  BY <1>4 DEF PollReady, Goto
<1>5. CASE PollInterrupted
  BY <1>5 DEF PollInterrupted, Goto
<1>6. CASE PutBytes
  BY <1>6, PortAssumption DEF PutBytes
<1>7. CASE WriteFull
  <2>1. CASE deadline = "now"
    BY <1>7, <2>1, EndKeepsPort DEF WriteFull
  <2>2. CASE deadline # "now"
    BY <1>7, <2>2 DEF WriteFull, Goto
  <2> QED
    BY <2>1, <2>2
<1>8. CASE RoomOrSignal
  BY <1>8 DEF RoomOrSignal, Goto
<1> QED
  BY <1>1, <1>2, <1>3, <1>4, <1>5, <1>6, <1>7, <1>8 DEF PosixCall

LEMMA WinCallKeepsPort == PortInv /\ WinCall => PortInv'
<1> SUFFICES ASSUME PortInv, WinCall PROVE PortInv'
  OBVIOUS
<1> USE DEF PortInv, PortTypeOK, BuffersInBounds
<1>1. CASE ReadFile
  <2> DEFINE n == IF arrived - taken < size THEN arrived - taken ELSE size
  <2>1. /\ n \in Nat /\ taken' = taken + n
        /\ End(IF n = size THEN "done" ELSE "short", n) /\ op = "reading"
        /\ UNCHANGED <<arrived, queued, gone>>
    BY <1>1 DEF ReadFile
  <2> QED
    BY <2>1, EndKeepsPort
<1>2. CASE WriteSome
  BY <1>2, PortAssumption DEF WriteSome, HandleInv, CallInv, TimeoutsInv, InHand, port, line,
            locals, reply, Ops
<1>3. CASE WriteFile \/ WinFails
  BY <1>3, EndKeepsPort DEF WriteFile, WinFails, line
<1> QED
  BY <1>1, <1>2, <1>3 DEF WinCall

LEMMA PortActsKeepPort == PortInv /\ PortActs => PortInv'
<1>1. ASSUME PortInv, UNCHANGED portVars PROVE PortInv'
  BY <1>1 DEF PortInv, PortTypeOK, BuffersInBounds, HandleInv, CallInv, TimeoutsInv, InHand, portVars,
     line, port, locals, reply
<1> QED
  BY <1>1, LineActsKeepPort, HandleActsKeepPort, CallBeginsKeepsPort, PosixCallKeepsPort,
     WinCallKeepsPort DEF PortActs, PortStep

(* What the port has done to its caller's bytes, in the terms of Serial.   *)
Handed == taken - InHand

LooseUnchanged == UNCHANGED <<arrived, Handed, queued, gone, Busy, size, deadline, count, outcome>>

LEMMA QuietForSerial == LooseUnchanged => UNCHANGED Loose!vars
BY DEF LooseUnchanged, Handed, Loose!vars, Loose!line, Loose!reply

LEMMA LineActsRefine == PortInv /\ LineActs => Loose!Next
<1> SUFFICES ASSUME PortInv, LineActs PROVE Loose!Next
  OBVIOUS
<1> USE DEF InHand, Busy, line, port, locals, reply, Loose!reply
<1>1. CASE ByteArrives \/ Transmit \/ HangUp
  <2>1. Loose!LineMoves
    BY <1>1 DEF ByteArrives, Transmit, HangUp, Loose!LineMoves
  <2> QED
    BY <2>1 DEF Loose!Next
<1>2. CASE TimePasses
  <2>1. Loose!TimePasses
    BY <1>2 DEF TimePasses, Loose!TimePasses, Loose!line
  <2> QED
    BY <2>1 DEF Loose!Next
<1> QED
  BY <1>1, <1>2 DEF LineActs

LEMMA HandleActsRefine == PortInv /\ HandleActs => Loose!Next \/ LooseUnchanged
<1> SUFFICES ASSUME PortInv, HandleActs PROVE Loose!Next \/ LooseUnchanged
  OBVIOUS
<1> USE DEF InHand, Busy, line, locals, reply
<1>1. CASE OpenHandle
  BY <1>1 DEF OpenHandle, LooseUnchanged, Handed
<1>2. CASE CloseHandle
  <2>1. Loose!Drop
    BY <1>2 DEF CloseHandle, Loose!Drop, PortInv, PortTypeOK, Loose!reply
  <2> QED
    BY <2>1 DEF Loose!Next
<1>3. ASSUME NEW baudrate \in Baudrates, Configured(baudrate) \/ NotConfigured(baudrate)
      PROVE  LooseUnchanged
  BY <1>3 DEF Configured, PosixConfigured, WinConfigured, Accepts, NotConfigured, LooseUnchanged, Handed
<1> QED
  BY <1>1, <1>2, <1>3 DEF HandleActs

LEMMA CallBeginsRefines == PortInv /\ CallBegins => Loose!Next
<1> SUFFICES ASSUME PortInv, NEW call \in {"reading", "writing", "draining"}, NEW n \in Nat,
                    NEW when \in Deadlines, BeginCall(call, n, when)
             PROVE Loose!Call
  BY DEF CallBegins, Loose!Next
<1>1. PICK o \in {call, "refusedRead", "refusedWrite"} : Begin(o, n, when)
  BY DEF BeginCall, PosixBegin, WinBegin
<1>2. Busy = "none" /\ Busy' \in {"read", "write", "drain"}
  BY <1>1 DEF Begin, Busy
<1>3. InHand = 0 /\ InHand' = 0
  BY <1>1 DEF Begin, InHand
<1> QED
  BY <1>1, <1>2, <1>3 DEF Begin, Loose!Call, Loose!line, Loose!reply, line, reply, Deadlines

LEMMA PosixCallRefines == PortInv /\ PosixCall => Loose!Next \/ LooseUnchanged
<1> SUFFICES ASSUME PortInv, PosixCall PROVE Loose!Next \/ LooseUnchanged
  OBVIOUS
<1> USE DEF PortInv, PortTypeOK, BuffersInBounds, CallInv, InHand, Busy, line, reply
<1>1. CASE ReadComplete \/ PollTimesOut \/ (ReadNothing /\ deadline = "now")
  <2>1. Loose!ReadReturns
    BY <1>1 DEF ReadComplete, PollTimesOut, ReadNothing, Goto, End, Loose!ReadReturns, Loose!Back
  <2> QED
    BY <2>1 DEF Loose!Next
<1>2. CASE ReadHungUp \/ ReadFails \/ PollHangUp \/ WriteFails \/ DrainFails
  <2>1. Loose!Raises
    BY <1>2 DEF ReadHungUp, ReadFails, PollHangUp, WriteFails, DrainFails, End, Loose!Raises, Loose!Back
  <2> QED
    BY <2>1 DEF Loose!Next
<1>3. CASE WriteComplete \/ RoomTimesOut \/ (WriteFull /\ deadline = "now")
  <2>1. Loose!WriteReturns
    BY <1>3 DEF WriteComplete, RoomTimesOut, WriteFull, Goto, End, Loose!WriteReturns, Loose!Back, Loose!line
  <2> QED
    BY <2>1 DEF Loose!Next
<1>4. CASE Drained \/ DrainTimesOut
  <2>1. Loose!DrainReturns
    BY <1>4 DEF Drained, DrainTimesOut, End, Loose!DrainReturns, Loose!Back, Loose!line
  <2> QED
    BY <2>1 DEF Loose!Next
<1>5. CASE PutBytes
  <2>1. Loose!Accept
    BY <1>5 DEF PutBytes, Loose!Accept, Loose!reply
  <2> QED
    BY <2>1 DEF Loose!Next
<1>6. CASE TakeBytes
  BY <1>6 DEF TakeBytes, LooseUnchanged, Handed
<1>7. CASE \/ PollReady \/ PollInterrupted \/ RoomOrSignal
           \/ deadline # "now" /\ (ReadNothing \/ WriteFull)
  BY <1>7 DEF PollReady, PollInterrupted, RoomOrSignal, ReadNothing, WriteFull, Goto, LooseUnchanged, Handed
<1> QED
  BY <1>1, <1>2, <1>3, <1>4, <1>5, <1>6, <1>7 DEF PosixCall

LEMMA WinCallRefines == PortInv /\ WinCall => Loose!Next
<1> SUFFICES ASSUME PortInv, WinCall PROVE Loose!Next
  OBVIOUS
<1> USE DEF PortInv, PortTypeOK, BuffersInBounds, CallInv, InHand, Busy, line, reply
<1>1. CASE ReadFile
  <2> DEFINE n == IF arrived - taken < size THEN arrived - taken ELSE size
  <2>1. /\ op = "reading" /\ os = "win32" /\ done = 0
        /\ n = size \/ (deadline = "now" /\ n = arrived - taken)
        /\ n \in Nat /\ n <= size /\ n <= arrived - taken
        /\ taken' = taken + n /\ End(IF n = size THEN "done" ELSE "short", n)
        /\ UNCHANGED <<arrived, queued, gone>>
    BY <1>1 DEF ReadFile, TimeoutsInv
  <2>2. Loose!ReadReturns
    BY <2>1 DEF End, Loose!ReadReturns, Loose!Back
  <2> QED
    BY <2>2 DEF Loose!Next
<1>2. CASE WriteSome
  <2>1. Loose!Accept
    BY <1>2 DEF WriteSome, Loose!Accept, Loose!reply
  <2> QED
    BY <2>1 DEF Loose!Next
<1>3. CASE WriteFile
  <2>1. Loose!WriteReturns
    BY <1>3 DEF WriteFile, End, Loose!WriteReturns, Loose!Back, Loose!line
  <2> QED
    BY <2>1 DEF Loose!Next
<1>4. CASE WinFails
  <2>1. Loose!Raises
    BY <1>4 DEF WinFails, End, Loose!Raises, Loose!Back
  <2> QED
    BY <2>1 DEF Loose!Next
<1> QED
  BY <1>1, <1>2, <1>3, <1>4 DEF WinCall

(* Step by step the port is a Serial, in whatever order it is called.      *)
LEMMA PortActsRefine == PortInv /\ PortActs => [Loose!Next]_(Loose!vars)
<1>1. UNCHANGED portVars => LooseUnchanged
  BY DEF portVars, line, port, locals, reply, LooseUnchanged, Handed, InHand, Busy
<1> QED
  BY <1>1, LineActsRefine, HandleActsRefine, CallBeginsRefines, PosixCallRefines, WinCallRefines,
     QuietForSerial DEF PortActs, PortStep

LEMMA PortInitRefines == PortInit => Loose!Init
BY DEF PortInit, Loose!Init, Busy, InHand

-----------------------------------------------------------------------------
(* Any caller of DefaultSerial.                                            *)

CallerInv == PortInv /\ sending \in {"no"} \cup Deadlines

LEMMA CallerStep ==
  ASSUME Sizes \subseteq Nat, CallerInv, [CallerNext]_callerVars
  PROVE  PortActs /\ sending' \in {"no"} \cup Deadlines
<1>1. ASSUME NEW n \in Sizes, NEW when \in Deadlines, CallRead(n, when) \/ CallWrite(n, when)
      PROVE  CallBegins /\ sending' \in {"no"} \cup Deadlines
  BY <1>1 DEF CallRead, CallWrite, CallBegins, CallerInv
<1>2. CASE WriteDrains
  BY <1>2 DEF WriteDrains, CallerInv, PortActs, CallBegins
<1>3. CASE UNCHANGED callerVars
  BY <1>3 DEF callerVars, CallerInv, PortActs
<1> QED
  BY <1>1, <1>2, <1>3 DEF CallerNext, CallerInv, PortActs, LineActs, HandleActs, CallOpen, OpenEnds,
     CallClose, Deadlines

(* However a caller opens, closes, reads and writes, DefaultSerial keeps   *)
(* what serial.hpp promises, but for a read that raises on a live line.    *)
THEOREM CallerKeepsLooseContract ==
  ASSUME Sizes \subseteq Nat
  PROVE  CallerSpec => Loose!Spec
<1>1. CallerInit => CallerInv
  BY PortInitially DEF CallerInit, CallerInv
<1>2. CallerInv /\ [CallerNext]_callerVars => CallerInv'
  BY CallerStep, PortActsKeepPort DEF CallerInv
<1>3. CallerInit => Loose!Init
  BY PortInitRefines DEF CallerInit
<1>4. CallerInv /\ [CallerNext]_callerVars => [Loose!Next]_(Loose!vars)
  BY CallerStep, PortActsRefine DEF CallerInv
<1> QED
  BY <1>1, <1>2, <1>3, <1>4, PTL DEF CallerSpec, Loose!Spec

-----------------------------------------------------------------------------
(* The link.                                                               *)

Phases == {"closed", "idle", "flushing"} \cup Awaiting
Framing == {"address", "function", "count", "data", "crc"}
Reads == {"reading", "polling", "refusedRead"}
Writes == {"writing", "awaiting", "refusedWrite"}
ReplyBytes == Nat \X (1 .. 9)

LinkShape ==
  /\ phase \in Phases /\ kinds \in Seq(Kinds) /\ answers \in Seq(Nat) /\ since \in Nat
  /\ wire \in Seq(Nat \X {1, 2})
  /\ answering \in Seq(ReplyBytes) /\ stream \in Seq(ReplyBytes)

OpsOf(p) ==
  CASE p = "closed"   -> {"none", "opening"}
    [] p = "idle"     -> {"none"}
    [] p = "flushing" -> {"none", "reading", "refusedRead"}
    [] p = "sending"  -> {"none"} \cup Writes
    [] p = "draining" -> {"none", "draining"}
    [] OTHER          -> {"none"} \cup Reads

SizeOf(p) ==
  CASE p = "flushing"      -> Buffer
    [] p = "sending"       -> 2
    [] p = "data"          -> IF kinds[tx] = "writeCommand" THEN 2 ELSE 1
    [] p \in {"address", "function", "count", "crc", "code", "check"} -> 1
    [] OTHER               -> 0

InTransaction == phase \notin {"closed", "idle"}

(* What the client has under way in each of its phases.                    *)
ClientInv ==
  /\ op \in OpsOf(phase)
  /\ phase = "closed" <=> handle # "ready"
  /\ op # "none" => size = SizeOf(phase)
  /\ phase = "flushing" /\ op = "reading" => deadline = "now" /\ ~polledReadable
  /\ InTransaction => tx > 0
  /\ phase = "count" => kinds[tx] # "writeCommand"
  /\ Len(answers) = IF InTransaction THEN tx - 1 ELSE tx
  /\ arrived = Len(stream) /\ queued <= Len(wire)

ShapeInv == LinkShape /\ ClientInv

(* A step of the port within a call, and one that ends it.                 *)
CallGoesOn ==
  /\ \/ op \in {"reading", "polling"} /\ op' \in {"reading", "polling"}
     \/ op \in {"writing", "awaiting"} /\ op' \in {"writing", "awaiting"}
  /\ UNCHANGED <<arrived, Handed, gone, handle, size, deadline, outcome>>
  /\ op = "reading" /\ deadline = "now" => op' = "reading" /\ UNCHANGED polledReadable
  /\ queued' \in Nat /\ queued <= queued'
  /\ op \in {"writing", "awaiting"} => done' = done + (queued' - queued)
  /\ queued' # queued => op = "writing" /\ ~gone

CallEnds ==
  /\ op \in Ops \ {"none", "opening"} /\ op' = "none"
  /\ outcome' \in {"done", "short", "raised"}
  /\ UNCHANGED <<arrived, queued, gone, handle>>
  /\ Handed <= Handed' /\ Handed' = taken'
  /\ op \in Reads =>
       /\ outcome' = "done" => Handed' = Handed + size
       /\ outcome' = "short" => Handed' = arrived
       /\ outcome' = "raised" => gone \/ (op = "reading" /\ polledReadable)
  /\ op \in Writes /\ outcome' = "done" => done = size
  /\ op \notin {"reading", "polling"} => taken' = taken

LEMMA PortStepKinds == PortInv /\ PortStep => CallGoesOn \/ CallEnds
<1> SUFFICES ASSUME PortInv, PortStep PROVE CallGoesOn \/ CallEnds
  OBVIOUS
<1> USE DEF PortInv, PortTypeOK, BuffersInBounds, CallInv, Handed, InHand, line, port, reply, Reads, Writes
<1>1. CASE ReadComplete \/ ReadHungUp \/ ReadFails \/ PollTimesOut \/ PollHangUp \/ WriteComplete
           \/ RoomTimesOut \/ WriteFails \/ Drained \/ DrainTimesOut \/ DrainFails
  <2>1. CallEnds
    BY <1>1 DEF ReadComplete, ReadHungUp, ReadFails, PollTimesOut, PollHangUp, WriteComplete,
       RoomTimesOut, WriteFails, Drained, DrainTimesOut, DrainFails, End, CallEnds, Ops
  <2> QED
    BY <2>1
<1>2. CASE deadline = "now" /\ (ReadNothing \/ WriteFull)
  <2>1. CallEnds
    BY <1>2 DEF ReadNothing, WriteFull, End, CallEnds, Ops
  <2> QED
    BY <2>1
<1>3. CASE deadline # "now" /\ (ReadNothing \/ WriteFull)
  <2>1. CallGoesOn
    BY <1>3 DEF ReadNothing, WriteFull, Goto, CallGoesOn
  <2> QED
    BY <2>1
<1>4. CASE TakeBytes \/ PutBytes
  <2>1. CallGoesOn
    BY <1>4 DEF TakeBytes, PutBytes, CallGoesOn
  <2> QED
    BY <2>1
<1>5. CASE PollReady \/ PollInterrupted \/ RoomOrSignal
  <2>1. CallGoesOn
    BY <1>5 DEF PollReady, PollInterrupted, RoomOrSignal, Goto, CallGoesOn
  <2> QED
    BY <2>1
<1>6. CASE ReadFile
  <2> DEFINE n == IF arrived - taken < size THEN arrived - taken ELSE size
  <2>1. /\ op = "reading" /\ done = 0 /\ n \in Nat
        /\ n = size \/ n = arrived - taken
        /\ taken' = taken + n /\ End(IF n = size THEN "done" ELSE "short", n)
        /\ UNCHANGED <<arrived, queued, gone>>
    BY <1>6 DEF ReadFile
  <2>2. CallEnds
    BY <2>1 DEF End, CallEnds, Ops
  <2> QED
    BY <2>2
<1>7. CASE WriteSome
  <2>1. CallGoesOn
    BY <1>7 DEF WriteSome, CallGoesOn
  <2> QED
    BY <2>1
<1>8. CASE WriteFile \/ WinFails
  <2>1. CallEnds
    BY <1>8 DEF WriteFile, WinFails, End, CallEnds, Ops
  <2> QED
    BY <2>1
<1> QED
  BY <1>1, <1>2, <1>3, <1>4, <1>5, <1>6, <1>7, <1>8 DEF PortStep, PosixCall, WinCall

(* A call that begins, with what it leaves alone.                          *)
LEMMA BeginCallEffect ==
  ASSUME NEW call \in {"reading", "writing", "draining"}, NEW n \in Nat, NEW when, BeginCall(call, n, when)
  PROVE  /\ op = "none" /\ size' = n /\ deadline' = when
         /\ \/ op' = call
            \/ n > 0 /\ call = "reading" /\ op' = "refusedRead"
            \/ n > 0 /\ call = "writing" /\ op' = "refusedWrite"
         /\ done' = 0 /\ polledReadable' = FALSE /\ handle = "ready"
         /\ UNCHANGED <<arrived, taken, queued, gone, handle, outcome>>
<1>1. CASE PosixBegin(call, n, when)
  BY <1>1 DEF PosixBegin, Begin, line, reply
<1>2. CASE WinBegin(call, n, when)
  <2>1. CASE Begin(call, n, when) /\ SetTimeouts(Asks(call, n, when))
    BY <1>2, <2>1 DEF WinBegin, Begin, line, reply
  <2>2. CASE /\ Begin(IF call = "reading" THEN "refusedRead" ELSE "refusedWrite", n, when)
             /\ RefusesTimeouts(Asks(call, n, when))
    <3>1. n > 0 /\ call \in {"reading", "writing"}
      BY <2>2 DEF RefusesTimeouts, Asks
    <3> QED
      BY <1>2, <2>2, <3>1 DEF WinBegin, Begin, line, reply
  <2> QED
    BY <1>2, <2>1, <2>2 DEF WinBegin
<1> QED
  BY <1>1, <1>2 DEF BeginCall

(* Every step of the link is one of the port.                              *)
LEMMA LinkStepIsPortStep == ShapeInv /\ [LinkNext]_linkVars => PortActs
<1> SUFFICES ASSUME ShapeInv, [LinkNext]_linkVars PROVE PortActs
  OBVIOUS
<1> USE DEF PortActs
<1>1. CASE LinePart
  BY <1>1 DEF LinePart, RequestLeaves, ReplyArrives, ReplyByteLost, FarEndGoes, LineActs
<1>2. CASE PortRuns \/ Clock
  BY <1>2 DEF PortRuns, Clock, LineActs
<1>3. CASE Open \/ Opened \/ NotOpened \/ Close
  BY <1>3 DEF Open, Opened, NotOpened, Close, HandleActs
<1>4. ASSUME NEW kind \in Kinds, BeginTransaction(kind) PROVE CallBegins
  BY <1>4, LinkAssumption DEF BeginTransaction, CallBegins, Deadlines
<1>5. CASE Flushed \/ Sent \/ RequestOut \/ ReplyRead
  BY <1>5 DEF Flushed, Sent, RequestOut, ReplyRead, AddressRead, FunctionRead, Refused, CodeRead, CountRead,
     DataRead, CallBegins, Deadlines
<1>6. CASE CrcRead \/ Fails
  BY <1>6 DEF CrcRead, Fails, Finish
<1>7. CASE UNCHANGED linkVars
  BY <1>7 DEF linkVars
<1> QED
  BY <1>1, <1>2, <1>3, <1>4, <1>5, <1>6, <1>7 DEF LinkNext, ClientStep, ReplyRead

(* The bytes the port accepts are the next ones of the request.            *)
LEMMA WireGrows ==
  ASSUME PortInv, ShapeInv, PortRuns, NEW k, k = queued' - queued
  PROVE  /\ k \in Nat /\ wire' \in Seq(Nat \X {1, 2}) /\ Len(wire') = Len(wire) + k
         /\ \A i \in 1 .. Len(wire) : wire'[i] = wire[i]
         /\ \A i \in 1 .. k : wire'[Len(wire) + i] = <<tx, done + i>>
         /\ k > 0 => phase = "sending" /\ op # "none" /\ done' = done + k /\ ~gone
<1> DEFINE new == [i \in 1 .. k |-> <<tx, done + i>>]
<1>1. CallGoesOn \/ CallEnds
  BY PortStepKinds DEF PortRuns
<1>2. k \in Nat /\ (k > 0 => phase = "sending" /\ op = "writing" /\ done' = done + k /\ ~gone)
  <2>1. op = "writing" => phase = "sending"
    BY DEF ShapeInv, LinkShape, ClientInv, OpsOf, Phases, Reads, Writes
  <2> QED
    BY <1>1, <2>1 DEF CallGoesOn, CallEnds, PortInv, PortTypeOK
<1>3. \A i \in 1 .. k : done + i \in {1, 2}
  <2>1. PortInv'
    BY PortActsKeepPort DEF PortRuns, PortActs
  <2>2. CASE k > 0
    <3>1. size = 2
      <4>1. SizeOf("sending") = 2
        BY DEF SizeOf
      <4> QED
        BY <1>2, <2>2, <4>1 DEF ShapeInv, ClientInv
    <3>2. size' = size
      BY <1>1, <2>2 DEF CallGoesOn, CallEnds, PortInv, PortTypeOK
    <3>3. done' <= 2
      BY <2>1, <3>1, <3>2 DEF PortInv, BuffersInBounds
    <3> QED
      BY <1>2, <2>2, <3>3 DEF PortInv, PortTypeOK
  <2> QED
    BY <1>2, <2>2
<1>4. tx \in Nat
  BY DEF ShapeInv, LinkShape, tx
<1>5. new \in Seq(Nat \X {1, 2}) /\ Len(new) = k
  BY <1>2, <1>3, <1>4
<1>6. wire' = wire \o new
  BY DEF PortRuns
<1>7. wire \in Seq(Nat \X {1, 2})
  BY DEF ShapeInv, LinkShape
<1> HIDE DEF new
<1>8. wire' \in Seq(Nat \X {1, 2}) /\ Len(wire') = Len(wire) + k
      /\ \A i \in 1 .. Len(wire) + k :
           wire'[i] = IF i <= Len(wire) THEN wire[i] ELSE new[i - Len(wire)]
  BY <1>5, <1>6, <1>7, ConcatProperties
<1>9. ASSUME NEW i \in 1 .. k PROVE wire'[Len(wire) + i] = <<tx, done + i>>
  <2>1. wire'[Len(wire) + i] = new[i]
    BY <1>2, <1>7, <1>8
  <2> QED
    BY <2>1 DEF new
<1>10. \A i \in 1 .. Len(wire) : wire'[i] = wire[i]
  BY <1>2, <1>7, <1>8
<1> QED
  BY <1>2, <1>8, <1>9, <1>10

(* What a reply looks like, whatever it answers.                           *)
LEMMA FrameShape ==
  ASSUME NEW n \in Nat, NEW F \in {Reply(n), Refusal(n)}
  PROVE  /\ F \in Seq(ReplyBytes) /\ Len(F) \in {4, 5}
         /\ \A p \in 1 .. Len(F) : F[p][1] = n
         /\ \A p, q \in 1 .. Len(F) : p < q => F[p][2] < F[q][2]
<1> DEFINE Shaped(parts) == parts \in Seq(1 .. 9) /\ Len(parts) \in {4, 5}
                            /\ \A p, q \in 1 .. Len(parts) : p < q => parts[p] < parts[q]
<1>1. /\ Shaped(<<1, 2, 4, 5, 6>>) /\ Shaped(<<1, 2, 3, 4, 6>>) /\ Shaped(<<1, 7, 8, 9>>)
  OBVIOUS
<1>2. PICK parts : F = Frame(n, parts) /\ Shaped(parts)
  BY <1>1 DEF Reply, Refusal, Parts
<1>3. DOMAIN parts = 1 .. Len(parts) /\ Len(parts) \in Nat /\ \A p \in 1 .. Len(parts) : parts[p] \in 1 .. 9
  BY <1>2
<1>4. F \in Seq(ReplyBytes) /\ Len(F) = Len(parts) /\ \A p \in 1 .. Len(parts) : F[p] = <<n, parts[p]>>
  <2>1. F = [p \in 1 .. Len(parts) |-> <<n, parts[p]>>]
    BY <1>2, <1>3 DEF Frame
  <2>2. \A p \in 1 .. Len(parts) : <<n, parts[p]>> \in ReplyBytes
    BY <1>3 DEF ReplyBytes
  <2> QED
    BY <1>3, <2>1, <2>2
<1> QED
  BY <1>2, <1>3, <1>4

LEMMA ShapeStep == PortInv /\ ShapeInv /\ [LinkNext]_linkVars => ShapeInv'
<1> SUFFICES ASSUME PortInv, ShapeInv, [LinkNext]_linkVars PROVE ShapeInv'
  OBVIOUS
<1> USE DEF ShapeInv, LinkShape, ClientInv, InTransaction, tx
<1>0. /\ queued \in Nat /\ arrived \in Nat /\ taken \in Nat /\ Len(wire) \in Nat /\ tx \in Nat
      /\ HandleInv /\ CallInv
  BY DEF PortInv, PortTypeOK
<1>1. CASE RequestLeaves
  <2>1. PICK i : /\ i = Len(wire) - queued'
                 /\ \/ UNCHANGED answering
                    \/ \E F \in {Reply(wire[i][1]), Refusal(wire[i][1])} : answering' = answering \o F
        /\ queued > 0 /\ queued' = queued - 1
        /\ UNCHANGED <<arrived, handle, op, size, deadline, polledReadable, client, wire, stream>>
    BY <1>1 DEF RequestLeaves, Transmit, port, locals
  <2>2. i \in 1 .. Len(wire) /\ wire[i] \in Nat \X {1, 2}
    BY <1>0, <2>1
  <2>3. answering' \in Seq(ReplyBytes)
    <3>1. CASE UNCHANGED answering
      BY <3>1
    <3>2. ASSUME NEW F \in {Reply(wire[i][1]), Refusal(wire[i][1])}, answering' = answering \o F
          PROVE  answering' \in Seq(ReplyBytes)
      <4>1. wire[i][1] \in Nat
        BY <2>2
      <4>2. F \in Seq(ReplyBytes) /\ answering \in Seq(ReplyBytes)
        BY <4>1, FrameShape
      <4> QED
        BY <3>2, <4>2, ConcatProperties
    <3> QED
      BY <2>1, <3>1, <3>2
  <2> QED
    BY <1>0, <2>1, <2>3 DEF client, SizeOf
<1>2. CASE ReplyArrives
  <2>1. /\ answering # <<>> /\ answering' = Tail(answering) /\ arrived' = arrived + 1
        /\ \E n \in {0, Head(answering)[1]} : stream' = Append(stream, <<n, Head(answering)[2]>>)
        /\ UNCHANGED <<queued, handle, op, size, deadline, polledReadable, client, wire>>
    <3>1. Head(answering) \in ReplyBytes
      BY <1>2 DEF ReplyArrives
    <3>2. Head(answering) = <<Head(answering)[1], Head(answering)[2]>>
      BY <3>1 DEF ReplyBytes
    <3> QED
      BY <1>2, <3>2 DEF ReplyArrives, ByteArrives, port, locals
  <2>2. Head(answering) \in ReplyBytes /\ answering' \in Seq(ReplyBytes)
    BY <2>1
  <2>3. stream' \in Seq(ReplyBytes) /\ Len(stream') = Len(stream) + 1
    <3>1. PICK n \in {0, Head(answering)[1]} : stream' = Append(stream, <<n, Head(answering)[2]>>)
      BY <2>1
    <3>2. Head(answering)[1] \in Nat /\ Head(answering)[2] \in 1 .. 9
      BY <2>2 DEF ReplyBytes
    <3>3. n \in Nat
      BY <3>2
    <3>4. <<n, Head(answering)[2]>> \in ReplyBytes
      BY <3>2, <3>3 DEF ReplyBytes
    <3>5. stream \in Seq(ReplyBytes)
      OBVIOUS
    <3> QED
      BY <3>1, <3>4, <3>5, AppendProperties
  <2> QED
    BY <1>0, <2>1, <2>2, <2>3 DEF client, SizeOf
<1>3. CASE ReplyByteLost
  BY <1>3 DEF ReplyByteLost, portVars, line, port, locals, client, SizeOf
<1>4. CASE FarEndGoes
  BY <1>4 DEF FarEndGoes, HangUp, port, locals, client, SizeOf
<1>5. CASE PortRuns
  <2> DEFINE k == queued' - queued
  <2>1. wire' \in Seq(Nat \X {1, 2}) /\ Len(wire') = Len(wire) + k /\ k \in Nat
    BY <1>5, WireGrows
  <2>2. CallGoesOn \/ CallEnds
    BY <1>5, PortStepKinds DEF PortRuns
  <2>3. UNCHANGED <<client, answering, stream>>
    BY <1>5 DEF PortRuns
  <2>4. op \in OpsOf(phase) => op' \in OpsOf(phase)
    BY <2>2 DEF CallGoesOn, CallEnds, OpsOf, Ops, Reads, Writes
  <2>5. queued' <= Len(wire') /\ arrived' = Len(stream')
    BY <1>0, <2>1, <2>2, <2>3 DEF CallGoesOn, CallEnds
  <2>6. /\ phase = "closed" <=> handle' # "ready"
        /\ op' # "none" => size' = SizeOf(phase)
        /\ SizeOf(phase)' = SizeOf(phase)
        /\ phase = "flushing" /\ op' = "reading" => deadline' = "now" /\ ~polledReadable'
    BY <2>2, <2>3 DEF CallGoesOn, CallEnds, OpsOf, client, SizeOf, Reads, Writes
  <2> QED
    BY <2>1, <2>3, <2>4, <2>5, <2>6 DEF client
<1>6. CASE Clock
  BY <1>6 DEF Clock, TimePasses, line, port, client, far, SizeOf
<1>7. CASE Open
  BY <1>0, <1>7 DEF Open, OpenHandle, line, locals, client, far, OpsOf, SizeOf, CallInv
<1>8. ASSUME NEW baudrate \in Baudrates, Opened, Configured(baudrate) PROVE ShapeInv'
  BY <1>8, <1>0 DEF Opened, Configured, PosixConfigured, WinConfigured, Accepts, line, locals, far, OpsOf, Phases,
     Awaiting, Replying
<1>9. CASE NotOpened
  BY <1>9, <1>0 DEF NotOpened, NotConfigured, line, locals, client, far, OpsOf, HandleInv
<1>10. CASE Close
  <2>1. wire' \in Seq(Nat \X {1, 2}) /\ Len(wire') = Len(wire) - queued
    BY <1>0, <1>10 DEF Close, SubSeqProperties
  <2> QED
    BY <1>0, <1>10, <2>1 DEF Close, CloseHandle, locals, OpsOf, Phases, Awaiting, Replying
<1>11. ASSUME NEW kind \in Kinds, BeginTransaction(kind) PROVE ShapeInv'
  <2>1. BeginCall("reading", Buffer, "now")
    BY <1>11 DEF BeginTransaction
  <2>2. since' \in Nat /\ kinds' \in Seq(Kinds) /\ Len(kinds') = tx + 1
    BY <1>0, <1>11, LinkAssumption DEF BeginTransaction
  <2>3. /\ op' \in {"reading", "refusedRead"} /\ size' = Buffer /\ deadline' = "now"
        /\ polledReadable' = FALSE /\ UNCHANGED <<arrived, queued, handle>> /\ handle = "ready"
    BY <2>1, BeginCallEffect, LinkAssumption
  <2>4. phase = "idle" /\ phase' = "flushing" /\ UNCHANGED <<answers, wire, answering, stream>>
    BY <1>11 DEF BeginTransaction, far
  <2>5. LinkShape'
    BY <2>2, <2>4 DEF Phases
  <2> QED
    BY <1>0, <2>2, <2>3, <2>4, <2>5 DEF OpsOf, SizeOf
<1> DEFINE Begins(call, n, p) ==
             /\ op = "none" /\ handle = "ready" /\ size' = n /\ phase' = p
             /\ op' \in IF call = "reading" THEN Reads ELSE IF call = "writing" THEN Writes ELSE {call}
             /\ UNCHANGED <<arrived, queued, handle, kinds, answers, wire, answering, stream>>
<1>12. CASE Flushed
  <2>1. Begins("writing", 2, "sending") /\ phase = "flushing" /\ since' \in Nat
    BY <1>12, BeginCallEffect DEF Flushed, Back, far, Writes
  <2> QED
    BY <1>0, <2>1 DEF OpsOf, SizeOf, Phases, Awaiting
<1>13. CASE Sent
  <2>1. Begins("draining", 0, "draining") /\ phase = "sending" /\ since' = since
    BY <1>13, BeginCallEffect DEF Sent, Back, Then, far
  <2> QED
    BY <1>0, <2>1 DEF OpsOf, SizeOf, Phases, Awaiting, Replying
<1>14. CASE RequestOut
  <2>1. Begins("reading", 1, "address") /\ phase = "draining" /\ since' = since
    BY <1>14, BeginCallEffect DEF RequestOut, Back, Then, far, Reads
  <2> QED
    BY <1>0, <2>1 DEF OpsOf, SizeOf, Phases, Awaiting, Replying
<1>15. CASE ReplyRead
  <2>1. PICK p \in {"function", "count", "data", "crc", "code", "check"} :
          /\ Begins("reading", IF p = "data" /\ kinds[tx] = "writeCommand" THEN 2 ELSE 1, p)
          /\ phase \in Replying /\ since' = since
          /\ p = "count" => kinds[tx] # "writeCommand"
    <3> USE BeginCallEffect DEF Back, Then, far, Reads, Replying
    <3>1. CASE AddressRead \/ Refused \/ CodeRead
      BY <1>15, <3>1 DEF AddressRead, Refused, CodeRead
    <3>2. CASE FunctionRead /\ kinds[tx] = "writeCommand"
      BY <3>2 DEF FunctionRead
    <3>3. CASE FunctionRead /\ kinds[tx] # "writeCommand"
      BY <3>3 DEF FunctionRead
    <3>4. CASE CountRead \/ DataRead
      BY <3>4 DEF CountRead, DataRead
    <3> QED
      BY <1>15, <3>1, <3>2, <3>3, <3>4 DEF ReplyRead
  <2> HIDE DEF Begins
  <2>2. InTransaction /\ p \in Phases /\ p \in Replying
    BY <2>1 DEF Phases, Awaiting, Replying
  <2>3. OpsOf(p) = {"none"} \cup Reads
        /\ SizeOf(p) = IF p = "data" /\ kinds[tx] = "writeCommand" THEN 2 ELSE 1
    BY <2>1 DEF OpsOf, SizeOf, Replying
  <2>4. SizeOf(p)' = SizeOf(p)
    BY <2>1 DEF Begins, SizeOf
  <2> QED
    BY <1>0, <2>1, <2>2, <2>3, <2>4 DEF Begins, Replying
<1>16. ASSUME NEW n \in Nat, InTransaction, op = "none", Finish(n) PROVE ShapeInv'
  BY <1>0, <1>16 DEF Finish, portVars, line, port, locals, far, OpsOf, Phases
<1>17. CASE CrcRead \/ Fails
  <2>1. InTransaction /\ op = "none" /\ \E n \in Nat : Finish(n)
    BY <1>17, <1>0 DEF CrcRead, Fails, Back, Awaiting, Replying
  <2> QED
    BY <2>1, <1>16
<1>18. CASE UNCHANGED linkVars
  BY <1>18 DEF linkVars, portVars, line, port, locals, client, far, SizeOf
<1> QED
  BY <1>1, <1>2, <1>3, <1>4, <1>5, <1>6, <1>7, <1>8, <1>9, <1>10, <1>11, <1>12, <1>13, <1>14, <1>15,
     <1>17, <1>18 DEF LinkNext, LinePart, ClientStep, Opened

(* A flush leaves nothing that was there before it, unless the line is     *)
(* gone; then nothing more is written either.                              *)
FlushInv ==
  /\ since <= arrived
  /\ phase = "flushing" => IF op = "none" THEN since <= taken \/ gone ELSE since <= Handed + size
  /\ phase = "sending" /\ taken < since =>
       gone /\ (IF op = "none" THEN outcome # "done" ELSE done < size)
  /\ phase = "draining" => since <= taken

(* Bytes of the reply the client has taken when phase p begins, and those  *)
(* it has with what p itself reads.                                        *)
ReadBefore(p) ==
  CASE p = "function" -> 1
    [] p = "count"    -> 2
    [] p = "data"     -> IF kinds[tx] = "writeCommand" THEN 2 ELSE 3
    [] p = "crc"      -> 4
    [] OTHER          -> 0
ReadSoFar == ReadBefore(phase) + IF op = "none" THEN SizeOf(phase) ELSE 0

InFrame == phase \in Framing /\ (op # "none" \/ outcome = "done")
PastFunction == phase \in {"count", "data", "crc"}

(* They all arrived after the flush, and the second may be the function    *)
(* code of the request.                                                    *)
HeadInv ==
  InFrame =>
    /\ since + ReadSoFar <= Handed
    /\ PastFunction => MayBeOurs(2, stream[Handed - ReadSoFar + 2])

LEMMA HandedRange ==
  ASSUME PortInv
  PROVE  /\ Handed \in 0 .. arrived /\ Handed <= taken
         /\ op \notin {"reading", "polling"} => Handed = taken
BY DEF Handed, InHand, PortInv, PortTypeOK, BuffersInBounds

(* A part of the reply read, and what the client reads next.               *)
LEMMA ReplyReadEffect ==
  ASSUME ShapeInv, ReplyRead
  PROVE  /\ op = "none" /\ outcome = "done" /\ phase \in Replying
         /\ op' \in {"reading", "refusedRead"} /\ done' = 0
         /\ phase' \in Replying \ {"address"}
         /\ phase' \in Framing =>
              /\ phase \in Framing /\ ReadBefore(phase') = ReadBefore(phase) + SizeOf(phase)
              /\ PastFunction' => PastFunction \/ (phase = "function" /\ MayBeOurs(2, stream[taken]))
         /\ UNCHANGED <<arrived, taken, queued, gone, since, kinds, answers, far>>
<1>0. /\ ReadBefore("address") = 0 /\ ReadBefore("function") = 1 /\ ReadBefore("count") = 2 /\ ReadBefore("crc") = 4
      /\ ReadBefore("data") = IF kinds[tx] = "writeCommand" THEN 2 ELSE 3
      /\ SizeOf("address") = 1 /\ SizeOf("function") = 1 /\ SizeOf("count") = 1
      /\ SizeOf("data") = IF kinds[tx] = "writeCommand" THEN 2 ELSE 1
  BY DEF ReadBefore, SizeOf
<1> DEFINE Next(p) ==
             /\ op = "none" /\ outcome = "done" /\ op' \in {"reading", "refusedRead"} /\ done' = 0 /\ phase' = p
             /\ UNCHANGED <<arrived, taken, queued, gone, since, kinds, answers, far>>
<1> USE BeginCallEffect DEF Back, Then
<1>1. CASE AddressRead
  <2>1. Next("function") /\ phase = "address"
    BY <1>1 DEF AddressRead
  <2> QED
    BY <1>0, <2>1 DEF Framing, Replying, PastFunction
<1>2. CASE FunctionRead /\ kinds[tx] = "writeCommand"
  <2>1. Next("data") /\ phase = "function" /\ MayBeOurs(2, stream[taken])
    BY <1>2 DEF FunctionRead
  <2> QED
    BY <1>0, <1>2, <2>1 DEF Framing, Replying, PastFunction
<1>3. CASE FunctionRead /\ kinds[tx] # "writeCommand"
  <2>1. Next("count") /\ phase = "function" /\ MayBeOurs(2, stream[taken])
    BY <1>3 DEF FunctionRead
  <2> QED
    BY <1>0, <1>3, <2>1 DEF Framing, Replying, PastFunction
<1>4. CASE Refused \/ CodeRead
  <2>1. (Next("code") \/ Next("check")) /\ phase \in {"function", "code"}
    BY <1>4 DEF Refused, CodeRead
  <2> QED
    BY <2>1 DEF Framing, Replying, PastFunction
<1>5. CASE CountRead
  <2>1. Next("data") /\ phase = "count" /\ kinds[tx] # "writeCommand"
    BY <1>5 DEF CountRead, ShapeInv, ClientInv
  <2> QED
    BY <1>0, <2>1 DEF Framing, Replying, PastFunction
<1>6. CASE DataRead
  <2>1. Next("crc") /\ phase = "data"
    BY <1>6 DEF DataRead
  <2> QED
    BY <1>0, <2>1 DEF Framing, Replying, PastFunction
<1> QED
  BY <1>1, <1>2, <1>3, <1>4, <1>5, <1>6 DEF ReplyRead

LEMMA FlushStep ==
  ASSUME PortInv, ShapeInv, FlushInv, [LinkNext]_linkVars
  PROVE  FlushInv'
<1>0. /\ PortTypeOK /\ PortInv' /\ taken' \in Nat /\ arrived' \in Nat /\ Buffer \in Nat
      /\ since \in Nat /\ phase \in Phases /\ op \in OpsOf(phase)
  BY LinkStepIsPortStep, PortActsKeepPort, LinkAssumption
     DEF PortInv, PortTypeOK, ShapeInv, LinkShape, ClientInv
<1> USE HandedRange DEF FlushInv
<1>1. ASSUME UNCHANGED <<phase, since, taken, op, size, done, outcome>>, arrived' >= arrived,
             gone => gone'
      PROVE  FlushInv'
  BY <1>0, <1>1 DEF Handed, InHand, PortTypeOK
<1>2. CASE LinePart
  BY <1>0, <1>1, <1>2 DEF LinePart, RequestLeaves, Transmit, ReplyArrives, ByteArrives, ReplyByteLost,
     FarEndGoes, HangUp, portVars, line, port, locals, reply, client, far, PortTypeOK
<1>3. CASE Clock
  BY <1>0, <1>1, <1>3 DEF Clock, TimePasses, line, port, reply, client, far, PortTypeOK
<1>4. CASE PortRuns
  <2>1. UNCHANGED <<phase, since>> /\ (CallGoesOn \/ CallEnds)
    BY <1>4, PortStepKinds DEF PortRuns, client
  <2>2. CASE phase = "flushing"
    <3>1. \/ op = "reading" /\ ~polledReadable /\ deadline = "now"
          \/ op = "refusedRead" /\ CallEnds
      BY <2>1, <2>2, <1>0 DEF CallGoesOn, CallEnds, OpsOf, ShapeInv, ClientInv
    <3>2. CASE CallGoesOn
      BY <1>0, <2>1, <2>2, <3>1, <3>2 DEF CallGoesOn
    <3>3. CASE CallEnds
      <4>1. op' = "none" /\ since <= Handed + size /\ Handed <= Handed' /\ Handed' = taken' /\ gone' = gone
        BY <2>2, <3>1, <3>3 DEF CallEnds
      <4>2. /\ outcome' \in {"done", "short", "raised"}
            /\ outcome' = "done" => Handed' = Handed + size
            /\ outcome' = "short" => Handed' = arrived
            /\ outcome' = "raised" => gone
        BY <3>1, <3>3 DEF CallEnds, Reads
      <4>3. since' = since /\ phase' = phase /\ arrived' = arrived
        BY <2>1, <3>3 DEF CallEnds
      <4>4. since <= taken' \/ gone
        BY <4>1, <4>2
      <4> QED
        BY <2>2, <4>1, <4>3, <4>4
    <3> QED
      BY <2>1, <3>2, <3>3
  <2>3. CASE phase = "sending"
    <3>1. op \in Writes
      BY <2>1, <2>3, <1>0 DEF CallGoesOn, CallEnds, OpsOf, Writes
    <3>2. Handed = taken /\ arrived' = arrived /\ gone' = gone
      BY <2>1, <3>1 DEF CallGoesOn, CallEnds, Writes
    <3>3. taken' = taken
      <4>1. CASE CallGoesOn
        <5>1. Handed' = taken /\ op' \in {"writing", "awaiting"}
          BY <3>1, <3>2, <4>1 DEF CallGoesOn, Writes
        <5> QED
          BY <1>0, <5>1 DEF Handed, InHand
      <4> QED
        BY <2>1, <3>1, <4>1 DEF CallEnds, Writes
    <3>4. CASE CallGoesOn
      <4>1. taken < since => gone' /\ op' # "none" /\ done' < size'
        BY <1>0, <2>3, <3>1, <3>4 DEF CallGoesOn, PortTypeOK, Writes
      <4> QED
        BY <2>1, <2>3, <3>2, <3>3, <4>1
    <3>5. CASE CallEnds
      <4>1. taken < since => gone' /\ op' = "none" /\ outcome' # "done"
        BY <1>0, <2>3, <3>1, <3>5 DEF CallEnds, PortTypeOK, Writes
      <4> QED
        BY <2>1, <2>3, <3>2, <3>3, <4>1
    <3> QED
      BY <2>1, <3>4, <3>5
  <2>4. CASE phase = "draining"
    <3>1. op = "draining" /\ CallEnds
      BY <2>1, <2>4, <1>0 DEF CallGoesOn, CallEnds, OpsOf
    <3> QED
      BY <2>1, <2>4, <3>1 DEF CallEnds
  <2>5. CASE phase \notin {"flushing", "sending", "draining"}
    BY <2>1, <2>5 DEF CallGoesOn, CallEnds
  <2> QED
    BY <2>2, <2>3, <2>4, <2>5
<1>5. CASE Open \/ Opened \/ NotOpened \/ Close
  BY <1>0, <1>5 DEF Open, OpenHandle, Opened, Configured, PosixConfigured, WinConfigured, NotOpened,
     NotConfigured, Close, CloseHandle, line, client, far
<1>6. ASSUME NEW kind \in Kinds, BeginTransaction(kind) PROVE FlushInv'
  <2>1. /\ since' = IF arrived - taken > Buffer THEN taken + Buffer ELSE arrived
        /\ phase' = "flushing"
    BY <1>6 DEF BeginTransaction
  <2>2. /\ op = "none" /\ op' \in {"reading", "refusedRead"} /\ size' = Buffer /\ done' = 0
        /\ UNCHANGED <<arrived, taken>>
    BY <1>6, BeginCallEffect, LinkAssumption DEF BeginTransaction
  <2>3. Handed' = taken
    BY <2>2, <1>0 DEF Handed, InHand, PortTypeOK
  <2>4. since' <= arrived /\ since' <= taken + Buffer
    BY <1>0, <2>1 DEF PortTypeOK
  <2> QED
    BY <2>1, <2>2, <2>3, <2>4
<1>7. CASE Flushed
  <2>1. /\ op' # "none" /\ size' = 2 /\ done' = 0 /\ UNCHANGED <<arrived, taken, gone>>
        /\ since' = IF since <= taken THEN 0 ELSE since
        /\ op = "none" /\ phase = "flushing" /\ phase' = "sending"
    BY <1>7, BeginCallEffect DEF Flushed, Back
  <2> QED
    BY <1>0, <2>1 DEF PortTypeOK
<1>8. CASE Sent \/ RequestOut \/ ReplyRead
  <2>1. /\ UNCHANGED <<arrived, taken, since>> /\ op = "none" /\ outcome = "done"
        /\ phase' \in {"draining"} \cup Replying
        /\ phase' = "draining" => phase = "sending"
    BY <1>8, BeginCallEffect, ReplyReadEffect DEF Sent, RequestOut, Back, Then, Replying
  <2> QED
    BY <1>0, <2>1 DEF PortTypeOK, Replying
<1>9. CASE CrcRead \/ Fails
  BY <1>9 DEF CrcRead, Fails, Finish, portVars, line
<1>10. CASE UNCHANGED linkVars
  BY <1>0, <1>1, <1>10 DEF linkVars, portVars, line, locals, reply, client, PortTypeOK
<1> QED
  BY <1>2, <1>3, <1>4, <1>5, <1>6, <1>7, <1>8, <1>9, <1>10 DEF LinkNext, ClientStep

(* Nothing that arrived is changed or forgotten.                           *)
StreamKept == Len(stream) <= Len(stream') /\ \A i \in 1 .. Len(stream) : stream'[i] = stream[i]

LEMMA StreamGrows == ShapeInv /\ [LinkNext]_linkVars => StreamKept
<1> SUFFICES ASSUME ShapeInv, [LinkNext]_linkVars PROVE StreamKept
  OBVIOUS
<1> USE DEF far
<1>0. stream \in Seq(ReplyBytes) /\ answering \in Seq(ReplyBytes)
  BY DEF ShapeInv, LinkShape
<1>1. CASE ReplyArrives
  <2>1. PICK b : stream' = Append(stream, b)
    BY <1>1 DEF ReplyArrives
  <2> QED
    BY <1>0, <2>1, AppendProperties DEF StreamKept
<1>2. CASE UNCHANGED stream
  BY <1>0, <1>2 DEF StreamKept
<1>3. CASE RequestLeaves \/ ReplyByteLost \/ FarEndGoes
  BY <1>2, <1>3 DEF RequestLeaves, ReplyByteLost, FarEndGoes
<1>4. CASE PortRuns \/ Clock \/ Open \/ Opened \/ NotOpened \/ Close
  BY <1>2, <1>4 DEF PortRuns, Clock, Open, Opened, NotOpened, Close
<1>5. CASE (\E kind \in Kinds : BeginTransaction(kind)) \/ ClientStep
  BY <1>2, <1>5, ReplyReadEffect DEF BeginTransaction, ClientStep, Flushed, Sent, RequestOut, CrcRead,
     Fails, Then, Finish
<1>6. CASE UNCHANGED linkVars
  BY <1>2, <1>6 DEF linkVars
<1> QED
  BY <1>1, <1>3, <1>4, <1>5, <1>6 DEF LinkNext, LinePart

LEMMA HeadKept ==
  ASSUME PortInv, ShapeInv, StreamKept, UNCHANGED <<since, kinds>>,
         NEW d \in Nat, Handed' = Handed + d, ReadSoFar' = ReadSoFar + d,
         ReadSoFar \in Nat, since + ReadSoFar <= Handed,
         PastFunction' => ReadSoFar > 1 /\ MayBeOurs(2, stream[Handed - ReadSoFar + 2])
  PROVE  HeadInv'
<1>1. since \in Nat /\ Handed \in 0 .. Len(stream) /\ Len(stream) \in Nat
  BY HandedRange DEF ShapeInv, LinkShape, ClientInv
<1>2. since' + ReadSoFar' <= Handed'
  BY <1>1
<1>3. ASSUME PastFunction'
      PROVE  MayBeOurs(2, stream[Handed - ReadSoFar + 2])'
  <2>1. Handed - ReadSoFar + 2 \in 1 .. Len(stream)
    BY <1>1, <1>3
  <2>2. Handed' - ReadSoFar' + 2 = Handed - ReadSoFar + 2
    BY <1>1
  <2>3. stream'[Handed' - ReadSoFar' + 2] = stream[Handed - ReadSoFar + 2]
    BY <2>1, <2>2 DEF StreamKept
  <2> QED
    BY <1>3, <2>3 DEF MayBeOurs, Ours, Is, tx
<1> QED
  BY <1>2, <1>3 DEF HeadInv

LEMMA HeadStep ==
  ASSUME PortInv, ShapeInv, FlushInv, HeadInv, [LinkNext]_linkVars
  PROVE  HeadInv'
<1>0. /\ PortTypeOK /\ taken' \in Nat /\ op \in OpsOf(phase) /\ phase \in Phases
      /\ since \in Nat /\ StreamKept
  BY LinkStepIsPortStep, PortActsKeepPort, StreamGrows DEF PortInv, PortTypeOK, ShapeInv, LinkShape, ClientInv
<1>1. ASSUME phase' \notin Framing PROVE HeadInv'
  BY <1>1 DEF HeadInv, InFrame
<1>2. ASSUME phase \in Framing
      PROVE  /\ ReadBefore(phase) \in Nat /\ SizeOf(phase) \in Nat /\ ReadSoFar \in Nat
             /\ PastFunction => ReadBefore(phase) > 1
  BY <1>2 DEF ReadSoFar, ReadBefore, SizeOf, Framing, Replying, PastFunction
<1>3. ASSUME UNCHANGED <<phase, since, kinds, taken, op, done, outcome>> PROVE HeadInv'
  <2>1. CASE InFrame
    <3>1. Handed' = Handed /\ Handed \in Nat
      BY <1>0, <1>3, HandedRange DEF Handed, InHand, PortTypeOK
    <3>2. ReadSoFar' = ReadSoFar /\ PastFunction' = PastFunction
      BY <1>3 DEF ReadSoFar, ReadBefore, SizeOf, PastFunction, tx
    <3>3. ReadSoFar \in Nat /\ (PastFunction => ReadSoFar > 1)
      BY <1>2, <2>1 DEF ReadSoFar, InFrame
    <3>4. Handed' = Handed + 0 /\ ReadSoFar' = ReadSoFar + 0
      BY <3>1, <3>2, <3>3
    <3> QED
      BY <1>0, <1>3, <2>1, <3>2, <3>3, <3>4, HeadKept DEF HeadInv
  <2>2. CASE ~InFrame
    BY <1>3, <2>2 DEF HeadInv, InFrame
  <2> QED
    BY <2>1, <2>2
<1>4. CASE LinePart \/ Clock \/ UNCHANGED linkVars
  BY <1>3, <1>4 DEF LinePart, RequestLeaves, Transmit, ReplyArrives, ByteArrives, ReplyByteLost, FarEndGoes,
     HangUp, Clock, TimePasses, linkVars, portVars, line, port, locals, reply, client, far
<1>5. CASE PortRuns /\ phase \in Framing
  <2>1. UNCHANGED <<phase, since, kinds>> /\ (CallGoesOn \/ CallEnds)
    BY <1>5, PortStepKinds DEF PortRuns, client
  <2>2. op \in Reads /\ size = SizeOf(phase) /\ size \in Nat
    <3>1. op \in {"none"} \cup Reads
      BY <1>0, <1>5 DEF OpsOf, Framing
    <3>2. op # "none"
      BY <2>1 DEF CallGoesOn, CallEnds
    <3> QED
      BY <1>0, <3>1, <3>2 DEF ShapeInv, ClientInv, PortTypeOK
  <2>3. /\ ReadSoFar = ReadBefore(phase) /\ ReadSoFar \in Nat
        /\ since + ReadSoFar <= Handed
        /\ PastFunction => ReadSoFar > 1 /\ MayBeOurs(2, stream[Handed - ReadSoFar + 2])
    <3>1. op # "none" /\ InFrame
      BY <1>5, <2>2 DEF Reads, InFrame
    <3>2. ReadSoFar = ReadBefore(phase)
      BY <1>2, <1>5, <3>1 DEF ReadSoFar
    <3> QED
      BY <1>2, <1>5, <3>1, <3>2 DEF HeadInv
  <2>4. /\ ReadBefore(phase)' = ReadBefore(phase) /\ SizeOf(phase)' = SizeOf(phase)
        /\ PastFunction' = PastFunction
    BY <2>1 DEF ReadBefore, SizeOf, PastFunction, tx
  <2>5. CASE CallGoesOn
    <3>1. Handed' = Handed + 0 /\ ReadSoFar' = ReadSoFar + 0
      BY <2>3, <2>4, <2>5, HandedRange DEF CallGoesOn, ReadSoFar
    <3> QED
      BY <1>0, <2>1, <2>3, <2>4, <3>1, HeadKept
  <2>6. CASE CallEnds /\ outcome' = "done"
    <3>1. Handed' = Handed + size /\ ReadSoFar' = ReadSoFar + size
      BY <2>2, <2>3, <2>4, <2>6 DEF CallEnds, ReadSoFar
    <3> QED
      BY <1>0, <2>1, <2>2, <2>3, <2>4, <3>1, HeadKept
  <2>7. CASE CallEnds /\ outcome' # "done"
    BY <2>7 DEF CallEnds, HeadInv, InFrame
  <2> QED
    BY <2>1, <2>5, <2>6, <2>7
<1>6. CASE PortRuns /\ phase \notin Framing
  BY <1>1, <1>6 DEF PortRuns, client
<1>7. CASE Open \/ Opened \/ NotOpened \/ Close
  <2>1. phase' \in {"closed", "idle"}
    BY <1>7 DEF Open, Opened, NotOpened, Close, client
  <2> QED
    BY <1>1, <2>1 DEF Framing
<1>8. CASE (\E kind \in Kinds : BeginTransaction(kind)) \/ Flushed \/ Sent \/ CrcRead \/ Fails
  <2>1. phase' \in {"flushing", "sending", "draining", "idle"}
    BY <1>8 DEF BeginTransaction, Flushed, Sent, CrcRead, Fails, Then, Finish
  <2> QED
    BY <1>1, <2>1 DEF Framing
<1>9. CASE RequestOut
  <2>1. /\ op = "none" /\ op' \in {"reading", "refusedRead"} /\ done' = 0
        /\ UNCHANGED <<taken, since, kinds>>
        /\ phase = "draining" /\ phase' = "address" /\ since <= taken
    BY <1>9, BeginCallEffect DEF RequestOut, Back, Then, FlushInv
  <2>2. Handed' = taken /\ taken \in Nat
    BY <1>0, <2>1 DEF Handed, InHand, PortTypeOK
  <2>3. ReadSoFar' = 0 /\ ~PastFunction'
    BY <2>1 DEF ReadSoFar, ReadBefore, PastFunction
  <2> QED
    BY <1>0, <2>1, <2>2, <2>3 DEF HeadInv
<1>10. CASE ReplyRead /\ phase' \in Framing
  <2>1. /\ op = "none" /\ outcome = "done" /\ op' \in {"reading", "refusedRead"} /\ done' = 0
        /\ UNCHANGED <<taken, since, kinds>>
        /\ phase \in Framing /\ ReadBefore(phase') = ReadBefore(phase) + SizeOf(phase)
        /\ PastFunction' => PastFunction \/ (phase = "function" /\ MayBeOurs(2, stream[taken]))
    BY <1>10, ReplyReadEffect
  <2>2. Handed = taken /\ Handed' = taken /\ taken \in Nat
    BY <1>0, <2>1, HandedRange DEF Handed, InHand, PortTypeOK
  <2>3. ReadSoFar = ReadBefore(phase) + SizeOf(phase) /\ ReadSoFar \in Nat
    BY <1>2, <2>1 DEF ReadSoFar
  <2>4. ReadSoFar' = ReadSoFar
    <3>1. ReadSoFar' = ReadBefore(phase)' + 0
      BY <2>1 DEF ReadSoFar
    <3>2. ReadBefore(phase)' = ReadBefore(phase')
      BY <2>1 DEF ReadBefore, tx
    <3> QED
      BY <2>1, <2>3, <3>1, <3>2
  <2>5. Handed' = Handed + 0 /\ ReadSoFar' = ReadSoFar + 0
    BY <2>2, <2>3, <2>4
  <2>6. since + ReadSoFar <= Handed /\ (PastFunction => MayBeOurs(2, stream[Handed - ReadSoFar + 2]))
    BY <2>1 DEF HeadInv, InFrame
  <2>7. PastFunction' => ReadSoFar > 1 /\ MayBeOurs(2, stream[Handed - ReadSoFar + 2])
    <3>1. CASE PastFunction
      BY <1>2, <2>1, <2>3, <2>6, <3>1
    <3>2. CASE phase = "function" /\ MayBeOurs(2, stream[taken])
      <4>1. ReadSoFar = 2
        BY <2>3, <3>2 DEF ReadBefore, SizeOf, Replying
      <4>2. Handed - ReadSoFar + 2 = taken
        BY <2>2, <4>1
      <4> QED
        BY <3>2, <4>1, <4>2
    <3> QED
      BY <2>1, <3>1, <3>2
  <2> QED
    BY <1>0, <2>1, <2>3, <2>5, <2>6, <2>7, HeadKept
<1> QED
  BY <1>1, <1>4, <1>5, <1>6, <1>7, <1>8, <1>9, <1>10 DEF LinkNext, ClientStep

-----------------------------------------------------------------------------
(* What is on the wire, and what comes back.                               *)

Earlier(a, b) == a[1] < b[1] \/ (a[1] = b[1] /\ a[2] < b[2])

(* Bytes go out in the order of transactions, none twice.                  *)
WireInv ==
  /\ \A i, j \in 1 .. Len(wire) : i < j => Earlier(wire[i], wire[j])
  /\ \A i \in 1 .. Len(wire) :
       /\ wire[i][1] \in 1 .. tx
       /\ phase = "flushing" => wire[i][1] < tx
       /\ phase = "sending" /\ op # "none" /\ wire[i][1] = tx => wire[i][2] <= done

LEMMA WireKept ==
  ASSUME ShapeInv, WireInv, Len(wire') \in Nat, Len(wire') <= Len(wire),
         \A i \in 1 .. Len(wire') : wire'[i] = wire[i],
         tx' \in Nat, tx <= tx',
         phase' = "flushing" => tx < tx' \/ (phase = "flushing" /\ tx' = tx),
         phase' = "sending" /\ op' # "none" =>
           tx' = tx /\ (phase = "flushing" \/ (phase = "sending" /\ op # "none" /\ done' = done))
  PROVE  WireInv'
<1>1. Len(wire) \in Nat /\ tx \in Nat
  BY DEF ShapeInv, LinkShape, tx
<1>2. \A i, j \in 1 .. Len(wire') : i < j => Earlier(wire'[i], wire'[j])
  BY <1>1 DEF WireInv
<1>3. ASSUME NEW i \in 1 .. Len(wire')
      PROVE  /\ wire'[i][1] \in 1 .. tx'
             /\ phase' = "flushing" => wire'[i][1] < tx'
             /\ phase' = "sending" /\ op' # "none" /\ wire'[i][1] = tx' => wire'[i][2] <= done'
  <2>1. i \in 1 .. Len(wire) /\ wire'[i] = wire[i]
    BY <1>1
  <2>2. wire[i][1] \in 1 .. tx
    BY <2>1 DEF WireInv
  <2>3. phase' = "flushing" => wire[i][1] < tx'
    BY <1>1, <2>1, <2>2 DEF WireInv
  <2>4. phase' = "sending" /\ op' # "none" /\ wire[i][1] = tx' => wire[i][2] <= done'
    BY <1>1, <2>1, <2>2 DEF WireInv
  <2> QED
    BY <1>1, <2>1, <2>2, <2>3, <2>4
<1> QED
  BY <1>2, <1>3 DEF WireInv, Earlier

LEMMA WireStep ==
  ASSUME PortInv, ShapeInv, WireInv, [LinkNext]_linkVars
  PROVE  WireInv'
<1>0. /\ PortTypeOK /\ wire \in Seq(Nat \X {1, 2}) /\ Len(wire) \in Nat /\ tx \in Nat /\ queued \in 0 .. Len(wire)
      /\ op \in OpsOf(phase) /\ phase \in Phases
  BY DEF PortInv, PortTypeOK, ShapeInv, LinkShape, ClientInv, tx
<1>1. ASSUME UNCHANGED <<wire, kinds>>,
             phase' = "flushing" => phase = "flushing",
             phase' = "sending" /\ op' # "none" =>
               phase = "flushing" \/ (phase = "sending" /\ op # "none" /\ done' = done)
      PROVE  WireInv'
  BY <1>0, <1>1, WireKept DEF tx
<1>2. CASE LinePart \/ Clock \/ UNCHANGED linkVars
  BY <1>1, <1>2 DEF LinePart, RequestLeaves, Transmit, ReplyArrives, ByteArrives, ReplyByteLost, FarEndGoes,
     HangUp, Clock, TimePasses, linkVars, portVars, line, port, locals, reply, client, far
<1>3. CASE PortRuns
  <2> DEFINE k == queued' - queued
  <2>1. /\ k \in Nat /\ wire' \in Seq(Nat \X {1, 2}) /\ Len(wire') = Len(wire) + k
        /\ \A i \in 1 .. Len(wire) : wire'[i] = wire[i]
        /\ \A i \in 1 .. k : wire'[Len(wire) + i] = <<tx, done + i>>
        /\ k > 0 => phase = "sending" /\ op # "none" /\ done' = done + k /\ ~gone
    BY <1>3, WireGrows
  <2>2. UNCHANGED <<phase, kinds>> /\ (CallGoesOn \/ CallEnds)
    BY <1>3, PortStepKinds DEF PortRuns, client
  <2> HIDE DEF k
  <2>3. CASE k = 0
    <3>1. Len(wire') <= Len(wire) /\ \A i \in 1 .. Len(wire') : wire'[i] = wire[i]
      BY <1>0, <2>1, <2>3
    <3>2. phase' = "sending" /\ op' # "none" => op # "none" /\ done' = done
      BY <1>0, <2>2, <2>3 DEF CallGoesOn, CallEnds, OpsOf, Writes, k, PortTypeOK
    <3> QED
      BY <1>0, <2>1, <2>2, <3>1, <3>2, WireKept DEF tx
  <2>4. CASE k > 0
    <3>1. phase = "sending" /\ op # "none" /\ done' = done + k /\ tx > 0 /\ tx' = tx /\ done \in Nat
      BY <1>0, <2>1, <2>2, <2>4 DEF ShapeInv, ClientInv, InTransaction, tx, PortTypeOK
    <3>2. ASSUME NEW i \in 1 .. Len(wire), NEW j \in 1 .. k
          PROVE  Earlier(wire[i], <<tx, done + j>>)
      <4>1. wire[i] \in Nat \X {1, 2}
        BY <1>0
      <4>2. wire[i][1] <= tx /\ (wire[i][1] = tx => wire[i][2] <= done)
        BY <3>1, <1>0 DEF WireInv
      <4>3. wire[i][1] \in Nat /\ wire[i][2] \in Nat
        BY <4>1
      <4>4. wire[i][1] < tx \/ (wire[i][1] = tx /\ wire[i][2] < done + j)
        BY <1>0, <3>1, <4>2, <4>3
      <4> QED
        BY <4>4 DEF Earlier
    <3>3. ASSUME NEW i \in 1 .. Len(wire'), NEW j \in 1 .. Len(wire'), i < j
          PROVE  Earlier(wire'[i], wire'[j])
      <4>1. CASE j <= Len(wire)
        <5>1. i \in 1 .. Len(wire) /\ j \in 1 .. Len(wire)
          BY <1>0, <3>3, <4>1
        <5>2. wire'[i] = wire[i] /\ wire'[j] = wire[j]
          BY <2>1, <5>1
        <5>3. Earlier(wire[i], wire[j])
          BY <3>3, <5>1 DEF WireInv
        <5> QED
          BY <5>2, <5>3
      <4>2. CASE i <= Len(wire) /\ j > Len(wire)
        <5>1. j - Len(wire) \in 1 .. k /\ i \in 1 .. Len(wire)
          BY <1>0, <2>1, <4>2
        <5>2. wire'[Len(wire) + (j - Len(wire))] = <<tx, done + (j - Len(wire))>> /\ wire'[i] = wire[i]
          BY <2>1, <5>1
        <5>3. Len(wire) + (j - Len(wire)) = j
          BY <1>0
        <5> QED
          BY <3>2, <5>1, <5>2, <5>3
      <4>3. CASE i > Len(wire)
        <5>1. j - Len(wire) \in 1 .. k /\ i - Len(wire) \in 1 .. k
          BY <1>0, <2>1, <3>3, <4>3
        <5>2. wire'[Len(wire) + (j - Len(wire))] = <<tx, done + (j - Len(wire))>>
              /\ wire'[Len(wire) + (i - Len(wire))] = <<tx, done + (i - Len(wire))>>
          BY <2>1, <5>1
        <5>3. Len(wire) + (j - Len(wire)) = j /\ Len(wire) + (i - Len(wire)) = i
          BY <1>0
        <5>4. done + (i - Len(wire)) < done + (j - Len(wire))
          BY <1>0, <3>1, <3>3
        <5> QED
          BY <5>2, <5>3, <5>4 DEF Earlier
      <4> QED
        BY <1>0, <4>1, <4>2, <4>3
    <3>4. ASSUME NEW i \in 1 .. Len(wire')
          PROVE  wire'[i][1] \in 1 .. tx' /\ (wire'[i][1] = tx' => wire'[i][2] <= done')
      <4>1. CASE i <= Len(wire)
        <5>1. i \in 1 .. Len(wire) /\ wire'[i] = wire[i] /\ wire[i] \in Nat \X {1, 2}
          BY <1>0, <2>1, <4>1
        <5>2. wire[i][1] \in 1 .. tx /\ (wire[i][1] = tx => wire[i][2] <= done)
          BY <3>1, <5>1 DEF WireInv
        <5> QED
          BY <2>1, <3>1, <5>1, <5>2
      <4>2. CASE i > Len(wire)
        <5>1. i - Len(wire) \in 1 .. k /\ Len(wire) + (i - Len(wire)) = i
          BY <1>0, <2>1, <4>2
        <5>2. wire'[Len(wire) + (i - Len(wire))] = <<tx, done + (i - Len(wire))>>
          BY <2>1, <5>1
        <5>3. wire'[i][1] = tx /\ wire'[i][2] = done + (i - Len(wire))
          BY <5>1, <5>2
        <5>4. done + (i - Len(wire)) <= done + k
          BY <2>1, <3>1, <5>1
        <5> QED
          BY <1>0, <3>1, <5>3, <5>4
      <4> QED
        BY <1>0, <4>1, <4>2
    <3> QED
      BY <2>2, <3>1, <3>3, <3>4 DEF WireInv, Earlier
  <2> QED
    BY <2>1, <2>3, <2>4
<1>4. CASE Open \/ Opened \/ NotOpened
  BY <1>1, <1>4 DEF Open, Opened, NotOpened, client, far
<1>5. CASE Close
  <2>1. phase' = "closed" /\ UNCHANGED kinds /\ wire' = SubSeq(wire, 1, Len(wire) - queued)
    BY <1>5 DEF Close
  <2>2. Len(wire') \in Nat /\ Len(wire') <= Len(wire) /\ \A i \in 1 .. Len(wire') : wire'[i] = wire[i]
    BY <1>0, <2>1, SubSeqProperties
  <2> QED
    BY <1>0, <2>1, <2>2, WireKept DEF tx
<1>6. ASSUME NEW kind \in Kinds, BeginTransaction(kind) PROVE WireInv'
  <2>1. phase' = "flushing" /\ tx' = tx + 1 /\ UNCHANGED wire
    BY <1>6 DEF BeginTransaction, far, tx, ShapeInv, LinkShape
  <2> QED
    BY <1>0, <2>1, WireKept
<1>7. CASE ClientStep
  BY <1>1, <1>7, ReplyReadEffect DEF ClientStep, Flushed, Sent, RequestOut, CrcRead, Fails, Back, Then,
     Finish, far, Replying
<1> QED
  BY <1>2, <1>3, <1>4, <1>5, <1>6, <1>7 DEF LinkNext

(* Only the line moves the gripper's answers.                              *)
LEMMA StreamChanges ==
  [LinkNext]_linkVars =>
    \/ RequestLeaves \/ ReplyArrives \/ (ReplyByteLost /\ UNCHANGED stream) \/ FarEndGoes
    \/ UNCHANGED <<stream, answering>>
BY DEF LinkNext, LinePart, ReplyByteLost, PortRuns, Clock, Open, Opened, NotOpened, Close, BeginTransaction,
   ClientStep, Flushed, Sent, RequestOut, ReplyRead, AddressRead, FunctionRead, Refused, CodeRead, CountRead,
   DataRead, CrcRead, Fails, Then, Finish, linkVars, far

(* Reply bytes answer requests that were heard, in their order.            *)
Heard(b) == b[1] # 0 => \E i \in 1 .. Len(wire) - queued : wire[i] = <<b[1], 2>>
InOrder(a, b) == a[1] # 0 /\ b[1] # 0 => Earlier(a, b)

ReplyInv ==
  /\ \A i \in 1 .. Len(stream) : Heard(stream[i])
  /\ \A i \in 1 .. Len(answering) : Heard(answering[i])
  /\ \A i, j \in 1 .. Len(stream) : i < j => InOrder(stream[i], stream[j])
  /\ \A i, j \in 1 .. Len(answering) : i < j => InOrder(answering[i], answering[j])
  /\ \A i \in 1 .. Len(stream), j \in 1 .. Len(answering) : InOrder(stream[i], answering[j])

(* What has left the port stays on the wire.                               *)
LEMMA WireOutStays ==
  ASSUME PortInv, ShapeInv, [LinkNext]_linkVars
  PROVE  /\ Len(wire) - queued <= Len(wire') - queued'
         /\ \A i \in 1 .. Len(wire) - queued : wire'[i] = wire[i]
<1>0. wire \in Seq(Nat \X {1, 2}) /\ Len(wire) \in Nat /\ queued \in 0 .. Len(wire)
  BY DEF PortInv, PortTypeOK, ShapeInv, LinkShape, ClientInv
<1>1. CASE UNCHANGED <<wire, queued>>
  BY <1>0, <1>1
<1>2. CASE RequestLeaves
  BY <1>0, <1>2 DEF RequestLeaves, Transmit
<1>3. CASE PortRuns
  <2> DEFINE k == queued' - queued
  <2>1. k \in Nat /\ Len(wire') = Len(wire) + k /\ \A i \in 1 .. Len(wire) : wire'[i] = wire[i]
    BY <1>3, WireGrows
  <2>2. queued' \in Nat
    BY <1>3, PortActsKeepPort DEF PortRuns, PortActs, PortInv, PortTypeOK
  <2>3. Len(wire) - queued = Len(wire') - queued'
    BY <1>0, <2>1, <2>2
  <2> QED
    BY <1>0, <2>1, <2>3
<1>4. CASE Close
  <2>1. queued' = 0 /\ wire' = SubSeq(wire, 1, Len(wire) - queued)
    BY <1>4 DEF Close, CloseHandle
  <2>2. Len(wire') = Len(wire) - queued /\ \A i \in 1 .. Len(wire') : wire'[i] = wire[i]
    BY <1>0, <2>1, SubSeqProperties
  <2> QED
    BY <1>0, <2>1, <2>2
<1>5. CASE ReplyArrives \/ ReplyByteLost \/ FarEndGoes \/ Clock \/ UNCHANGED linkVars
  BY <1>1, <1>5 DEF ReplyArrives, ByteArrives, ReplyByteLost, FarEndGoes, HangUp, Clock, TimePasses, linkVars,
     portVars, line, far
<1>6. CASE Open \/ Opened \/ NotOpened
  BY <1>1, <1>6 DEF Open, OpenHandle, Opened, Configured, PosixConfigured, WinConfigured, NotOpened,
     NotConfigured, line, far
<1>7. CASE (\E kind \in Kinds : BeginTransaction(kind)) \/ Flushed \/ Sent \/ RequestOut \/ ReplyRead
  BY <1>1, <1>7, BeginCallEffect, ReplyReadEffect, LinkAssumption
     DEF BeginTransaction, Flushed, Sent, RequestOut, Then, far
<1>8. CASE CrcRead \/ Fails
  BY <1>1, <1>8 DEF CrcRead, Fails, Finish, portVars, line, far
<1> QED
  BY <1>2, <1>3, <1>4, <1>5, <1>6, <1>7, <1>8 DEF LinkNext, LinePart, ClientStep

LEMMA HeardStays ==
  ASSUME PortInv, ShapeInv, [LinkNext]_linkVars, NEW b, Heard(b)
  PROVE  b[1] # 0 => \E i \in 1 .. Len(wire') - queued' : wire'[i] = <<b[1], 2>>
<1>1. Len(wire) \in Nat /\ queued \in Nat /\ Len(wire') \in Nat /\ queued' \in Nat
  BY ShapeStep, LinkStepIsPortStep, PortActsKeepPort DEF PortInv, PortTypeOK, ShapeInv, LinkShape
<1> QED
  BY <1>1, WireOutStays DEF Heard

LEMMA ReplyStep ==
  ASSUME PortInv, ShapeInv, WireInv, ReplyInv, [LinkNext]_linkVars
  PROVE  ReplyInv'
<1>0. /\ stream \in Seq(ReplyBytes) /\ answering \in Seq(ReplyBytes)
      /\ wire \in Seq(Nat \X {1, 2}) /\ queued \in 0 .. Len(wire)
      /\ Len(stream) \in Nat /\ Len(answering) \in Nat /\ Len(wire) \in Nat
  BY DEF PortInv, PortTypeOK, ShapeInv, LinkShape, ClientInv
<1> DEFINE HeardNow(b) == b[1] # 0 => \E i \in 1 .. Len(wire') - queued' : wire'[i] = <<b[1], 2>>
<1>1. ASSUME \A i \in 1 .. Len(stream') : HeardNow(stream'[i]),
             \A i \in 1 .. Len(answering') : HeardNow(answering'[i]),
             \A i, j \in 1 .. Len(stream') : i < j => InOrder(stream'[i], stream'[j]),
             \A i, j \in 1 .. Len(answering') : i < j => InOrder(answering'[i], answering'[j]),
             \A i \in 1 .. Len(stream'), j \in 1 .. Len(answering') : InOrder(stream'[i], answering'[j])
      PROVE  ReplyInv'
  BY <1>1 DEF ReplyInv, Heard, InOrder, Earlier
<1>2. /\ \A i \in 1 .. Len(stream) : HeardNow(stream[i])
      /\ \A i \in 1 .. Len(answering) : HeardNow(answering[i])
  BY HeardStays DEF ReplyInv
<1> HIDE DEF HeardNow
<1>3. CASE UNCHANGED <<stream, answering>>
  BY <1>1, <1>2, <1>3 DEF ReplyInv
<1>4. CASE RequestLeaves
  <2>1. CASE answering' # answering
    <3>1. PICK i : /\ i = Len(wire) - queued' /\ queued > 0 /\ queued' = queued - 1
                   /\ wire[i][2] = 2
                   /\ \E F \in {Reply(wire[i][1]), Refusal(wire[i][1])} : answering' = answering \o F
                   /\ UNCHANGED <<wire, stream>>
      BY <1>4, <2>1 DEF RequestLeaves, Transmit
    <3> DEFINE n == wire[i][1]
    <3>2. i \in 1 .. Len(wire) /\ wire[i] \in Nat \X {1, 2}
      BY <1>0, <3>1
    <3>3. n \in Nat /\ wire[i] = <<n, 2>>
      BY <3>1, <3>2
    <3>4. ASSUME NEW b \in ReplyBytes, Heard(b), b[1] # 0 PROVE b[1] < n
      <4>1. PICK k \in 1 .. Len(wire) - queued : wire[k] = <<b[1], 2>>
        BY <3>4 DEF Heard
      <4>2. k \in 1 .. Len(wire) /\ k < i
        <5>1. Len(wire) \in Nat /\ queued \in Nat /\ queued' = queued - 1 /\ i = Len(wire) - queued'
          BY <1>0, <3>1
        <5>2. k \in Nat /\ 1 <= k /\ k <= Len(wire) - queued
          BY <5>1
        <5> QED
          BY <5>1, <5>2
      <4>3. Earlier(wire[k], wire[i])
        BY <3>2, <4>2 DEF WireInv
      <4> QED
        BY <3>3, <4>1, <4>3 DEF Earlier
    <3>5. PICK F \in {Reply(n), Refusal(n)} :
            /\ answering' = answering \o F
            /\ F \in Seq(ReplyBytes) /\ Len(F) \in {4, 5}
            /\ \A p \in 1 .. Len(F) : F[p][1] = n
            /\ \A p, q \in 1 .. Len(F) : p < q => F[p][2] < F[q][2]
      <4>1. PICK F \in {Reply(n), Refusal(n)} : answering' = answering \o F
        BY <3>1
      <4> HIDE DEF n
      <4>2. /\ F \in Seq(ReplyBytes) /\ Len(F) \in {4, 5}
            /\ \A p \in 1 .. Len(F) : F[p][1] = n
            /\ \A p, q \in 1 .. Len(F) : p < q => F[p][2] < F[q][2]
        BY <3>3, FrameShape
      <4> QED
        BY <4>1, <4>2
    <3> HIDE DEF n
    <3>6. /\ Len(answering') = Len(answering) + Len(F) /\ Len(F) \in Nat
          /\ \A j \in 1 .. Len(answering) : answering'[j] = answering[j]
          /\ \A j \in 1 .. Len(answering') \ 1 .. Len(answering) :
               j - Len(answering) \in 1 .. Len(F) /\ answering'[j] = F[j - Len(answering)]
      <4>1. Len(F) \in Nat
        BY <3>5
      <4>2. /\ Len(answering') = Len(answering) + Len(F)
            /\ \A j \in 1 .. Len(answering) + Len(F) :
                 answering'[j] = IF j <= Len(answering) THEN answering[j] ELSE F[j - Len(answering)]
        BY <1>0, <3>5, ConcatProperties
      <4>3. ASSUME NEW j \in 1 .. Len(answering') \ 1 .. Len(answering)
            PROVE  j - Len(answering) \in 1 .. Len(F) /\ answering'[j] = F[j - Len(answering)]
        <5>1. j - Len(answering) \in 1 .. Len(F) /\ ~(j <= Len(answering)) /\ j \in 1 .. Len(answering) + Len(F)
          <6>1. \A l, m \in Nat : \A x \in 1 .. l + m : x \notin 1 .. l => x - l \in 1 .. m /\ ~(x <= l)
            OBVIOUS
          <6> QED
            BY <1>0, <4>1, <4>2, <6>1
        <5> QED
          BY <4>2, <5>1
      <4>4. ASSUME NEW j \in 1 .. Len(answering) PROVE answering'[j] = answering[j]
        <5>1. j \in 1 .. Len(answering) + Len(F) /\ j <= Len(answering)
          BY <1>0, <4>1
        <5> QED
          BY <4>2, <5>1
      <4> QED
        BY <4>1, <4>2, <4>3, <4>4
    <3>7. \A j \in 1 .. Len(answering') : HeardNow(answering'[j])
      <4>1. ASSUME NEW j \in 1 .. Len(answering') \ 1 .. Len(answering) PROVE HeardNow(answering'[j])
        <5>1. answering'[j][1] = n /\ i \in 1 .. Len(wire') - queued' /\ wire'[i] = <<n, 2>>
          <6>1. answering'[j][1] = n
            BY <3>5, <3>6
          <6>2. i \in 1 .. Len(wire') - queued'
            BY <1>0, <3>1, <3>2
          <6> QED
            BY <3>1, <3>3, <6>1, <6>2
        <5> QED
          BY <5>1 DEF HeardNow
      <4> QED
        BY <1>2, <3>6, <4>1
    <3>8. ASSUME NEW b \in ReplyBytes, Heard(b),
                 NEW j \in 1 .. Len(answering') \ 1 .. Len(answering)
          PROVE  InOrder(b, answering'[j])
      <4>1. answering'[j][1] = n
        BY <3>5, <3>6
      <4> QED
        BY <3>4, <3>8, <4>1 DEF InOrder, Earlier
    <3>9. \A j \in 1 .. Len(stream), k \in 1 .. Len(answering') : InOrder(stream[j], answering'[k])
      BY <1>0, <3>6, <3>8 DEF ReplyInv
    <3>10. ASSUME NEW j \in 1 .. Len(answering'), NEW k \in 1 .. Len(answering'), j < k
           PROVE  InOrder(answering'[j], answering'[k])
      <4>1. CASE k <= Len(answering)
        <5>1. j \in 1 .. Len(answering) /\ k \in 1 .. Len(answering)
          BY <1>0, <3>10, <4>1
        <5>2. InOrder(answering[j], answering[k])
          BY <3>10, <5>1 DEF ReplyInv
        <5>3. answering'[j] = answering[j] /\ answering'[k] = answering[k]
          BY <3>6, <5>1
        <5> QED
          BY <5>2, <5>3 DEF InOrder, Earlier
      <4>2. CASE j <= Len(answering) /\ k > Len(answering)
        <5>1. j \in 1 .. Len(answering) /\ answering[j] \in ReplyBytes /\ answering'[j] = answering[j]
          BY <1>0, <3>6, <4>2
        <5> QED
          BY <1>0, <3>8, <4>2, <5>1 DEF ReplyInv
      <4>3. CASE j > Len(answering)
        <5> DEFINE a == j - Len(answering)
                   c == k - Len(answering)
        <5>1. /\ answering'[j] = F[a] /\ answering'[k] = F[c]
              /\ a \in 1 .. Len(F) /\ c \in 1 .. Len(F) /\ a < c
          BY <1>0, <3>6, <3>10, <4>3
        <5> HIDE DEF a, c
        <5>2. F[a][1] = n /\ F[c][1] = n /\ F[a][2] < F[c][2]
          BY <3>5, <5>1
        <5> QED
          BY <5>1, <5>2 DEF InOrder, Earlier
      <4> QED
        BY <1>0, <4>1, <4>2, <4>3
    <3> QED
      BY <1>1, <1>2, <3>1, <3>7, <3>9, <3>10 DEF ReplyInv
  <2> QED
    BY <1>3, <1>4, <2>1 DEF RequestLeaves
<1>5. CASE answering # <<>> /\ answering' = Tail(answering)
  <2> DEFINE b == Head(answering)
  <2>1. /\ b = answering[1] /\ 1 \in 1 .. Len(answering) /\ Len(answering') = Len(answering) - 1
        /\ \A j \in 1 .. Len(answering') : j + 1 \in 1 .. Len(answering) /\ answering'[j] = answering[j + 1]
    BY <1>0, <1>5, HeadTailProperties
  <2>2. /\ \A j \in 1 .. Len(answering') : HeardNow(answering'[j])
        /\ \A j, k \in 1 .. Len(answering') : j < k => InOrder(answering'[j], answering'[k])
        /\ \A j \in 1 .. Len(stream), k \in 1 .. Len(answering') : InOrder(stream[j], answering'[k])
    <3>1. ASSUME NEW j \in 1 .. Len(answering'), NEW k \in 1 .. Len(answering'), j < k
          PROVE  InOrder(answering'[j], answering'[k])
      <4>1. j + 1 < k + 1 /\ j + 1 \in 1 .. Len(answering) /\ k + 1 \in 1 .. Len(answering)
        BY <2>1, <3>1
      <4>2. InOrder(answering[j + 1], answering[k + 1])
        BY <4>1 DEF ReplyInv
      <4> QED
        BY <2>1, <4>2
    <3>2. \A j \in 1 .. Len(answering') : HeardNow(answering'[j])
      BY <1>2, <2>1
    <3>3. \A j \in 1 .. Len(stream), k \in 1 .. Len(answering') : InOrder(stream[j], answering'[k])
      BY <2>1 DEF ReplyInv
    <3> QED
      BY <3>1, <3>2, <3>3
  <2>3. ASSUME NEW j \in 1 .. Len(answering') PROVE InOrder(b, answering'[j])
    <3>1. 1 < j + 1 /\ j + 1 \in 1 .. Len(answering)
      BY <2>1
    <3>2. InOrder(answering[1], answering[j + 1])
      BY <2>1, <3>1 DEF ReplyInv
    <3> QED
      BY <2>1, <3>2
  <2>4. CASE UNCHANGED stream
    BY <1>1, <1>2, <2>2, <2>4 DEF ReplyInv
  <2>5. ASSUME NEW c, stream' = Append(stream, c), c = b \/ c[1] = 0 PROVE ReplyInv'
    <3>1. /\ Len(stream') = Len(stream) + 1 /\ stream'[Len(stream) + 1] = c
          /\ \A j \in 1 .. Len(stream) : stream'[j] = stream[j]
      BY <1>0, <2>5, AppendProperties
    <3>2. HeardNow(c) /\ (\A j \in 1 .. Len(stream) : InOrder(stream[j], c))
          /\ (\A j \in 1 .. Len(answering') : InOrder(c, answering'[j]))
      <4>1. CASE c = b
        BY <1>2, <2>1, <2>3, <4>1 DEF ReplyInv
      <4>2. CASE c[1] = 0
        BY <4>2 DEF HeardNow, InOrder
      <4> QED
        BY <2>5, <4>1, <4>2
    <3>3. \A j \in 1 .. Len(stream') : j \in 1 .. Len(stream) \/ j = Len(stream) + 1
      BY <1>0, <3>1
    <3>4. \A j \in 1 .. Len(stream') : HeardNow(stream'[j])
      BY <1>2, <3>1, <3>2, <3>3
    <3>5. \A j \in 1 .. Len(stream'), k \in 1 .. Len(answering') : InOrder(stream'[j], answering'[k])
      BY <2>2, <3>1, <3>2, <3>3
    <3>6. ASSUME NEW j \in 1 .. Len(stream'), NEW k \in 1 .. Len(stream'), j < k
          PROVE  InOrder(stream'[j], stream'[k])
      <4>1. CASE k \in 1 .. Len(stream)
        <5>1. j \in 1 .. Len(stream)
          BY <1>0, <3>6, <4>1
        <5>2. InOrder(stream[j], stream[k])
          BY <3>6, <4>1, <5>1 DEF ReplyInv
        <5> QED
          BY <3>1, <4>1, <5>1, <5>2
      <4>2. CASE k = Len(stream) + 1
        <5>1. j \in 1 .. Len(stream)
          BY <1>0, <3>1, <3>6, <4>2
        <5> QED
          BY <3>1, <3>2, <4>2, <5>1
      <4> QED
        BY <3>3, <4>1, <4>2
    <3> QED
      BY <1>1, <2>2, <3>4, <3>5, <3>6
  <2>6. UNCHANGED stream \/ \E c : stream' = Append(stream, c) /\ (c = b \/ c[1] = 0)
    <3>1. CASE ReplyArrives
      BY <3>1 DEF ReplyArrives
    <3>2. CASE UNCHANGED stream
      BY <3>2
    <3> QED
      BY <3>1, <3>2, StreamChanges DEF RequestLeaves, FarEndGoes
  <2> QED
    BY <2>4, <2>5, <2>6
<1>6. CASE FarEndGoes
  <2>1. answering' = <<>> /\ Len(answering') = 0 /\ UNCHANGED stream
    BY <1>6 DEF FarEndGoes
  <2> QED
    BY <1>1, <1>2, <2>1 DEF ReplyInv
<1> QED
  BY <1>3, <1>4, <1>5, <1>6, StreamChanges DEF RequestLeaves, ReplyArrives, ReplyByteLost

(* What of the stream is no part of the reply being read.                  *)
Limit == IF InFrame THEN Handed - ReadSoFar ELSE Handed

(* A reply once taken was complete before the next one was read.           *)
AnswerInv ==
  \A i \in 1 .. Len(answers) : answers[i] # 0 =>
    \E j \in 1 .. Len(stream) : stream[j] = <<answers[i], 6>> /\ j <= Limit

LEMMA HandedGrows ==
  ASSUME PortInv, ShapeInv, [LinkNext]_linkVars
  PROVE  Handed' \in Nat /\ Handed <= Handed'
<1>0. PortInv' /\ Handed' \in Nat /\ Handed \in Nat /\ taken \in Nat /\ arrived \in Nat /\ Handed <= taken
      /\ (op \notin {"reading", "polling"} => Handed = taken)
  <2>1. PortInv'
    BY LinkStepIsPortStep, PortActsKeepPort
  <2>2. Handed' \in Nat
    <3>1. taken' \in Nat /\ done' \in Nat /\ InHand' <= taken'
      BY <2>1 DEF PortInv, PortTypeOK, BuffersInBounds
    <3>2. InHand' \in Nat
      BY <3>1 DEF InHand
    <3>3. \A t, h \in Nat : h <= t => t - h \in Nat
      OBVIOUS
    <3>4. taken' - InHand' \in Nat
      BY <3>1, <3>2, <3>3
    <3> QED
      BY <3>4 DEF Handed
  <2> QED
    BY <2>1, <2>2, HandedRange DEF PortInv, PortTypeOK
<1>1. ASSUME UNCHANGED <<taken, op, done>> PROVE Handed <= Handed'
  BY <1>0, <1>1 DEF Handed, InHand
<1>2. CASE LinePart \/ Clock \/ UNCHANGED linkVars
  BY <1>0, <1>1, <1>2 DEF LinePart, RequestLeaves, Transmit, ReplyArrives, ByteArrives, ReplyByteLost,
     FarEndGoes, HangUp, Clock, TimePasses, linkVars, portVars, line, locals
<1>3. CASE PortRuns
  BY <1>0, <1>3, PortStepKinds DEF PortRuns, CallGoesOn, CallEnds
<1>4. ASSUME op = "none" \/ op = "opening", op' \in {"none", "opening"}, taken' \in Nat, taken <= taken'
      PROVE  Handed <= Handed'
  BY <1>0, <1>4 DEF Handed, InHand
<1>5. CASE Open \/ Opened \/ NotOpened \/ Close
  BY <1>0, <1>4, <1>5 DEF Open, OpenHandle, Opened, Configured, PosixConfigured, WinConfigured, Accepts,
     NotOpened, NotConfigured, Close, CloseHandle, line, PortInv, PortTypeOK, BuffersInBounds
<1>6. CASE (\E kind \in Kinds : BeginTransaction(kind)) \/ Flushed \/ Sent \/ RequestOut \/ ReplyRead
  <2>1. op = "none" /\ taken' = taken /\ done' = 0
    BY <1>6, BeginCallEffect, ReplyReadEffect, LinkAssumption DEF BeginTransaction, Flushed, Sent, RequestOut
  <2> QED
    BY <1>0, <2>1 DEF Handed, InHand
<1>7. CASE CrcRead \/ Fails
  BY <1>0, <1>1, <1>7 DEF CrcRead, Fails, Finish, portVars, line, locals
<1> QED
  BY <1>0, <1>2, <1>3, <1>5, <1>6, <1>7 DEF LinkNext, ClientStep

(* What the client has in hand once it has read a CRC that fits.           *)
LEMMA CrcReadEffect ==
  ASSUME PortInv, ShapeInv, HeadInv, CrcRead
  PROVE  \E n \in 1 .. tx :
           /\ Finish(n) /\ since <= taken - 5 /\ kinds[n] = kinds[tx] /\ Len(Reply(n)) = 5
           /\ taken - 4 \in 1 .. Len(stream) /\ taken \in 1 .. Len(stream)
           /\ stream[taken - 4] = <<n, 1>> /\ stream[taken] = <<n, 6>>
           /\ Handed = taken /\ Limit = taken - 5
<1>1. phase = "crc" /\ op = "none" /\ outcome = "done" /\ InFrame
  BY DEF CrcRead, Back, InFrame, Framing
<1>2. /\ taken \in Nat /\ taken <= Len(stream) /\ Handed = taken /\ since \in Nat
      /\ stream \in Seq(ReplyBytes) /\ tx \in Nat
  BY <1>1, HandedRange DEF PortInv, PortTypeOK, BuffersInBounds, ShapeInv, LinkShape, ClientInv, tx
<1>3. ReadSoFar = 5
  BY <1>1 DEF ReadSoFar, ReadBefore, SizeOf, Replying
<1>4. since + 5 <= taken /\ MayBeOurs(2, stream[taken - 5 + 2])
  BY <1>1, <1>2, <1>3 DEF HeadInv, PastFunction
<1>5. PICK n \in 1 .. tx : Intact(n) /\ Finish(n)
  BY DEF CrcRead
<1>6. taken - 4 \in 1 .. Len(stream) /\ taken \in 1 .. Len(stream) /\ taken - 5 + 2 = taken - 3
  BY <1>2, <1>4
<1> DEFINE sub == SubSeq(stream, taken - 4, taken)
<1>7. /\ Len(sub) = 5 /\ \A p \in 1 .. 5 : sub[p] = stream[taken - 4 + p - 1]
  BY <1>2, <1>6, SubSeqProperties
<1>8. sub = Reply(n)
  <2>1. Len(Parts(kinds[tx])) = 5
    BY DEF Parts
  <2>2. taken - Len(Parts(kinds[tx])) + 1 = taken - 4
    BY <1>2, <2>1
  <2> QED
    BY <1>5, <2>2 DEF Intact
<1>9. Len(Reply(n)) = 5 /\ Reply(n)[1] = <<n, 1>> /\ Reply(n)[2] = <<n, 2>> /\ Reply(n)[5] = <<n, 6>>
  <2>1. \A parts \in {<<1, 2, 4, 5, 6>>, <<1, 2, 3, 4, 6>>} :
          Len(Frame(n, parts)) = 5 /\ Frame(n, parts)[1] = <<n, 1>>
          /\ Frame(n, parts)[2] = <<n, 2>> /\ Frame(n, parts)[5] = <<n, 6>>
    BY DEF Frame
  <2> QED
    BY <2>1 DEF Reply, Parts
<1>10. stream[taken - 4] = <<n, 1>> /\ stream[taken - 3] = <<n, 2>> /\ stream[taken] = <<n, 6>>
  <2> HIDE DEF sub
  <2>1. taken - 4 + 1 - 1 = taken - 4 /\ taken - 4 + 2 - 1 = taken - 3 /\ taken - 4 + 5 - 1 = taken
    BY <1>2
  <2>2. 1 \in 1 .. 5 /\ 2 \in 1 .. 5 /\ 5 \in 1 .. 5
    OBVIOUS
  <2> QED
    BY <1>7, <1>8, <1>9, <2>1, <2>2
<1>11. kinds[n] = kinds[tx]
  BY <1>2, <1>4, <1>5, <1>6, <1>10 DEF MayBeOurs, Ours, Is
<1>12. since <= taken - 5 /\ Limit = taken - 5
  BY <1>1, <1>2, <1>3, <1>4 DEF Limit
<1> QED
  BY <1>2, <1>5, <1>6, <1>9, <1>10, <1>11, <1>12

(* What the client has done with stays behind what it reads.               *)
LEMMA LimitGrows ==
  ASSUME PortInv, ShapeInv, FlushInv, HeadInv, [LinkNext]_linkVars
  PROVE  Limit \in Nat /\ Limit' \in Nat /\ Limit <= Limit' /\ Limit <= Handed
<1>0. /\ Handed \in Nat /\ Handed' \in Nat /\ Handed <= Handed' /\ since \in Nat /\ since' \in Nat
      /\ HeadInv' /\ op \in OpsOf(phase) /\ ShapeInv'
  BY HandedRange, HandedGrows, HeadStep, ShapeStep DEF ShapeInv, LinkShape, ClientInv
<1>1. ASSUME InFrame PROVE ReadSoFar \in Nat /\ ReadSoFar <= Handed
  BY <1>0, <1>1 DEF HeadInv, InFrame, ReadSoFar, ReadBefore, SizeOf, Framing, Replying
<1>2. ASSUME InFrame' PROVE ReadSoFar' \in Nat /\ ReadSoFar' <= Handed'
  BY <1>0, <1>2 DEF HeadInv, InFrame, ReadSoFar, ReadBefore, SizeOf, Framing, Replying
<1>3. Limit \in Nat /\ Limit' \in Nat /\ Limit <= Handed
  BY <1>0, <1>1, <1>2 DEF Limit
<1> SUFFICES Limit <= Limit'
  BY <1>3
<1>4. ASSUME ~InFrame' PROVE Limit <= Limit'
  BY <1>0, <1>3, <1>4 DEF Limit
<1>5. ASSUME InFrame', InFrame, Handed' - ReadSoFar' = Handed - ReadSoFar PROVE Limit <= Limit'
  BY <1>3, <1>5 DEF Limit
<1>6. ASSUME UNCHANGED <<phase, kinds, op, outcome>> PROVE Limit <= Limit'
  <2>1. ReadSoFar' = ReadSoFar /\ InFrame' = InFrame
    BY <1>6 DEF ReadSoFar, ReadBefore, SizeOf, InFrame, tx
  <2> QED
    BY <1>0, <1>1, <2>1 DEF Limit
<1>7. CASE LinePart \/ Clock \/ UNCHANGED linkVars
  BY <1>6, <1>7 DEF LinePart, RequestLeaves, Transmit, ReplyArrives, ByteArrives, ReplyByteLost, FarEndGoes,
     HangUp, Clock, TimePasses, linkVars, portVars, line, port, locals, reply, client, far
<1>8. CASE PortRuns /\ InFrame'
  <2>1. UNCHANGED <<phase, kinds>> /\ (CallGoesOn \/ CallEnds)
    BY <1>8, PortStepKinds DEF PortRuns, client
  <2>2. /\ ReadBefore(phase)' = ReadBefore(phase) /\ SizeOf(phase)' = SizeOf(phase)
        /\ phase \in Framing /\ ReadBefore(phase) \in Nat /\ SizeOf(phase) \in Nat
    BY <1>8, <2>1 DEF ReadBefore, SizeOf, InFrame, Framing, Replying, tx
  <2>3. op \in Reads /\ size = SizeOf(phase) /\ InFrame
    <3>1. op \in {"none"} \cup Reads
      BY <1>0, <2>2 DEF OpsOf, Framing
    <3>2. op # "none"
      BY <2>1 DEF CallGoesOn, CallEnds
    <3> QED
      BY <2>2, <3>1, <3>2 DEF ShapeInv, ClientInv, InFrame
  <2>4. CASE CallGoesOn
    <3>1. Handed' = Handed /\ ReadSoFar' = ReadSoFar
      BY <2>1, <2>2, <2>4 DEF CallGoesOn, ReadSoFar
    <3> QED
      BY <1>5, <1>8, <2>3, <3>1
  <2>5. CASE CallEnds
    <3>1. op' = "none" /\ outcome' = "done"
      BY <1>8, <2>5 DEF CallEnds, InFrame
    <3>2. Handed' = Handed + size /\ ReadSoFar' = ReadSoFar + size
      BY <2>2, <2>3, <2>5, <3>1 DEF CallEnds, ReadSoFar, Reads
    <3> QED
      BY <1>0, <1>1, <1>5, <1>8, <2>2, <2>3, <3>2
  <2> QED
    BY <2>1, <2>4, <2>5
<1>9. CASE Open \/ Opened \/ NotOpened \/ Close
  <2>1. phase' \in {"closed", "idle"}
    BY <1>9 DEF Open, Opened, NotOpened, Close, client
  <2> QED
    BY <1>4, <2>1 DEF InFrame, Framing
<1>10. CASE (\E kind \in Kinds : BeginTransaction(kind)) \/ Flushed \/ Sent \/ CrcRead \/ Fails
  <2>1. phase' \in {"flushing", "sending", "draining", "idle"}
    BY <1>10 DEF BeginTransaction, Flushed, Sent, CrcRead, Fails, Then, Finish
  <2> QED
    BY <1>4, <2>1 DEF InFrame, Framing
<1>11. CASE RequestOut
  <2>1. ReadSoFar' = 0
    <3>1. phase' = "address" /\ op' # "none"
      BY <1>11, BeginCallEffect DEF RequestOut, Then
    <3> QED
      BY <3>1 DEF ReadSoFar, ReadBefore
  <2> QED
    BY <1>0, <1>3, <2>1 DEF Limit
<1>12. CASE ReplyRead /\ InFrame'
  <2>1. /\ op = "none" /\ outcome = "done" /\ op' # "none" /\ done' = 0
        /\ UNCHANGED <<taken, kinds>>
        /\ phase \in Framing /\ ReadBefore(phase') = ReadBefore(phase) + SizeOf(phase)
    BY <1>12, ReplyReadEffect DEF InFrame
  <2>2. InFrame /\ ReadSoFar = ReadBefore(phase')
    BY <2>1 DEF InFrame, ReadSoFar
  <2>3. ReadSoFar' = ReadSoFar
    <3>1. ReadSoFar' = ReadBefore(phase)' + 0
      BY <2>1 DEF ReadSoFar
    <3>2. ReadBefore(phase)' = ReadBefore(phase')
      BY <2>1 DEF ReadBefore, tx
    <3> QED
      BY <1>1, <2>2, <3>1, <3>2
  <2>4. Handed' = Handed
    <3>1. Handed = taken /\ taken \in Nat
      BY <2>1, HandedRange DEF PortInv, PortTypeOK
    <3> QED
      BY <2>1, <3>1 DEF Handed, InHand
  <2> QED
    BY <1>5, <1>12, <2>2, <2>3, <2>4
<1> QED
  BY <1>3, <1>4, <1>7, <1>8, <1>9, <1>10, <1>11, <1>12 DEF LinkNext, ClientStep

LEMMA AnswerStep ==
  ASSUME PortInv, ShapeInv, FlushInv, HeadInv, AnswerInv, [LinkNext]_linkVars
  PROVE  AnswerInv'
<1>0. /\ StreamKept /\ Len(stream) \in Nat /\ Len(stream') \in Nat /\ answers \in Seq(Nat)
      /\ Limit \in Nat /\ Limit' \in Nat /\ Limit <= Limit'
  BY StreamGrows, ShapeStep, LimitGrows DEF ShapeInv, LinkShape
<1> DEFINE Past(m) == m # 0 => \E j \in 1 .. Len(stream') : stream'[j] = <<m, 6>> /\ j <= Limit'
<1>1. ASSUME NEW i \in 1 .. Len(answers) PROVE Past(answers[i])
  <2>1. CASE answers[i] # 0
    <3>1. PICK j \in 1 .. Len(stream) : stream[j] = <<answers[i], 6>> /\ j <= Limit
      BY <2>1 DEF AnswerInv
    <3>2. j \in 1 .. Len(stream') /\ stream'[j] = <<answers[i], 6>> /\ j <= Limit'
      BY <1>0, <3>1 DEF StreamKept
    <3> QED
      BY <3>2
  <2> QED
    BY <2>1
<1>2. CASE UNCHANGED answers
  BY <1>1, <1>2 DEF AnswerInv
<1>3. ASSUME NEW n, Finish(n), Past(n) PROVE AnswerInv'
  <2>1. Len(answers') = Len(answers) + 1 /\ answers'[Len(answers) + 1] = n
        /\ \A i \in 1 .. Len(answers) : answers'[i] = answers[i]
    BY <1>0, <1>3 DEF Finish
  <2>2. ASSUME NEW i \in 1 .. Len(answers') PROVE Past(answers'[i])
    <3>1. CASE i = Len(answers) + 1
      BY <1>3, <2>1, <3>1
    <3>2. CASE i # Len(answers) + 1
      <4>1. i \in 1 .. Len(answers)
        BY <1>0, <2>1, <3>2
      <4>2. answers'[i] = answers[i]
        BY <2>1, <4>1
      <4> QED
        BY <1>1, <4>1, <4>2
    <3> QED
      BY <3>1, <3>2
  <2> QED
    BY <2>2 DEF AnswerInv
<1>4. CASE CrcRead
  <2>1. PICK n \in 1 .. tx : /\ Finish(n) /\ taken \in 1 .. Len(stream) /\ stream[taken] = <<n, 6>>
                             /\ Handed = taken
    BY <1>4, CrcReadEffect
  <2>2. taken \in 1 .. Len(stream') /\ stream'[taken] = <<n, 6>>
    BY <1>0, <2>1 DEF StreamKept
  <2>3. taken <= Limit'
    <3>1. Handed' = taken
      BY <2>1 DEF Finish, portVars, line, locals, Handed, InHand
    <3>2. ~InFrame'
      BY <2>1 DEF Finish, InFrame, Framing
    <3>3. taken \in Nat
      BY DEF PortInv, PortTypeOK
    <3> QED
      BY <3>1, <3>2, <3>3 DEF Limit
  <2> QED
    BY <1>3, <2>1, <2>2, <2>3
<1>5. CASE Fails
  BY <1>3, <1>5 DEF Fails
<1>6. CASE LinePart \/ PortRuns \/ Clock \/ Open \/ Opened \/ NotOpened \/ Close \/ UNCHANGED linkVars
  BY <1>2, <1>6 DEF LinePart, RequestLeaves, ReplyArrives, ReplyByteLost, FarEndGoes, PortRuns, Clock, Open,
     Opened, NotOpened, Close, linkVars, client
<1>7. CASE (\E kind \in Kinds : BeginTransaction(kind)) \/ Flushed \/ Sent \/ RequestOut \/ ReplyRead
  BY <1>2, <1>7, ReplyReadEffect DEF BeginTransaction, Flushed, Sent, RequestOut, Then
<1> QED
  BY <1>4, <1>5, <1>6, <1>7 DEF LinkNext, ClientStep

-----------------------------------------------------------------------------
(* The theorems about the link.                                            *)

LinkSafety == LinkInit /\ [][LinkNext]_linkVars

LinkInv ==
  PortInv /\ ShapeInv /\ FlushInv /\ HeadInv /\ WireInv /\ ReplyInv /\ AnswerInv

LEMMA LinkInitially == LinkInit => LinkInv
<1> SUFFICES ASSUME LinkInit PROVE LinkInv
  OBVIOUS
<1>1. PortInit /\ PortInv
  BY PortInitially DEF LinkInit
<1>2. /\ phase = "closed" /\ kinds = <<>> /\ answers = <<>> /\ since = 0
      /\ wire = <<>> /\ answering = <<>> /\ stream = <<>>
      /\ Len(kinds) = 0 /\ Len(answers) = 0 /\ Len(wire) = 0 /\ Len(answering) = 0 /\ Len(stream) = 0
  BY DEF LinkInit
<1>3. LinkShape
  BY <1>2 DEF LinkShape, Phases
<1>4. ClientInv
  BY <1>1, <1>2 DEF ClientInv, OpsOf, InTransaction, tx, PortInit
<1>5. FlushInv /\ HeadInv
  BY <1>1, <1>2 DEF FlushInv, HeadInv, InFrame, Framing, PortInit
<1>6. WireInv /\ ReplyInv /\ AnswerInv
  BY <1>2 DEF WireInv, ReplyInv, AnswerInv
<1> QED
  BY <1>1, <1>3, <1>4, <1>5, <1>6 DEF LinkInv, ShapeInv

LEMMA LinkStep == LinkInv /\ [LinkNext]_linkVars => LinkInv'
BY LinkStepIsPortStep, PortActsKeepPort, ShapeStep, FlushStep, HeadStep, WireStep, ReplyStep, AnswerStep
   DEF LinkInv

LEMMA LinkInvariant == LinkSafety => []LinkInv
BY LinkInitially, LinkStep, PTL DEF LinkSafety

LEMMA LinkSpecIsSafe == LinkSpec => LinkSafety
BY PTL DEF LinkSpec, LinkSafety

(* Buffers, calls and phases keep to their types, and no call takes or     *)
(* puts more bytes than it was given room for.                             *)
THEOREM LinkTypeCorrect == LinkSpec => []LinkTypeOK
<1>1. LinkInv => LinkTypeOK
  <2> SUFFICES ASSUME LinkInv PROVE LinkTypeOK
    OBVIOUS
  <2>1. PortTypeOK /\ BuffersInBounds /\ CallInv /\ LinkShape /\ ClientInv
    BY DEF LinkInv, PortInv, ShapeInv
  <2>2. size \in 0 .. Buffer
    BY <2>1, LinkAssumption DEF ClientInv, CallInv, SizeOf, PortTypeOK
  <2> QED
    BY <2>1, <2>2 DEF LinkTypeOK, PortTypeOK, BuffersInBounds, LinkShape, ClientInv, Phases, InTransaction
<1> QED
  BY <1>1, LinkInvariant, LinkSpecIsSafe, PTL

(* open() leaves the port configured or closed, whatever it ran into, and  *)
(* close() leaves nothing of it behind.                                    *)
THEOREM OpenLeavesNothingHalf == LinkSpec => []OpenIsAllOrNothing
<1>1. LinkInv => OpenIsAllOrNothing
  BY DEF LinkInv, PortInv, PortTypeOK, HandleInv, ShapeInv, ClientInv, OpenIsAllOrNothing
<1> QED
  BY <1>1, LinkInvariant, LinkSpecIsSafe, PTL

(* Whatever setTimeouts() skipped and whatever SetCommTimeouts() refused,  *)
(* no call on Windows runs under time-outs other than its own, through any *)
(* number of closes and opens.                                             *)
THEOREM CallsRunUnderTheirTimeouts == LinkSpec => []CallsKeepTheirTimeouts
<1>1. LinkInv => CallsKeepTheirTimeouts
  BY DEF LinkInv, PortInv, TimeoutsInv, CallsKeepTheirTimeouts
<1> QED
  BY <1>1, LinkInvariant, LinkSpecIsSafe, PTL

(* However late replies come, whatever is lost or damaged on the way, the  *)
(* answer to a transaction arrived after its flush, has its function code, *)
(* and is of a later request than any answer before it.                    *)
THEOREM AnswersAreFresh == LinkSpec => AnswerIsOwnOrLate
<1> DEFINE Fresh ==
      LET n == answers'[tx] IN
        /\ taken - Len(Reply(n)) >= since
        /\ n <= tx /\ kinds[n] = kinds[tx]
        /\ \A i \in DOMAIN answers : answers[i] < n
<1>1. LinkInv /\ CrcRead => Fresh
  <2> SUFFICES ASSUME LinkInv, CrcRead PROVE Fresh
    OBVIOUS
  <2> USE DEF LinkInv
  <2>1. PICK n \in 1 .. tx :
           /\ Finish(n) /\ since <= taken - 5 /\ kinds[n] = kinds[tx] /\ Len(Reply(n)) = 5
           /\ taken - 4 \in 1 .. Len(stream) /\ taken \in 1 .. Len(stream)
           /\ stream[taken - 4] = <<n, 1>> /\ stream[taken] = <<n, 6>> /\ Limit = taken - 5
    BY CrcReadEffect
  <2>2. /\ answers \in Seq(Nat) /\ Len(answers) = tx - 1 /\ tx \in Nat /\ tx > 0
        /\ taken \in Nat /\ since \in Nat /\ Len(stream) \in Nat
    BY DEF CrcRead, Back, ShapeInv, LinkShape, ClientInv, InTransaction, PortInv, PortTypeOK, tx
  <2>3. answers'[tx] = n
    BY <2>1, <2>2 DEF Finish
  <2>4. ASSUME NEW i \in DOMAIN answers PROVE answers[i] < n
    <3>1. i \in 1 .. Len(answers) /\ answers[i] \in Nat
      BY <2>2
    <3>2. CASE answers[i] # 0
      <4>1. PICK j \in 1 .. Len(stream) : stream[j] = <<answers[i], 6>> /\ j <= taken - 5
        BY <2>1, <3>1, <3>2 DEF AnswerInv
      <4>2. j < taken - 4
        BY <2>1, <2>2, <4>1
      <4>3. InOrder(stream[j], stream[taken - 4])
        BY <2>1, <4>2 DEF ReplyInv
      <4>4. answers[i] < n \/ (answers[i] = n /\ 6 < 1)
        BY <2>1, <3>2, <4>1, <4>3 DEF InOrder, Earlier
      <4> QED
        BY <4>4
    <3> QED
      BY <2>1, <3>1, <3>2
  <2> QED
    <3>1. taken - Len(Reply(n)) >= since /\ n <= tx
      BY <2>1, <2>2
    <3> QED
      BY <2>1, <2>3, <2>4, <3>1
<1>2. LinkInv /\ [LinkNext]_linkVars => [CrcRead => Fresh]_linkVars
  BY <1>1
<1> QED
  BY <1>2, LinkInvariant, LinkSpecIsSafe, PTL DEF LinkSafety, AnswerIsOwnOrLate

(* The port under the client is a Serial, whatever line and client do.     *)
THEOREM LinkKeepsLooseContract == LinkSpec => KeepsLooseContract
<1>1. LinkInit => Loose!Init
  BY PortInitRefines DEF LinkInit
<1>2. LinkInv /\ [LinkNext]_linkVars => [Loose!Next]_(Loose!vars)
  BY LinkStepIsPortStep, PortActsRefine DEF LinkInv
<1> QED
  BY <1>1, <1>2, LinkInvariant, LinkSpecIsSafe, PTL DEF LinkSafety, KeepsLooseContract, Loose!Spec
=============================================================================
