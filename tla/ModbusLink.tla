----------------------------- MODULE ModbusLink -----------------------------
(***************************************************************************)
(* GripperModbusClient (modbus_client.cpp) over nanomodbus' client         *)
(* (third_party/nanomodbus/nanomodbus.c) over DefaultSerial over the       *)
(* serial port, and the gripper at the other end of the line, which is     *)
(* external.                                                               *)
(*                                                                         *)
(* A request is the bytes <<n, 1>>, <<n, 2>> of transaction n.  A byte of  *)
(* a reply is <<n, part>>: 1 address, 2 function code, 3 byte count, 4 and *)
(* 5 data, 6 CRC; in a reply that refuses the request 7 is the function    *)
(* code with its high bit, 8 the exception code and 9 the CRC.  A damaged  *)
(* byte is <<0, part>>.  Nothing on the wire says n to the client: RTU has *)
(* no transaction number.                                                  *)
(***************************************************************************)
EXTENDS SerialPort, Sequences

CONSTANTS
  MaxTx,      (* bound: transactions                                        *)
  MaxFaults,  (* bound: requests refused, reply bytes lost or damaged       *)
  Kinds,      (* the calls a caller makes                                   *)
  Buffer      (* bytes nanomodbus' frame buffer holds                       *)

ASSUME LinkAssumption ==
  /\ MaxTx \in Nat /\ MaxFaults \in Nat
  /\ Buffer \in Nat /\ Buffer >= 2  (* a request fits it *)
  /\ Kinds \subseteq {"exchange", "readStatus", "writeCommand"}

VARIABLES
  phase,      (* where the client is                                        *)
  kinds,      (* the call of each transaction so far                        *)
  answers,    (* for each one that has ended, whose reply it took, 0: none  *)
  since,      (* history: the last of the bytes that had arrived when the   *)
              (* last one began and that its flush reaches, 0 once they     *)
              (* have been dropped                                          *)
  wire,       (* the request bytes put into the transmit buffer so far      *)
  answering,  (* reply bytes the gripper still sends                        *)
  stream,     (* the bytes that arrived                                     *)
  faults

client   == <<phase, kinds, answers, since>>
far      == <<wire, answering, stream, faults>>
linkVars == <<portVars, client, far>>

tx == Len(kinds)

LinkInit ==
  /\ PortInit
  /\ phase = "closed" /\ kinds = <<>> /\ answers = <<>> /\ since = 0
  /\ wire = <<>> /\ answering = <<>> /\ stream = <<>> /\ faults = 0

-----------------------------------------------------------------------------
(* The line and the gripper.                                               *)

(* The parts of a reply; that to a write has no byte count, and data of a  *)
(* fixed length.                                                           *)
Parts(kind) == IF kind = "writeCommand" THEN <<1, 2, 4, 5, 6>> ELSE <<1, 2, 3, 4, 6>>

Frame(n, parts) == [i \in DOMAIN parts |-> <<n, parts[i]>>]

Reply(n) == Frame(n, Parts(kinds[n]))

Refusal(n) == Frame(n, <<1, 7, 8, 9>>)

(* The gripper hears a request once its last byte has come right after its *)
(* first.  It may refuse it or keep silent, and it may take its time.      *)
RequestLeaves ==
  /\ Transmit
  /\ LET i == Len(wire) - queued' IN
       \/ UNCHANGED <<answering, faults>>
       \/ /\ wire[i][2] = 2 /\ i > 1 /\ wire[i - 1] = <<wire[i][1], 1>>
          /\ \/ answering' = answering \o Reply(wire[i][1]) /\ UNCHANGED faults
             \/ /\ faults < MaxFaults /\ faults' = faults + 1
                /\ answering' = answering \o Refusal(wire[i][1])
  /\ UNCHANGED <<client, wire, stream>>

ReplyArrives ==
  /\ answering # <<>> /\ ByteArrives
  /\ answering' = Tail(answering)
  /\ \/ stream' = Append(stream, Head(answering)) /\ UNCHANGED faults
     \/ /\ faults < MaxFaults /\ faults' = faults + 1
        /\ stream' = Append(stream, <<0, Head(answering)[2]>>)
  /\ UNCHANGED <<client, wire>>

ReplyByteLost ==
  /\ answering # <<>> /\ faults < MaxFaults
  /\ answering' = Tail(answering) /\ faults' = faults + 1
  /\ UNCHANGED <<portVars, client, wire, stream>>

(* What the gripper still had to send never comes.                         *)
FarEndGoes ==
  /\ HangUp
  /\ answering' = <<>>
  /\ UNCHANGED <<client, wire, stream, faults>>

LinePart == RequestLeaves \/ ReplyArrives \/ ReplyByteLost \/ FarEndGoes

(* The port runs; the bytes it accepts join the wire.                      *)
PortRuns ==
  /\ PortStep
  /\ wire' = wire \o [i \in 1 .. queued' - queued |-> <<tx, done + i>>]
  /\ UNCHANGED <<client, answering, stream, faults>>

Clock == op # "none" /\ TimePasses /\ UNCHANGED <<client, far>>

-----------------------------------------------------------------------------
(* The client.  The constructor opens the port; a throw there leaves none. *)

Open ==
  /\ phase = "closed" /\ OpenHandle
  /\ UNCHANGED <<client, far>>

Opened ==
  /\ phase = "closed" /\ \E baudrate \in Baudrates : Configured(baudrate)
  /\ phase' = "idle"
  /\ UNCHANGED <<kinds, answers, since, far>>

NotOpened ==
  /\ phase = "closed" /\ \E baudrate \in Baudrates : NotConfigured(baudrate)
  /\ UNCHANGED <<client, far>>

(* Destruction closes the port: unsent bytes never leave it.               *)
Close ==
  /\ phase = "idle" /\ CloseHandle
  /\ phase' = "closed"
  /\ wire' = SubSeq(wire, 1, Len(wire) - queued)
  /\ UNCHANGED <<kinds, answers, since, answering, stream, faults>>

(* Mutant of BeginTransaction: the line is not emptied.                    *)
BeginUnflushed(kind) ==
  /\ phase = "idle" /\ tx < MaxTx
  /\ BeginCall("reading", 0, "now")
  /\ phase' = "flushing"
  /\ kinds' = Append(kinds, kind)
  /\ since' = arrived
  /\ UNCHANGED <<answers, far>>

(* A transaction first empties the line, whatever comes of it; bytes that  *)
(* do not fit the frame buffer stay.                                       *)
BeginTransaction(kind) ==
  /\ phase = "idle" /\ tx < MaxTx
  /\ BeginCall("reading", Buffer, "now")
  /\ phase' = "flushing"
  /\ kinds' = Append(kinds, kind)
  /\ since' = IF arrived - taken > Buffer THEN taken + Buffer ELSE arrived
  /\ UNCHANGED <<answers, far>>

Then(next) == phase' = next /\ UNCHANGED <<kinds, answers, since, far>>

Finish(answer) ==
  /\ phase' = "idle"
  /\ answers' = Append(answers, answer)
  /\ UNCHANGED <<portVars, kinds, since, far>>

Replying == {"address", "function", "count", "data", "crc", "code", "check"}
Awaiting == {"sending", "draining"} \cup Replying

Back(from) == phase = from /\ op = "none"

Flushed ==
  /\ Back("flushing") /\ BeginCall("writing", 2, "later")
  /\ phase' = "sending"
  /\ since' = IF since <= taken THEN 0 ELSE since
  /\ UNCHANGED <<kinds, answers, far>>

(* Mutant of Sent: drained without a deadline, as tcdrain() would.         *)
SentUnbounded ==
  Back("sending") /\ outcome = "done" /\ BeginCall("draining", 0, "never") /\ Then("draining")

(* DefaultSerial.write(): everything out, and drained, or it throws.       *)
Sent == Back("sending") /\ outcome = "done" /\ BeginCall("draining", 0, "later") /\ Then("draining")

RequestOut == Back("draining") /\ outcome = "done" /\ BeginCall("reading", 1, "later") /\ Then("address")

(* What a byte is, and what it may be taken for: a damaged byte, or one    *)
(* that follows a loss and is not where it should be, may have any value.  *)
Is(part, b) == b[1] # 0 /\ b[2] = part

Ours(part, b) == Is(part, b) /\ kinds[b[1]] = kinds[tx]

MayBeOurs(part, b) == Ours(part, b) \/ ~(Is(2, b) \/ Is(7, b))

(* recv_msg_header(), and the address checked once the function is there.  *)
AddressRead ==
  /\ Back("address") /\ outcome = "done"
  /\ BeginCall("reading", 1, "later") /\ Then("function")

(* recv_res_header(): the function code of the request, or that with its   *)
(* high bit, after which the exception code follows.                       *)
FunctionRead ==
  /\ Back("function") /\ outcome = "done" /\ MayBeOurs(2, stream[taken])
  /\ IF kinds[tx] = "writeCommand" THEN BeginCall("reading", 2, "later") /\ Then("data")
                                   ELSE BeginCall("reading", 1, "later") /\ Then("count")

Refused ==
  /\ Back("function") /\ outcome = "done" /\ MayBeOurs(7, stream[taken])
  /\ BeginCall("reading", 1, "later") /\ Then("code")

CodeRead ==
  /\ Back("code") /\ outcome = "done"
  /\ BeginCall("reading", 1, "later") /\ Then("check")

CountRead ==
  /\ Back("count") /\ outcome = "done"
  /\ BeginCall("reading", 1, "later") /\ Then("data")

DataRead ==
  /\ Back("data") /\ outcome = "done"
  /\ BeginCall("reading", 1, "later") /\ Then("crc")

ReplyRead == AddressRead \/ FunctionRead \/ Refused \/ CodeRead \/ CountRead \/ DataRead

(* recv_msg_footer(): the CRC fits the bytes of one whole reply only.      *)
Intact(n) == SubSeq(stream, taken - Len(Parts(kinds[tx])) + 1, taken) = Reply(n)

CrcRead ==
  /\ Back("crc") /\ outcome = "done"
  /\ \E n \in 1 .. tx : Intact(n) /\ Finish(n)

(* check() turns every error of nanomodbus, which knows a short read as a  *)
(* time-out and an exception of the port as a transport error, into a      *)
(* DriverException: another address, function or byte count than expected, *)
(* a CRC that does not fit, an exception reply whatever its code.          *)
Fails ==
  /\ op = "none"
  /\ \/ phase \in Awaiting /\ outcome # "done"
     \/ phase = "function" /\ outcome = "done" /\ ~Is(1, stream[taken - 1])
     \/ phase = "function" /\ outcome = "done" /\ ~Ours(2, stream[taken]) /\ ~Ours(7, stream[taken])
     \/ phase = "count" /\ outcome = "done" /\ ~Ours(3, stream[taken])
     \/ phase = "crc" /\ outcome = "done" /\ \A n \in 1 .. tx : ~Intact(n)
     \/ phase = "check" /\ outcome = "done"
  /\ Finish(0)

ClientStep == Flushed \/ Sent \/ RequestOut \/ ReplyRead \/ CrcRead \/ Fails

LinkNext ==
  \/ LinePart \/ PortRuns \/ Clock
  \/ Open \/ Opened \/ NotOpened \/ Close
  \/ \E kind \in Kinds : BeginTransaction(kind)
  \/ ClientStep

(* The caller's thread runs, time passes, and Windows drains without a     *)
(* deadline down to a wire without flow control.                           *)
LinkSpec ==
  /\ LinkInit /\ [][LinkNext]_linkVars
  /\ WF_linkVars(PortRuns) /\ WF_linkVars(Clock) /\ WF_linkVars(ClientStep)
  /\ WF_linkVars(os = "win32" /\ RequestLeaves)

-----------------------------------------------------------------------------
(* Types of the link; no call takes or puts more bytes than it was given   *)
(* room for (posix/serial_port.cpp:260 and :304, win32/serial_port.cpp:173) *)
LinkTypeOK ==
  /\ arrived = Len(stream) /\ taken <= arrived
  /\ queued <= Room /\ queued <= Len(wire)
  /\ op \in Ops /\ done <= size /\ size \in 0 .. Buffer
  /\ handle \in {"closed", "raw", "ready"}
  /\ phase \in {"closed", "idle", "flushing"} \cup Awaiting
  /\ Len(answers) = IF phase \in {"closed", "idle"} THEN tx ELSE tx - 1

(* "A throw here leaves the connection closed rather than half-open"       *)
(* (default_serial.cpp:66): between calls the port is open and configured  *)
(* exactly when the client has one.                                        *)
OpenIsAllOrNothing ==
  op = "none" => handle = IF phase = "closed" THEN "closed" ELSE "ready"

(* "Establishes the cached pair, so later reads and writes only re-enter   *)
(* the driver when the timeout actually changes"                           *)
(* (win32/serial_port.cpp:113): whatever was skipped, refused or forgotten *)
(* in between, an open port's driver has been given its time-outs, the     *)
(* port knows them, and a call that may block does so under the ones it    *)
(* asked for.                                                              *)
CallsKeepTheirTimeouts ==
  os = "win32" /\ handle = "ready" =>
    /\ cache = driver /\ driver.read # "unset" /\ driver.write # "unset"
    /\ op = "reading" /\ size > 0 /\ deadline = "later" => driver.read = "later"
    /\ op = "writing" /\ size > 0 /\ deadline = "later" => driver.write = "later"

(* The answer to a transaction arrived after it began (past what its flush *)
(* reaches) and is one nobody had: its own reply, or that of an earlier    *)
(* request whose reply came too late for it.  Replies are taken in order,  *)
(* so each step a client lags behind was paid for with a failed            *)
(* transaction (modbus_client.cpp:184, nanomodbus' flush before each       *)
(* request).                                                               *)
AnswerIsOwnOrLate ==
  [][CrcRead =>
       LET n == answers'[tx] IN
         /\ taken - Len(Reply(n)) >= since
         /\ n <= tx /\ kinds[n] = kinds[tx]
         /\ \A i \in DOMAIN answers : answers[i] < n
     ]_linkVars

(* Port and line keep what serial.hpp promises of a Serial, except that a  *)
(* read may raise on a line that is still there.                           *)
KeepsLooseContract == Loose!Spec

(* Every call into the client returns, with a gripper that answers never,  *)
(* late or in part, and with a line that stalls.                           *)
TransactionEnds == phase # "idle" ~> phase \in {"idle", "closed"}
=============================================================================
