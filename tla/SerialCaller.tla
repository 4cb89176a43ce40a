---------------------------- MODULE SerialCaller ----------------------------
(***************************************************************************)
(* DefaultSerial (default_serial.cpp) in the hands of any caller of the    *)
(* Serial interface: it opens, closes, reads and writes as it pleases.     *)
(***************************************************************************)
EXTENDS SerialPort

CONSTANTS
  Sizes,    (* what callers read and write                                  *)
  MaxBytes  (* bound: bytes the line brings                                 *)

VARIABLE sending  (* the time-out of the write() under way, or no           *)

callerVars == <<portVars, sending>>

Free == op = "none" /\ sending = "no"

CallerInit == PortInit /\ sending = "no"

(* open() while open returns at once; read() and write() on a closed port  *)
(* throw before they touch it.                                             *)
CallOpen == Free /\ OpenHandle /\ UNCHANGED sending

OpenEnds ==
  /\ \E baudrate \in Baudrates : Configured(baudrate) \/ NotConfigured(baudrate)
  /\ UNCHANGED sending

CallClose == Free /\ CloseHandle /\ UNCHANGED sending

CallRead(n, when) ==
  /\ Free /\ when # "never"
  /\ BeginCall("reading", n, when) /\ UNCHANGED sending

(* Both halves of write() have the configured time-out, zero for none.     *)
CallWrite(n, when) ==
  /\ Free /\ when # "now"
  /\ BeginCall("writing", n, when) /\ sending' = when

WriteDrains ==
  /\ op = "none" /\ sending # "no"
  /\ sending' = "no"
  /\ IF outcome = "done" THEN BeginCall("draining", 0, sending) ELSE UNCHANGED portVars

CallerNext ==
  \/ arrived < MaxBytes /\ ByteArrives /\ UNCHANGED sending
  \/ (Transmit \/ HangUp) /\ UNCHANGED sending
  \/ op # "none" /\ TimePasses /\ UNCHANGED sending
  \/ PortStep /\ UNCHANGED sending
  \/ CallOpen \/ OpenEnds \/ CallClose \/ WriteDrains
  \/ \E n \in Sizes, when \in {"now", "later", "never"} : CallRead(n, when) \/ CallWrite(n, when)

CallerSpec == CallerInit /\ [][CallerNext]_callerVars

(* A call raises, and so throws away what it had read, only when the other *)
(* end has gone: "bytes still buffered behind a hangup are collected       *)
(* first; the caller raises once a read finds nothing left"                *)
(* (posix/serial_port.cpp:192).                                            *)
RaisesOnlyWhenGone == outcome = "raised" => gone
=============================================================================
