------------------------------- MODULE Serial -------------------------------
(***************************************************************************)
(* What a serial transport promises its caller (serial.hpp and             *)
(* detail/serial_port.hpp), one step per call and one per return.  Bytes   *)
(* are counted: the host has received the bytes 1 .. arrived of the line   *)
(* and has handed out, or dropped, the bytes 1 .. taken.                   *)
(***************************************************************************)
EXTENDS Naturals

CONSTANT RaiseOnLive   (* whether a read may raise on a line that is there *)

VARIABLES
  arrived, taken,  (* bytes received by the host, bytes handed out         *)
  queued,          (* bytes accepted from the caller, not yet on the wire  *)
  gone,            (* the other end has hung up                            *)
  busy,            (* the call under way                                   *)
  size, deadline,  (* its arguments; the deadline is "now" once passed     *)
  count,           (* what the last call returned                          *)
  outcome          (* and how it ended                                     *)

line  == <<arrived, taken, queued, gone>>
reply == <<count, outcome>>
vars  == <<line, busy, size, deadline, reply>>

Init ==
  /\ arrived = 0 /\ taken = 0 /\ queued = 0 /\ gone = FALSE
  /\ busy = "none" /\ size = 0 /\ deadline = "never"
  /\ count = 0 /\ outcome = "none"

LineMoves ==
  /\ \/ arrived' = arrived + 1 /\ UNCHANGED <<queued, gone>>
     \/ queued > 0 /\ queued' = queued - 1 /\ UNCHANGED <<arrived, gone>>
     \/ gone' = TRUE /\ UNCHANGED <<arrived, queued>>
  /\ UNCHANGED <<taken, busy, size, deadline, reply>>

TimePasses ==
  /\ deadline = "later" /\ deadline' = "now"
  /\ UNCHANGED <<line, busy, size, reply>>

Call ==
  /\ busy = "none"
  /\ busy' \in {"read", "write", "drain"}
  /\ size' \in Nat
  /\ deadline' \in {"now", "later", "never"}
  /\ UNCHANGED <<line, reply>>

(* Closing the port drops what its buffers hold.                           *)
Drop ==
  /\ busy = "none"
  /\ taken' = arrived /\ queued' = 0
  /\ UNCHANGED <<arrived, gone, busy, size, deadline, reply>>

(* Bytes of a write move to the transmit buffer before it returns.         *)
Accept ==
  /\ busy = "write"
  /\ queued' > queued
  /\ UNCHANGED <<arrived, taken, gone, busy, size, deadline, reply>>

Back == busy' = "none" /\ size' = 0 /\ deadline' = "never"

(* "Bytes actually read - fewer than size when the deadline passed first." *)
(* They are the next bytes of the line, and a short read leaves none.      *)
ReadReturns ==
  /\ busy = "read"
  /\ count' \in Nat /\ count' <= size
  /\ taken' = taken + count' /\ taken' <= arrived
  /\ IF count' = size THEN outcome' = "done"
                      ELSE outcome' = "short" /\ deadline = "now" /\ taken' = arrived
  /\ Back
  /\ UNCHANGED <<arrived, queued, gone>>

(* "Bytes actually written; a short count means the write timed out."      *)
WriteReturns ==
  /\ busy = "write"
  /\ count' \in Nat /\ count' <= size
  /\ IF count' = size THEN outcome' = "done" ELSE outcome' = "short" /\ deadline = "now"
  /\ Back
  /\ UNCHANGED line

(* "Block until the bytes written have left the transmit buffer; false     *)
(* when the timeout passed first."                                         *)
DrainReturns ==
  /\ busy = "drain"
  /\ \/ queued = 0 /\ outcome' = "done"
     \/ deadline = "now" /\ outcome' = "short"
  /\ Back
  /\ count' = 0
  /\ UNCHANGED line

(* "@throw SerialIOException on wire-level failure."  What the call had    *)
(* received is lost to the caller.                                         *)
Raises ==
  /\ busy # "none"
  /\ gone \/ (RaiseOnLive /\ busy = "read" /\ taken' > taken)
  /\ taken' \in taken .. arrived
  /\ count' \in Nat
  /\ outcome' = "raised"
  /\ Back
  /\ UNCHANGED <<arrived, queued, gone>>

Next ==
  \/ LineMoves \/ TimePasses \/ Call \/ Drop \/ Accept
  \/ ReadReturns \/ WriteReturns \/ DrainReturns \/ Raises

Spec == Init /\ [][Next]_vars
=============================================================================
