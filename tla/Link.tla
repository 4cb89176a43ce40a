-------------------------------- MODULE Link --------------------------------
(***************************************************************************)
(* What an exchange() that gave up leaves to the next ones                 *)
(* (modbus_client.cpp, as ModbusLink shows it): nothing ties a reply to    *)
(* its request, so a reply that comes too late for its own exchange may be *)
(* taken by a later one.  Replies keep their order.  An exchange begins by *)
(* emptying the line; what it does not find there, because it has still to *)
(* arrive, comes before the reply to its own block.                        *)
(*                                                                         *)
(* A block may be lost.  One that reaches the gripper when its exchange    *)
(* has already given up, still ahead of the next one, counts as one that   *)
(* got there in time but was answered late.                                *)
(***************************************************************************)
EXTENDS Naturals, Sequences

CONSTANT MaxLate   (* bound: replies still owed after an exchange          *)

ASSUME LateAssumption == MaxLate \in Nat

VARIABLE owed      (* statuses on their way to the client, oldest first    *)

(* What comes: all but the k oldest, which are flushed or lost, then the   *)
(* answer, if the block reached the gripper.                               *)
Coming(k, answer) == SubSeq(owed, k + 1, Len(owed)) \o answer

Alone(k) == k = Len(owed)

Take(status, k, answer) ==
  /\ Coming(k, answer) # <<>>
  /\ status = Head(Coming(k, answer))
  /\ owed' = Tail(Coming(k, answer))
  /\ Len(owed') <= MaxLate

GiveUp(k, answer) ==
  /\ owed' = Coming(k, answer)
  /\ Len(owed') <= MaxLate
=============================================================================
