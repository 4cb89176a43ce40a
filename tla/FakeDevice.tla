----------------------------- MODULE FakeDevice -----------------------------
(***************************************************************************)
(* The fake gripper as an application sees it (gripper_factory.hpp and the *)
(* header of fake/register_model.hpp): typed commands in, typed statuses   *)
(* out, no registers, no bytes and no memory but its last status.          *)
(***************************************************************************)
EXTENDS Naturals

CONSTANT Faults

VARIABLES
  packed,   (* the command a client last put into a transaction            *)
  status,   (* of the device                                               *)
  returned  (* what the last transaction gave its caller                   *)

vars == <<status, returned>>

Blank == [ activated |-> FALSE, goToEnabled |-> FALSE, activationState |-> 0,
           objectDetection |-> 0, fault |-> 0, echo |-> 0, position |-> 0, current |-> 0 ]

(* "Activation completes instantly and the fingers arrive the moment they  *)
(* are commanded"; a fault stays until rACT is cleared.                    *)
Obeyed(c) ==
  LET moves == c.activate /\ c.goTo IN
    [ activated |-> c.activate, goToEnabled |-> moves,
      activationState |-> IF c.activate THEN 3 ELSE 0,
      objectDetection |-> IF moves THEN 3 ELSE 0,
      fault |-> IF c.activate THEN status.fault ELSE 0,
      echo |-> c.position, position |-> c.position, current |-> 42 ]

Init == status = Blank /\ returned = <<"nothing">>

Obeys == status' = Obeyed(packed')

Exchange == returned'[1] = "status" /\ Obeys /\ returned' = <<"status", status'>>

Write == returned' = <<"done">> /\ Obeys

Read == returned' = <<"status", status>> /\ UNCHANGED status

(* A refused exchange may have done its writing half.                      *)
Refuse == returned' = <<"refused">> /\ (UNCHANGED status \/ Obeys)

ReadCommands ==
  /\ returned'[1] = "registers" /\ \A i \in DOMAIN returned'[2] : returned'[2][i] = 0
  /\ UNCHANGED status

Stage(fault) == status' = [status EXCEPT !.fault = fault] /\ UNCHANGED returned

Next ==
  \/ Exchange \/ Write \/ Read \/ Refuse \/ ReadCommands
  \/ \E fault \in Faults : Stage(fault)

Spec == Init /\ [][Next]_vars
=============================================================================
