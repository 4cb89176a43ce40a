--------------------------- MODULE MCGripperState ---------------------------
(* GripperState with two command blocks: a gripper at rest, and one going  *)
(* to a position.  The one found going goes slowly.  The theorems of       *)
(* GripperStateProofs hold for every set.                                  *)
EXTENDS GripperState

MCTwoCommands ==
  { [act |-> FALSE, gto |-> FALSE, pos |-> 0, speed |-> 1],
    [act |-> TRUE,  gto |-> TRUE,  pos |-> 1, speed |-> 1] }

MCFound == {[c EXCEPT !.speed = IF c.gto THEN 0 ELSE 1] : c \in MCTwoCommands}

MCTwoStatuses == {Echo(c) : c \in MCTwoCommands}
=============================================================================
