---------------------------- MODULE BoundedQueue ----------------------------
(***************************************************************************)
(* A queue that keeps the newest Capacity items: what SafeCircularBuffer   *)
(* (circular_buffer.h) is for.  Asked for an item while empty, it hands    *)
(* out anything at all.                                                    *)
(***************************************************************************)
EXTENDS Naturals, Sequences

CONSTANTS Items, Capacity

VARIABLES queue, got  (* the items, oldest first; what was last handed out *)

vars == <<queue, got>>

Init == queue = <<>> /\ got = <<>>

Push(item) ==
  /\ LET longer == Append(queue, item) IN
       queue' = IF Len(longer) > Capacity THEN Tail(longer) ELSE longer
  /\ got' = <<>>

Pop ==
  /\ queue # <<>>
  /\ got' = <<Head(queue)>> /\ queue' = Tail(queue)

Peek ==
  /\ queue # <<>>
  /\ got' \in {<<Head(queue)>>, <<queue[Len(queue)]>>}
  /\ UNCHANGED queue

AskEmpty == queue = <<>> /\ got' \in {<<item>> : item \in Items} /\ UNCHANGED queue

Extract == got' = queue /\ queue' \in {queue, <<>>}

Clear == queue' = <<>> /\ got' = <<>>

Next == (\E item \in Items : Push(item)) \/ Pop \/ Peek \/ AskEmpty \/ Extract \/ Clear

Spec == Init /\ [][Next]_vars
=============================================================================
