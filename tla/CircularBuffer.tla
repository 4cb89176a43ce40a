--------------------------- MODULE CircularBuffer ---------------------------
(***************************************************************************)
(* SafeCircularBuffer (circular_buffer.h): every member function is one    *)
(* critical section, so one step.                                          *)
(***************************************************************************)
EXTENDS Naturals, Sequences

CONSTANTS Items, Capacity

(* % 0 is not defined.                                                     *)
ASSUME BufferAssumption == Capacity \in Nat \ {0} /\ Items # {}

VARIABLES
  buffer, start, count,  (* as in the class                                *)
  got                    (* what the last call handed out                  *)

bufferVars == <<buffer, start, count, got>>

BufferInit ==
  /\ buffer \in [0 .. Capacity - 1 -> {CHOOSE item \in Items : TRUE}]
  /\ start = 0 /\ count = 0 /\ got = <<>>

At(i) == buffer[(start + i) % Capacity]

(* Mutant of Push: a full buffer keeps its start.                          *)
PushKeepsStart(item) ==
  /\ buffer' = [buffer EXCEPT ![(start + count) % Capacity] = item]
  /\ count' = IF count = Capacity THEN count ELSE count + 1
  /\ got' = <<>> /\ UNCHANGED start

Push(item) ==
  /\ buffer' = [buffer EXCEPT ![(start + count) % Capacity] = item]
  /\ IF count = Capacity THEN start' = (start + 1) % Capacity /\ UNCHANGED count
                         ELSE count' = count + 1 /\ UNCHANGED start
  /\ got' = <<>>

Pop ==
  /\ count > 0
  /\ got' = <<At(0)>>
  /\ start' = (start + 1) % Capacity /\ count' = count - 1
  /\ UNCHANGED buffer

PeekFront == count > 0 /\ got' = <<At(0)>> /\ UNCHANGED <<buffer, start, count>>

PeekBack == count > 0 /\ got' = <<At(count - 1)>> /\ UNCHANGED <<buffer, start, count>>

(* pop(), front() and back() return an uninitialised T when empty.         *)
AskEmpty ==
  /\ count = 0
  /\ \E item \in Items : got' = <<item>>
  /\ UNCHANGED <<buffer, start, count>>

Clear == start' = 0 /\ count' = 0 /\ got' = <<>> /\ UNCHANGED buffer

Extract(consume) ==
  /\ got' = [i \in 1 .. count |-> At(i - 1)]
  /\ IF consume THEN start' = 0 /\ count' = 0 ELSE UNCHANGED <<start, count>>
  /\ UNCHANGED buffer

TakeSome == Pop \/ PeekFront \/ PeekBack \/ AskEmpty \/ Clear \/ \E consume \in BOOLEAN : Extract(consume)

BufferSpec ==
  BufferInit /\ [][(\E item \in Items : Push(item)) \/ TakeSome]_bufferVars

(* The items in the ring, oldest first.                                    *)
Held == [i \in 1 .. count |-> At(i - 1)]

(* Whatever is called in whatever order, the ring holds the newest items   *)
(* in order (circular_buffer.h:59-154).                                    *)
Queue == INSTANCE BoundedQueue WITH queue <- Held
BufferIsQueue == Queue!Spec
=============================================================================
