------------------------- MODULE TactileSensorProofs -------------------------
(***************************************************************************)
(* Proofs about the tactile sensor SDK: its circular buffer, for every     *)
(* capacity and set of items; the sensor with its thread, for every number *)
(* of samples, polls and packets; and the bytes of the sensor, for every   *)
(* set of messages and any number of losses.                               *)
(***************************************************************************)
EXTENDS TactileSensor, SensorStream, FiniteSetTheorems, SequenceTheorems,
        WellFoundedInduction, TLAPS

(***************************************************************************)
(* SafeCircularBuffer refines BoundedQueue: its indices stay below the     *)
(* capacity, so going round once is all that % ever does.                  *)
(***************************************************************************)

BufferTypeOK ==
  /\ buffer \in [0 .. Capacity - 1 -> Items]
  /\ start \in 0 .. Capacity - 1 /\ count \in 0 .. Capacity

Wrapped(x) == IF x < Capacity THEN x ELSE x - Capacity

LEMMA RoundOnce ==
  ASSUME NEW x \in 0 .. 2 * Capacity - 1
  PROVE  x % Capacity = Wrapped(x)
BY BufferAssumption DEF Wrapped

(* The slot of item i, counted from the start.                             *)
LEMMA SlotOf ==
  ASSUME BufferTypeOK, NEW i \in 0 .. Capacity
  PROVE  (start + i) % Capacity = Wrapped(start + i)
<1>1. start + i \in 0 .. 2 * Capacity - 1
  BY BufferAssumption DEF BufferTypeOK
<1> QED
  BY <1>1, RoundOnce

(* From a start moved by one, the slots are those of the items after.      *)
LEMMA SlotFromNext ==
  ASSUME BufferTypeOK, NEW next, next = (start + 1) % Capacity, NEW i \in 1 .. Capacity
  PROVE  next \in 0 .. Capacity - 1 /\ (next + (i - 1)) % Capacity = (start + i) % Capacity
<1>1. next = Wrapped(start + 1) /\ (start + i) % Capacity = Wrapped(start + i)
  BY SlotOf, BufferAssumption
<1>2. next \in 0 .. Capacity - 1
  BY <1>1, BufferAssumption DEF BufferTypeOK, Wrapped
<1>3. next + (i - 1) \in 0 .. 2 * Capacity - 1
  BY <1>2, BufferAssumption
<1>4. (next + (i - 1)) % Capacity = Wrapped(next + (i - 1))
  BY <1>3, RoundOnce
<1>5. Wrapped(next + (i - 1)) = Wrapped(start + i)
  BY <1>1, BufferAssumption DEF BufferTypeOK, Wrapped
<1> QED
  BY <1>1, <1>2, <1>4, <1>5

(* What is in a ring b of n items from slot s on.                          *)
InRing(b, s, n) == [i \in 1 .. n |-> b[(s + (i - 1)) % Capacity]]

IsHeldIn(items, b, s, n) ==
  /\ items \in Seq(Items) /\ Len(items) = n
  /\ \A i \in 1 .. n : items[i] = b[(s + (i - 1)) % Capacity]

LEMMA HeldIsSequence ==
  \A b \in [0 .. Capacity - 1 -> Items], s \in 0 .. Capacity - 1, n \in 0 .. Capacity :
    IsHeldIn(InRing(b, s, n), b, s, n)
<1> SUFFICES ASSUME NEW b \in [0 .. Capacity - 1 -> Items], NEW s \in 0 .. Capacity - 1,
                    NEW n \in 0 .. Capacity
             PROVE  IsHeldIn(InRing(b, s, n), b, s, n)
  OBVIOUS
<1>1. \A i \in 1 .. n : b[(s + (i - 1)) % Capacity] \in Items
  <2> SUFFICES ASSUME NEW i \in 1 .. n PROVE (s + (i - 1)) % Capacity \in 0 .. Capacity - 1
    OBVIOUS
  <2>1. s + (i - 1) \in 0 .. 2 * Capacity - 1
    BY BufferAssumption
  <2> QED
    BY <2>1, RoundOnce, BufferAssumption DEF Wrapped
<1> QED
  BY <1>1 DEF IsHeldIn, InRing

LEMMA BufferTypeCorrect == BufferSpec => []BufferTypeOK
<1>1. BufferInit => BufferTypeOK
  BY BufferAssumption DEF BufferInit, BufferTypeOK
<1>2. BufferTypeOK /\ [(\E item \in Items : Push(item)) \/ TakeSome]_bufferVars => BufferTypeOK'
  <2> SUFFICES ASSUME BufferTypeOK, [(\E item \in Items : Push(item)) \/ TakeSome]_bufferVars
               PROVE  BufferTypeOK'
    OBVIOUS
  <2> USE BufferAssumption DEF BufferTypeOK
  <2>1. ASSUME NEW item \in Items, Push(item) PROVE BufferTypeOK'
    <3>1. (start + count) % Capacity \in 0 .. Capacity - 1 /\ (start + 1) % Capacity \in 0 .. Capacity - 1
      BY SlotOf DEF Wrapped
    <3> QED
      BY <2>1, <3>1 DEF Push
  <2>2. CASE TakeSome
    <3>1. (start + 1) % Capacity \in 0 .. Capacity - 1
      BY SlotOf DEF Wrapped
    <3> QED
      BY <2>2, <3>1 DEF TakeSome, Pop, PeekFront, PeekBack, AskEmpty, Clear, Extract
  <2>3. CASE UNCHANGED bufferVars
    BY <2>3 DEF bufferVars
  <2> QED
    BY <2>1, <2>2, <2>3
<1> QED
  BY <1>1, <1>2, PTL DEF BufferSpec

(* A push appends, and drops the oldest item of a full ring.               *)
LEMMA PushIsPush ==
  ASSUME BufferTypeOK, BufferTypeOK', NEW item \in Items, Push(item)
  PROVE  Queue!Push(item)
<1> DEFINE longer == Append(Held, item)
<1> USE BufferAssumption
<1>1. /\ Held \in Seq(Items) /\ Len(Held) = count
      /\ \A i \in 1 .. count : Held[i] = At(i - 1)
  BY HeldIsSequence DEF IsHeldIn, InRing, BufferTypeOK, Held, At
<1>2. /\ Held' \in Seq(Items) /\ Len(Held') = count'
      /\ \A i \in 1 .. count' : Held'[i] = buffer'[(start' + (i - 1)) % Capacity]
  <2>1. /\ buffer' \in [0 .. Capacity - 1 -> Items]
        /\ start' \in 0 .. Capacity - 1 /\ count' \in 0 .. Capacity
    BY DEF BufferTypeOK
  <2>2. IsHeldIn(InRing(buffer', start', count'), buffer', start', count')
    BY <2>1, HeldIsSequence, Zenon
  <2>3. Held' = InRing(buffer', start', count')
    BY DEF Held, At, InRing
  <2>4. IsHeldIn(Held', buffer', start', count')
    BY <2>2, <2>3
  <2> QED
    BY <2>4 DEF IsHeldIn
<1>3. /\ longer \in Seq(Items) /\ Len(longer) = count + 1
      /\ \A i \in 1 .. count + 1 : longer[i] = IF i <= count THEN Held[i] ELSE item
  BY <1>1 DEF BufferTypeOK
<1>4. CASE count < Capacity
  <2>1. count' = count + 1 /\ start' = start
    BY <1>4 DEF Push, BufferTypeOK
  <2>2. \A i \in 1 .. count + 1 : Held'[i] = longer[i]
    <3> SUFFICES ASSUME NEW i \in 1 .. count + 1 PROVE Held'[i] = longer[i]
      OBVIOUS
    <3>1. (start + (i - 1)) % Capacity = (start + count) % Capacity <=> i = count + 1
      BY <1>4, SlotOf DEF BufferTypeOK, Wrapped
    <3>2. (start + (i - 1)) % Capacity \in 0 .. Capacity - 1
      BY <1>4, SlotOf DEF BufferTypeOK, Wrapped
    <3> QED
      BY <1>1, <1>2, <1>3, <2>1, <3>1, <3>2 DEF Push, BufferTypeOK, At
  <2>3. Held' = longer
    BY <1>2, <1>3, <2>1, <2>2, SeqEqual
  <2> QED
    BY <1>3, <1>4, <2>3 DEF Queue!Push, Push, BufferTypeOK
<1>5. CASE count = Capacity
  <2>1. count' = count /\ start' = (start + 1) % Capacity
    BY <1>5 DEF Push
  <2>2. Tail(longer) \in Seq(Items) /\ Len(Tail(longer)) = count
        /\ \A i \in 1 .. count : Tail(longer)[i] = longer[i + 1]
    BY <1>3, <1>5, HeadTailProperties DEF BufferTypeOK
  <2>3. \A i \in 1 .. count : Held'[i] = Tail(longer)[i]
    <3> SUFFICES ASSUME NEW i \in 1 .. count PROVE Held'[i] = longer[i + 1]
      BY <2>2
    <3>1. (start' + (i - 1)) % Capacity = (start + i) % Capacity
      BY <1>5, <2>1, SlotFromNext
    <3>2. (start + i) % Capacity = (start + count) % Capacity <=> i = count
      <4>1. (start + i) % Capacity = Wrapped(start + i)
        BY <1>5, SlotOf
      <4>2. (start + count) % Capacity = Wrapped(start + count)
        BY <1>5, SlotOf
      <4> QED
        BY <1>5, <4>1, <4>2 DEF BufferTypeOK, Wrapped
    <3>3. (start + i) % Capacity \in 0 .. Capacity - 1
      BY <1>5, SlotOf DEF BufferTypeOK, Wrapped
    <3>4. Held'[i] = buffer'[(start + i) % Capacity]
      BY <1>2, <2>1, <3>1
    <3>5. CASE i = count
      BY <1>3, <2>1, <3>2, <3>3, <3>4, <3>5 DEF Push, BufferTypeOK
    <3>6. CASE i # count
      <4>1. Held'[i] = buffer[(start + i) % Capacity]
        BY <3>2, <3>3, <3>4, <3>6 DEF Push, BufferTypeOK
      <4>2. i + 1 \in 1 .. count /\ (i + 1) - 1 = i
        BY <3>6 DEF BufferTypeOK
      <4> QED
        BY <1>1, <1>3, <4>1, <4>2 DEF At
    <3> QED
      BY <3>5, <3>6
  <2>4. Held' = Tail(longer)
    BY <1>2, <2>1, <2>2, <2>3, SeqEqual
  <2> QED
    BY <1>3, <1>5, <2>4 DEF Queue!Push, Push, BufferTypeOK
<1> QED
  BY <1>4, <1>5 DEF BufferTypeOK

LEMMA TakingIsTaking ==
  ASSUME BufferTypeOK, BufferTypeOK', TakeSome
  PROVE  Queue!Pop \/ Queue!Peek \/ Queue!AskEmpty \/ Queue!Extract \/ Queue!Clear
<1> USE BufferAssumption
<1>1. /\ Held \in Seq(Items) /\ Len(Held) = count
      /\ \A i \in 1 .. count : Held[i] = At(i - 1)
  BY HeldIsSequence DEF IsHeldIn, InRing, BufferTypeOK, Held, At
<1>2. /\ Held' \in Seq(Items) /\ Len(Held') = count'
      /\ \A i \in 1 .. count' : Held'[i] = buffer'[(start' + (i - 1)) % Capacity]
  <2>1. /\ buffer' \in [0 .. Capacity - 1 -> Items]
        /\ start' \in 0 .. Capacity - 1 /\ count' \in 0 .. Capacity
    BY DEF BufferTypeOK
  <2>2. IsHeldIn(InRing(buffer', start', count'), buffer', start', count')
    BY <2>1, HeldIsSequence, Zenon
  <2>3. Held' = InRing(buffer', start', count')
    BY DEF Held, At, InRing
  <2>4. IsHeldIn(Held', buffer', start', count')
    BY <2>2, <2>3
  <2> QED
    BY <2>4 DEF IsHeldIn
<1>3. UNCHANGED <<buffer, start, count>> => Held' = Held
  BY DEF Held, At
<1>4. count' = 0 => Held' = <<>>
  BY <1>2
<1>5. CASE Pop
  <2>1. count > 0 /\ count' = count - 1 /\ start' = (start + 1) % Capacity /\ buffer' = buffer
    BY <1>5 DEF Pop
  <2>2. Tail(Held) \in Seq(Items) /\ Len(Tail(Held)) = count - 1
        /\ \A i \in 1 .. count - 1 : Tail(Held)[i] = Held[i + 1]
    BY <1>1, <2>1, HeadTailProperties DEF BufferTypeOK
  <2>3. \A i \in 1 .. count - 1 : Held'[i] = Tail(Held)[i]
    <3> SUFFICES ASSUME NEW i \in 1 .. count - 1 PROVE Held'[i] = Held[i + 1]
      BY <2>2
    <3>1. i \in 1 .. Capacity
      BY DEF BufferTypeOK
    <3>2. (start' + (i - 1)) % Capacity = (start + i) % Capacity
      BY <2>1, <3>1, SlotFromNext
    <3>3. Held'[i] = buffer[(start + i) % Capacity]
      BY <1>2, <2>1, <3>2
    <3>4. i + 1 \in 1 .. count /\ (i + 1) - 1 = i
      BY <2>1 DEF BufferTypeOK
    <3> QED
      BY <1>1, <3>3, <3>4 DEF At
  <2>4. Held' = Tail(Held)
    BY <1>2, <2>1, <2>2, <2>3, SeqEqual
  <2>5. Held # <<>> /\ Head(Held) = At(0)
    BY <1>1, <2>1 DEF BufferTypeOK
  <2> QED
    BY <1>5, <2>4, <2>5 DEF Pop, Queue!Pop
<1>6. CASE PeekFront \/ PeekBack
  <2>1. count > 0 /\ Held # <<>> /\ Head(Held) = At(0) /\ Held[Len(Held)] = At(count - 1)
    BY <1>1, <1>6 DEF BufferTypeOK, PeekFront, PeekBack
  <2> QED
    BY <1>3, <1>6, <2>1 DEF PeekFront, PeekBack, Queue!Peek
<1>7. CASE AskEmpty
  <2>1. Held = <<>>
    BY <1>1, <1>7 DEF AskEmpty
  <2> QED
    BY <1>3, <1>7, <2>1 DEF AskEmpty, Queue!AskEmpty
<1>8. CASE Clear
  BY <1>4, <1>8 DEF Clear, Queue!Clear
<1>9. ASSUME NEW consume \in BOOLEAN, Extract(consume) PROVE Queue!Extract
  <2>1. got' = Held
    BY <1>9 DEF Extract, Held
  <2>2. Held' \in {Held, <<>>}
    BY <1>3, <1>4, <1>9 DEF Extract
  <2> QED
    BY <2>1, <2>2 DEF Queue!Extract
<1> QED
  BY <1>5, <1>6, <1>7, <1>8, <1>9 DEF TakeSome

(* Whatever is called in whatever order, the ring holds the newest items   *)
(* in order, for every capacity.                                           *)
THEOREM RingIsQueue == BufferSpec => BufferIsQueue
<1>1. BufferInit => Queue!Init
  <2> SUFFICES ASSUME BufferInit PROVE Held = <<>> /\ got = <<>>
    BY DEF Queue!Init
  <2>1. BufferTypeOK
    BY BufferAssumption DEF BufferInit, BufferTypeOK
  <2> QED
    BY <2>1, HeldIsSequence DEF IsHeldIn, InRing, BufferInit, BufferTypeOK, Held, At
<1>2. BufferTypeOK /\ BufferTypeOK' /\ [(\E item \in Items : Push(item)) \/ TakeSome]_bufferVars
        => [Queue!Next]_Queue!vars
  <2>1. UNCHANGED bufferVars => UNCHANGED Queue!vars
    BY DEF bufferVars, Queue!vars, Held, At
  <2> QED
    BY <2>1, PushIsPush, TakingIsTaking DEF Queue!Next
<1> QED
  BY <1>1, <1>2, BufferTypeCorrect, PTL DEF BufferSpec, BufferIsQueue, Queue!Spec

(***************************************************************************)
(* The sensor and its data thread.                                         *)
(***************************************************************************)

InBaseline == caller \in {"polling", "quitting", "averaging"}

(* While the thread parses it has a packet in hand.                        *)
PacketInHand == thread \in {"parsing", "storing"} => chunk # <<>>

TypeInv == SensorTypeOK /\ PacketInHand

(* The life of the thread lies within that of the port.                    *)
ThreadInv ==
  /\ owner = "none" => thread = "none" /\ ~connected
  /\ owner = "gone" => thread \in {"none", "ended"}
  /\ connected <=> thread # "none"
  /\ owner \in {"built", "joining"} /\ thread # "none" => port = "open"

(* What the sensor was last told, while no write has failed.               *)
QuietInv == thread = "ended" /\ ~writeLost => ~autosend

(* Samples of the call in progress: the first may be one the thread had in *)
(* hand when the call began, and every later one is parsed after that.     *)
BaselineInv ==
  InBaseline =>
    /\ since <= parsed
    /\ OnlyFirstIsStale(samples)
    /\ samples # <<>> /\ thread = "storing" => parsed > since
    /\ caller = "averaging" => Len(samples) = BaselineSamples

(* A slot that is ready holds a reply.                                     *)
VersionInv == versionReady => version = FirmwareVersion

(* A chunk that arrives is a non-empty sequence of packets and takes no    *)
(* more version replies than there are requests (threadLoop's reads).      *)
LEMMA ArrivingType ==
  ASSUME NEW packets \in Arriving, requests \in Nat
  PROVE  /\ packets \in Seq(Packets)
         /\ packets # <<>>
         /\ requests - HowMany(packets, "version") \in Nat
<1>1. PICK n \in 1..MaxChunk : packets \in [1..n -> Packets]
  BY DEF Arriving
<1>2. packets \in Seq(Packets) /\ Len(packets) = n
  BY <1>1, SensorAssumption
<1>3. packets # <<>>
  BY <1>2
<1>4. HowMany(packets, "version") \in Nat
  <2> DEFINE V == { i \in DOMAIN packets : packets[i] = "version" }
  <2>1. IsFiniteSet(1..n)
    BY <1>1, FS_Interval, SensorAssumption
  <2>2. V \subseteq 1..n
    BY <1>1
  <2>3. IsFiniteSet(V)
    BY <2>1, <2>2, FS_Subset
  <2> QED
    BY <2>3, FS_CardinalityType DEF HowMany
<1>5. HowMany(packets, "version") <= requests
  BY DEF Arriving
<1> QED
  BY <1>2, <1>3, <1>4, <1>5

(* Which steps touch which part of the state: the owner creates the        *)
(* thread, the thread alone runs threadLoop(), and only calls change what  *)
(* belongs to a call.                                                      *)
LEMMA Frames ==
  ASSUME [SensorNext]_vars
  PROVE  /\ UNCHANGED objectVars \/ OwnerNext
         /\ UNCHANGED threadVars \/ Construct \/ Start \/ ThreadNext
         /\ \/ UNCHANGED baseVars
            \/ StoreSample \/ BaselineBegins \/ BaselineGivesUp
            \/ BaselineAverages
         /\ UNCHANGED versionVars \/ ParseVersion \/ VersionBegins
         /\ UNCHANGED callVars \/ CallerNext
         /\ \/ UNCHANGED lineVars
            \/ ThreadStarts \/ ReadChunk \/ ThreadEnds \/ VersionSend
<1> USE DEF callVars, outputs
<1>1. CASE OwnerNext
  BY <1>1 DEF OwnerNext, ConstructFails, Construct, Stop, Start, Destroy,
              JoinAndClose
<1>2. CASE ThreadNext
  BY <1>2 DEF ThreadNext, ThreadStarts, TestRunning, ReadNothing, ReadChunk,
              ParseVersion, ParseOther, ParseSensors, StoreSample, ThreadEnds
<1>3. CASE CallerNext
  BY <1>3 DEF CallerNext, CallContinues, CallRefused, BaselineBegins,
              VersionBegins, BaselinePoll, BaselineGivesUp, BaselineAverages,
              VersionSendFails, VersionSend, VersionArrives, VersionTimesOut
<1>4. CASE UNCHANGED vars
  BY <1>4 DEF vars
<1> QED
  BY <1>1, <1>2, <1>3, <1>4 DEF SensorNext

-----------------------------------------------------------------------------
(* The empty vector is a vector of anything, within the reserve.           *)
LEMMA NothingTaken ==
  /\ <<>> \in Seq(Nat)
  /\ <<>> \in Seq(Packets)
  /\ Len(<<>>) <= BaselineSamples
  BY SensorAssumption

(* The object before it is constructed.                                    *)
LEMMA InitTypes == SensorInit => TypeInv
<1> SUFFICES ASSUME SensorInit PROVE TypeInv
  OBVIOUS
<1> USE NothingTaken DEF SensorInit
<1>1. ObjectTypeOK /\ VersionTypeOK
  BY DEF ObjectTypeOK, VersionTypeOK
<1>2. ThreadTypeOK /\ PacketInHand
  BY DEF ThreadTypeOK, PacketInHand
<1>3. BaselineTypeOK
  BY DEF BaselineTypeOK
<1>4. CallTypeOK
  BY DEF CallTypeOK
<1>5. LineTypeOK
  BY DEF LineTypeOK
<1> QED
  BY <1>1, <1>2, <1>3, <1>4, <1>5 DEF TypeInv, SensorTypeOK

(* The thread always has a packet in hand while it parses: NextPacket      *)
(* leaves the chunk when it takes the last one.                            *)
LEMMA ThreadTypes ==
  ASSUME TypeInv, [SensorNext]_vars
  PROVE  ThreadTypeOK' /\ PacketInHand'
<1> USE DEF TypeInv, SensorTypeOK, ThreadTypeOK, PacketInHand
<1>1. CASE UNCHANGED threadVars
  BY <1>1 DEF threadVars
<1>2. CASE Construct \/ Start
  BY <1>2 DEF Construct, Start, Joinable
<1>3. CASE ThreadStarts \/ TestRunning \/ ReadNothing \/ ThreadEnds
  BY <1>3 DEF ThreadStarts, TestRunning, ReadNothing, ThreadEnds
<1>4. CASE ReadChunk
  BY <1>4, ArrivingType DEF ReadChunk, LineTypeOK
<1>5. ASSUME NextPacket, chunk # <<>>, parsed' \in Nat
      PROVE  ThreadTypeOK' /\ PacketInHand'
  <2>1. Tail(chunk) \in Seq(Packets) /\ Len(Tail(chunk)) = Len(chunk) - 1
    BY <1>5
  <2>2. Tail(chunk) = <<>> => Len(Tail(chunk)) = 0
    BY <2>1, EmptySeq
  <2> QED
    BY <1>5, <2>1, <2>2 DEF NextPacket
<1>6. CASE ParseVersion \/ ParseOther \/ StoreSample
  BY <1>5, <1>6 DEF ParseVersion, ParseOther, StoreSample
<1>7. CASE ParseSensors
  BY <1>5, <1>7 DEF ParseSensors
<1> QED
  BY <1>1, <1>2, <1>3, <1>4, <1>6, <1>7, Frames DEF ThreadNext

(* The critical section of the thread stores below the limit only, and     *)
(* findBaseline() clears or reads.                                         *)
LEMMA BaselineTypes ==
  ASSUME TypeInv, [SensorNext]_vars
  PROVE  BaselineTypeOK'
<1> USE DEF TypeInv, SensorTypeOK, BaselineTypeOK
<1>1. CASE UNCHANGED baseVars
  BY <1>1 DEF baseVars
<1>2. CASE StoreSample
  BY <1>2, SensorAssumption DEF StoreSample, ThreadTypeOK
<1>3. CASE BaselineBegins
  BY <1>3, NothingTaken DEF BaselineBegins
<1>4. CASE BaselineGivesUp
  BY <1>4 DEF BaselineGivesUp
<1>5. CASE BaselineAverages
  BY <1>5, NothingTaken DEF BaselineAverages
<1> QED
  BY <1>1, <1>2, <1>3, <1>4, <1>5, Frames

(* The locals and outputs of the calls.                                    *)
LEMMA CallTypes ==
  ASSUME TypeInv, [SensorNext]_vars
  PROVE  CallTypeOK'
<1> USE DEF TypeInv, SensorTypeOK, CallTypeOK, Return, Fail, outputs
<1>1. CASE UNCHANGED callVars
  BY <1>1 DEF callVars
<1>2. CASE CallRefused \/ VersionSendFails \/ VersionTimesOut \/ BaselineGivesUp
  BY <1>2 DEF CallRefused, VersionSendFails, VersionTimesOut, BaselineGivesUp
<1>3. CASE BaselineBegins
  BY <1>3, NothingTaken DEF BaselineBegins, ThreadTypeOK
<1>4. CASE BaselinePoll
  BY <1>4 DEF BaselinePoll
<1>5. CASE BaselineAverages
  BY <1>5 DEF BaselineAverages, BaselineTypeOK
<1>6. CASE VersionBegins \/ VersionSend
  BY <1>6 DEF VersionBegins, VersionSend
<1>7. CASE VersionArrives
  BY <1>7 DEF VersionArrives, VersionTypeOK
<1> QED
  BY <1>1, <1>2, <1>3, <1>4, <1>5, <1>6, <1>7, Frames
     DEF CallerNext, CallContinues

(* The sensor answers no more requests than were sent.                     *)
LEMMA LineTypes ==
  ASSUME TypeInv, [SensorNext]_vars
  PROVE  LineTypeOK'
<1> USE DEF TypeInv, SensorTypeOK, LineTypeOK
<1>1. CASE UNCHANGED lineVars
  BY <1>1 DEF lineVars
<1>2. CASE ThreadStarts \/ ThreadEnds
  BY <1>2 DEF ThreadStarts, ThreadEnds, SendPeriod
<1>3. CASE ReadChunk
  BY <1>3, ArrivingType DEF ReadChunk
<1>4. CASE VersionSend
  BY <1>4 DEF VersionSend
<1> QED
  BY <1>1, <1>2, <1>3, <1>4, Frames

(* The members of the object, and the slot of the version reply.           *)
LEMMA ObjectAndVersionTypes ==
  ASSUME TypeInv, [SensorNext]_vars
  PROVE  ObjectTypeOK' /\ VersionTypeOK'
<1> USE DEF TypeInv, SensorTypeOK
<1>1. ObjectTypeOK'
  BY Frames DEF ObjectTypeOK, objectVars, OwnerNext, ConstructFails,
     Construct, Stop, Start, Destroy, JoinAndClose
<1>2. VersionTypeOK'
  BY Frames DEF VersionTypeOK, versionVars, ParseVersion, VersionBegins,
     FirmwareVersion, Empty
<1> QED
  BY <1>1, <1>2

(* Every step keeps the types and the packet in hand.                      *)
LEMMA TypeStep == TypeInv /\ [SensorNext]_vars => TypeInv'
  BY ThreadTypes, BaselineTypes, CallTypes, LineTypes, ObjectAndVersionTypes
     DEF TypeInv, SensorTypeOK

(* TypeOK of the sensor, for every number of samples, polls and packets:   *)
(* in particular the vector of samples never outgrows its reserve.         *)
THEOREM SensorTypeCorrect == SensorSafety => []SensorTypeOK
<1>1. SensorSafety => []TypeInv
  BY InitTypes, TypeStep, PTL DEF SensorSafety
<1> QED
  BY <1>1, PTL DEF TypeInv

-----------------------------------------------------------------------------
(* The thread exists while the object is connected, and the port until the *)
(* thread is joined.                                                       *)
LEMMA ThreadInvStep ==
  ASSUME ThreadInv, [SensorNext]_vars
  PROVE  ThreadInv'
<1> USE DEF ThreadInv
<1>1. CASE UNCHANGED <<objectVars, thread>>
  BY <1>1 DEF objectVars
<1>2. CASE OwnerNext
  BY <1>2 DEF OwnerNext, ConstructFails, Construct, Stop, Start, Destroy,
              JoinAndClose, Joinable, threadVars
<1>3. CASE ThreadNext
  BY <1>3 DEF ThreadNext, ThreadStarts, TestRunning, ReadNothing, ReadChunk,
              ParseVersion, ParseOther, ParseSensors, StoreSample, ThreadEnds,
              NextPacket, objectVars
<1>4. UNCHANGED <<objectVars, threadVars>> \/ OwnerNext \/ ThreadNext
  BY Frames DEF OwnerNext, SensorNext
<1> QED
  BY <1>1, <1>2, <1>3, <1>4 DEF threadVars

(* The last message of threadLoop() is the last word the sensor hears.     *)
LEMMA QuietInvStep ==
  ASSUME ThreadInv, QuietInv, [SensorNext]_vars
  PROVE  QuietInv'
<1> USE DEF QuietInv
<1>1. CASE UNCHANGED <<thread, lineVars>>
  BY <1>1 DEF lineVars
<1>2. CASE OwnerNext
  BY <1>2 DEF OwnerNext, ConstructFails, Construct, Stop, Start, Destroy,
              JoinAndClose, Joinable, threadVars, lineVars
<1>3. CASE ThreadNext
  <2>1. CASE ThreadEnds
    <3>1. 0 % 256 = 0
      OBVIOUS
    <3> QED
      BY <2>1, <3>1 DEF ThreadEnds, SendPeriod
  <2>2. CASE ~ThreadEnds
    BY <1>3, <2>2
       DEF ThreadNext, ThreadStarts, TestRunning, ReadNothing, ReadChunk,
           ParseVersion, ParseOther, ParseSensors, StoreSample, NextPacket
  <2> QED
    BY <2>1, <2>2
<1>4. CASE VersionSend
  BY <1>4 DEF VersionSend, threadVars
<1>5. \/ UNCHANGED <<threadVars, lineVars>>
      \/ OwnerNext \/ ThreadNext \/ VersionSend
  BY Frames DEF OwnerNext, ThreadNext
<1> QED
  BY <1>1, <1>2, <1>3, <1>4, <1>5 DEF threadVars

(* Whichever way findBaseline() leaves, it clears the flag first.          *)
LEMMA CleanStep ==
  ASSUME BaselineEndsClean, [SensorNext]_vars
  PROVE  BaselineEndsClean'
<1> USE DEF BaselineEndsClean, Return, Fail
<1>1. CASE UNCHANGED <<calculating, caller>>
  BY <1>1
<1>2. CASE BaselineBegins \/ BaselineGivesUp \/ BaselineAverages
  BY <1>2 DEF BaselineBegins, BaselineGivesUp, BaselineAverages
<1>3. CASE BaselinePoll
  BY <1>3 DEF BaselinePoll, baseVars
<1>4. CASE CallRefused \/ VersionBegins \/ VersionSendFails \/ VersionSend
           \/ VersionArrives \/ VersionTimesOut
  BY <1>4 DEF CallRefused, CallerFree, VersionBegins, VersionSendFails,
              VersionSend, VersionArrives, VersionTimesOut, baseVars
<1>5. CASE StoreSample
  BY <1>5 DEF StoreSample, callVars
<1> QED
  BY <1>1, <1>2, <1>3, <1>4, <1>5, Frames
     DEF CallerNext, CallContinues, callVars, baseVars

(* The reply and the flag are set together, and reset together.            *)
LEMMA VersionStep ==
  ASSUME VersionInv, VersionIsAnswered, [SensorNext]_vars
  PROVE  VersionInv' /\ VersionIsAnswered'
<1> USE DEF FirmwareVersion
<1>1. VersionInv'
  BY Frames DEF VersionInv, versionVars, ParseVersion, VersionBegins
<1>2. CASE UNCHANGED callVars
  BY <1>1, <1>2 DEF VersionIsAnswered, callVars, outputs
<1>3. CASE CallerNext
  BY <1>1, <1>3
     DEF CallerNext, CallContinues, CallRefused, BaselineBegins,
              VersionBegins, BaselinePoll, BaselineGivesUp, BaselineAverages,
              VersionSendFails, VersionSend, VersionArrives, VersionTimesOut,
              Return, Fail, outputs, VersionInv, VersionIsAnswered
<1> QED
  BY <1>1, <1>2, <1>3, Frames

-----------------------------------------------------------------------------
(* A step of findBaseline() or of the sample in hand is the only way to    *)
(* disturb BaselineInv.                                                    *)
LEMMA BaselineInvStep ==
  ASSUME TypeInv, BaselineInv, [SensorNext]_vars
  PROVE  BaselineInv'
<1> USE DEF BaselineInv, InBaseline, OnlyFirstIsStale, Return, Fail
<1> SUFFICES ASSUME InBaseline'
             PROVE  /\ since' <= parsed'
                    /\ OnlyFirstIsStale(samples)'
                    /\ samples' # <<>> /\ thread' = "storing" => parsed' > since'
                    /\ caller' = "averaging" => Len(samples') = BaselineSamples
  OBVIOUS
<1>1. CASE BaselineBegins
  <2>1. samples' = <<>> /\ since' = parsed /\ parsed' = parsed
    BY <1>1 DEF BaselineBegins, threadVars
  <2>2. caller' = "polling"
    BY <1>1 DEF BaselineBegins
  <2>3. parsed \in Nat /\ Len(samples') = 0
    BY <2>1, EmptySeq DEF TypeInv, SensorTypeOK, ThreadTypeOK
  <2> QED
    BY <2>1, <2>2, <2>3
<1>2. CASE BaselinePoll
  <2>1. UNCHANGED <<thread, parsed, samples, since>> /\ InBaseline
    BY <1>2 DEF BaselinePoll, threadVars, baseVars
  <2>2. caller' = "averaging" => Len(samples) >= BaselineSamples
    BY <1>2 DEF BaselinePoll
  <2>3. Len(samples) <= BaselineSamples /\ Len(samples) \in Nat
    BY DEF TypeInv, SensorTypeOK, BaselineTypeOK
  <2>4. caller' = "averaging" => Len(samples) = BaselineSamples
    BY <2>2, <2>3, SensorAssumption
  <2> QED
    BY <2>1, <2>4
<1>3. CASE StoreSample
  <2>1. UNCHANGED <<parsed, since, caller>> /\ thread' # "storing"
    BY <1>3 DEF StoreSample, NextPacket, callVars
  <2>2. /\ samples' = IF Len(samples) < BaselineSamples
                      THEN Append(samples, parsed) ELSE samples
        /\ thread = "storing"
    BY <1>3 DEF StoreSample
  <2>3. /\ samples \in Seq(Nat) /\ parsed \in Nat
        /\ since \in Nat /\ BaselineSamples \in Nat
    BY SensorAssumption
       DEF TypeInv, SensorTypeOK, BaselineTypeOK, ThreadTypeOK, CallTypeOK
  <2>4. CASE Len(samples) < BaselineSamples
    <3>1. /\ Len(samples') = Len(samples) + 1
          /\ samples'[Len(samples) + 1] = parsed
          /\ \A i \in 1..Len(samples) : samples'[i] = samples[i]
      BY <2>2, <2>3, <2>4
    <3>2. ASSUME NEW i \in 2..Len(samples') PROVE samples'[i] > since
      <4>1. CASE i = Len(samples) + 1
        <5>1. samples # <<>>
          BY <4>1, EmptySeq
        <5> QED
          BY <2>1, <2>2, <3>1, <4>1, <5>1
      <4>2. CASE i # Len(samples) + 1
        <5>1. i \in 2..Len(samples)
          BY <2>3, <3>1, <4>2
        <5> QED
          BY <2>1, <3>1, <5>1
      <4> QED
        BY <4>1, <4>2
    <3>3. caller' # "averaging"
      BY <2>1, <2>4
    <3> QED
      BY <2>1, <3>2, <3>3
  <2>5. CASE ~(Len(samples) < BaselineSamples)
    BY <2>1, <2>2, <2>5
  <2> QED
    BY <2>4, <2>5
<1>4. CASE ParseSensors
  <2>1. UNCHANGED <<samples, since, caller>> /\ parsed' = parsed + 1
    BY <1>4 DEF ParseSensors, baseVars, callVars
  <2>2. parsed \in Nat /\ since \in Nat
    BY DEF TypeInv, SensorTypeOK, ThreadTypeOK, CallTypeOK
  <2>3. parsed' > since /\ since <= parsed'
    BY <2>1, <2>2
  <2> QED
    BY <2>1, <2>3
<1>5. CASE UNCHANGED <<parsed, samples, since, caller>>
           /\ (thread' = "storing" => thread = "storing")
  BY <1>5
<1>6. \/ BaselineBegins \/ BaselinePoll \/ StoreSample \/ ParseSensors
      \/ /\ UNCHANGED <<parsed, samples, since, caller>>
         /\ thread' = "storing" => thread = "storing"
  <2>1. CASE OwnerNext
    BY <2>1 DEF OwnerNext, ConstructFails, Construct, Stop, Start, Destroy,
                JoinAndClose, Joinable, threadVars, baseVars, callVars
  <2>2. CASE ThreadNext
    BY <2>2 DEF ThreadNext, ThreadStarts, TestRunning, ReadNothing, ReadChunk,
                ParseVersion, ParseOther, ThreadEnds, NextPacket, baseVars,
                callVars
  <2>3. CASE CallerNext
    BY <2>3 DEF CallerNext, CallContinues, CallRefused, VersionBegins,
                BaselineGivesUp, BaselineAverages, VersionSendFails,
                VersionSend, VersionArrives, VersionTimesOut, threadVars,
                baseVars
  <2>4. CASE UNCHANGED vars
    BY <2>4 DEF vars, threadVars, baseVars, callVars
  <2> QED
    BY <2>1, <2>2, <2>3, <2>4 DEF SensorNext
<1> QED
  BY <1>1, <1>2, <1>3, <1>4, <1>5, <1>6

(* What findBaseline() returns is what it had in the vector.               *)
LEMMA SoundStep ==
  ASSUME BaselineInv, BaselineIsSound, [SensorNext]_vars
  PROVE  BaselineIsSound'
<1> USE DEF BaselineIsSound, OnlyFirstIsStale
<1>1. CASE UNCHANGED <<result, baseline, since>>
  BY <1>1
<1>2. CASE BaselineAverages
  BY <1>2 DEF BaselineAverages, BaselineInv, InBaseline, Return
<1>3. CASE result' # "baseline"
  BY <1>3
<1>4. \/ UNCHANGED <<result, baseline, since>>
      \/ BaselineAverages \/ result' # "baseline"
  <2>1. CASE UNCHANGED callVars
    BY <2>1 DEF callVars, outputs
  <2>2. CASE CallerNext
    BY <2>2 DEF CallerNext, CallContinues, CallRefused, BaselineBegins,
                BaselinePoll, VersionBegins, BaselineGivesUp,
                VersionSendFails, VersionSend, VersionArrives,
                VersionTimesOut, Return, Fail, outputs
  <2> QED
    BY <2>1, <2>2, Frames
<1> QED
  BY <1>1, <1>2, <1>3, <1>4

-----------------------------------------------------------------------------
(* The inductive invariant.                                                *)
SensorInv ==
  /\ TypeInv /\ ThreadInv /\ QuietInv /\ VersionInv /\ BaselineInv
  /\ BaselineEndsClean /\ BaselineIsSound /\ VersionIsAnswered

(* Every step of the sensor keeps all of it.                               *)
LEMMA SensorInvariant == SensorSafety => []SensorInv
<1>1. SensorInit => SensorInv
  BY InitTypes
     DEF SensorInit, SensorInv, ThreadInv, QuietInv, VersionInv, BaselineInv,
         InBaseline, BaselineEndsClean, BaselineIsSound, VersionIsAnswered
<1>2. SensorInv /\ [SensorNext]_vars => SensorInv'
  BY TypeStep, ThreadInvStep, QuietInvStep, VersionStep, BaselineInvStep,
     CleanStep, SoundStep
     DEF SensorInv
<1> QED
  BY <1>1, <1>2, PTL DEF SensorSafety

(* A baseline that findBaseline() returns averages as many samples as it   *)
(* divides by, and only the first of them can be older than the call,      *)
(* whatever the thread, stop(), start() and earlier calls did.             *)
THEOREM SensorBaselineSound == SensorSafety => []BaselineIsSound
  BY SensorInvariant, PTL DEF SensorInv

(* However findBaseline() returns, the callback gets the samples again.    *)
THEOREM SensorBaselineEndsClean == SensorSafety => []BaselineEndsClean
  BY SensorInvariant, PTL DEF SensorInv

(* getFirmwareVersion() never returns true with the string it cleared.     *)
THEOREM SensorVersionAnswered == SensorSafety => []VersionIsAnswered
  BY SensorInvariant, PTL DEF SensorInv

(* The destructor joins before it closes: a thread has an open port.       *)
THEOREM SensorPortOutlivesThread == SensorSafety => []PortOutlivesThread
<1>1. SensorInv => PortOutlivesThread
  BY DEF SensorInv, TypeInv, SensorTypeOK, ObjectTypeOK, ThreadInv,
         PortOutlivesThread
<1> QED
  BY <1>1, SensorInvariant, PTL

(* An object that is gone has left a quiet sensor when no write failed,    *)
(* even when it was destroyed before its thread ran.                       *)
THEOREM SensorIsLeftQuiet == SensorSafety => []SensorLeftQuiet
<1>1. SensorInv => SensorLeftQuiet
  BY DEF SensorInv, ThreadInv, QuietInv, SensorLeftQuiet
<1> QED
  BY <1>1, SensorInvariant, PTL

(***************************************************************************)
(* Numbers: what proofs about the stream do instead of induction.          *)
(***************************************************************************)

LEMMA LeastMember ==
  ASSUME NEW T \in SUBSET Nat, T # {}
  PROVE  \E n \in T : \A m \in T : n <= m
<1> DEFINE R == {p \in Nat \X Nat : p[1] < p[2]}
<1>1. IsWellFoundedOn(R, Nat)
  BY NatLessThanWellFounded DEF OpToRel, R
<1>2. PICK n \in T : \A m \in T : ~ (<<m, n>> \in R)
  BY <1>1, WFMin
<1>3. ASSUME NEW m \in T PROVE n <= m
  <2>1. ~(m < n)
    BY <1>2 DEF R
  <2> QED
    BY <2>1
<1> QED
  BY <1>3

LEMMA Induct ==
  ASSUME NEW S \in SUBSET Nat, 0 \in S, \A n \in S : n + 1 \in S
  PROVE  S = Nat
<1> SUFFICES ASSUME Nat \ S # {} PROVE FALSE
  OBVIOUS
<1>1. PICK n \in Nat \ S : \A m \in Nat \ S : n <= m
  BY LeastMember
<1>2. n - 1 \in Nat /\ n - 1 \notin Nat \ S
  BY <1>1
<1> QED
  BY <1>1, <1>2

LEMMA MaxExists ==
  ASSUME NEW T \in SUBSET Nat, T # {}, NEW limit \in Nat, \A t \in T : t <= limit
  PROVE  Max(T) \in T /\ \A t \in T : t <= Max(T)
<1> DEFINE Above == {n \in Nat : \A t \in T : t <= n}
<1>1. PICK n \in Above : \A m \in Above : n <= m
  BY LeastMember
<1>2. n \in T
  <2> SUFFICES ASSUME n \notin T PROVE FALSE
    OBVIOUS
  <2>1. \A t \in T : t < n
    BY <1>1
  <2>2. n \in Nat /\ \A t \in T : t \in Nat
    BY <1>1
  <2>0. PICK t \in T : TRUE
    OBVIOUS
  <2>5. n - 1 \in Nat
    BY <2>0, <2>1, <2>2
  <2>6. \A s \in T : s <= n - 1
    BY <2>1, <2>2
  <2>3. n - 1 \in Above
    BY <2>5, <2>6
  <2>4. n <= n - 1
    BY <1>1, <2>3
  <2> QED
    BY <2>2, <2>4
<1>3. \A t \in T : n >= t
  BY <1>1
<1>4. \E x \in T : \A y \in T : x >= y
  BY <1>2, <1>3
<1>5. Max(T) \in T /\ \A y \in T : Max(T) >= y
  BY <1>4 DEF Max
<1> QED
  BY <1>5

LEMMA Glued ==
  ASSUME NEW S, NEW h \in Seq(S), Len(h) = 4, NEW p \in Seq(S)
  PROVE  /\ h \o p \in Seq(S) /\ Len(h \o p) = 4 + Len(p)
         /\ \A i \in 1 .. 4 : (h \o p)[i] = h[i]
         /\ \A i \in 1 .. Len(p) : (h \o p)[i + 4] = p[i]
<1> DEFINE n == Len(p)
           all == h \o p
<1>1. n \in Nat
  OBVIOUS
<1>2. /\ all \in Seq(S) /\ Len(all) = Len(h) + n
      /\ \A i \in 1 .. Len(h) + n : all[i] = IF i <= Len(h) THEN h[i] ELSE p[i - Len(h)]
  BY ConcatProperties, Zenon
<1> HIDE DEF n, all
<1>3. \A i \in 1 .. 4 : all[i] = h[i]
  BY <1>1, <1>2
<1>4. \A i \in 1 .. n : all[i + 4] = p[i]
  BY <1>1, <1>2
<1> QED
  BY <1>2, <1>3, <1>4 DEF n, all

LEMMA HeadShape ==
  ASSUME NEW c \in Byte, NEW n \in Byte
  PROVE  LET h == <<START, 0, c, n>> IN
           h \in Seq(Byte) /\ Len(h) = 4 /\ h[1] = START /\ h[3] = c /\ h[4] = n
<1>1. START \in Byte /\ 0 \in Byte
  BY DEF START, Byte
<1> QED
  BY <1>1

LEMMA PacketShape ==
  ASSUME NEW pkt \in Messages
  PROVE  /\ PacketBytes(pkt) \in Seq(Byte)
         /\ Len(PacketBytes(pkt)) = 4 + Len(pkt.data)
         /\ PacketBytes(pkt)[1] = START
         /\ PacketBytes(pkt)[3] = pkt.command
         /\ PacketBytes(pkt)[4] = Len(pkt.data)
         /\ \A i \in 1 .. Len(PacketBytes(pkt)) : PacketBytes(pkt)[i] \in Bytes
<1> DEFINE head == <<START, 0, pkt.command, Len(pkt.data)>>
           all == PacketBytes(pkt)
<1>1. /\ pkt.data \in Seq(Byte) /\ head \in Seq(Byte) /\ Len(head) = 4
      /\ head[1] = START /\ head[3] = pkt.command /\ head[4] = Len(pkt.data)
  <2>1. pkt.data \in Seq(Byte) /\ pkt.command \in Byte /\ Len(pkt.data) \in Byte
    BY MessageAssumption
  <2> QED
    BY <2>1, HeadShape
<1>2. all = head \o pkt.data
  BY DEF PacketBytes
<1>3. all \in Seq(Byte) /\ Len(all) = 4 + Len(pkt.data) /\ \A i \in 1 .. 4 : all[i] = head[i]
  BY <1>1, <1>2, Glued
<1>4. Range(all) \in {Range(PacketBytes(other)) : other \in Messages}
  OBVIOUS
<1>5. \A i \in 1 .. Len(all) : all[i] \in Range(all)
  BY <1>3 DEF Range
<1>6. \A i \in 1 .. Len(all) : all[i] \in Bytes
  BY <1>4, <1>5 DEF Bytes
<1> QED
  BY <1>1, <1>3, <1>6

LEMMA BytesBounded ==
  /\ Max(Bytes) \in Nat /\ \A b \in Bytes : b \in Nat /\ b <= Max(Bytes)
  /\ Max(Lengths) \in Nat /\ \A pkt \in Messages : Len(PacketBytes(pkt)) <= Max(Lengths)
<1>1. PICK pkt \in Messages : TRUE
  BY MessageAssumption
<1>2. Bytes \in SUBSET Byte
  <2> SUFFICES ASSUME NEW other \in Messages PROVE Range(PacketBytes(other)) \subseteq Byte
    BY DEF Bytes
  <2> QED
    BY PacketShape DEF Range
<1>3. START \in Bytes
  BY <1>1, PacketShape
<1>4. Bytes \in SUBSET Nat /\ Bytes # {} /\ \A b \in Bytes : b <= 255
  BY <1>2, <1>3 DEF Byte
<1>5. Max(Bytes) \in Bytes /\ \A b \in Bytes : b <= Max(Bytes)
  <2> HIDE DEF Bytes
  <2>1. Bytes \in SUBSET Nat /\ Bytes # {} /\ 255 \in Nat /\ \A b \in Bytes : b <= 255
    BY <1>4
  <2> QED
    BY <2>1, MaxExists, Zenon
<1>6. Lengths \in SUBSET Nat /\ \A n \in Lengths : n <= 259
  <2>1. ASSUME NEW other \in Messages
        PROVE  4 + Len(other.data) \in Nat /\ 4 + Len(other.data) <= 259
    <3> DEFINE n == Len(other.data)
    <3>1. n \in 0 .. 255
      BY MessageAssumption DEF Byte
    <3> HIDE DEF n
    <3>2. 4 + n \in Nat /\ 4 + n <= 259
      BY <3>1
    <3> QED
      BY <3>2 DEF n
  <2> QED
    BY <2>1 DEF Lengths
<1>7. \A other \in Messages : Len(PacketBytes(other)) \in Lengths
  BY PacketShape DEF Lengths
<1>8. Max(Lengths) \in Lengths /\ \A n \in Lengths : n <= Max(Lengths)
  <2>1. Lengths \in SUBSET Nat /\ Lengths # {} /\ 259 \in Nat /\ \A n \in Lengths : n <= 259
    BY <1>1, <1>6, <1>7
  <2> QED
    BY <2>1, MaxExists, Zenon
<1> QED
  BY <1>4, <1>5, <1>6, <1>7, <1>8

(***************************************************************************)
(* The receiver and the line.                                              *)
(***************************************************************************)

(* How much of the packet under way has left the line.                     *)
Gone == Len(PacketBytes(sent)) - Len(line)

LineInv ==
  /\ sent \in Messages /\ line \in Seq(Byte) /\ Gone \in Nat
  /\ \A i \in 1 .. Len(line) : line[i] = PacketBytes(sent)[Gone + i]

RecvInv ==
  /\ recv \in Seq(Bytes)
  /\ recv # <<>> => recv[1] = START /\ ~ Complete(recv)

NotForLong ==
  /\ recv # <<>> => astray < Len(recv)
  /\ recv = <<>> => line # <<>> /\ astray + Len(line) <= Max(Bytes) + Max(Lengths) + 2

AstrayInv ==
  /\ astray \in Nat
  /\ InStep => astray = 0
  /\ ~ InStep => NotForLong

ShapeInv == losses \in Nat /\ LineInv /\ RecvInv

FramingInv == ShapeInv /\ AstrayInv

SameSoFar ==
  /\ line = <<>> => (InStep <=> recv = <<>>)
  /\ line # <<>> =>
       (InStep <=> /\ Len(recv) = Gone
                   /\ \A i \in 1 .. Gone : recv[i] = PacketBytes(sent)[i])

LEMMA StepByStep == LineInv /\ RecvInv => SameSoFar
<1> SUFFICES ASSUME LineInv, RecvInv PROVE SameSoFar
  OBVIOUS
<1>1. CASE line = <<>>
  BY <1>1 DEF SameSoFar, InStep, Begun
<1>2. CASE line # <<>>
  <2> DEFINE all == PacketBytes(sent)
  <2>1. all \in Seq(Byte) /\ Gone \in Nat /\ Gone <= Len(all) /\ Begun = SubSeq(all, 1, Gone)
    BY <1>2, PacketShape DEF LineInv, Gone, Begun
  <2> HIDE DEF all
  <2>2. Begun \in Seq(Byte) /\ Len(Begun) = Gone /\ \A i \in 1 .. Gone : Begun[i] = all[i]
    BY <2>1
  <2>3. recv \in Seq(Bytes)
    BY DEF RecvInv
  <2>4. InStep <=> (Len(recv) = Gone /\ \A i \in 1 .. Gone : recv[i] = all[i])
    BY <2>2, <2>3, SeqEqual DEF InStep
  <2> QED
    BY <1>2, <2>4 DEF SameSoFar, all
<1> QED
  BY <1>1, <1>2

(* The longest that recv gets.                                             *)
LEMMA RecvBounded ==
  ASSUME RecvInv
  PROVE  Len(recv) \in Nat /\ Len(recv) <= Max(Bytes) + 3
<1>1. recv \in Seq(Bytes) /\ Len(recv) \in Nat
  BY DEF RecvInv
<1>2. CASE Len(recv) <= 3
  BY <1>1, <1>2, BytesBounded
<1>3. CASE Len(recv) > 3
  <2>1. recv[4] \in Bytes
    BY <1>1, <1>3
  <2>2. recv[4] \in Nat /\ recv[4] <= Max(Bytes) /\ Max(Bytes) \in Nat
    BY <2>1, BytesBounded
  <2>3. ~ Complete(recv)
    BY <1>1, <1>3 DEF RecvInv
  <2>4. Len(recv) < recv[4] + 4
    BY <1>1, <1>3, <2>2, <2>3 DEF Complete
  <2> QED
    BY <1>1, <2>2, <2>4
<1> QED
  BY <1>1, <1>2, <1>3

(* What a byte makes of recv.                                              *)
LEMMA ReadCases ==
  ASSUME LineInv, RecvInv, ByteRead
  PROVE  /\ Head(line) = PacketBytes(sent)[Gone + 1] /\ Head(line) \in Bytes
         /\ line # <<>> /\ line' = Tail(line) /\ sent' = sent /\ losses' = losses
         /\ astray' = IF InStep' \/ StartInside(sent) THEN 0 ELSE IF astray < LockTime THEN astray + 1 ELSE astray
         /\ \/ recv = <<>> /\ Head(line) # START /\ recv' = <<>>
            \/ /\ recv # <<>> \/ Head(line) = START
               /\ recv' = IF Complete(Append(recv, Head(line)))
                          THEN <<>> ELSE Append(recv, Head(line))
<1> DEFINE b == Head(line)
           p == Append(recv, b)
<1>1. /\ line # <<>> /\ line' = Tail(line) /\ sent' = sent /\ losses' = losses
      /\ astray' = IF InStep' \/ StartInside(sent) THEN 0 ELSE IF astray < LockTime THEN astray + 1 ELSE astray
      /\ recv' = ReadByte(b).recv
  BY DEF ByteRead
<1>2. b = line[1] /\ 1 \in 1 .. Len(line)
  BY <1>1 DEF LineInv
<1>3. b = PacketBytes(sent)[Gone + 1] /\ Gone + 1 \in 1 .. Len(PacketBytes(sent))
  <2>1. Len(PacketBytes(sent)) \in Nat /\ Len(line) \in Nat
    BY PacketShape DEF LineInv
  <2> QED
    BY <1>2, <2>1 DEF LineInv, Gone
<1>4. b \in Bytes
  BY <1>3, PacketShape DEF LineInv
<1>5. ReadByte(b) = CASE recv = <<>> /\ b # START -> [recv |-> <<>>, ready |-> <<>>]
                      [] Complete(p) -> [recv |-> <<>>, ready |-> p]
                      [] OTHER -> [recv |-> p, ready |-> <<>>]
  BY DEF ReadByte
<1>6. recv = <<>> => ~ Complete(p)
  <2>1. recv = <<>> => Len(p) = 1
    BY <1>4 DEF RecvInv
  <2> QED
    BY <2>1 DEF Complete
<1> HIDE DEF b, p
<1>7. \/ recv = <<>> /\ b # START /\ recv' = <<>>
      \/ (recv # <<>> \/ b = START) /\ recv' = IF Complete(p) THEN <<>> ELSE p
  BY <1>1, <1>5, <1>6
<1> QED
  BY <1>1, <1>3, <1>4, <1>7 DEF b, p

(* A line that loses its first byte, and one with a packet put on it.      *)
LEMMA LineStep ==
  ASSUME LineInv, line # <<>>, line' = Tail(line), sent' = sent
  PROVE  LineInv' /\ Gone' = Gone + 1 /\ Len(line') = Len(line) - 1
<1> DEFINE all == PacketBytes(sent)
<1>1. /\ line' \in Seq(Byte) /\ Len(line') = Len(line) - 1
      /\ \A i \in 1 .. Len(line') : line'[i] = line[i + 1]
  BY HeadTailProperties DEF LineInv
<1>2. Len(all) \in Nat /\ Len(line) \in Nat /\ PacketBytes(sent') = all
  BY PacketShape DEF LineInv
<1>3. Gone' = Gone + 1 /\ Gone \in Nat
  BY <1>1, <1>2 DEF Gone, LineInv
<1>4. \A i \in 1 .. Len(line') : line'[i] = all[Gone' + i]
  BY <1>1, <1>2, <1>3 DEF LineInv
<1> QED
  BY <1>1, <1>2, <1>3, <1>4 DEF LineInv

LineFull == sent \in Messages /\ line = PacketBytes(sent)

LEMMA LineFresh == LineFull => LineInv /\ Gone = 0 /\ line # <<>>
<1> SUFFICES ASSUME sent \in Messages, line = PacketBytes(sent)
             PROVE  LineInv /\ Gone = 0 /\ line # <<>>
  BY DEF LineFull
<1>1. line \in Seq(Byte) /\ Len(line) \in Nat /\ Len(line) # 0
  <2>1. Len(sent.data) \in Nat
    BY MessageAssumption
  <2>2. line \in Seq(Byte) /\ Len(line) = 4 + Len(sent.data)
    BY PacketShape
  <2> QED
    BY <2>1, <2>2
<1>2. Gone = 0
  BY <1>1 DEF Gone
<1> QED
  BY <1>1, <1>2 DEF LineInv

LEMMA LineFreshNext == LineFull' => (LineInv /\ Gone = 0 /\ line # <<>>)'
BY LineFresh, PTL

LEMMA StepByStepNext == LineInv' /\ RecvInv' => SameSoFar'
BY StepByStep, PTL

LEMMA FramingInit == StreamInit => FramingInv /\ InStep
<1> SUFFICES ASSUME StreamInit PROVE FramingInv /\ InStep
  OBVIOUS
<1>1. LineInv /\ Gone = 0 /\ line # <<>>
  BY LineFresh DEF StreamInit, LineFull
<1>2. RecvInv /\ recv = <<>> /\ astray = 0
  BY DEF StreamInit, RecvInv
<1>3. InStep
  BY <1>1, <1>2, StepByStep DEF SameSoFar
<1>4. losses \in Nat
  BY DEF StreamInit
<1> QED
  BY <1>1, <1>2, <1>3, <1>4 DEF FramingInv, ShapeInv, AstrayInv

LEMMA SendShape ==
  ASSUME ShapeInv, SendPacket
  PROVE  ShapeInv' /\ (InStep <=> recv = <<>>) /\ (InStep' <=> recv = <<>>)
<1> USE DEF ShapeInv
<1>1. /\ line = <<>> /\ recv' = recv /\ losses' = losses
      /\ sent' \in Messages /\ line' = PacketBytes(sent')
  BY DEF SendPacket
<1>2. LineInv' /\ Gone' = 0 /\ line' # <<>>
  BY <1>1, LineFreshNext DEF LineFull
<1>3. RecvInv'
  BY <1>1 DEF RecvInv, Complete
<1>4. InStep <=> recv = <<>>
  BY <1>1, StepByStep DEF SameSoFar
<1>5. InStep' <=> recv = <<>>
  <2>1. InStep' <=> (Len(recv) = 0 /\ \A i \in 1 .. 0 : recv[i] = PacketBytes(sent')[i])
    BY <1>1, <1>2, <1>3, StepByStepNext DEF SameSoFar
  <2>2. recv \in Seq(Bytes)
    BY DEF RecvInv
  <2> QED
    BY <2>1, <2>2
<1> QED
  BY <1>1, <1>2, <1>3, <1>4, <1>5

LEMMA SendStep ==
  ASSUME FramingInv, SendPacket
  PROVE  FramingInv' /\ (InStep => InStep')
<1>1. ShapeInv' /\ (InStep <=> recv = <<>>) /\ (InStep' <=> recv = <<>>)
  BY SendShape DEF FramingInv
<1>2. recv' = recv /\ astray' = astray
  BY DEF SendPacket
<1>3. (InStep => astray' = 0) /\ astray' \in Nat
  BY <1>2 DEF FramingInv, AstrayInv
<1>4. ~ InStep => NotForLong /\ recv # <<>>
  BY <1>1 DEF FramingInv, AstrayInv
<1>5. ~ InStep => NotForLong'
  BY <1>2, <1>4 DEF NotForLong
<1>6. AstrayInv'
  BY <1>1, <1>3, <1>5 DEF AstrayInv
<1> QED
  BY <1>1, <1>6 DEF FramingInv

(* What has been read, with the byte that is.                              *)
WithNext == Append(recv, Head(line))

ReadWhole ==
  /\ Len(WithNext) = Gone + 1 /\ \A i \in 1 .. Gone + 1 : WithNext[i] = PacketBytes(sent)[i]
  /\ Complete(WithNext) <=> line' = <<>>
  /\ recv' = IF Complete(WithNext) THEN <<>> ELSE WithNext

(* Reading never goes out of step.                                         *)
LEMMA ReadShape ==
  ASSUME ShapeInv, ByteRead
  PROVE  /\ ShapeInv' /\ Gone' = Gone + 1 /\ Len(line') = Len(line) - 1
         /\ InStep => InStep' /\ ReadWhole
<1> DEFINE b == Head(line)
           p == Append(recv, b)
           all == PacketBytes(sent)
<1> USE DEF ShapeInv
<1>1. /\ b = all[Gone + 1] /\ b \in Bytes /\ line # <<>> /\ line' = Tail(line) /\ sent' = sent
      /\ \/ recv = <<>> /\ b # START /\ recv' = <<>>
         \/ (recv # <<>> \/ b = START) /\ recv' = IF Complete(p) THEN <<>> ELSE p
      /\ losses' = losses
  BY ReadCases
<1>2. LineInv' /\ Gone' = Gone + 1 /\ Len(line') = Len(line) - 1
  BY <1>1, LineStep
<1>3. /\ p \in Seq(Bytes) /\ Len(p) = Len(recv) + 1 /\ p[Len(recv) + 1] = b
      /\ \A i \in 1 .. Len(recv) : p[i] = recv[i]
      /\ recv \in Seq(Bytes) /\ Len(recv) \in Nat
  BY <1>1, AppendProperties DEF RecvInv
<1>4. /\ all \in Seq(Byte) /\ Len(all) = 4 + Len(sent.data) /\ all[1] = START
       /\ all[4] = Len(sent.data)
  BY PacketShape DEF LineInv
<1>5. Len(sent.data) \in Nat
  BY MessageAssumption DEF LineInv
<1>6. all[1] = START /\ Len(all) = 4 + all[4] /\ all[4] \in Nat
  BY <1>4, <1>5
<1>7. /\ Len(all) \in Nat /\ Len(all) >= 4 /\ Len(line) \in Nat /\ Len(line) # 0
      /\ Gone \in Nat /\ Gone = Len(all) - Len(line) /\ Len(line') \in Nat
  <2>1. Len(all) \in Nat /\ Len(all) >= 4
    BY <1>6
  <2>2. Len(line) \in Nat /\ Len(line) # 0 /\ Len(line') \in Nat /\ Gone \in Nat
    BY <1>1, <1>2 DEF LineInv
  <2> QED
    BY <2>1, <2>2 DEF Gone
<1> HIDE DEF b, p, all
<1>8. RecvInv'
  <2>1. CASE recv' = <<>>
    BY <2>1 DEF RecvInv
  <2>2. CASE recv' = p /\ ~ Complete(p) /\ (recv # <<>> \/ b = START)
    <3>1. p[1] = START
      BY <1>3, <2>2 DEF RecvInv
    <3> QED
      BY <1>3, <2>2, <3>1 DEF RecvInv, Complete
  <2> QED
    BY <1>1, <2>1, <2>2
<1>9. ASSUME InStep PROVE InStep' /\ ReadWhole
  <2>1. Len(recv) = Gone /\ \A i \in 1 .. Gone : recv[i] = all[i]
    BY <1>1, <1>9, StepByStep DEF SameSoFar, all
  <2>2. /\ Len(p) = Gone + 1 /\ \A i \in 1 .. Gone + 1 : p[i] = all[i]
    <3>1. Len(p) = Gone + 1 /\ p[Gone + 1] = all[Gone + 1]
      BY <1>1, <1>3, <2>1
    <3>2. \A i \in 1 .. Gone : p[i] = all[i]
      BY <1>3, <2>1
    <3>3. \A i \in 1 .. Gone + 1 : i \in 1 .. Gone \/ i = Gone + 1
      BY <1>7
    <3> QED
      BY <3>1, <3>2, <3>3
  <2>3. recv' = IF Complete(p) THEN <<>> ELSE p
    <3>1. CASE recv = <<>>
      <4>1. Gone = 0
        BY <1>3, <2>1, <3>1
      <4>2. b = START
        BY <1>1, <1>6, <4>1
      <4> QED
        BY <1>1, <4>2
    <3> QED
      BY <1>1, <3>1
  <2>4. Complete(p) <=> line' = <<>>
    <3>1. line' = <<>> <=> Len(line') = 0
      BY <1>2 DEF LineInv
    <3>2. Complete(p) <=> Gone + 1 > 3 /\ Gone + 1 >= Len(all)
      <4>1. Gone + 1 > 3 => p[4] = all[4]
        BY <1>7, <2>2
      <4>2. Gone \in Nat /\ Len(p) = Gone + 1
        BY <1>7, <2>2
      <4> QED
        BY <1>6, <4>1, <4>2 DEF Complete
    <3>3. Len(line') = Len(all) - (Gone + 1)
      BY <1>2, <1>7
    <3>4. Len(all) >= 4
      BY <1>7
    <3> QED
      BY <1>7, <3>1, <3>2, <3>3, <3>4
  <2>7. ReadWhole
    BY <2>2, <2>3, <2>4 DEF ReadWhole, WithNext, b, p, all
  <2>5. CASE line' = <<>>
    BY <1>2, <1>8, <2>3, <2>4, <2>5, <2>7, StepByStepNext DEF SameSoFar
  <2>6. CASE line' # <<>>
    <3>1. Len(recv') = Gone' /\ \A i \in 1 .. Gone' : recv'[i] = PacketBytes(sent')[i]
      BY <1>1, <1>2, <2>2, <2>3, <2>4, <2>6 DEF all
    <3> QED
      BY <1>2, <1>8, <2>6, <2>7, <3>1, StepByStepNext DEF SameSoFar
  <2> QED
    BY <2>5, <2>6
<1> QED
  BY <1>1, <1>2, <1>8, <1>9

(* Reading finds the step again.                                           *)
LEMMA ReadStep ==
  ASSUME FramingInv, ByteRead
  PROVE  FramingInv' /\ (InStep => InStep') /\ astray' < LockTime
<1> DEFINE b == Head(line)
           p == Append(recv, b)
           all == PacketBytes(sent)
<1> USE DEF FramingInv, ShapeInv
<1>1. /\ b = all[Gone + 1] /\ b \in Bytes /\ line # <<>> /\ line' = Tail(line) /\ sent' = sent
      /\ astray' = IF InStep' \/ StartInside(sent) THEN 0 ELSE IF astray < LockTime THEN astray + 1 ELSE astray
      /\ \/ recv = <<>> /\ b # START /\ recv' = <<>>
         \/ (recv # <<>> \/ b = START) /\ recv' = IF Complete(p) THEN <<>> ELSE p
  BY ReadCases
<1>2. ShapeInv' /\ LineInv' /\ RecvInv' /\ Len(line') = Len(line) - 1
  BY ReadShape
<1>3. /\ p \in Seq(Bytes) /\ Len(p) = Len(recv) + 1 /\ recv \in Seq(Bytes) /\ Len(recv) \in Nat
  BY <1>1, AppendProperties DEF RecvInv
<1>4. Len(all) \in Nat /\ Len(all) <= Max(Lengths)
  BY PacketShape, BytesBounded DEF LineInv
<1>5. /\ Len(all) \in Nat /\ Len(line) \in Nat /\ Len(line) # 0
      /\ Gone \in Nat /\ Gone = Len(all) - Len(line) /\ Len(line') \in Nat
      /\ Len(all) <= Max(Lengths)
  <2>1. Len(line) \in Nat /\ Len(line) # 0 /\ Len(line') \in Nat /\ Gone \in Nat
    BY <1>1, <1>2 DEF LineInv
  <2> QED
    BY <1>4, <2>1 DEF Gone
<1>6. InStep => InStep'
  BY ReadShape
<1> HIDE DEF b, p, all
<1>7. ASSUME InStep' PROVE AstrayInv' /\ astray' < LockTime
  <2>1. astray' = 0
    BY <1>1, <1>7, Zenon
  <2>2. astray' < LockTime /\ astray' \in Nat
    BY <2>1, BytesBounded DEF LockTime
  <2> QED
    BY <1>7, <2>1, <2>2 DEF AstrayInv
<1>9. ASSUME ~ InStep', StartInside(sent) PROVE AstrayInv' /\ astray' < LockTime
  <2>1. astray' = 0
    BY <1>1, <1>9, Zenon
  <2>2. astray' < LockTime /\ astray' \in Nat
    BY <2>1, BytesBounded DEF LockTime
  <2>3. recv' = <<>> => line' # <<>>
    BY <1>2, <1>9, StepByStepNext DEF SameSoFar
  <2>4. recv' # <<>> => Len(recv') > 0
    BY <1>2 DEF RecvInv
  <2>5. Len(line') <= Max(Bytes) + Max(Lengths) + 2
    BY <1>2, <1>5, BytesBounded
  <2>6. NotForLong'
    BY <1>5, <2>1, <2>3, <2>4, <2>5, BytesBounded DEF NotForLong
  <2> QED
    BY <1>9, <2>2, <2>6 DEF AstrayInv
<1>8. ASSUME ~ InStep', ~ StartInside(sent) PROVE AstrayInv' /\ astray' < LockTime
  <2> DEFINE m == Max(Bytes)
             n == Max(Lengths)
  <2>1. /\ ~ InStep /\ astray \in Nat /\ m \in Nat /\ n \in Nat
        /\ astray' = IF astray < LockTime THEN astray + 1 ELSE astray
        /\ LockTime = 4 + m + n
    BY <1>1, <1>6, <1>8, BytesBounded DEF AstrayInv, LockTime
  <2>2. recv' = <<>> => line' # <<>>
    BY <1>2, <1>8, StepByStepNext DEF SameSoFar
  <2>3. ~ InStep /\ recv # <<>> => astray < Len(recv) /\ Len(recv) <= m + 3
    BY RecvBounded DEF AstrayInv, NotForLong
  <2>4. ~ InStep /\ recv = <<>> => astray + Len(line) <= m + n + 2
    BY DEF AstrayInv, NotForLong
  <2>5. recv = <<>> => b # START
    <3> SUFFICES ASSUME recv = <<>>, b = START PROVE FALSE
      OBVIOUS
    <3>1. Gone + 1 \in 1 .. Len(all)
      BY <1>5
    <3>2. Gone + 1 \notin 2 .. Len(all)
      BY <1>1, <1>8, <3>1 DEF StartInside, LineInv, all
    <3>3. Gone = 0 /\ Len(recv) = 0
      BY <1>5, <3>1, <3>2
    <3>4. InStep
      BY <1>1, <3>3, StepByStep DEF SameSoFar
    <3> QED
      BY <2>1, <3>4
  <2> HIDE DEF m, n
  <2>6. CASE recv = <<>>
    <3>1. recv' = <<>> /\ line' # <<>> /\ Len(line') # 0
      <4>1. recv' = <<>>
        BY <1>1, <2>5, <2>6
      <4>2. line' # <<>> /\ line' \in Seq(Byte)
        BY <1>2, <2>2, <4>1 DEF LineInv
      <4> QED
        BY <4>1, <4>2
    <3>2. astray < LockTime /\ astray' = astray + 1 /\ astray' + Len(line') <= m + n + 2
      BY <1>2, <1>5, <2>1, <2>4, <2>6
    <3>3. astray' < LockTime
      BY <1>5, <2>1, <3>1, <3>2
    <3>4. NotForLong' /\ astray' \in Nat
      BY <2>1, <3>1, <3>2 DEF NotForLong, m, n
    <3> QED
      BY <1>8, <3>3, <3>4 DEF AstrayInv
  <2>7. CASE recv # <<>>
    <3>1. astray < Len(recv) /\ Len(recv) <= m + 3
      BY <2>1, <2>3, <2>7
    <3>2. astray' = astray + 1 /\ astray' <= m + 3 /\ astray' < LockTime
      BY <1>3, <2>1, <3>1
    <3>3. CASE recv' = p
      <4>1. NotForLong' /\ astray' \in Nat
        BY <1>3, <2>1, <3>1, <3>2, <3>3 DEF NotForLong
      <4> QED
        BY <1>8, <3>2, <4>1 DEF AstrayInv
    <3>4. CASE recv' = <<>>
      <4>1. Len(line') <= n - 1
        BY <1>2, <1>5, <2>1 DEF n
      <4>2. astray' + Len(line') <= m + n + 2
        BY <1>5, <2>1, <3>2, <4>1
      <4> QED
        <5>1. NotForLong' /\ astray' \in Nat
          BY <2>1, <2>2, <3>2, <3>4, <4>2 DEF NotForLong, m, n
        <5> QED
          BY <1>8, <3>2, <5>1 DEF AstrayInv
    <3> QED
      BY <1>1, <2>7, <3>3, <3>4
  <2> QED
    BY <2>6, <2>7
<1> QED
  BY <1>2, <1>6, <1>7, <1>8, <1>9

(* A byte lost, or a thread begun anew: the count begins anew too.         *)
LEMMA LossShape ==
  ASSUME ShapeInv, ByteLost \/ ThreadRestarts
  PROVE  ShapeInv' /\ losses' # losses
<1> USE DEF ShapeInv
<1>1. /\ losses < MaxLosses /\ losses' = losses + 1 /\ sent' = sent
      /\ \/ line # <<>> /\ line' = Tail(line) /\ recv' = recv
         \/ line' = line /\ recv' = <<>>
  BY DEF ByteLost, ThreadRestarts, Loss
<1>2. LineInv'
  <2>1. CASE line # <<>> /\ line' = Tail(line)
    BY <1>1, <2>1, LineStep
  <2>2. CASE line' = line
    BY <1>1, <2>2 DEF LineInv, Gone
  <2> QED
    BY <1>1, <2>1, <2>2
<1>3. RecvInv'
  <2>1. CASE recv' = <<>>
    BY <2>1 DEF RecvInv
  <2>2. CASE recv' = recv
    BY <2>2 DEF RecvInv, Complete
  <2> QED
    BY <1>1, <2>1, <2>2
<1>4. losses' # losses /\ losses' \in Nat
  BY <1>1
<1> QED
  BY <1>2, <1>3, <1>4

LEMMA LossStep ==
  ASSUME FramingInv, ByteLost \/ ThreadRestarts
  PROVE  FramingInv' /\ losses' # losses /\ astray' = 0
<1>1. astray' = 0
  BY DEF ByteLost, ThreadRestarts, Loss
<1>2. ShapeInv' /\ LineInv' /\ RecvInv' /\ losses' # losses
  BY LossShape DEF FramingInv, ShapeInv
<1>4. recv' # <<>> => Len(recv') > 0
  BY <1>2 DEF RecvInv
<1>5. Len(line') <= Max(Bytes) + Max(Lengths) + 2
  <2>1. Len(line') <= Len(PacketBytes(sent')) /\ Len(line') \in Nat
    <3>1. Len(PacketBytes(sent')) \in Nat
      BY <1>2, PacketShape DEF LineInv
    <3> QED
      BY <1>2, <3>1 DEF LineInv, Gone
  <2> QED
    BY <1>2, <2>1, BytesBounded, PacketShape DEF LineInv
<1>6. ~ InStep' => NotForLong'
  <2>1. recv' = <<>> /\ line' = <<>> => InStep'
    BY <1>2, StepByStepNext DEF SameSoFar
  <2>2. Len(line') \in Nat
    BY <1>2 DEF LineInv
  <2> QED
    BY <1>1, <1>4, <1>5, <2>1, <2>2 DEF NotForLong
<1>7. AstrayInv'
  BY <1>1, <1>6 DEF AstrayInv
<1> QED
  BY <1>1, <1>2, <1>7 DEF FramingInv

LEMMA AstrayBounded ==
  ASSUME FramingInv
  PROVE  astray < LockTime
<1>1. /\ astray \in Nat /\ Max(Bytes) \in Nat /\ Max(Lengths) \in Nat
      /\ InStep => astray = 0
      /\ ~ InStep => NotForLong
      /\ LockTime = 4 + Max(Bytes) + Max(Lengths)
  BY BytesBounded DEF FramingInv, AstrayInv, LockTime
<1>2. Len(recv) \in Nat /\ Len(recv) <= Max(Bytes) + 3
  BY RecvBounded DEF FramingInv, ShapeInv
<1>3. Len(line) \in Nat
  BY DEF FramingInv, ShapeInv, LineInv
<1>4. CASE InStep
  BY <1>1, <1>4
<1>5. CASE ~ InStep
  BY <1>1, <1>2, <1>3, <1>5 DEF NotForLong
<1> QED
  BY <1>4, <1>5

NotYetLocked == astray < LockTime

LEMMA AstrayBoundedNext == FramingInv' => astray' < LockTime
<1>1. FramingInv => NotYetLocked
  BY AstrayBounded DEF NotYetLocked
<1>2. FramingInv' => NotYetLocked'
  BY <1>1, PTL
<1> QED
  BY <1>2 DEF NotYetLocked

LEMMA IdleShape ==
  ASSUME ShapeInv, UNCHANGED streamVars
  PROVE  ShapeInv' /\ (InStep' <=> InStep)
<1>1. sent' = sent /\ line' = line /\ recv' = recv /\ losses' = losses
  BY DEF streamVars
<1>2. InStep' <=> InStep
  BY <1>1 DEF InStep, Begun
<1> QED
  BY <1>1, <1>2 DEF ShapeInv, LineInv, Gone, RecvInv, Complete

(* No step but a loss takes the receiver out of step.                      *)
LEMMA FramingStep ==
  ASSUME FramingInv, [StreamNext]_<<streamVars, bufferVars>>
  PROVE  FramingInv' /\ (InStep /\ UNCHANGED losses => InStep')
<1>1. CASE SendPacket
  BY <1>1, SendStep
<1>2. CASE ByteRead
  BY <1>2, ReadStep
<1>3. CASE ByteLost \/ ThreadRestarts
  BY <1>3, LossStep
<1>4. CASE UNCHANGED streamVars
  <2>1. ShapeInv' /\ (InStep' <=> InStep)
    BY <1>4, IdleShape DEF FramingInv
  <2>2. line' = line /\ recv' = recv /\ astray' = astray
    BY <1>4 DEF streamVars
  <2>3. AstrayInv'
    BY <2>1, <2>2 DEF FramingInv, AstrayInv, NotForLong
  <2> QED
    BY <2>1, <2>3 DEF FramingInv
<1> QED
  BY <1>1, <1>2, <1>3, <1>4 DEF StreamNext, Consume

(* Without a loss the receiver stays in step, whatever bytes the packets   *)
(* carry, start bytes among them; after one it is back in step as soon as  *)
(* LockTime bytes of packets without a start byte inside have come: the    *)
(* search for a start byte and the length byte are enough for that, though *)
(* no checksum is (RobotiqTactileSensor.cpp:138-171).                      *)
THEOREM StreamRealigns == StreamSpec => Realigns
<1>1. StreamInit => FramingInv
  BY FramingInit
<1>2. FramingInv /\ [StreamNext]_<<streamVars, bufferVars>> =>
        FramingInv' /\ (InStep /\ UNCHANGED losses => InStep')
  BY FramingStep
<1>3. FramingInv' => astray' < LockTime
  BY AstrayBoundedNext
<1>4. FramingInv /\ FramingInv' /\ [StreamNext]_<<streamVars, bufferVars>> =>
        [astray' < LockTime /\ (InStep /\ UNCHANGED losses => InStep')]_<<streamVars, bufferVars>>
  BY <1>2, <1>3
<1> QED
  BY <1>1, <1>2, <1>4, PTL DEF StreamSpec, Realigns

(***************************************************************************)
(* Recursion over positions, from the last and from the first.             *)
(***************************************************************************)

(* What is at i depends on what is further on only.                        *)
LooksDown(X, n, step) ==
  /\ step \in [(1 .. n) \X [1 .. n -> X] -> X]
  /\ \A i \in 1 .. n : \A f, g \in [1 .. n -> X] :
       (\A j \in i + 1 .. n : f[j] = g[j]) => step[<<i, f>>] = step[<<i, g>>]

Solution(X, n, step) == {f \in [1 .. n -> X] : \A i \in 1 .. n : f[i] = step[<<i, f>>]}

LEMMA RecursionDown ==
  ASSUME NEW X, NEW any \in X, NEW n \in Nat, NEW step, LooksDown(X, n, step)
  PROVE  Solution(X, n, step) # {}
<1> DEFINE Good(k) == \E f \in [1 .. n -> X] : \A i \in n - k + 1 .. n : f[i] = step[<<i, f>>]
           S == {k \in Nat : k <= n => Good(k)}
<1>1. 0 \in S
  <2>1. [i \in 1 .. n |-> any] \in [1 .. n -> X]
    OBVIOUS
  <2>2. n - 0 + 1 .. n = {}
    OBVIOUS
  <2> QED
    BY <2>1, <2>2
<1>2. ASSUME NEW k \in S, k + 1 <= n PROVE Good(k + 1)
  <2>1. k \in Nat /\ Good(k)
    <3>1. k \in Nat /\ (k <= n => Good(k))
      OBVIOUS
    <3> HIDE DEF Good
    <3>2. k <= n
      BY <1>2, <3>1
    <3> QED
      BY <3>1, <3>2
  <2>2. PICK f \in [1 .. n -> X] : \A i \in n - k + 1 .. n : f[i] = step[<<i, f>>]
    BY <2>1
  <2> DEFINE m == n - k
             g == [f EXCEPT ![m] = step[<<m, f>>]]
  <2>3. m \in 1 .. n /\ n - (k + 1) + 1 = m
    BY <1>2, <2>1
  <2>4. step[<<m, f>>] \in X
    BY <2>3 DEF LooksDown
  <2>5. g \in [1 .. n -> X] /\ g[m] = step[<<m, f>>] /\ \A i \in m + 1 .. n : g[i] = f[i]
    BY <2>3, <2>4
  <2> HIDE DEF g, m
  <2>6. ASSUME NEW i \in m .. n PROVE g[i] = step[<<i, g>>]
    <3>1. i \in 1 .. n /\ \A j \in i + 1 .. n : f[j] = g[j]
      BY <2>3, <2>5
    <3>2. step[<<i, f>>] = step[<<i, g>>]
      BY <2>5, <3>1 DEF LooksDown
    <3>3. CASE i = m
      BY <2>5, <3>2, <3>3
    <3>4. CASE i \in m + 1 .. n
      BY <2>2, <2>5, <3>2, <3>4 DEF m
    <3> QED
      BY <2>3, <3>3, <3>4
  <2> QED
    BY <2>3, <2>5, <2>6
<1> HIDE DEF Good
<1>3. \A k \in S : k + 1 \in S
  BY <1>2
<1>4. S = Nat
  BY <1>1, <1>3, Induct
<1>5. n \in S /\ n <= n
  BY <1>4
<1>6. Good(n)
  BY <1>5
<1>7. \E f \in [1 .. n -> X] : \A i \in 1 .. n : f[i] = step[<<i, f>>]
  <2>1. n - n + 1 = 1
    OBVIOUS
  <2> QED
    BY <1>6, <2>1 DEF Good
<1> QED
  BY <1>7 DEF Solution

Running(X, n, base, step) ==
  {f \in [0 .. n -> X] : f[0] = base /\ \A i \in 1 .. n : f[i] = step[<<i, f[i - 1]>>]}

LEMMA RecursionUp ==
  ASSUME NEW X, NEW base \in X, NEW n \in Nat, NEW step \in [(1 .. n) \X X -> X]
  PROVE  Running(X, n, base, step) # {}
<1> DEFINE Good(k) == \E f \in [0 .. n -> X] :
                        f[0] = base /\ \A i \in 1 .. k : f[i] = step[<<i, f[i - 1]>>]
           S == {k \in Nat : k <= n => Good(k)}
<1>1. 0 \in S
  <2> DEFINE f == [i \in 0 .. n |-> base]
  <2>1. f \in [0 .. n -> X] /\ f[0] = base
    OBVIOUS
  <2> HIDE DEF f
  <2>2. \A i \in 1 .. 0 : f[i] = step[<<i, f[i - 1]>>]
    OBVIOUS
  <2>3. Good(0)
    BY <2>1, <2>2
  <2> QED
    BY <2>3
<1>2. ASSUME NEW k \in S, k + 1 <= n PROVE Good(k + 1)
  <2>1. k \in Nat /\ Good(k)
    <3>1. k \in Nat /\ (k <= n => Good(k))
      OBVIOUS
    <3> HIDE DEF Good
    <3>2. k <= n
      BY <1>2, <3>1
    <3> QED
      BY <3>1, <3>2
  <2>2. PICK f \in [0 .. n -> X] : f[0] = base /\ \A i \in 1 .. k : f[i] = step[<<i, f[i - 1]>>]
    BY <2>1
  <2> DEFINE g == [f EXCEPT ![k + 1] = step[<<k + 1, f[k]>>]]
  <2>3. k + 1 \in 1 .. n /\ k \in 0 .. n
    BY <1>2, <2>1
  <2>4. step[<<k + 1, f[k]>>] \in X
    BY <2>3
  <2>5. /\ g \in [0 .. n -> X] /\ g[k + 1] = step[<<k + 1, f[k]>>]
        /\ \A i \in 0 .. k : g[i] = f[i]
    BY <2>1, <2>3, <2>4
  <2> HIDE DEF g
  <2>6. ASSUME NEW i \in 1 .. k + 1 PROVE g[i] = step[<<i, g[i - 1]>>]
    <3>1. i - 1 \in 0 .. k /\ g[i - 1] = f[i - 1]
      BY <2>1, <2>5
    <3>2. CASE i = k + 1
      BY <2>1, <2>5, <3>1, <3>2
    <3>3. CASE i \in 1 .. k
      BY <2>1, <2>2, <2>5, <3>1, <3>3
    <3> QED
      BY <2>1, <3>2, <3>3
  <2>7. g[0] = base
    BY <2>1, <2>2, <2>5
  <2> QED
    BY <2>5, <2>6, <2>7
<1> HIDE DEF Good
<1>3. \A k \in S : k + 1 \in S
  BY <1>2
<1>4. S = Nat
  BY <1>1, <1>3, Induct
<1>5. n \in S /\ n <= n
  BY <1>4
<1>6. Good(n)
  BY <1>5
<1> QED
  BY <1>6 DEF Good, Running

(***************************************************************************)
(* parseSensors(): the parts of whatever bytes there are.                  *)
(***************************************************************************)

PartType == [type : DOMAIN Field, finger : Finger, values : Seq(Seq(Byte))]

LEMMA FieldShape ==
  /\ \A t \in DOMAIN Field :
       Field[t].code \in {1, 2, 3, 4, 6, 7} /\ Field[t].width \in {2, 8} /\ Field[t].count \in Nat
  /\ \A t, u \in DOMAIN Field : Field[t].code = Field[u].code => t = u
<1>1. DOMAIN Field = {"static", "dynamic", "accelerometer", "gyroscope", "temperature", "timestamp"}
  BY DEF Field
<1>2. /\ Field["static"].code = 1 /\ Field["dynamic"].code = 2
      /\ Field["accelerometer"].code = 3 /\ Field["gyroscope"].code = 4
      /\ Field["temperature"].code = 6 /\ Field["timestamp"].code = 7
  BY DEF Field
<1>3. /\ Field["static"].width = 2 /\ Field["dynamic"].width = 2
      /\ Field["accelerometer"].width = 2 /\ Field["gyroscope"].width = 2
      /\ Field["temperature"].width = 2 /\ Field["timestamp"].width = 8
  BY DEF Field
<1>4. /\ Field["static"].count = StaticCount /\ Field["dynamic"].count = 1
      /\ Field["accelerometer"].count = 3 /\ Field["gyroscope"].count = 3
      /\ Field["temperature"].count = 1 /\ Field["timestamp"].count = 1
  BY DEF Field
<1> QED
  BY <1>1, <1>2, <1>3, <1>4, MessageAssumption

(* The values there are of one field.                                      *)
LEMMA ExtractedType ==
  ASSUME NEW d \in Seq(Byte), NEW i \in 1 .. Len(d), NEW t \in DOMAIN Field
  PROVE  LET values == Extracted(d, i, Field[t]) IN
           /\ values \in Seq(Seq(Byte))
           /\ i + 1 + Len(values) * Field[t].width \in i + 1 .. Len(d) + 1
<1> DEFINE w == Field[t].width
           c == Field[t].count
           there == (Len(d) - i) \div w
           n == IF there < c THEN there ELSE c
<1>1. w \in {2, 8} /\ c \in Nat /\ Len(d) \in Nat /\ i \in Nat /\ i <= Len(d)
  BY FieldShape
<1>2. there \in Nat /\ there * w <= Len(d) - i
  <2> HIDE DEF w
  <2>1. CASE w = 2
    BY <1>1, <2>1
  <2>2. CASE w = 8
    BY <1>1, <2>2
  <2> QED
    BY <1>1, <2>1, <2>2
<1>3. n \in Nat /\ n * w <= Len(d) - i /\ n * w \in Nat
  <2> HIDE DEF w, c, there
  <2>1. CASE w = 2
    BY <1>1, <1>2, <2>1
  <2>2. CASE w = 8
    BY <1>1, <1>2, <2>2
  <2> QED
    BY <1>1, <2>1, <2>2
<1>4. Extracted(d, i, Field[t]) = [k \in 1 .. n |-> SubSeq(d, i + 1 + (k - 1) * w, i + k * w)]
  BY DEF Extracted
<1> HIDE DEF n, w
<1>5. ASSUME NEW k \in 1 .. n
      PROVE  SubSeq(d, i + 1 + (k - 1) * w, i + k * w) \in Seq(Byte)
  <2>1. /\ i + 1 + (k - 1) * w \in Int /\ i + k * w \in Int
        /\ 1 <= i + 1 + (k - 1) * w /\ i + k * w <= Len(d)
    <3>1. CASE w = 2
      BY <1>1, <1>3, <3>1
    <3>2. CASE w = 8
      BY <1>1, <1>3, <3>2
    <3> QED
      BY <1>1, <3>1, <3>2
  <2> DEFINE from == i + 1 + (k - 1) * w
             to == i + k * w
  <2> HIDE DEF from, to
  <2>2. \A j \in from .. to : d[j] \in Byte
    BY <2>1 DEF from, to
  <2>3. SubSeq(d, from, to) \in Seq(Byte)
    BY <2>1, <2>2, SubSeqProperties DEF from, to
  <2> QED
    BY <2>3 DEF from, to
<1>6. /\ Extracted(d, i, Field[t]) \in Seq(Seq(Byte))
      /\ Len(Extracted(d, i, Field[t])) = n
  <2> DEFINE value(k) == SubSeq(d, i + 1 + (k - 1) * w, i + k * w)
  <2>1. \A k \in 1 .. n : value(k) \in Seq(Byte)
    BY <1>5
  <2>2. Extracted(d, i, Field[t]) = [k \in 1 .. n |-> value(k)]
    BY <1>4
  <2> HIDE DEF value
  <2> QED
    BY <1>3, <2>1, <2>2
<1>7. i + 1 + n * w \in i + 1 .. Len(d) + 1
  BY <1>1, <1>3
<1> QED
  BY <1>6, <1>7 DEF w

LEMMA PartAtType ==
  ASSUME NEW d \in Seq(Byte), NEW i \in 1 .. Len(d), Known(d[i])
  PROVE  /\ PartAt(d, i) \in PartType
         /\ PartAt(d, i).type \in TypesOf(d[i])
         /\ PastPart(d, i) \in i + 1 .. Len(d) + 1
<1> DEFINE t == CHOOSE t \in TypesOf(d[i]) : TRUE
<1>1. t \in TypesOf(d[i]) /\ t \in DOMAIN Field /\ FingerOf(d[i]) \in Finger
  BY DEF Known, TypesOf
<1>2. PartAt(d, i) = [type |-> t, finger |-> FingerOf(d[i]), values |-> Extracted(d, i, Field[t])]
  BY DEF PartAt
<1> HIDE DEF t
<1>3. /\ Extracted(d, i, Field[t]) \in Seq(Seq(Byte))
      /\ i + 1 + Len(Extracted(d, i, Field[t])) * Field[t].width \in i + 1 .. Len(d) + 1
  BY <1>1, ExtractedType
<1>4. PartAt(d, i) \in PartType /\ PartAt(d, i).type = t
  BY <1>1, <1>2, <1>3 DEF PartType
<1>5. PastPart(d, i) = i + 1 + Len(Extracted(d, i, Field[t])) * Field[t].width
  BY <1>2 DEF PastPart
<1> QED
  BY <1>1, <1>3, <1>4, <1>5

(* What parseSensors() has yet to find at i, given what it finds further on. *)
PartsFrom(d, f, i) ==
  IF i > Len(d) THEN <<>>
  ELSE IF Known(d[i]) THEN <<PartAt(d, i)>> \o f[PastPart(d, i)]
  ELSE f[i + 1]

LEMMA PartsFromType ==
  ASSUME NEW d \in Seq(Byte), NEW i \in 1 .. Len(d) + 1, NEW f,
         \A j \in i + 1 .. Len(d) + 1 : f[j] \in Seq(PartType)
  PROVE  PartsFrom(d, f, i) \in Seq(PartType)
<1>1. CASE i > Len(d)
  BY <1>1 DEF PartsFrom
<1>2. CASE i \in 1 .. Len(d) /\ Known(d[i])
  <2>1. PartAt(d, i) \in PartType /\ f[PastPart(d, i)] \in Seq(PartType)
    BY <1>2, PartAtType
  <2>2. <<PartAt(d, i)>> \o f[PastPart(d, i)] \in Seq(PartType)
    BY <2>1
  <2>3. PartsFrom(d, f, i) = <<PartAt(d, i)>> \o f[PastPart(d, i)]
    BY <1>2 DEF PartsFrom
  <2> QED
    BY <2>2, <2>3
<1>3. CASE i \in 1 .. Len(d) /\ ~ Known(d[i])
  <2>1. PartsFrom(d, f, i) = f[i + 1]
    BY <1>3 DEF PartsFrom
  <2> QED
    BY <1>3, <2>1
<1> QED
  BY <1>1, <1>2, <1>3

LEMMA PartsFromLocal ==
  ASSUME NEW d \in Seq(Byte), NEW i \in 1 .. Len(d) + 1, NEW f, NEW g,
         \A j \in i + 1 .. Len(d) + 1 : f[j] = g[j]
  PROVE  PartsFrom(d, f, i) = PartsFrom(d, g, i)
<1>1. CASE i > Len(d)
  BY <1>1 DEF PartsFrom
<1>2. CASE i \in 1 .. Len(d) /\ Known(d[i])
  <2>1. f[PastPart(d, i)] = g[PastPart(d, i)]
    BY <1>2, PartAtType
  <2> QED
    BY <1>2, <2>1 DEF PartsFrom
<1>3. CASE i \in 1 .. Len(d) /\ ~ Known(d[i])
  <2>1. f[i + 1] = g[i + 1]
    BY <1>3
  <2> QED
    BY <1>3, <2>1 DEF PartsFrom
<1> QED
  BY <1>1, <1>2, <1>3

IsParse(d, f) ==
  f = [i \in 1 .. Len(d) + 1 |-> PartsFrom(d, f, i)]

LEMMA ParseExists ==
  ASSUME NEW d \in Seq(Byte)
  PROVE  \E f : IsParse(d, f)
<1> DEFINE n == Len(d) + 1
           X == Seq(PartType)
           step == [p \in (1 .. n) \X [1 .. n -> X] |-> PartsFrom(d, p[2], p[1])]
<1>1. n \in Nat /\ <<>> \in X
  OBVIOUS
<1>2. ASSUME NEW p \in (1 .. n) \X [1 .. n -> X] PROVE PartsFrom(d, p[2], p[1]) \in X
  <2>1. p[1] \in 1 .. n /\ p[2] \in [1 .. n -> X]
    OBVIOUS
  <2>2. \A j \in p[1] + 1 .. n : p[2][j] \in X
    BY <1>1, <2>1
  <2> QED
    BY <2>1, <2>2, PartsFromType
<1>3. step \in [(1 .. n) \X [1 .. n -> X] -> X]
  BY <1>2
<1>4. \A i \in 1 .. n, f \in [1 .. n -> X] : step[<<i, f>>] = PartsFrom(d, f, i)
  OBVIOUS
<1> HIDE DEF step, X
<1>5. LooksDown(X, n, step)
  <2>1. ASSUME NEW i \in 1 .. n, NEW f \in [1 .. n -> X], NEW g \in [1 .. n -> X],
               \A j \in i + 1 .. n : f[j] = g[j]
        PROVE  step[<<i, f>>] = step[<<i, g>>]
    <3>1. PartsFrom(d, f, i) = PartsFrom(d, g, i)
      BY <2>1, PartsFromLocal
    <3> QED
      BY <1>4, <3>1
  <2> HIDE DEF n
  <2> QED
    BY <1>3, <2>1 DEF LooksDown
<1> HIDE DEF n
<1>6. Solution(X, n, step) # {}
  BY <1>1, <1>5, RecursionDown
<1>7. PICK f \in [1 .. n -> X] : \A i \in 1 .. n : f[i] = PartsFrom(d, f, i)
  BY <1>4, <1>6 DEF Solution
<1>8. f = [i \in 1 .. n |-> PartsFrom(d, f, i)]
  BY <1>7
<1> QED
  BY <1>8 DEF IsParse, n

LEMMA ParseOf ==
  ASSUME NEW d \in Seq(Byte)
  PROVE  \E f : IsParse(d, f) /\ PartsOf(d) = f[1]
<1> DEFINE f == CHOOSE f : IsParse(d, f)
<1>1. IsParse(d, f)
  BY ParseExists
<1>2. PartsOf(d) = f[1]
  BY DEF PartsOf, IsParse, PartsFrom
<1> QED
  BY <1>1, <1>2

LEMMA ParseType ==
  ASSUME NEW d \in Seq(Byte), NEW f, IsParse(d, f), NEW i \in 1 .. Len(d) + 1
  PROVE  f[i] \in Seq(PartType)
<1> DEFINE n == Len(d) + 1
           Typed(k) == \A j \in 1 .. n : j >= n - k => f[j] \in Seq(PartType)
           S == {k \in Nat : Typed(k)}
<1>1. n \in Nat
  OBVIOUS
<1>2. ASSUME NEW j \in 1 .. n, \A m \in j + 1 .. n : f[m] \in Seq(PartType)
      PROVE  f[j] \in Seq(PartType)
  <2>1. f[j] = PartsFrom(d, f, j)
    BY DEF IsParse
  <2> QED
    BY <1>2, <2>1, PartsFromType
<1> HIDE DEF n
<1>3. 0 \in S
  <2>1. ASSUME NEW j \in 1 .. n, j >= n - 0 PROVE f[j] \in Seq(PartType)
    <3>1. j + 1 .. n = {}
      BY <1>1, <2>1
    <3> QED
      BY <1>2, <3>1
  <2> QED
    BY <2>1
<1>4. ASSUME NEW k \in S PROVE k + 1 \in S
  <2>1. k \in Nat /\ Typed(k)
    OBVIOUS
  <2>2. ASSUME NEW j \in 1 .. n, j >= n - (k + 1) PROVE f[j] \in Seq(PartType)
    <3>1. ASSUME NEW m \in j + 1 .. n PROVE f[m] \in Seq(PartType)
      <4>1. m \in 1 .. n /\ m >= n - k
        BY <1>1, <2>1, <2>2, <3>1
      <4> QED
        BY <2>1, <4>1
    <3> QED
      BY <1>2, <3>1
  <2>3. Typed(k + 1) /\ k + 1 \in Nat
    BY <2>1, <2>2
  <2> QED
    BY <2>3
<1> HIDE DEF Typed
<1>5. S = Nat
  BY <1>3, <1>4, Induct
<1>6. Typed(n)
  BY <1>1, <1>5
<1> QED
  BY <1>1, <1>6 DEF Typed, n

LEMMA PartsOfType ==
  ASSUME NEW d \in Seq(Byte)
  PROVE  PartsOf(d) \in Seq(PartType)
<1>1. PICK f : IsParse(d, f) /\ PartsOf(d) = f[1]
  BY ParseOf
<1>2. 1 \in 1 .. Len(d) + 1
  OBVIOUS
<1> QED
  BY <1>1, <1>2, ParseType

LEMMA UpdatedType ==
  ASSUME NEW parts \in Seq(PartType)
  PROVE  /\ Updated(parts) # {} => Updated(parts) \in Items
         /\ Updated(parts) = {} <=> parts = <<>>
<1>1. \A i \in DOMAIN parts : parts[i].finger \in Finger
  <2>1. \A i \in DOMAIN parts : parts[i] \in PartType
    OBVIOUS
  <2> QED
    BY <2>1 DEF PartType
<1>2. Updated(parts) \subseteq Finger
  BY <1>1 DEF Updated
<1>3. parts # <<>> => 1 \in DOMAIN parts
  OBVIOUS
<1>4. parts # <<>> => parts[1].finger \in Updated(parts)
  BY <1>3 DEF Updated
<1>5. parts = <<>> => Updated(parts) = {}
  BY DEF Updated
<1> QED
  BY <1>2, <1>4, <1>5, ItemsAssumption

(***************************************************************************)
(* The stream feeds the buffer as its specification allows.                *)
(***************************************************************************)

(* Whether the byte at hand completes a packet.                            *)
Ends == (recv # <<>> \/ Head(line) = START) /\ Complete(WithNext)

LEMMA WithNextType ==
  ASSUME ShapeInv, ByteRead
  PROVE  WithNext \in Seq(Bytes) /\ Len(WithNext) = Len(recv) + 1
<1>1. Head(line) \in Bytes /\ recv \in Seq(Bytes)
  BY ReadCases DEF ShapeInv, RecvInv
<1> QED
  BY <1>1, AppendProperties DEF WithNext

LEMMA HandledOrNot ==
  ASSUME ShapeInv, ByteRead
  PROVE  IF Ends THEN Handle(WithNext) ELSE UNCHANGED <<fingers, firmware, bufferVars>>
<1> DEFINE b == Head(line)
           p == WithNext
<1>1. IF ReadByte(b).ready = <<>> THEN UNCHANGED <<fingers, firmware, bufferVars>>
                                  ELSE Handle(ReadByte(b).ready)
  BY DEF ByteRead
<1>2. ReadByte(b) = CASE recv = <<>> /\ b # START -> [recv |-> <<>>, ready |-> <<>>]
                      [] Complete(p) -> [recv |-> <<>>, ready |-> p]
                      [] OTHER -> [recv |-> p, ready |-> <<>>]
  BY DEF ReadByte, WithNext
<1>3. p \in Seq(Bytes) /\ Len(p) = Len(recv) + 1 /\ recv \in Seq(Bytes)
  BY WithNextType DEF ShapeInv, RecvInv
<1>4. p # <<>> /\ (recv = <<>> => ~ Complete(p))
  <2>1. Len(p) > 0 /\ (recv = <<>> => Len(p) = 1)
    BY <1>3
  <2> QED
    BY <2>1 DEF Complete
<1> HIDE DEF p
<1>5. ReadByte(b).ready = IF Ends THEN p ELSE <<>>
  BY <1>2, <1>4 DEF Ends, p
<1> QED
  BY <1>1, <1>4, <1>5 DEF p

LEMMA DataType ==
  ASSUME NEW p \in Seq(Bytes)
  PROVE  SubSeq(p, 5, Len(p)) \in Seq(Byte)
<1>1. Bytes \subseteq Byte
  <2> SUFFICES ASSUME NEW pkt \in Messages PROVE Range(PacketBytes(pkt)) \subseteq Byte
    BY DEF Bytes
  <2> QED
    BY PacketShape DEF Range
<1>2. Len(p) \in Nat /\ \A i \in 5 .. Len(p) : p[i] \in Byte
  BY <1>1
<1> QED
  BY <1>2, SubSeqProperties

LEMMA HandleFeeds ==
  ASSUME NEW p \in Seq(Bytes), Handle(p)
  PROVE  (\E item \in Items : Push(item)) \/ UNCHANGED bufferVars
<1> DEFINE parts == PartsOf(SubSeq(p, 5, Len(p)))
<1>1. parts \in Seq(PartType)
  BY DataType, PartsOfType
<1>2. Updated(parts) # {} => Updated(parts) \in Items
  BY <1>1, UpdatedType
<1>3. \/ UNCHANGED bufferVars
      \/ Updated(parts) # {} /\ Push(Updated(parts))
  BY DEF Handle
<1> QED
  BY <1>2, <1>3

LEMMA ShapeStep ==
  ASSUME ShapeInv, [StreamNext]_<<streamVars, bufferVars>>
  PROVE  ShapeInv'
<1>1. CASE SendPacket
  BY <1>1, SendShape
<1>2. CASE ByteRead
  BY <1>2, ReadShape
<1>3. CASE ByteLost \/ ThreadRestarts
  BY <1>3, LossShape
<1>4. CASE UNCHANGED streamVars
  BY <1>4, IdleShape
<1> QED
  BY <1>1, <1>2, <1>3, <1>4 DEF StreamNext, Consume

LEMMA FeedStep ==
  ASSUME ShapeInv, [StreamNext]_<<streamVars, bufferVars>>
  PROVE  [(\E item \in Items : Push(item)) \/ TakeSome]_bufferVars
<1>1. CASE ByteRead
  <2>1. CASE Ends
    BY <1>1, <2>1, HandledOrNot, WithNextType, HandleFeeds
  <2>2. CASE ~ Ends
    BY <1>1, <2>2, HandledOrNot
  <2> QED
    BY <2>1, <2>2
<1>2. CASE SendPacket \/ ByteLost \/ ThreadRestarts
  BY <1>2 DEF SendPacket, ByteLost, ThreadRestarts
<1>3. CASE Consume
  BY <1>3 DEF Consume
<1>4. CASE UNCHANGED <<streamVars, bufferVars>>
  BY <1>4
<1> QED
  BY <1>1, <1>2, <1>3, <1>4 DEF StreamNext

LEMMA StreamShape == StreamSpec => []ShapeInv
<1>1. StreamInit => ShapeInv
  BY FramingInit DEF FramingInv
<1> QED
  BY <1>1, ShapeStep, PTL DEF StreamSpec

(* The buffer of the stream is one of those RingIsQueue is about.          *)
LEMMA StreamFeedsBuffer == StreamSpec => BufferSpec
<1>1. StreamInit => BufferInit
  BY DEF StreamInit
<1> QED
  BY <1>1, StreamShape, FeedStep, PTL DEF StreamSpec, BufferSpec

(***************************************************************************)
(* What is laid out is found again.                                        *)
(***************************************************************************)

LEMMA MessageShape ==
  ASSUME NEW pkt \in Messages
  PROVE  /\ pkt.data \in Seq(Byte) /\ pkt.parts \in Seq(PartType)
         /\ \A k \in 1 .. Len(pkt.parts) :
              /\ pkt.parts[k] \in PartType
              /\ Len(pkt.parts[k].values) = Field[pkt.parts[k].type].count
              /\ \A v \in 1 .. Field[pkt.parts[k].type].count :
                   Len(pkt.parts[k].values[v]) = Field[pkt.parts[k].type].width
         /\ \E at : IsLayout(at, pkt.parts, pkt.data)
<1>1. pkt.data \in Seq(Byte) /\ pkt.parts \in Seq(PartType)
  BY MessageAssumption DEF PartType
<1>2. \A k \in DOMAIN pkt.parts :
        /\ Len(pkt.parts[k].values) = Field[pkt.parts[k].type].count
        /\ \A v \in 1 .. Field[pkt.parts[k].type].count :
             Len(pkt.parts[k].values[v]) = Field[pkt.parts[k].type].width
  BY MessageAssumption
<1>3. LaidOut(pkt.parts, pkt.data)
  BY MessageAssumption
<1>4. \E at : IsLayout(at, pkt.parts, pkt.data)
  BY <1>3 DEF LaidOut
<1>5. DOMAIN pkt.parts = 1 .. Len(pkt.parts) /\ \A k \in 1 .. Len(pkt.parts) : pkt.parts[k] \in PartType
  BY <1>1
<1> QED
  BY <1>1, <1>2, <1>4, <1>5

LEMMA TypeByte ==
  ASSUME NEW t \in DOMAIN Field, NEW f \in Finger
  PROVE  /\ FingerOf(16 * Field[t].code + 4 * f) = f
         /\ TypesOf(16 * Field[t].code + 4 * f) = {t}
<1> DEFINE c == Field[t].code
           x == 16 * c + 4 * f
<1>1. c \in {1, 2, 3, 4, 6, 7} /\ f \in {0, 1}
  BY FieldShape DEF Finger
<1> HIDE DEF c
<1>2. x \div 16 = c /\ (x \div 4) % 4 = f
  BY <1>1
<1>3. \A u \in DOMAIN Field : Field[u].code = c <=> u = t
  BY FieldShape DEF c
<1> QED
  BY <1>2, <1>3 DEF FingerOf, TypesOf, c

LEMMA ExtractedWhole ==
  ASSUME NEW d \in Seq(Byte), NEW i \in 1 .. Len(d), NEW t \in DOMAIN Field,
         i + Field[t].count * Field[t].width <= Len(d),
         NEW values \in Seq(Seq(Byte)), Len(values) = Field[t].count,
         \A v \in 1 .. Field[t].count : Len(values[v]) = Field[t].width,
         \A v \in 1 .. Field[t].count, b \in 1 .. Field[t].width :
           d[i + (v - 1) * Field[t].width + b] = values[v][b]
  PROVE  Extracted(d, i, Field[t]) = values
<1> DEFINE w == Field[t].width
           c == Field[t].count
           there == (Len(d) - i) \div w
           n == IF there < c THEN there ELSE c
           found == [k \in 1 .. n |-> SubSeq(d, i + 1 + (k - 1) * w, i + k * w)]
<1>1. w \in {2, 8} /\ c \in Nat /\ Len(d) \in Nat /\ i \in Nat /\ i + c * w <= Len(d)
  BY FieldShape
<1>2. Extracted(d, i, Field[t]) = found
  BY DEF Extracted
<1>3. Len(values) = c /\ (\A v \in 1 .. c : Len(values[v]) = w)
      /\ \A v \in 1 .. c, b \in 1 .. w : d[i + (v - 1) * w + b] = values[v][b]
  OBVIOUS
<1> HIDE DEF w, c
<1>4. there \in Nat /\ ~ (there < c)
  <2>1. CASE w = 2
    BY <1>1, <2>1
  <2>2. CASE w = 8
    BY <1>1, <2>2
  <2> QED
    BY <1>1, <2>1, <2>2
<1>5. n = c
  BY <1>4
<1> HIDE DEF n
<1>6. ASSUME NEW v \in 1 .. c PROVE found[v] = values[v]
  <2> DEFINE from == i + 1 + (v - 1) * w
             to == i + v * w
  <2>1. from \in Int /\ to \in Int /\ 1 <= from /\ to <= Len(d) /\ from <= to /\ to - from + 1 = w
    <3>1. CASE w = 2
      BY <1>1, <3>1
    <3>2. CASE w = 8
      BY <1>1, <3>2
    <3> QED
      BY <1>1, <3>1, <3>2
  <2>2. \A b \in 1 .. w : from + b - 1 = i + (v - 1) * w + b
    BY <1>1, <2>1
  <2>3. found[v] = SubSeq(d, from, to)
    BY <1>5
  <2> HIDE DEF from, to, found
  <2>4. \A j \in from .. to : d[j] \in Byte
    BY <2>1
  <2>5. /\ SubSeq(d, from, to) \in Seq(Byte)
        /\ Len(SubSeq(d, from, to)) = w
        /\ \A b \in 1 .. w : SubSeq(d, from, to)[b] = d[from + b - 1]
    BY <2>1, <2>4, SubSeqProperties
  <2>6. values[v] \in Seq(Byte) /\ Len(values[v]) = w
    BY <1>3
  <2>7. ASSUME NEW b \in 1 .. w PROVE SubSeq(d, from, to)[b] = values[v][b]
    <3>1. SubSeq(d, from, to)[b] = d[from + b - 1]
      BY <2>5
    <3>2. d[i + (v - 1) * w + b] = values[v][b]
      BY <1>3
    <3>3. from + b - 1 = i + (v - 1) * w + b
      BY <2>2
    <3> QED
      BY <3>1, <3>2, <3>3
  <2>8. SubSeq(d, from, to) = values[v]
    BY <2>5, <2>6, <2>7, SeqEqual
  <2> QED
    BY <2>3, <2>8
<1>7. DOMAIN values = 1 .. c /\ values = [k \in 1 .. c |-> values[k]]
  BY <1>1, <1>3
<1>8. found = [k \in 1 .. c |-> found[k]]
  BY <1>5
<1> QED
  BY <1>2, <1>6, <1>7, <1>8

LEMMA PartThere ==
  ASSUME NEW pkt \in Messages, NEW at, IsLayout(at, pkt.parts, pkt.data),
         NEW k \in 1 .. Len(pkt.parts)
  PROVE  /\ at[k] + 1 \in 1 .. Len(pkt.data) /\ Known(pkt.data[at[k] + 1])
         /\ PartAt(pkt.data, at[k] + 1) = pkt.parts[k]
         /\ PastPart(pkt.data, at[k] + 1) = at[k + 1] + 1
<1> DEFINE d == pkt.data
           part == pkt.parts[k]
           t == part.type
           i == at[k] + 1
           w == Field[t].width
           c == Field[t].count
<1>1. /\ d \in Seq(Byte) /\ part \in PartType /\ Len(part.values) = c
      /\ \A v \in 1 .. c : Len(part.values[v]) = w
  BY MessageShape
<1>2. t \in DOMAIN Field /\ part.finger \in Finger /\ part.values \in Seq(Seq(Byte))
      /\ part = [type |-> t, finger |-> part.finger, values |-> part.values]
  BY <1>1 DEF PartType
<1>3. /\ at[k] \in 0 .. Len(d) /\ at[k + 1] \in 0 .. Len(d)
      /\ at[k + 1] = at[k] + 1 + c * w
      /\ d[i] = 16 * Field[t].code + 4 * part.finger
      /\ \A v \in 1 .. c, b \in 1 .. w : d[at[k] + 1 + (v - 1) * w + b] = part.values[v][b]
  <2>1. Len(pkt.parts) \in Nat /\ k + 1 \in 1 .. Len(pkt.parts) + 1 /\ k \in 1 .. Len(pkt.parts) + 1
    BY MessageShape
  <2> QED
    BY <2>1 DEF IsLayout
<1>4. w \in {2, 8} /\ c \in Nat /\ Len(d) \in Nat
  BY <1>1, <1>2, FieldShape
<1> HIDE DEF d, part, t, w, c
<1>5. i \in 1 .. Len(d) /\ i + c * w <= Len(d) /\ i + c * w = at[k + 1]
  <2>1. at[k] \in 0 .. Len(d) /\ at[k + 1] \in 0 .. Len(d) /\ at[k + 1] = at[k] + 1 + c * w
    BY <1>3
  <2>2. c * w \in Nat
    <3>1. CASE w = 2
      BY <1>4, <3>1
    <3>2. CASE w = 8
      BY <1>4, <3>2
    <3> QED
      BY <1>4, <3>1, <3>2
  <2> QED
    BY <1>4, <2>1, <2>2
<1>6. FingerOf(d[i]) = part.finger /\ TypesOf(d[i]) = {t}
  <2>1. d[i] = 16 * Field[t].code + 4 * part.finger
    BY <1>3
  <2>2. t \in DOMAIN Field /\ part.finger \in Finger
    BY <1>2
  <2> QED
    BY <2>1, <2>2, TypeByte
<1>7. Known(d[i])
  BY <1>2, <1>6 DEF Known
<1> HIDE DEF i
<1>8. Extracted(d, i, Field[t]) = part.values
  <2>1. \A v \in 1 .. c, b \in 1 .. w : d[i + (v - 1) * w + b] = part.values[v][b]
    BY <1>3 DEF i
  <2> QED
    BY <1>1, <1>2, <1>5, <2>1, ExtractedWhole DEF c, w
<1>9. PartAt(d, i) = part
  <2>1. (CHOOSE u \in TypesOf(d[i]) : TRUE) = t
    BY <1>6
  <2>2. PartAt(d, i) = [type |-> t, finger |-> FingerOf(d[i]), values |-> Extracted(d, i, Field[t])]
    BY <2>1 DEF PartAt
  <2> QED
    BY <1>2, <1>6, <1>8, <2>2
<1>10. PastPart(d, i) = i + 1 + c * w
  BY <1>1, <1>9 DEF PastPart, c, w, t
<1>11. i + 1 + c * w = at[k + 1] + 1
  <2>1. CASE w = 2
    BY <1>4, <1>5, <2>1
  <2>2. CASE w = 8
    BY <1>4, <1>5, <2>2
  <2> QED
    BY <1>4, <2>1, <2>2
<1> QED
  BY <1>5, <1>7, <1>9, <1>10, <1>11 DEF i, d, part

LEMMA PartsFound ==
  ASSUME NEW pkt \in Messages
  PROVE  PartsOf(pkt.data) = pkt.parts
<1> DEFINE d == pkt.data
           parts == pkt.parts
           n == Len(parts)
<1>1. PICK at : IsLayout(at, parts, d)
  BY MessageShape
<1>2. d \in Seq(Byte) /\ parts \in Seq(PartType) /\ n \in Nat
  BY MessageShape
<1>3. PICK f : IsParse(d, f) /\ PartsOf(d) = f[1]
  BY <1>2, ParseOf
<1>4. at[1] = 0 /\ at[n + 1] = Len(d) /\ Len(d) \in Nat
  BY <1>1, <1>2 DEF IsLayout
<1>5. f[at[n + 1] + 1] = <<>>
  BY <1>3, <1>4 DEF IsParse, PartsFrom
<1>6. ASSUME NEW k \in 1 .. n PROVE f[at[k] + 1] = <<parts[k]>> \o f[at[k + 1] + 1]
  <2>1. /\ at[k] + 1 \in 1 .. Len(d) /\ Known(d[at[k] + 1])
        /\ PartAt(d, at[k] + 1) = parts[k]
        /\ PastPart(d, at[k] + 1) = at[k + 1] + 1
    BY <1>1, PartThere
  <2>2. f[at[k] + 1] = PartsFrom(d, f, at[k] + 1)
    <3>1. \A i \in 1 .. Len(d) + 1 : f[i] = PartsFrom(d, f, i)
      BY <1>3 DEF IsParse
    <3>2. at[k] + 1 \in 1 .. Len(d) + 1
      BY <1>4, <2>1
    <3> QED
      BY <3>1, <3>2
  <2>3. ~ at[k] + 1 > Len(d)
    BY <1>4, <2>1
  <2>4. f[at[k] + 1] = <<PartAt(d, at[k] + 1)>> \o f[PastPart(d, at[k] + 1)]
    BY <2>1, <2>2, <2>3, Zenon DEF PartsFrom
  <2> QED
    BY <2>1, <2>4
<1> DEFINE Rest(j) == j <= n => f[at[n - j + 1] + 1] = SubSeq(parts, n - j + 1, n)
           S == {j \in Nat : Rest(j)}
<1> HIDE DEF d, parts, n
<1>7. 0 \in S
  <2>1. n - 0 + 1 = n + 1 /\ SubSeq(parts, n + 1, n) = <<>>
    BY <1>2, SubSeqEmpty
  <2> QED
    BY <1>5, <2>1
<1>8. ASSUME NEW j \in S PROVE j + 1 \in S
  <2>1. j \in Nat /\ Rest(j)
    OBVIOUS
  <2>2. ASSUME j + 1 <= n
        PROVE  f[at[n - (j + 1) + 1] + 1] = SubSeq(parts, n - (j + 1) + 1, n)
    <3> DEFINE k == n - j
    <3>1. k \in 1 .. n /\ n - (j + 1) + 1 = k /\ n - j + 1 = k + 1 /\ j <= n
      BY <1>2, <2>1, <2>2
    <3>2. f[at[k + 1] + 1] = SubSeq(parts, k + 1, n)
      BY <2>1, <3>1
    <3> HIDE DEF k
    <3>3. SubSeq(parts, k, n) = <<parts[k]>> \o SubSeq(parts, k + 1, n)
      <4>1. n = Len(parts) /\ n \in k .. Len(parts) /\ k \in 1 .. Len(parts)
        BY <1>2, <3>1 DEF n, parts
      <4> QED
        BY <1>2, <4>1, SubSeqRecursiveFirst
    <3> QED
      BY <1>6, <3>1, <3>2, <3>3
  <2>3. Rest(j + 1) /\ j + 1 \in Nat
    BY <2>1, <2>2
  <2> QED
    BY <2>3
<1> HIDE DEF Rest
<1>9. S = Nat
  BY <1>7, <1>8, Induct
<1>10. Rest(n)
  BY <1>2, <1>9
<1>11. f[1] = SubSeq(parts, 1, n)
  <2>1. n <= n /\ n - n + 1 = 1 /\ at[1] + 1 = 1
    BY <1>2, <1>4
  <2> QED
    BY <1>10, <2>1 DEF Rest
<1>12. SubSeq(parts, 1, n) = parts
  BY <1>2 DEF n
<1> QED
  BY <1>3, <1>11, <1>12 DEF d, parts

(***************************************************************************)
(* What is stored: the last part about a field of a finger stays.          *)
(***************************************************************************)

FingersType ==
  {all \in [Finger -> [DOMAIN Field -> Seq(Seq(Byte))]] :
     \A f \in Finger, t \in DOMAIN Field : Len(all[f][t]) = Field[t].count}

LEMMA ZerosType == Zeros \in FingersType
<1>1. ASSUME NEW t \in DOMAIN Field
      PROVE  /\ [i \in 1 .. Field[t].count |-> [b \in 1 .. Field[t].width |-> 0]] \in Seq(Seq(Byte))
             /\ Len([i \in 1 .. Field[t].count |-> [b \in 1 .. Field[t].width |-> 0]]) = Field[t].count
  <2> DEFINE w == Field[t].width
             c == Field[t].count
  <2>1. w \in Nat /\ c \in Nat
    BY FieldShape
  <2> HIDE DEF w, c
  <2>2. [b \in 1 .. w |-> 0] \in Seq(Byte)
    BY <2>1 DEF Byte
  <2> DEFINE zero == [b \in 1 .. w |-> 0]
  <2> HIDE DEF zero
  <2>3. [i \in 1 .. c |-> zero] \in Seq(Seq(Byte)) /\ Len([i \in 1 .. c |-> zero]) = c
    BY <2>1, <2>2 DEF zero
  <2> QED
    BY <2>3 DEF zero, w, c
<1> QED
  BY <1>1 DEF Zeros, FingersType

(* One field with as many new values as there are.                         *)
Merged(old, values) == [i \in DOMAIN old |-> IF i <= Len(values) THEN values[i] ELSE old[i]]

LEMMA MergedType ==
  ASSUME NEW old \in Seq(Seq(Byte)), NEW values \in Seq(Seq(Byte))
  PROVE  /\ Merged(old, values) \in Seq(Seq(Byte)) /\ Len(Merged(old, values)) = Len(old)
         /\ Len(values) = Len(old) => Merged(old, values) = values
<1> DEFINE n == Len(old)
           X == Seq(Byte)
           new == Merged(old, values)
<1>1. n \in Nat /\ DOMAIN old = 1 .. n /\ Len(values) \in Nat
  OBVIOUS
<1>2. new = [i \in 1 .. n |-> IF i <= Len(values) THEN values[i] ELSE old[i]]
  BY <1>1 DEF Merged
<1>3. \A i \in 1 .. n : (IF i <= Len(values) THEN values[i] ELSE old[i]) \in X
  BY <1>1
<1> HIDE DEF X, n, new
<1>4. new \in Seq(X) /\ Len(new) = n
  BY <1>1, <1>2, <1>3
<1>5. ASSUME Len(values) = n PROVE new = values
  <2>1. values \in Seq(X) /\ \A i \in 1 .. Len(new) : new[i] = values[i]
    BY <1>1, <1>2, <1>4, <1>5 DEF X
  <2> QED
    BY <1>4, <1>5, <2>1, SeqEqual
<1> QED
  BY <1>4, <1>5 DEF n, X, new

LEMMA StorePartType ==
  ASSUME NEW all \in FingersType, NEW part \in PartType
  PROVE  /\ StorePart(all, part) \in FingersType
         /\ \A f \in Finger, t \in DOMAIN Field :
              StorePart(all, part)[f][t] =
                IF f = part.finger /\ t = part.type THEN Merged(all[f][t], part.values) ELSE all[f][t]
<1> DEFINE new == StorePart(all, part)
           p == part.finger
           u == part.type
<1>1. p \in Finger /\ u \in DOMAIN Field /\ part.values \in Seq(Seq(Byte))
  BY DEF PartType
<1>2. /\ all \in [Finger -> [DOMAIN Field -> Seq(Seq(Byte))]]
      /\ \A f \in Finger, t \in DOMAIN Field :
           all[f][t] \in Seq(Seq(Byte)) /\ Len(all[f][t]) = Field[t].count
  BY DEF FingersType
<1>3. new = [all EXCEPT ![p] = [all[p] EXCEPT ![u] = Merged(all[p][u], part.values)]]
  BY DEF StorePart, Merged
<1> HIDE DEF new, p, u
<1>4. Merged(all[p][u], part.values) \in Seq(Seq(Byte)) /\ Len(Merged(all[p][u], part.values)) = Field[u].count
  BY <1>1, <1>2, MergedType
<1>5. new \in [Finger -> [DOMAIN Field -> Seq(Seq(Byte))]]
  BY <1>1, <1>2, <1>3, <1>4
<1>6. \A f \in Finger, t \in DOMAIN Field :
        new[f][t] = IF f = p /\ t = u THEN Merged(all[f][t], part.values) ELSE all[f][t]
  BY <1>1, <1>2, <1>3
<1>7. \A f \in Finger, t \in DOMAIN Field : Len(new[f][t]) = Field[t].count
  BY <1>2, <1>4, <1>6
<1> QED
  BY <1>5, <1>6, <1>7 DEF FingersType, new, p, u

IsStore(all, parts, g) ==
  g = [i \in 0 .. Len(parts) |-> IF i = 0 THEN all ELSE StorePart(g[i - 1], parts[i])]

LEMMA StoreExists ==
  ASSUME NEW all \in FingersType, NEW parts \in Seq(PartType)
  PROVE  \E g : IsStore(all, parts, g)
<1> DEFINE n == Len(parts)
           step == [p \in (1 .. n) \X FingersType |-> StorePart(p[2], parts[p[1]])]
<1>1. n \in Nat
  OBVIOUS
<1>2. ASSUME NEW p \in (1 .. n) \X FingersType PROVE StorePart(p[2], parts[p[1]]) \in FingersType
  <2>1. p[2] \in FingersType /\ parts[p[1]] \in PartType
    OBVIOUS
  <2> QED
    BY <2>1, StorePartType
<1>3. step \in [(1 .. n) \X FingersType -> FingersType]
  BY <1>2
<1>4. \A i \in 1 .. n, a \in FingersType : step[<<i, a>>] = StorePart(a, parts[i])
  OBVIOUS
<1> HIDE DEF n, step
<1>8. Running(FingersType, n, all, step) # {}
  BY <1>1, <1>3, RecursionUp
<1>5. PICK g \in [0 .. n -> FingersType] :
        g[0] = all /\ \A i \in 1 .. n : g[i] = step[<<i, g[i - 1]>>]
  BY <1>8 DEF Running
<1>6. ASSUME NEW i \in 0 .. n
      PROVE  g[i] = IF i = 0 THEN all ELSE StorePart(g[i - 1], parts[i])
  <2>1. CASE i = 0
    BY <1>5, <2>1
  <2>2. CASE i \in 1 .. n
    <3>1. i - 1 \in 0 .. n /\ i # 0
      BY <1>1, <2>2
    <3> QED
      BY <1>4, <1>5, <2>2, <3>1
  <2> QED
    BY <1>1, <2>1, <2>2
<1>7. g = [i \in 0 .. n |-> IF i = 0 THEN all ELSE StorePart(g[i - 1], parts[i])]
  BY <1>6
<1> QED
  BY <1>7 DEF IsStore, n

LEMMA StoreOf ==
  ASSUME NEW all \in FingersType, NEW parts \in Seq(PartType)
  PROVE  \E g : /\ StoreParts(all, parts) = g[Len(parts)] /\ g[0] = all
                /\ \A i \in 1 .. Len(parts) : g[i] = StorePart(g[i - 1], parts[i])
<1> DEFINE g == CHOOSE g : IsStore(all, parts, g)
<1>1. IsStore(all, parts, g)
  BY StoreExists
<1>2. StoreParts(all, parts) = g[Len(parts)]
  BY DEF StoreParts, IsStore
<1> HIDE DEF g
<1>3. Len(parts) \in Nat /\ \A i \in 0 .. Len(parts) : g[i] = IF i = 0 THEN all ELSE StorePart(g[i - 1], parts[i])
  BY <1>1 DEF IsStore
<1>4. g[0] = all /\ \A i \in 1 .. Len(parts) : g[i] = StorePart(g[i - 1], parts[i])
  BY <1>3
<1> QED
  BY <1>2, <1>4

(* Of the first i parts, those about a field of a finger.                  *)
About(parts, i, f, t) == {k \in 1 .. i : parts[k].finger = f /\ parts[k].type = t}

LEMMA AboutNext ==
  ASSUME NEW parts \in Seq(PartType), NEW i \in Nat, NEW f, NEW t
  PROVE  IF parts[i + 1].finger = f /\ parts[i + 1].type = t
         THEN About(parts, i + 1, f, t) # {} /\ Max(About(parts, i + 1, f, t)) = i + 1
         ELSE About(parts, i + 1, f, t) = About(parts, i, f, t)
<1> DEFINE T == About(parts, i + 1, f, t)
<1>1. CASE parts[i + 1].finger = f /\ parts[i + 1].type = t
  <2>1. T \in SUBSET Nat /\ i + 1 \in T /\ \A k \in T : k <= i + 1
    BY <1>1 DEF About
  <2> HIDE DEF T
  <2>2. Max(T) \in T /\ \A k \in T : k <= Max(T)
    BY <2>1, MaxExists
  <2>3. Max(T) = i + 1 /\ T # {}
    <3> DEFINE m == Max(T)
    <3>1. m \in Nat /\ m <= i + 1 /\ i + 1 <= m
      BY <2>1, <2>2
    <3> HIDE DEF m
    <3>2. m = i + 1
      BY <3>1
    <3> QED
      BY <2>1, <3>2 DEF m
  <2> QED
    BY <1>1, <2>3 DEF T
<1>2. CASE ~ (parts[i + 1].finger = f /\ parts[i + 1].type = t)
  <2>1. \A k \in 1 .. i + 1 : k \in 1 .. i \/ k = i + 1
    OBVIOUS
  <2>2. T = About(parts, i, f, t)
    BY <1>2, <2>1 DEF About
  <2> QED
    BY <1>2, <2>2
<1> QED
  BY <1>1, <1>2

Whole(parts) == \A k \in 1 .. Len(parts) : Len(parts[k].values) = Field[parts[k].type].count

(* What the field is after i parts that all have every value.              *)
Latest(all, parts, i, f, t) ==
  IF About(parts, i, f, t) = {} THEN all[f][t] ELSE parts[Max(About(parts, i, f, t))].values

LEMMA LatestStays ==
  ASSUME NEW all \in FingersType, NEW parts \in Seq(PartType)
  PROVE  /\ StoreParts(all, parts) \in FingersType
         /\ Whole(parts) => \A f \in Finger, t \in DOMAIN Field :
              StoreParts(all, parts)[f][t] = Latest(all, parts, Len(parts), f, t)
<1> DEFINE n == Len(parts)
<1>1. PICK g : /\ StoreParts(all, parts) = g[n] /\ g[0] = all
               /\ \A i \in 1 .. n : g[i] = StorePart(g[i - 1], parts[i])
  BY StoreOf
<1> DEFINE Good(i) ==
             /\ g[i] \in FingersType
             /\ Whole(parts) => \A f \in Finger, t \in DOMAIN Field :
                  g[i][f][t] = Latest(all, parts, i, f, t)
           S == {i \in Nat : i <= n => Good(i)}
<1>2. n \in Nat /\ \A i \in 1 .. n : parts[i] \in PartType
  OBVIOUS
<1> HIDE DEF n
<1>3. Good(0)
  <2>1. \A f, t : About(parts, 0, f, t) = {}
    BY DEF About
  <2> QED
    BY <1>1, <2>1 DEF Latest
<1>4. ASSUME NEW i \in Nat, i + 1 <= n, Good(i) PROVE Good(i + 1)
  <2> DEFINE part == parts[i + 1]
  <2>1. i + 1 \in 1 .. n /\ (i + 1) - 1 = i
    BY <1>2, <1>4
  <2>2. g[i + 1] = StorePart(g[i], part) /\ part \in PartType /\ g[i] \in FingersType
    BY <1>1, <1>2, <1>4, <2>1
  <2>3. g[i + 1] \in FingersType
    BY <2>2, StorePartType
  <2>4. ASSUME Whole(parts), NEW f \in Finger, NEW t \in DOMAIN Field
        PROVE  g[i + 1][f][t] = Latest(all, parts, i + 1, f, t)
    <3>1. g[i][f][t] = Latest(all, parts, i, f, t)
      BY <1>4, <2>4
    <3>2. g[i + 1][f][t] = IF f = part.finger /\ t = part.type
                           THEN Merged(g[i][f][t], part.values) ELSE g[i][f][t]
      <4> DEFINE old == g[i]
      <4> HIDE DEF part
      <4>1. old \in FingersType /\ part \in PartType /\ g[i + 1] = StorePart(old, part)
        BY <2>2
      <4> HIDE DEF old
      <4>2. StorePart(old, part)[f][t] =
              IF f = part.finger /\ t = part.type THEN Merged(old[f][t], part.values) ELSE old[f][t]
        BY <4>1, StorePartType
      <4> QED
        BY <4>1, <4>2 DEF old
    <3>3. CASE part.finger = f /\ part.type = t
      <4>1. /\ part.values \in Seq(Seq(Byte)) /\ g[i][f][t] \in Seq(Seq(Byte))
            /\ Len(part.values) = Field[t].count /\ Len(g[i][f][t]) = Field[t].count
        <5>1. part.values \in Seq(Seq(Byte))
          BY <2>2 DEF PartType
        <5>2. g[i][f][t] \in Seq(Seq(Byte)) /\ Len(g[i][f][t]) = Field[t].count
          BY <2>2 DEF FingersType
        <5>3. Len(part.values) = Field[t].count
          BY <2>1, <2>4, <3>3 DEF Whole, n
        <5> QED
          BY <5>1, <5>2, <5>3
      <4>2. Merged(g[i][f][t], part.values) = part.values
        BY <4>1, MergedType
      <4>3. Latest(all, parts, i + 1, f, t) = part.values
        BY <3>3, AboutNext DEF Latest
      <4> QED
        BY <3>2, <3>3, <4>2, <4>3
    <3>4. CASE ~ (part.finger = f /\ part.type = t)
      <4>1. About(parts, i + 1, f, t) = About(parts, i, f, t)
        BY <3>4, AboutNext
      <4> QED
        BY <3>1, <3>2, <3>4, <4>1 DEF Latest
    <3> QED
      BY <3>3, <3>4
  <2> QED
    BY <2>3, <2>4
<1> HIDE DEF Good
<1>5. 0 \in S
  BY <1>3
<1>6. \A i \in S : i + 1 \in S
  <2>1. ASSUME NEW i \in S, i + 1 <= n PROVE Good(i + 1)
    <3>1. i \in Nat /\ (i <= n => Good(i))
      OBVIOUS
    <3>2. i <= n
      BY <1>2, <2>1, <3>1
    <3> QED
      BY <1>4, <2>1, <3>1, <3>2
  <2> QED
    BY <2>1
<1>7. S = Nat
  BY <1>5, <1>6, Induct
<1>8. n \in S /\ n <= n
  BY <1>2, <1>7
<1>9. Good(n)
  BY <1>8
<1> QED
  BY <1>1, <1>9 DEF Good, n

(***************************************************************************)
(* A packet read whole.                                                    *)
(***************************************************************************)

DecodeInv ==
  /\ ShapeInv /\ fingers \in FingersType
  /\ whole => InStep

LEMMA HandleKeepsType ==
  ASSUME NEW p \in Seq(Bytes), Handle(p), fingers \in FingersType
  PROVE  fingers' \in FingersType
<1> DEFINE parts == PartsOf(SubSeq(p, 5, Len(p)))
<1>1. parts \in Seq(PartType)
  BY DataType, PartsOfType
<1>2. fingers' = fingers \/ fingers' = StoreParts(fingers, parts)
  BY DEF Handle
<1> QED
  BY <1>1, <1>2, LatestStays

LEMMA DecodeInvStep ==
  ASSUME DecodeInv, [StreamNext]_<<streamVars, bufferVars>>
  PROVE  DecodeInv'
<1> USE DEF DecodeInv
<1>1. CASE SendPacket
  <2>1. whole' = (recv = <<>>) /\ fingers' = fingers
    BY <1>1 DEF SendPacket
  <2> QED
    BY <1>1, <2>1, SendShape
<1>2. CASE ByteRead
  <2>1. whole' = whole
    BY <1>2 DEF ByteRead
  <2>2. fingers' \in FingersType
    <3>1. CASE Ends
      BY <1>2, <3>1, HandledOrNot, WithNextType, HandleKeepsType
    <3>2. CASE ~ Ends
      BY <1>2, <3>2, HandledOrNot
    <3> QED
      BY <3>1, <3>2
  <2> QED
    BY <1>2, <2>1, <2>2, ReadShape
<1>3. CASE ByteLost \/ ThreadRestarts
  <2>1. whole' = FALSE /\ (fingers' = fingers \/ fingers' = Zeros)
    BY <1>3 DEF ByteLost, ThreadRestarts, Loss
  <2> QED
    BY <1>3, <2>1, LossShape, ZerosType
<1>4. CASE UNCHANGED streamVars
  <2>1. whole' = whole /\ fingers' = fingers
    BY <1>4 DEF streamVars
  <2> QED
    BY <1>4, <2>1, IdleShape
<1> QED
  BY <1>1, <1>2, <1>3, <1>4 DEF StreamNext, Consume

LEMMA StreamDecodeInv == StreamSpec => []DecodeInv
<1>1. StreamInit => DecodeInv
  <2>1. StreamInit => ShapeInv /\ InStep
    BY FramingInit DEF FramingInv
  <2>2. StreamInit => fingers \in FingersType
    BY ZerosType DEF StreamInit
  <2> QED
    BY <2>1, <2>2 DEF DecodeInv
<1> QED
  BY <1>1, DecodeInvStep, PTL DEF StreamSpec

(* With its last byte, the packet sent is the packet read.                 *)
LEMMA WholeIsRead ==
  ASSUME DecodeInv, ByteRead, whole, line' = <<>>
  PROVE  Ends /\ WithNext = PacketBytes(sent)
<1> DEFINE all == PacketBytes(sent)
<1>1. ReadWhole /\ Len(line') = Len(line) - 1
  BY ReadShape DEF DecodeInv
<1>2. WithNext \in Seq(Bytes) /\ Len(WithNext) = Len(recv) + 1 /\ recv \in Seq(Bytes)
  BY WithNextType DEF DecodeInv, ShapeInv, RecvInv
<1>3. all \in Seq(Byte) /\ Len(all) \in Nat
  BY PacketShape DEF DecodeInv, ShapeInv, LineInv
<1>4. Len(line) = 1
  <2>1. Len(line') = 0 /\ Len(line) \in Nat
    BY DEF DecodeInv, ShapeInv, LineInv
  <2> QED
    BY <1>1, <2>1
<1>5. Gone + 1 = Len(all)
  BY <1>3, <1>4 DEF Gone
<1>6. Len(WithNext) = Len(all) /\ \A i \in 1 .. Len(all) : WithNext[i] = all[i]
  BY <1>1, <1>5 DEF ReadWhole
<1>7. Complete(WithNext)
  BY <1>1 DEF ReadWhole
<1>8. recv # <<>>
  <2>1. Len(WithNext) > 3
    BY <1>7 DEF Complete
  <2> QED
    BY <1>2, <2>1
<1>9. WithNext = all
  <2>1. WithNext \in Seq(Byte)
    BY <1>2, <1>3, <1>6
  <2> HIDE DEF all
  <2> QED
    BY <1>3, <1>6, <2>1, SeqEqual
<1> QED
  BY <1>7, <1>8, <1>9 DEF Ends

LEMMA DataOf ==
  ASSUME NEW pkt \in Messages
  PROVE  /\ PacketBytes(pkt)[3] = pkt.command
         /\ SubSeq(PacketBytes(pkt), 5, Len(PacketBytes(pkt))) = pkt.data
<1> DEFINE all == PacketBytes(pkt)
           d == pkt.data
           n == Len(d)
           h == <<START, 0, pkt.command, n>>
<1>1. /\ all \in Seq(Byte) /\ Len(all) = 4 + n /\ all[3] = pkt.command
      /\ d \in Seq(Byte) /\ n \in Nat /\ h \in Seq(Byte) /\ Len(h) = 4
  <2>1. d \in Seq(Byte) /\ pkt.command \in Byte /\ n \in Byte /\ n \in Nat
    BY MessageAssumption
  <2>2. all \in Seq(Byte) /\ Len(all) = 4 + n /\ all[3] = pkt.command
    BY PacketShape
  <2>3. h \in Seq(Byte) /\ Len(h) = 4
    BY <2>1, HeadShape
  <2> QED
    BY <2>1, <2>2, <2>3
<1>2. all = h \o d
  BY DEF PacketBytes
<1> HIDE DEF all, h
<1>3. \A i \in 1 .. n : all[i + 4] = d[i]
  <2> HIDE DEF d
  <2>1. \A x, y \in Seq(Byte) :
          Len(x) = 4 => \A i \in 1 .. Len(y) : (x \o y)[i + 4] = y[i]
    BY Glued
  <2>2. \A i \in 1 .. Len(d) : (h \o d)[i + 4] = d[i]
    BY <1>1, <2>1, Zenon
  <2> QED
    BY <1>2, <2>2
<1> HIDE DEF d, n
<1> DEFINE s == SubSeq(all, 5, 4 + n)
<1>4. \A i \in 5 .. 4 + n : all[i] \in Byte
  BY <1>1
<1>5. /\ s \in Seq(Byte) /\ Len(s) = n
      /\ \A i \in 1 .. n : s[i] = all[5 + i - 1]
  BY <1>1, <1>4, SubSeqProperties
<1> HIDE DEF s
<1>6. \A i \in 1 .. n : s[i] = d[i]
  <2>1. \A i \in 1 .. n : 5 + i - 1 = i + 4
    BY <1>1
  <2> QED
    BY <1>3, <1>5, <2>1
<1>7. s = d
  BY <1>1, <1>5, <1>6, SeqEqual DEF n
<1> QED
  BY <1>1, <1>7 DEF all, d, s

LEMMA PushedLast ==
  ASSUME BufferTypeOK, NEW item \in Items, Push(item)
  PROVE  buffer'[(start' + count' - 1) % Capacity] = item
<1> DEFINE slot == (start + count) % Capacity
<1>1. start \in Nat /\ count \in Nat /\ Capacity \in Nat \ {0} /\ start < Capacity /\ count <= Capacity
  BY BufferAssumption DEF BufferTypeOK
<1>2. slot = Wrapped(start + count) /\ slot \in 0 .. Capacity - 1
  BY <1>1, SlotOf DEF Wrapped
<1>3. buffer'[slot] = item
  BY <1>2 DEF Push, BufferTypeOK
<1>4. (start' + count' - 1) % Capacity = slot
  <2>1. CASE count = Capacity
    <3>1. start' = Wrapped(start + 1) /\ count' = Capacity
      BY <1>1, <2>1, SlotOf DEF Push
    <3>2. start' + count' - 1 \in 0 .. 2 * Capacity - 1
      BY <1>1, <3>1 DEF Wrapped
    <3>3. (start' + count' - 1) % Capacity = Wrapped(start' + count' - 1)
      BY <3>2, RoundOnce
    <3> QED
      BY <1>1, <1>2, <2>1, <3>1, <3>3 DEF Wrapped
  <2>2. CASE count # Capacity
    <3>1. start' = start /\ count' = count + 1
      BY <2>2 DEF Push
    <3>2. start' + count' - 1 = start + count
      BY <1>1, <3>1
    <3> QED
      BY <3>2
  <2> QED
    BY <2>1, <2>2
<1> QED
  BY <1>3, <1>4

(* What the packet under way has to say.                                   *)
Said == IF sent.command \in SensorReplies THEN sent.parts ELSE <<>>

LEMMA ReadDecodes ==
  ASSUME DecodeInv, BufferTypeOK, ByteRead, whole, line' = <<>>
  PROVE  Decoded(Said)
<1>1. Ends /\ WithNext = PacketBytes(sent)
  BY WholeIsRead
<1>2. Handle(PacketBytes(sent))
  BY <1>1, HandledOrNot DEF DecodeInv
<1>3. sent \in Messages
  BY DEF DecodeInv, ShapeInv, LineInv
<1>4. /\ PacketBytes(sent)[3] = sent.command
      /\ PartsOf(SubSeq(PacketBytes(sent), 5, Len(PacketBytes(sent)))) = sent.parts
  BY <1>3, DataOf, PartsFound
<1>5. CASE sent.command \in SensorReplies
  <2> DEFINE parts == sent.parts
  <2>1. sent.command # GET_VERSION
    BY <1>5 DEF SensorReplies, GET_VERSION, READ_SENSORS, SYNC_SENSORS, ASYNC_SENSORS
  <2>2. /\ fingers' = StoreParts(fingers, parts)
        /\ IF Updated(parts) # {} THEN Push(Updated(parts)) ELSE UNCHANGED bufferVars
    BY <1>2, <1>4, <1>5, <2>1 DEF Handle
  <2>3. parts \in Seq(PartType) /\ Whole(parts)
    BY <1>3, MessageShape DEF Whole
  <2> HIDE DEF parts
  <2>4. \A f \in Finger, t \in DOMAIN Field : fingers'[f][t] = Latest(fingers, parts, Len(parts), f, t)
    BY <2>2, <2>3, LatestStays DEF DecodeInv
  <2>5. ASSUME NEW f \in Finger, NEW t \in DOMAIN Field
        PROVE  LET about == {i \in DOMAIN parts : parts[i].finger = f /\ parts[i].type = t} IN
                 fingers'[f][t] = IF about = {} THEN fingers[f][t] ELSE parts[Max(about)].values
    <3> DEFINE about == {i \in DOMAIN parts : parts[i].finger = f /\ parts[i].type = t}
    <3>1. about = About(parts, Len(parts), f, t)
      BY <2>3 DEF About
    <3> HIDE DEF about
    <3>2. fingers'[f][t] = IF about = {} THEN fingers[f][t] ELSE parts[Max(about)].values
      BY <2>4, <3>1 DEF Latest
    <3> QED
      BY <3>2 DEF about
  <2>6. IF parts = <<>> THEN buffer' = buffer
        ELSE buffer'[(start' + count' - 1) % Capacity] = Updated(parts)
    BY <2>2, <2>3, UpdatedType, PushedLast DEF bufferVars
  <2>7. Decoded(parts)
    BY <2>5, <2>6 DEF Decoded
  <2>8. Said = parts
    BY <1>5 DEF Said, parts
  <2> QED
    BY <2>7, <2>8
<1>6. CASE sent.command \notin SensorReplies
  <2>1. fingers' = fingers /\ buffer' = buffer
    BY <1>2, <1>4, <1>6 DEF Handle, bufferVars
  <2>2. Decoded(<<>>)
    BY <2>1 DEF Decoded
  <2> QED
    BY <1>6, <2>2 DEF Said
<1> QED
  BY <1>5, <1>6

LEMMA StreamBufferType == StreamSpec => []BufferTypeOK
BY StreamFeedsBuffer, BufferTypeCorrect, PTL

(* Whatever was lost before, a packet that is read whole is decoded as it  *)
(* was laid out: the parser neither loses its place in it nor invents,     *)
(* drops or mixes up a value (RobotiqTactileSensor.cpp:209, :606).         *)
THEOREM StreamDecodesWhatWasSent == StreamSpec => DecodesWhatWasSent
<1>1. DecodeInv /\ BufferTypeOK =>
        [ByteRead /\ whole /\ line' = <<>> =>
           Decoded(IF sent.command \in SensorReplies THEN sent.parts ELSE <<>>)
        ]_<<streamVars, bufferVars>>
  BY ReadDecodes DEF Said
<1> QED
  BY <1>1, StreamDecodeInv, StreamBufferType, PTL DEF DecodesWhatWasSent

(* The samples' buffer, fed by the stream, is a queue of the newest items  *)
(* (circular_buffer.h:59-154).                                             *)
THEOREM StreamBufferIsQueue == StreamSpec => BufferIsQueue
BY StreamFeedsBuffer, RingIsQueue, PTL

=============================================================================
