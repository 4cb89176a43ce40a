------------------------- MODULE GripperStateProofs -------------------------
(***************************************************************************)
(* Proofs about GripperState, for any command blocks, any number of        *)
(* observers and any fault threshold.  The argument is one inductive       *)
(* invariant in four parts, GripperInv: who may be where (Places), what    *)
(* the failure counter says (Health), what a block on the wire and the     *)
(* record are to each other (Blocks), and what the commander's locals are  *)
(* to the image (Calls).                                                   *)
(***************************************************************************)
EXTENDS GripperState, ProcessImageProofs, SequenceTheorems

(* The exchange thread exists only once the image is seeded, a call of the *)
(* commander only while the gripper does, and neither outlives it.         *)
Places ==
  /\ owner = "connecting" => thread = "none" /\ stale = 0 /\ attempts < ReadAttempts
  /\ owner \in {"starting", "spawning"} => thread = "none" /\ command # NoCommand
  /\ thread # "none" => command # NoCommand
  /\ owner = "alive" => command # NoCommand
  /\ owner # "alive" => call = "idle"
  /\ owner = "gone" => thread \in {"none", "returned"}
  /\ call # "idle" \/ result = "carried" => command # NoCommand
  /\ command = NoCommand => stamped.count = 0

(* The counter and the state lag the failures by the steps the thread has  *)
(* still to take; past the threshold only the state remembers, since the   *)
(* counter may have wrapped.                                               *)
InStep == IF stale < FaultThreshold THEN failures = stale /\ connection # "Faulted"
                                    ELSE connection = "Faulted"

Health ==
  /\ thread \in {"none", "testing", "copying", "exchanging", "clearing", "announcing",
                 "sleeping", "returned"} => InStep
  /\ thread = "counting" =>
       \/ stale > 0 /\ failures = stale - 1 /\ connection # "Faulted"
       \/ stale = FaultThreshold /\ connection = "Faulted"
  /\ thread = "faulting" => stale = FaultThreshold
  /\ thread = "turning" => failures = 0 /\ (connection = "Faulted" => stale = FaultThreshold)
  /\ thread = "publishing" => failures = 0 /\ connection = "Operational"

(* An exchange that found nothing owed took its own answer, and the        *)
(* gripper acts on its block until the record is out.  Only an exchange    *)
(* that failed leaves replies behind.  A gripper nobody has commanded is   *)
(* only sent back its own echoes.                                          *)
Answered == thread \in {"clearing", "turning", "publishing"}

BlocksHold ==
  /\ Carrying => copy \in Commands
  /\ Answered => reply \in Statuses
  /\ alone => Answered /\ reply = Echo(copy) /\ device = copy /\ owed = <<>>
  /\ lagging \/ (owed = <<>> /\ Whole(stamped.count) /\ (Answered => alone))
  /\ command # NoCommand /\ Whole(stamped.count) => stamped.status = Echo(stamped.command)
  /\ \A n \in whole : n <= stamped.count
  /\ command = NoCommand => found = device /\ found \in Found
  /\ found # NoCommand =>
       /\ Echo(device) = Echo(found) /\ device.speed \in {found.speed, MaxSpeed}
       /\ command \in {NoCommand, SeedCommand(Echo(found))}
       /\ thread = "exchanging" => copy = SeedCommand(Echo(found))

(* A block c is the gripper's for good.                                    *)
Holds(c) == device = c /\ OnTheWireOnly(c)

(* What the commander has read is never newer than the record, and until   *)
(* it waits, not newer than its count.  A whole record past `copied' is of *)
(* the target; if nothing superseded was under way when the call began,    *)
(* so is every whole record since then that shows the target.  Either      *)
(* shows that the gripper holds it.                                        *)
Returned == got[Commander]

Shows(rec) == rec.count > before /\ rec.count \in whole /\ rec.command = target

CallsHold ==
  /\ Returned.count <= stamped.count
  /\ call # "idle" => target \in Commands /\ before <= stamped.count
  /\ call \in {"setting", "calling"} => at[Commander] = "out" /\ Returned.count <= before
  /\ call = "waiting" => before <= since[Commander]
  /\ call = "setting" /\ settled =>
       /\ OnTheWireOnly(command)
       /\ stamped.count > before /\ stamped.count \in whole =>
            stamped.command = command /\ device = command
  /\ call \in {"calling", "waiting"} =>
       /\ command = target
       /\ Carrying /\ stamped.count >= copied => copy = target
       /\ (\E n \in whole : n > copied) => Holds(target)
  /\ call \in {"calling", "waiting"} /\ settled =>
       /\ Shows(stamped) => Holds(target)
       /\ Shows(Returned) => Holds(target)
  /\ call = "idle" /\ result = "carried" =>
       /\ at[Commander] = "out" /\ command = target /\ Returned.command = target
       /\ Returned.count \in whole /\ (settled \/ Returned.count > copied) => Holds(target)

GripperInv == GripperTypeOK /\ Places /\ Health /\ BlocksHold /\ CallsHold

-----------------------------------------------------------------------------
(* The gripper answers a command with one of its statuses.                 *)
LEMMA EchoIsStatus == ASSUME NEW c \in Commands PROVE Echo(c) \in Statuses
  BY GripperAssumption

(* The seed block asks of a gripper what it already shows.                 *)
LEMMA SeedEchoes ==
  ASSUME NEW f \in Found
  PROVE  /\ SeedCommand(Echo(f)) \in Commands /\ SeedCommand(Echo(f)).speed = MaxSpeed
         /\ Echo(SeedCommand(Echo(f))) = Echo(f)
         /\ Echo(f) \in Statuses
  <1> DEFINE e == Echo(f)
             c == SeedCommand(e)
  <1>1. e = [act |-> f.act, gto |-> (f.act /\ f.gto), pos |-> f.pos]
      BY DEF Echo
  <1>2. c.act = f.act /\ c.gto = (f.act /\ f.gto) /\ c.pos = f.pos /\ c.speed = MaxSpeed
      BY <1>1 DEF SeedCommand
  <1>3. c \in Commands
      BY GripperAssumption
  <1> HIDE DEF c
  <1>4. Echo(c) = [act |-> c.act, gto |-> (c.act /\ c.gto), pos |-> c.pos]
      BY DEF Echo
  <1>5. (f.act /\ (f.act /\ f.gto)) = (f.act /\ f.gto)
      OBVIOUS
  <1>6. Echo(c) = e
      BY <1>1, <1>2, <1>4, <1>5
  <1> QED
      BY <1>2, <1>3, <1>6, EchoIsStatus DEF c

-----------------------------------------------------------------------------
(* What each of the four kinds of thread leaves alone.                     *)
WaiterNext(w) == Observe(w) \/ InSync(w) \/ EarlyWakeUp(w) \/ GripperDeadline(w)

LEMMA OwnerFrame ==
  OwnerNext =>
    /\ UNCHANGED <<syncVars, copy, reply, failures, call, before, stale, found, wholeVars,
                   device, owed>>
    /\ UNCHANGED <<result, target, settled, copied>> \/ (call = "idle" /\ Forget)
  BY DEF OwnerNext, OwnerStops, InitialReadSucceeds, InitialReadFails, Start, Spawn, Destroy,
         StopRunning, StopClose, StopNotify, StopJoin, Seed, Close, NotifyAll,
         vars, imageVars, syncVars, exchangeVars, ownerVars, callVars, wholeVars

LEMMA ExchangeFrame ==
  ExchangeThread => UNCHANGED <<command, closed, syncVars, ownerVars, callVars, found>>
  BY DEF ExchangeThread, TestRunning, CopyCommand, ExchangeSucceeds, ExchangeFails,
         CountFailure, TurnFaulted, ClearFailures, TurnOperational, PublishExchange,
         AnnounceExchange, NextCycle, Publish, Stamps, NotifyAll,
         vars, imageVars, syncVars, exchangeVars, ownerVars, callVars, wholeVars

LEMMA CommanderFrame ==
  CommanderNext =>
    UNCHANGED <<stamped, closed, notifying, got, exchangeVars, ownerVars, stale, wholeVars,
                device, owed>>
  BY DEF CommanderNext, CommanderContinues, PlainSetCommand, CommandCount, CommandSet,
         CommandWait, CommandEnds, CommandWaitsOn, SetCommand, SyncCall, Forget,
         vars, imageVars, syncVars, exchangeVars, ownerVars, callVars, wholeVars

LEMMA WaiterFrame ==
  ASSUME NEW w \in Waiters, WaiterNext(w)
  PROVE  /\ UNCHANGED <<imageVars, notifying, exchangeVars, ownerVars, call, before, stale,
                         found, wholeVars, device, owed>>
         /\ UNCHANGED <<result, target, settled, copied>> \/ (call = "idle" /\ Forget)
  BY DEF WaiterNext, Observe, InSync, EarlyWakeUp, GripperDeadline, SyncCall, SyncWait,
         SyncReturn, WaitUntilExpires, WaitReturnsEarly, DeadlinePasses,
         vars, imageVars, syncVars, exchangeVars, ownerVars, callVars, wholeVars

(* What comes to an exchange are statuses: its own answer alone, if it     *)
(* found nothing owed.                                                     *)
LEMMA ComingStatuses ==
  ASSUME owed \in Seq(Statuses), NEW k \in 0 .. Len(owed), NEW answer \in Seq(Statuses)
  PROVE  Coming(k, answer) \in Seq(Statuses) /\ (Alone(k) => Coming(k, answer) = answer)
  <1>1. k \in Nat /\ Len(owed) \in Nat /\ k + 1 \in Int /\ Len(owed) \in Int
      BY LenProperties
  <1>2. \A i \in k + 1 .. Len(owed) : owed[i] \in Statuses
      BY <1>1, LenProperties, ElementOfSeq
  <1>3. SubSeq(owed, k + 1, Len(owed)) \in Seq(Statuses)
      BY <1>1, <1>2, SubSeqProperties
  <1>4. Coming(k, answer) \in Seq(Statuses)
      BY <1>3, ConcatProperties DEF Coming
  <1>5. ASSUME Alone(k) PROVE Coming(k, answer) = answer
    <2>1. SubSeq(owed, k + 1, Len(owed)) = <<>>
        BY <1>1, <1>5, SubSeqEmpty DEF Alone
    <2> QED
        BY <2>1, ConcatEmptySeq DEF Coming
  <1> QED
      BY <1>4, <1>5

(* What an exchange does, however it ends: the gripper takes the block or  *)
(* not, and an exchange that finds nothing owed takes its own answer.      *)
LEMMA ExchangeEnds ==
  ASSUME owed \in Seq(Statuses), copy \in Commands, ExchangeSucceeds \/ ExchangeFails
  PROVE  /\ device' \in {device, copy} /\ owed' \in Seq(Statuses)
         /\ ExchangeSucceeds =>
              /\ reply' \in Statuses
              /\ alone' => reply' = Echo(copy) /\ device' = copy /\ owed' = <<>>
              /\ ~ alone' => owed # <<>>
              /\ alone' \in BOOLEAN
  <1>1. <<>> \in Seq(Statuses) /\ <<Echo(copy)>> \in Seq(Statuses)
      BY EchoIsStatus
  <1>2. CASE ExchangeSucceeds
    <2>1. PICK k \in 0 .. Len(owed), answer \in {<<>>, <<Echo(copy)>>} :
            Answers(answer) /\ Take(reply', k, answer) /\ alone' = Alone(k)
        BY <1>2 DEF ExchangeSucceeds
    <2>2. answer \in Seq(Statuses)
        BY <1>1
    <2>3. Coming(k, answer) \in Seq(Statuses) /\ (Alone(k) => Coming(k, answer) = answer)
        BY <2>2, ComingStatuses
    <2>4. /\ Coming(k, answer) # <<>> /\ reply' = Head(Coming(k, answer))
          /\ owed' = Tail(Coming(k, answer))
        BY <2>1 DEF Take
    <2>5. reply' \in Statuses /\ owed' \in Seq(Statuses)
        BY <2>3, <2>4, HeadTailProperties
    <2>6. device' \in {device, copy} /\ (answer # <<>> => answer = <<Echo(copy)>> /\ device' = copy)
        BY <2>1 DEF Answers
    <2>7. ASSUME alone' PROVE reply' = Echo(copy) /\ device' = copy /\ owed' = <<>>
      <3>1. Coming(k, answer) = answer
          BY <2>1, <2>3, <2>7
      <3>2. answer = <<Echo(copy)>> /\ device' = copy
          BY <2>4, <2>6, <3>1
      <3> QED
          BY <2>4, <3>1, <3>2
    <2>8. ASSUME ~ alone' PROVE owed # <<>>
      <3>1. k # Len(owed)
          BY <2>1, <2>8 DEF Alone
      <3> QED
          BY <3>1, LenProperties
    <2>9. alone' \in BOOLEAN
        BY <2>1 DEF Alone
    <2> QED
        BY <2>5, <2>6, <2>7, <2>8, <2>9
  <1>3. CASE ExchangeFails
    <2>1. PICK k \in 0 .. Len(owed), answer \in {<<>>, <<Echo(copy)>>} :
            Answers(answer) /\ GiveUp(k, answer)
        BY <1>3 DEF ExchangeFails
    <2>2. Coming(k, answer) \in Seq(Statuses)
        BY <1>1, ComingStatuses
    <2>3. ~ ExchangeSucceeds
        BY <1>3 DEF ExchangeFails, ExchangeSucceeds, Goto
    <2> QED
        BY <2>1, <2>2, <2>3 DEF GiveUp, Answers
  <1> QED
      BY <1>2, <1>3

(* Every step of the gripper is one of the image, or none, or a call of    *)
(* sync() by a waiter (whose deadline may be behind it).                   *)
AnyCall ==
  \E w \in Waiters, c \in 0 .. MaxExchanges, late \in BOOLEAN : SyncCall(w, c, late)

LEMMA GripperImageStep == GripperInv /\ GripperNext => [ImageNext]_vars \/ AnyCall
  <1> SUFFICES ASSUME GripperInv, GripperNext
               PROVE  [ImageNext]_vars \/ AnyCall
      OBVIOUS
  <1> USE GripperAssumption DEF GripperInv, GripperTypeOK
  <1>1. ASSUME InitialReadSucceeds PROVE ImageNext
    <2>1. device \in Found
        BY <1>1 DEF InitialReadSucceeds, Seed, Seeded, BlocksHold
    <2>2. Echo(device) \in Statuses /\ SeedCommand(Echo(device)) \in Commands
        BY <2>1, SeedEchoes
    <2> QED
        BY <1>1, <2>2 DEF InitialReadSucceeds, ImageNext, ImageCalls
  <1>2. ASSUME StopClose PROVE ImageNext
      BY <1>2 DEF StopClose, ImageNext, ImageCalls
  <1>3. ASSUME StopNotify \/ AnnounceExchange PROVE ImageNext
      BY <1>3 DEF StopNotify, AnnounceExchange, ImageNext, Notifiers
  <1>4. ASSUME PublishExchange PROVE ImageNext
    <2>1. copy \in Commands /\ reply \in Statuses
        BY <1>4 DEF PublishExchange, Goto, BlocksHold, Answered, Carrying
    <2> QED
        BY <1>4, <2>1 DEF PublishExchange, ImageNext, ImageCalls
  <1>5. ASSUME NEW c \in Commands, PlainSetCommand(c) PROVE ImageNext
      BY <1>5 DEF PlainSetCommand, ImageNext, ImageCalls
  <1>6. ASSUME CommandSet PROVE ImageNext
    <2>1. target \in Commands
        BY <1>6 DEF CommandSet, CallsHold
    <2> QED
        BY <1>6, <2>1 DEF CommandSet, ImageNext, ImageCalls
  <1>7. ASSUME CommandWait \/ CommandWaitsOn PROVE AnyCall
    <2>1. before \in 0 .. MaxExchanges
        BY DEF CallTypeOK
    <2>2. got[Commander].count \in 0 .. MaxExchanges /\ expired[Commander] \in BOOLEAN
        BY DEF ImageTypeOK, Records
    <2>3. Commander \in Waiters /\ FALSE \in BOOLEAN
        OBVIOUS
    <2>4. CASE CommandWait
        BY <2>1, <2>3, <2>4, Zenon DEF CommandWait, AnyCall
    <2>5. CASE CommandWaitsOn
        BY <2>2, <2>3, <2>5, Zenon DEF CommandWaitsOn, AnyCall
    <2> QED
        BY <1>7, <2>4, <2>5
  <1>8. ASSUME NEW w \in Waiters, Observe(w) PROVE AnyCall
    <2>1. PICK c \in {stamped.count, MaxExchanges} : SyncCall(w, c, FALSE)
        BY <1>8, Zenon DEF Observe
    <2>2. c \in 0 .. MaxExchanges /\ FALSE \in BOOLEAN
        BY ImageAssumption DEF ImageTypeOK, Records
    <2> QED
        BY <2>1, <2>2, Zenon DEF AnyCall
  <1>9. ASSUME NEW w \in Waiters, InSync(w) \/ EarlyWakeUp(w) \/ GripperDeadline(w)
        PROVE  ImageNext
      BY <1>9 DEF InSync, EarlyWakeUp, GripperDeadline, ImageNext, SyncSteps
  <1>10. ASSUME \/ InitialReadFails \/ Start \/ Spawn \/ Destroy \/ StopRunning \/ StopJoin
                \/ TestRunning \/ CopyCommand \/ ExchangeSucceeds \/ ExchangeFails
                \/ CountFailure \/ TurnFaulted \/ ClearFailures \/ TurnOperational
                \/ NextCycle \/ CommandEnds \/ \E c \in Commands : CommandCount(c)
         PROVE  UNCHANGED vars
      BY <1>10 DEF InitialReadFails, Start, Spawn, Destroy, StopRunning, StopJoin, TestRunning,
           CopyCommand, ExchangeSucceeds, ExchangeFails, CountFailure, TurnFaulted,
           ClearFailures, TurnOperational, NextCycle, CommandEnds, CommandCount
  <1> QED
      BY <1>1, <1>2, <1>3, <1>4, <1>5, <1>6, <1>7, <1>8, <1>9, <1>10
      DEF GripperNext, OwnerNext, OwnerStops, ExchangeThread, CommanderNext, CommanderContinues

-----------------------------------------------------------------------------
(* The types.                                                              *)
LEMMA ImageTypeStep == GripperInv /\ GripperNext => ImageTypeOK'
  <1> SUFFICES ASSUME GripperInv, GripperNext
               PROVE  ImageTypeOK'
      OBVIOUS
  <1>1. ImageTypeOK
      BY DEF GripperInv, GripperTypeOK
  <1>2. ASSUME NEW w \in Waiters, NEW c \in 0 .. MaxExchanges, NEW late \in BOOLEAN,
               SyncCall(w, c, late)
        PROVE  ImageTypeOK'
      BY <1>1, <1>2, ImageAssumption DEF SyncCall, ImageTypeOK, Records, Notifiers, imageVars
  <1> QED
      BY <1>1, <1>2, GripperImageStep, ImageNextTypeOK DEF AnyCall

LEMMA OwnerTypeStep == GripperInv /\ GripperNext => OwnerTypeOK'
  <1> SUFFICES ASSUME GripperInv, GripperNext
               PROVE  OwnerTypeOK'
      OBVIOUS
  <1> USE GripperAssumption DEF GripperInv, GripperTypeOK, OwnerTypeOK, ownerVars, Places
  <1>1. CASE OwnerNext
    <2>1. CASE InitialReadFails
        BY <2>1 DEF InitialReadFails
    <2>2. CASE InitialReadSucceeds
        BY <2>2 DEF InitialReadSucceeds
    <2>4. CASE Start
        BY <2>4 DEF Start
    <2>5. CASE Spawn \/ Destroy
        BY <2>5 DEF Spawn, Destroy
    <2>3. CASE OwnerStops
        BY <2>3 DEF OwnerStops, StopRunning, StopClose, StopNotify, StopJoin
    <2> QED
        BY <1>1, <2>1, <2>2, <2>3, <2>4, <2>5 DEF OwnerNext
  <1>2. CASE ExchangeThread
      BY <1>2, ExchangeFrame
  <1>3. CASE CommanderNext
      BY <1>3, CommanderFrame
  <1>4. ASSUME NEW w \in Waiters, WaiterNext(w) PROVE OwnerTypeOK'
      BY <1>4, WaiterFrame
  <1> QED
      BY <1>1, <1>2, <1>3, <1>4 DEF GripperNext, WaiterNext

LEMMA ExchangeTypeStep == GripperInv /\ GripperNext => ExchangeTypeOK'
  <1> SUFFICES ASSUME GripperInv, GripperNext
               PROVE  ExchangeTypeOK'
      OBVIOUS
  <1> USE GripperAssumption DEF GripperInv, GripperTypeOK, ExchangeTypeOK, exchangeVars, Goto
  <1>1. CASE OwnerNext
      BY <1>1, OwnerFrame DEF OwnerNext, OwnerStops, InitialReadSucceeds, InitialReadFails,
         Start, Spawn, Destroy, StopRunning, StopClose, StopNotify, StopJoin
  <1>2. CASE ExchangeThread
    <2>1. CASE TestRunning \/ TurnFaulted \/ TurnOperational \/ PublishExchange
               \/ AnnounceExchange \/ NextCycle
        BY <2>1 DEF TestRunning, TurnFaulted, TurnOperational, PublishExchange,
           AnnounceExchange, NextCycle
    <2>2. CASE CopyCommand
        BY <2>2 DEF CopyCommand, ImageTypeOK
    <2>3. CASE ExchangeSucceeds \/ ExchangeFails
      <3>1. copy \in Commands
          BY <2>3 DEF ExchangeSucceeds, ExchangeFails, BlocksHold, Carrying
      <3>2. device' \in Commands \cup Found /\ owed' \in Seq(Statuses)
          BY <2>3, <3>1, ExchangeEnds
      <3>3. ExchangeSucceeds => reply' \in Statuses
          BY <3>1, ExchangeEnds
      <3> QED
          BY <2>3, <3>2, <3>3 DEF ExchangeSucceeds, ExchangeFails
    <2>4. CASE CountFailure \/ ClearFailures
        BY <2>4 DEF CountFailure, ClearFailures
    <2> QED
        BY <1>2, <2>1, <2>2, <2>3, <2>4 DEF ExchangeThread
  <1>3. CASE CommanderNext
      BY <1>3, CommanderFrame
  <1>4. ASSUME NEW w \in Waiters, WaiterNext(w) PROVE ExchangeTypeOK'
      BY <1>4, WaiterFrame
  <1> QED
      BY <1>1, <1>2, <1>3, <1>4 DEF GripperNext, WaiterNext

LEMMA CallTypeStep == GripperInv /\ GripperNext => CallTypeOK'
  <1> SUFFICES ASSUME GripperInv, GripperNext
               PROVE  CallTypeOK'
      OBVIOUS
  <1>1. MaxExchanges \in Nat /\ stamped.count \in 0 .. MaxExchanges
      BY ImageAssumption DEF GripperInv, GripperTypeOK, ImageTypeOK, Records
  <1> USE <1>1, GripperAssumption DEF GripperInv, GripperTypeOK, CallTypeOK, callVars
  <1>2. ASSUME UNCHANGED <<call, before>>,
               UNCHANGED <<result, target, settled, copied>> \/ Forget
        PROVE  CallTypeOK'
    <2>1. settled' \in BOOLEAN
        BY <1>2, Zenon DEF Forget
    <2>2. /\ result' \in {"none", result} /\ target' \in {NoCommand, target}
          /\ copied' \in {0, copied}
        BY <1>2, Zenon DEF Forget
    <2> QED
        BY <1>2, <2>1, <2>2
  <1>3. CASE OwnerNext
      BY <1>2, <1>3, OwnerFrame
  <1>4. CASE ExchangeThread
      BY <1>2, <1>4, ExchangeFrame
  <1>5. ASSUME NEW c \in Commands, CommandCount(c) PROVE CallTypeOK'
    <2>1. settled' \in BOOLEAN
        BY <1>5, Zenon DEF CommandCount, OnTheWireOnly
    <2>2. /\ call' = "setting" /\ before' = stamped.count /\ target' = c /\ result' = "none"
          /\ copied' = 0
        BY <1>5, Zenon DEF CommandCount
    <2> QED
        BY <2>1, <2>2
  <1>6. ASSUME NEW c \in Commands, PlainSetCommand(c) PROVE CallTypeOK'
      BY <1>2, <1>6 DEF PlainSetCommand
  <1>7. CASE CommandSet
    <2>1. copied' \in {stamped.count, stamped.count + 1}
        BY <1>7, Zenon DEF CommandSet
    <2> QED
        BY <1>7, <2>1 DEF CommandSet
  <1>8. CASE CommandWait \/ CommandWaitsOn
      BY <1>8 DEF CommandWait, CommandWaitsOn
  <1>9. CASE CommandEnds
    <2>1. call' = "idle" /\ before' = 0
        BY <1>9, Zenon DEF CommandEnds
    <2>2. /\ result' \in {"none", "carried"} /\ target' \in {NoCommand, target}
          /\ copied' \in {0, copied} /\ settled' \in BOOLEAN
        BY <1>9, Zenon DEF CommandEnds, Forget
    <2> QED
        BY <2>1, <2>2
  <1>10. ASSUME NEW w \in Waiters, WaiterNext(w) PROVE CallTypeOK'
      BY <1>2, <1>10, WaiterFrame
  <1> QED
      BY <1>3, <1>4, <1>5, <1>6, <1>7, <1>8, <1>9, <1>10
      DEF GripperNext, CommanderNext, CommanderContinues, WaiterNext

LEMMA HistoryTypeStep == GripperInv /\ GripperNext => HistoryTypeOK'
  <1> SUFFICES ASSUME GripperInv, GripperNext
               PROVE  HistoryTypeOK'
      OBVIOUS
  <1> USE GripperAssumption DEF GripperInv, GripperTypeOK, HistoryTypeOK, wholeVars
  <1>1. CASE OwnerNext
      BY <1>1, OwnerFrame
  <1>2. CASE ExchangeThread
    <2>1. stale' \in 0 .. FaultThreshold
        BY <1>2 DEF ExchangeThread, TestRunning, CopyCommand, ExchangeSucceeds, ExchangeFails,
           CountFailure, TurnFaulted, ClearFailures, TurnOperational, PublishExchange,
           AnnounceExchange, NextCycle, Stamps
    <2>2. CASE PublishExchange
      <3>1. stamped'.count \in 1 .. MaxExchanges
          BY <2>2, ImageAssumption DEF PublishExchange, Publish, ImageTypeOK, Records
      <3>2. lagging' \in BOOLEAN /\ alone' \in BOOLEAN
          BY <2>2, Zenon DEF PublishExchange, Stamps
      <3>3. whole' \subseteq 1 .. MaxExchanges
          BY <2>2, <3>1 DEF PublishExchange, Stamps
      <3> QED
          BY <1>2, <2>1, <3>2, <3>3, ExchangeFrame
    <2>3. CASE ExchangeSucceeds
      <3>1. copy \in Commands /\ owed \in Seq(Statuses)
          BY <2>3 DEF ExchangeSucceeds, Goto, BlocksHold, Carrying, ExchangeTypeOK
      <3>2. alone' \in BOOLEAN /\ UNCHANGED <<whole, lagging>>
          BY <2>3, <3>1, ExchangeEnds DEF ExchangeSucceeds
      <3> QED
          BY <1>2, <2>1, <3>2, ExchangeFrame
    <2>4. CASE ~ PublishExchange /\ ~ ExchangeSucceeds
      <3>1. UNCHANGED <<alone, whole>> /\ lagging' \in {lagging, TRUE}
          BY <1>2, <2>4 DEF ExchangeThread, TestRunning, CopyCommand, ExchangeFails,
             CountFailure, TurnFaulted, ClearFailures, TurnOperational, AnnounceExchange,
             NextCycle
      <3> QED
          BY <1>2, <2>1, <3>1, ExchangeFrame
    <2> QED
        BY <2>2, <2>3, <2>4
  <1>3. ASSUME NEW c \in Commands, PlainSetCommand(c) \/ CommandCount(c) PROVE HistoryTypeOK'
      BY <1>3 DEF PlainSetCommand, CommandCount
  <1>4. CASE CommanderContinues
      BY <1>4 DEF CommanderContinues, CommandSet, CommandWait, CommandEnds, CommandWaitsOn
  <1>5. ASSUME NEW w \in Waiters, WaiterNext(w) PROVE HistoryTypeOK'
      BY <1>5, WaiterFrame
  <1> QED
      BY <1>1, <1>2, <1>3, <1>4, <1>5 DEF GripperNext, CommanderNext, WaiterNext

LEMMA GripperTypeStep == GripperInv /\ GripperNext => GripperTypeOK'
  BY ImageTypeStep, OwnerTypeStep, ExchangeTypeStep, CallTypeStep, HistoryTypeStep
  DEF GripperTypeOK

-----------------------------------------------------------------------------
(* Who may be where.                                                       *)
LEMMA PlacesStep == GripperInv /\ GripperNext => Places'
  <1> SUFFICES ASSUME GripperInv, GripperNext
               PROVE  Places'
      OBVIOUS
  <1> USE GripperAssumption DEF GripperInv, Places, Forget, exchangeVars, ownerVars, callVars,
          vars, imageVars
  <1>1. CASE OwnerNext
    <2>1. CASE InitialReadSucceeds
      <3>1. command' # NoCommand
          BY <2>1, SeedEchoes, ImageAssumption
          DEF InitialReadSucceeds, Seed, Seeded, BlocksHold
      <3> QED
          BY <2>1, <3>1 DEF InitialReadSucceeds
    <2>2. CASE InitialReadFails
        BY <2>2 DEF InitialReadFails, GripperTypeOK, OwnerTypeOK
    <2>3. CASE Start \/ Spawn \/ Destroy \/ StopRunning
        BY <2>3 DEF Start, Spawn, Destroy, StopRunning
    <2>4. CASE StopClose \/ StopNotify \/ StopJoin
        BY <2>4 DEF StopClose, StopNotify, StopJoin, Close, NotifyAll
    <2> QED
        BY <1>1, <2>1, <2>2, <2>3, <2>4 DEF OwnerNext, OwnerStops
  <1>2. CASE ExchangeThread
    <2>1. thread # "none" /\ thread # "returned" /\ thread' # "none"
        BY <1>2 DEF ExchangeThread, TestRunning, CopyCommand, ExchangeSucceeds, ExchangeFails,
           CountFailure, TurnFaulted, ClearFailures, TurnOperational, PublishExchange,
           AnnounceExchange, NextCycle, Goto
    <2> QED
        BY <1>2, <2>1, ExchangeFrame
  <1>3. ASSUME NEW c \in Commands, PlainSetCommand(c) \/ CommandCount(c) PROVE Places'
      BY <1>3, ImageAssumption DEF PlainSetCommand, CommandCount, CommanderFree, SetCommand
  <1>4. CASE CommandSet
    <2>1. target # NoCommand
        BY <1>4, ImageAssumption DEF CommandSet, CallsHold
    <2> QED
        BY <1>4, <2>1 DEF CommandSet, SetCommand
  <1>5. CASE CommandWait \/ CommandEnds \/ CommandWaitsOn
      BY <1>5 DEF CommandWait, CommandEnds, CommandWaitsOn, SyncCall
  <1>6. ASSUME NEW w \in Waiters, WaiterNext(w) PROVE Places'
      BY <1>6, WaiterFrame
  <1> QED
      BY <1>1, <1>2, <1>3, <1>4, <1>5, <1>6
      DEF GripperNext, CommanderNext, CommanderContinues, WaiterNext

(* The failure counter and the connection state.                           *)
LEMMA HealthStep == GripperInv /\ GripperNext => Health'
  <1> SUFFICES ASSUME GripperInv, GripperNext
               PROVE  Health'
      OBVIOUS
  <1>1. /\ stale \in 0 .. FaultThreshold /\ failures \in 0 .. CounterRange - 1
        /\ FaultThreshold \in Nat \ {0} /\ CounterRange \in Nat /\ CounterRange > FaultThreshold
      BY GripperAssumption DEF GripperInv, GripperTypeOK, HistoryTypeOK, ExchangeTypeOK
  <1> USE <1>1 DEF GripperInv, Health, InStep, Goto, Stamps, exchangeVars
  <1>2. CASE OwnerNext
    <2>1. CASE InitialReadSucceeds
        BY <2>1 DEF InitialReadSucceeds, Places
    <2>2. CASE Spawn
        BY <2>2 DEF Spawn, Places
    <2>3. CASE InitialReadFails \/ Start \/ Destroy \/ OwnerStops
        BY <2>3 DEF InitialReadFails, Start, Destroy, OwnerStops, StopRunning, StopClose,
           StopNotify, StopJoin
    <2> QED
        BY <1>2, <2>1, <2>2, <2>3 DEF OwnerNext
  <1>3. CASE ExchangeThread
    <2>1. CASE TestRunning \/ CopyCommand \/ ExchangeSucceeds \/ AnnounceExchange \/ NextCycle
        BY <2>1 DEF TestRunning, CopyCommand, ExchangeSucceeds, AnnounceExchange, NextCycle
    <2>2. CASE ExchangeFails
        BY <2>2 DEF ExchangeFails
    <2>3. CASE CountFailure
      <3>1. CASE failures' >= FaultThreshold
          BY <2>3, <3>1 DEF CountFailure
      <3>2. CASE failures' < FaultThreshold
          BY <2>3, <3>2 DEF CountFailure
      <3> QED
          BY <2>3, <3>1, <3>2 DEF CountFailure
    <2>4. CASE TurnFaulted \/ ClearFailures \/ TurnOperational \/ PublishExchange
        BY <2>4 DEF TurnFaulted, ClearFailures, TurnOperational, PublishExchange
    <2> QED
        BY <1>3, <2>1, <2>2, <2>3, <2>4 DEF ExchangeThread
  <1>4. CASE CommanderNext
      BY <1>4, CommanderFrame
  <1>5. ASSUME NEW w \in Waiters, WaiterNext(w) PROVE Health'
      BY <1>5, WaiterFrame
  <1> QED
      BY <1>2, <1>3, <1>4, <1>5 DEF GripperNext, WaiterNext

(* The blocks on the wire, in the record and in the gripper.               *)
LEMMA BlocksExchangeStep == GripperInv /\ ExchangeThread => BlocksHold'
  <1> SUFFICES ASSUME GripperInv, ExchangeThread
               PROVE  BlocksHold'
      OBVIOUS
  <1>1. /\ command # NoCommand /\ command \in Commands /\ command' = command /\ found' = found
        /\ owed \in Seq(Statuses) /\ stamped.count \in Nat /\ alone \in BOOLEAN
        /\ lagging \in BOOLEAN /\ found \in Found \cup {NoCommand} /\ whole \subseteq Nat
    <2>1. command # NoCommand
        BY DEF GripperInv, Places, ExchangeThread, TestRunning, CopyCommand, ExchangeSucceeds,
           ExchangeFails, CountFailure, TurnFaulted, ClearFailures, TurnOperational,
           PublishExchange, AnnounceExchange, NextCycle, Goto
    <2> QED
        BY <2>1, ExchangeFrame, ImageAssumption
        DEF GripperInv, GripperTypeOK, ImageTypeOK, Records, ExchangeTypeOK, HistoryTypeOK
  <1> USE <1>1 DEF GripperInv, BlocksHold, Carrying, Answered, Whole, Goto, wholeVars
  <1>2. CASE TestRunning \/ CountFailure \/ TurnFaulted \/ NextCycle
    <2>1. UNCHANGED <<stamped, alone, whole, lagging, device, owed>>
        BY <1>2 DEF TestRunning, CountFailure, TurnFaulted, NextCycle, vars, imageVars
    <2>2. ~ Carrying /\ ~ Carrying'
        BY <1>2 DEF TestRunning, CountFailure, TurnFaulted, NextCycle
    <2> QED
        BY <2>1, <2>2
  <1>3. CASE CopyCommand
      BY <1>3 DEF CopyCommand, vars, imageVars
  <1>4. ASSUME thread = "exchanging", device' \in {device, copy}, found # NoCommand
        PROVE  Echo(device') = Echo(found) /\ device'.speed \in {found.speed, MaxSpeed}
    <2>1. copy = SeedCommand(Echo(found)) /\ found \in Found
        BY <1>4
    <2>2. Echo(copy) = Echo(found) /\ copy.speed = MaxSpeed
        BY <2>1, SeedEchoes
    <2>3. Echo(device) = Echo(found) /\ device.speed \in {found.speed, MaxSpeed}
        BY <1>4
    <2>4. CASE device' = device
        BY <2>3, <2>4
    <2>5. CASE device' = copy
        BY <2>2, <2>5
    <2> QED
        BY <1>4, <2>4, <2>5
  <1>5. CASE ExchangeSucceeds
    <2>1. /\ thread = "exchanging" /\ thread' = "clearing" /\ copy \in Commands
          /\ UNCHANGED <<stamped, copy, whole, lagging>>
        BY <1>5 DEF ExchangeSucceeds, vars, imageVars
    <2>2. /\ device' \in {device, copy} /\ reply' \in Statuses
          /\ alone' => reply' = Echo(copy) /\ device' = copy /\ owed' = <<>>
          /\ ~ alone' => owed # <<>>
        BY <1>5, <2>1, ExchangeEnds
    <2>3. lagging \/ (owed' = <<>> /\ alone')
        BY <2>2
    <2>4. ~ alone
        BY <2>1
    <2> QED
        BY <1>4, <2>1, <2>2, <2>3, <2>4
  <1>6. CASE ExchangeFails
    <2>1. /\ thread = "exchanging" /\ thread' = "counting" /\ copy \in Commands /\ lagging' = TRUE
          /\ UNCHANGED <<stamped, copy, reply, alone, whole>>
        BY <1>6 DEF ExchangeFails, vars, imageVars
    <2>2. device' \in {device, copy} /\ ~ alone
        BY <1>6, <2>1, ExchangeEnds
    <2> QED
        BY <1>4, <2>1, <2>2
  <1>7. CASE ClearFailures \/ TurnOperational
    <2>1. /\ UNCHANGED <<stamped, copy, reply, alone, whole, lagging, device, owed>>
          /\ Answered /\ Answered' /\ thread' # "exchanging"
        BY <1>7 DEF ClearFailures, TurnOperational, vars, imageVars
    <2> QED
        BY <2>1
  <1>8. CASE PublishExchange
    <2>1. /\ thread = "publishing" /\ thread' = "announcing"
          /\ stamped'.count = stamped.count + 1 /\ stamped'.command = copy
          /\ stamped'.status = reply /\ UNCHANGED <<copy, reply, device, owed>>
        BY <1>8 DEF PublishExchange, Publish
    <2>2. Stamps
        BY <1>8 DEF PublishExchange
    <2>3. CASE alone
      <3>1. whole' = whole \cup {stamped'.count} /\ ~ alone'
          BY <2>2, <2>3 DEF Stamps
      <3> QED
          BY <2>1, <2>3, <3>1
    <2>4. CASE ~ alone
      <3>1. whole' = whole /\ lagging /\ lagging' /\ ~ alone'
          BY <2>1, <2>2, <2>4 DEF Stamps
      <3> QED
          BY <2>1, <2>4, <3>1
    <2> QED
        BY <2>3, <2>4
  <1>9. CASE AnnounceExchange
      BY <1>9 DEF AnnounceExchange, NotifyAll, imageVars
  <1> QED
      BY <1>2, <1>3, <1>5, <1>6, <1>7, <1>8, <1>9 DEF ExchangeThread

LEMMA BlocksStep == GripperInv /\ GripperNext => BlocksHold'
  <1> SUFFICES ASSUME GripperInv, GripperNext
               PROVE  BlocksHold'
      OBVIOUS
  <1> USE DEF GripperInv, BlocksHold, Carrying, Answered, Whole, Goto, exchangeVars, wholeVars,
          imageVars, vars
  <1>1. CASE OwnerNext
    <2>1. CASE InitialReadSucceeds
      <3>1. /\ command = NoCommand /\ device = found /\ found \in Found
            /\ command' = SeedCommand(Echo(found)) /\ stamped'.command = command'
            /\ stamped'.status = Echo(found) /\ stamped'.count = 0 /\ stamped.count = 0
            /\ thread = "none" /\ thread' = "none"
          BY <2>1 DEF InitialReadSucceeds, Seed, Seeded, Places
      <3>2. command' \in Commands /\ Echo(command') = Echo(found)
          BY <3>1, SeedEchoes
      <3>3. command' # NoCommand
          BY <3>2, ImageAssumption
      <3>4. UNCHANGED <<found, device, owed, alone, whole, lagging>>
          BY <2>1, OwnerFrame DEF OwnerNext
      <3> QED
          BY <3>1, <3>2, <3>3, <3>4
    <2>2. CASE Spawn
        BY <2>2 DEF Spawn, Places
    <2>3. CASE InitialReadFails \/ Start \/ Destroy \/ StopRunning
        BY <2>3 DEF InitialReadFails, Start, Destroy, StopRunning
    <2>4. CASE StopClose \/ StopNotify \/ StopJoin
        BY <2>4 DEF StopClose, StopNotify, StopJoin, Close, NotifyAll
    <2> QED
        BY <1>1, <2>1, <2>2, <2>3, <2>4 DEF OwnerNext, OwnerStops
  <1>2. CASE ExchangeThread
      BY <1>2, BlocksExchangeStep
  <1>3. ASSUME NEW c \in Commands, PlainSetCommand(c) PROVE BlocksHold'
      BY <1>3, ImageAssumption DEF PlainSetCommand, SetCommand, Seeded
  <1>4. CASE CommandSet
    <2>1. target # NoCommand
        BY <1>4, ImageAssumption DEF CommandSet, CallsHold
    <2> QED
        BY <1>4, <2>1 DEF CommandSet, SetCommand, Seeded
  <1>5. ASSUME NEW c \in Commands, CommandCount(c) PROVE BlocksHold'
      BY <1>5 DEF CommandCount
  <1>6. CASE CommandWait \/ CommandEnds \/ CommandWaitsOn
      BY <1>6 DEF CommandWait, CommandEnds, CommandWaitsOn, SyncCall
  <1>7. ASSUME NEW w \in Waiters, WaiterNext(w) PROVE BlocksHold'
      BY <1>7, WaiterFrame
  <1> QED
      BY <1>1, <1>2, <1>3, <1>4, <1>5, <1>6, <1>7
      DEF GripperNext, CommanderNext, CommanderContinues, WaiterNext

(* The commander's locals.  First the steps of the other threads: the      *)
(* record only grows, and a new one that shows the target, or that comes   *)
(* before the target is set, is of a block the gripper has taken.          *)
LEMMA CallsExchangeStep == GripperInv /\ ExchangeThread => CallsHold'
  <1> SUFFICES ASSUME GripperInv, ExchangeThread
               PROVE  CallsHold'
      OBVIOUS
  <1>1. /\ UNCHANGED <<command, call, before, target, result, settled, copied, since, got>>
        /\ Commander \in Waiters /\ stamped.count \in Nat /\ before \in Nat /\ copied \in Nat
        /\ got[Commander].count \in Nat /\ whole \subseteq Nat
        /\ owed \in Seq(Statuses)
      BY ExchangeFrame, GripperAssumption, ImageAssumption
      DEF GripperInv, GripperTypeOK, ImageTypeOK, Records, CallTypeOK, HistoryTypeOK,
          ExchangeTypeOK, callVars, syncVars
  <1> USE <1>1 DEF GripperInv, CallsHold, Returned, Shows, Holds, OnTheWireOnly, Carrying, Goto
  <1>2. CASE TestRunning \/ CountFailure \/ TurnFaulted \/ ClearFailures \/ TurnOperational
             \/ NextCycle
    <2>1. UNCHANGED <<stamped, at, whole, device>>
        BY <1>2 DEF TestRunning, CountFailure, TurnFaulted, ClearFailures, TurnOperational,
           NextCycle, vars, imageVars, wholeVars
    <2>2. Carrying' => Carrying /\ copy' = copy
        BY <1>2 DEF TestRunning, CountFailure, TurnFaulted, ClearFailures, TurnOperational,
           NextCycle
    <2> QED
        BY <2>1, <2>2
  <1>3. CASE CopyCommand
      BY <1>3 DEF CopyCommand, vars, imageVars, wholeVars
  <1>4. CASE ExchangeSucceeds \/ ExchangeFails
    <2>1. /\ thread = "exchanging" /\ thread' \in {"clearing", "counting"}
          /\ UNCHANGED <<stamped, at, copy, whole>>
        BY <1>4 DEF ExchangeSucceeds, ExchangeFails, vars, imageVars
    <2>2. device' \in {device, copy}
        BY <1>4, <2>1, ExchangeEnds DEF BlocksHold
    <2> QED
        BY <2>1, <2>2
  <1>5. CASE PublishExchange
    <2>1. /\ stamped'.count = stamped.count + 1 /\ stamped'.command = copy
          /\ UNCHANGED <<device, copy, at>>
          /\ thread = "publishing" /\ thread' = "announcing"
          /\ whole' = (IF alone THEN whole \cup {stamped.count + 1} ELSE whole)
        BY <1>5 DEF PublishExchange, Publish, Stamps
    <2>2. /\ \A n \in whole : n <= stamped.count
          /\ alone => device = copy
        BY DEF BlocksHold
    <2>3. (stamped'.count \in whole' <=> alone) /\ (Returned.count \in whole' <=> Returned.count \in whole)
        BY <2>1, <2>2
    <2>4. ASSUME call \in {"calling", "waiting"}, NEW n \in whole', n > copied
          PROVE  device = target
      <3>1. CASE n \in whole
          BY <2>4, <3>1
      <3>2. CASE alone /\ n = stamped.count + 1
        <4>1. stamped.count >= copied
            BY <2>4, <3>2
        <4>2. copy = target
            BY <2>1, <2>4, <4>1
        <4> QED
            BY <2>2, <3>2, <4>2
      <3> QED
          BY <2>1, <3>1, <3>2
    <2> QED
        BY <2>1, <2>2, <2>3, <2>4
  <1>6. CASE AnnounceExchange
    <2>1. at[Commander] = "out" => at'[Commander] = "out"
        BY <1>6 DEF AnnounceExchange, NotifyAll, GripperTypeOK, ImageTypeOK
    <2> QED
        BY <1>6, <2>1 DEF AnnounceExchange, NotifyAll, imageVars, wholeVars
  <1> QED
      BY <1>2, <1>3, <1>4, <1>5, <1>6 DEF ExchangeThread

LEMMA CallsOwnerStep == GripperInv /\ OwnerNext => CallsHold'
  <1> SUFFICES ASSUME GripperInv, OwnerNext
               PROVE  CallsHold'
      OBVIOUS
  <1>1. UNCHANGED <<since, got, copy, call, before, whole, device>>
      BY OwnerFrame DEF syncVars, wholeVars
  <1>2. Commander \in Waiters
      BY GripperAssumption
  <1> USE <1>1, <1>2 DEF GripperInv, CallsHold, Returned, Shows, Holds, OnTheWireOnly, Carrying
  <1>3. CASE InitialReadSucceeds
    <2>1. /\ command = NoCommand /\ call = "idle" /\ result # "carried"
          /\ stamped'.count = 0 /\ stamped.count = 0 /\ result' = result
        BY <1>3 DEF InitialReadSucceeds, Seed, Seeded, Places, callVars
    <2> QED
        BY <2>1
  <1>4. CASE Spawn
      BY <1>4 DEF Spawn, Places, callVars, vars, imageVars
  <1>5. CASE Destroy
      BY <1>5 DEF Destroy, Forget, vars, imageVars
  <1>6. CASE InitialReadFails \/ Start \/ StopRunning \/ StopJoin
      BY <1>6 DEF InitialReadFails, Start, StopRunning, StopJoin, exchangeVars,
         callVars, vars, imageVars
  <1>7. CASE StopClose
      BY <1>7 DEF StopClose, Close, exchangeVars, callVars
  <1>8. CASE StopNotify
    <2>1. at[Commander] = "out" => at'[Commander] = "out"
        BY <1>8 DEF StopNotify, NotifyAll
    <2> QED
        BY <1>8, <2>1 DEF StopNotify, NotifyAll, exchangeVars, callVars, imageVars
  <1> QED
      BY <1>3, <1>4, <1>5, <1>6, <1>7, <1>8 DEF OwnerNext, OwnerStops

(* A waiter that returns takes the record of the moment with it.           *)
LEMMA CallsWaiterStep ==
  ASSUME GripperInv, NEW w \in Waiters, WaiterNext(w)
  PROVE  CallsHold'
  <1>1. /\ UNCHANGED <<command, stamped, thread, copy, owner, call, before, whole, device>>
        /\ Commander \in Waiters /\ ImageTypeOK
      BY WaiterFrame, GripperAssumption
      DEF imageVars, exchangeVars, ownerVars, wholeVars, GripperInv, GripperTypeOK
  <1> USE <1>1 DEF GripperInv, CallsHold, Returned, Shows, Holds, OnTheWireOnly, Carrying,
          ImageTypeOK
  <1>2. CASE Observe(w)
    <2>1. PICK c : SyncCall(w, c, FALSE)
        BY <1>2, Zenon DEF Observe
    <2>2. CASE w = Commander
      <3>1. call = "idle" /\ result' = "none" /\ got' = got
          BY <1>2, <2>1, <2>2, Zenon DEF Observe, SyncCall, Forget
      <3> QED
          BY <3>1
    <2>3. CASE w # Commander
      <3>1. /\ UNCHANGED <<target, result, settled, copied>> /\ got' = got
            /\ at'[Commander] = at[Commander] /\ since'[Commander] = since[Commander]
          BY <1>2, <2>1, <2>3 DEF Observe, SyncCall
      <3> QED
          BY <3>1
    <2> QED
        BY <2>2, <2>3
  <1>3. CASE SyncReturn(w) /\ UNCHANGED <<target, result, settled, copied>>
    <2>1. CASE w = Commander
      <3>1. at[Commander] = "locking" /\ got'[Commander] = stamped /\ since' = since
          BY <1>3, <2>1 DEF SyncReturn
      <3> QED
          BY <1>3, <2>1, <3>1 DEF Records
    <2>2. CASE w # Commander
      <3>1. /\ got'[Commander] = got[Commander] /\ at'[Commander] = at[Commander]
            /\ since' = since
          BY <1>3, <2>2 DEF SyncReturn
      <3> QED
          BY <1>3, <3>1
    <2> QED
        BY <2>1, <2>2
  <1>4. CASE /\ SyncWait(w) \/ WaitUntilExpires(w) \/ WaitReturnsEarly(w) \/ DeadlinePasses(w)
             /\ UNCHANGED <<target, result, settled, copied>>
    <2>1. at[Commander] = "out" => at'[Commander] = "out"
        BY <1>4 DEF SyncWait, WaitUntilExpires, WaitReturnsEarly, DeadlinePasses
    <2>2. got' = got /\ since' = since
        BY <1>4 DEF SyncWait, WaitUntilExpires, WaitReturnsEarly, DeadlinePasses, syncVars
    <2> QED
        BY <1>4, <2>1, <2>2
  <1> QED
      BY <1>2, <1>3, <1>4 DEF WaiterNext, InSync, EarlyWakeUp, GripperDeadline, callVars

(* Then the commander's own.                                               *)
LEMMA CallsCommanderStep == GripperInv /\ CommanderNext => CallsHold'
  <1> SUFFICES ASSUME GripperInv, CommanderNext
               PROVE  CallsHold'
      OBVIOUS
  <1>1. /\ UNCHANGED <<stamped, got, thread, copy, whole, device>>
        /\ Commander \in Waiters /\ ImageTypeOK
        /\ stamped.count \in Nat /\ got[Commander].count \in Nat
        /\ before \in Nat /\ copied \in Nat /\ whole \subseteq Nat
        /\ since[Commander] \in Nat /\ \A n \in whole : n <= stamped.count
      BY CommanderFrame, GripperAssumption, ImageAssumption
      DEF exchangeVars, wholeVars, GripperInv, GripperTypeOK, ImageTypeOK, CallTypeOK,
          HistoryTypeOK, BlocksHold, Records
  <1> USE <1>1 DEF GripperInv, CallsHold, Returned, Shows, Holds, OnTheWireOnly, Carrying
  <1>2. ASSUME NEW c \in Commands, PlainSetCommand(c) PROVE CallsHold'
      BY <1>2 DEF PlainSetCommand, CommanderFree, Forget
  <1>3. ASSUME NEW c \in Commands, CommandCount(c) PROVE CallsHold'
    <2>1. /\ before' = stamped.count /\ target' = c /\ call' = "setting"
          /\ at' = at /\ at[Commander] = "out" /\ command' = command
        BY <1>3 DEF CommandCount, CommanderFree, vars, imageVars
    <2>2. settled' => OnTheWireOnly(command)
        BY <1>3, Zenon DEF CommandCount
    <2> QED
        BY <2>1, <2>2
  <1>4. CASE CommandSet
    <2>1. /\ call = "setting" /\ call' = "calling" /\ command' = target
          /\ UNCHANGED <<at, since, before, target, result, settled>>
        BY <1>4 DEF CommandSet, SetCommand, syncVars
    <2>2. copied' = IF Carrying THEN stamped.count + 1 ELSE stamped.count
        BY <1>4 DEF CommandSet
    <2>3. copied' >= stamped.count /\ ~ (Carrying /\ stamped.count >= copied')
        BY <2>2
    <2>4. ~ \E n \in whole : n > copied'
        BY <2>2
    <2> QED
        BY <2>1, <2>3, <2>4
  <1>5. CASE CommandWait
    <2>1. /\ call = "calling" /\ call' = "waiting"
          /\ UNCHANGED <<before, target, result, settled, copied>>
        BY <1>5 DEF CommandWait
    <2>2. SyncCall(Commander, before, FALSE)
        BY <1>5 DEF CommandWait
    <2>3. command' = command /\ since'[Commander] = before
        BY <2>2 DEF SyncCall, ImageTypeOK, imageVars
    <2> QED
        BY <2>1, <2>3
  <1>6. CASE CommandEnds
    <2>1. /\ call = "waiting" /\ call' = "idle" /\ at[Commander] = "out"
          /\ UNCHANGED <<command, at, since>>
          /\ result' = "carried" =>
               /\ Returned.count > since[Commander] /\ Returned.command = target
               /\ UNCHANGED <<target, settled, copied>>
        BY <1>6 DEF CommandEnds, Carried, Forget, vars, imageVars, syncVars
    <2> QED
        BY <2>1
  <1>7. CASE CommandWaitsOn
    <2>1. /\ call = "waiting" /\ Returned.count > since[Commander]
          /\ since'[Commander] = Returned.count
          /\ UNCHANGED <<command, call, before, target, result, settled, copied>>
        BY <1>7 DEF CommandWaitsOn, SyncCall, imageVars, callVars, ImageTypeOK
    <2> QED
        BY <2>1
  <1> QED
      BY <1>2, <1>3, <1>4, <1>5, <1>6, <1>7 DEF CommanderNext, CommanderContinues

LEMMA CallsStep == GripperInv /\ GripperNext => CallsHold'
  BY CallsOwnerStep, CallsExchangeStep, CallsCommanderStep, CallsWaiterStep
  DEF GripperNext, WaiterNext

-----------------------------------------------------------------------------
LEMMA GripperInitInv == GripperInit => GripperInv
  <1> SUFFICES ASSUME GripperInit
               PROVE  GripperInv
      OBVIOUS
  <1> USE GripperAssumption DEF GripperInit
  <1>1. GripperTypeOK
    <2>1. ImageTypeOK
        BY ImageInitTypeOK
    <2>2. 0 \in 0 .. ReadAttempts /\ 0 \in 0 .. CounterRange - 1 /\ 0 \in 0 .. MaxExchanges
          /\ 0 \in 0 .. FaultThreshold /\ 0 \in 0 .. MaxExchanges + 1
          /\ <<>> \in Seq(Statuses)
        BY ImageAssumption, EmptySeq
    <2> QED
        BY <2>1, <2>2
        DEF GripperTypeOK, OwnerTypeOK, ExchangeTypeOK, CallTypeOK, HistoryTypeOK
  <1>2. Places /\ Health
      BY DEF Places, Health, InStep, ImageInit, Unseeded
  <1>3. BlocksHold
    <2>1. <<>> \in Seq(Statuses) /\ NoCommand \notin Found
        BY EmptySeq
    <2> QED
        BY <2>1 DEF BlocksHold, Answered, Carrying, Whole, ImageInit, Unseeded
  <1>4. CallsHold
      BY DEF CallsHold, Returned, ImageInit, Unseeded
  <1> QED
      BY <1>1, <1>2, <1>3, <1>4 DEF GripperInv

LEMMA GripperInvStep == GripperInv /\ [GripperNext]_gripperVars => GripperInv'
  <1>1. GripperInv /\ GripperNext => GripperInv'
      BY GripperTypeStep, PlacesStep, HealthStep, BlocksStep, CallsStep DEF GripperInv
  <1>2. GripperInv /\ UNCHANGED gripperVars => GripperInv'
      BY DEF GripperInv, GripperTypeOK, ImageTypeOK, OwnerTypeOK, ExchangeTypeOK, CallTypeOK,
         HistoryTypeOK, Places, Health, InStep, BlocksHold, Answered, Carrying, Whole,
         CallsHold, Returned, Shows, Holds, OnTheWireOnly, gripperVars, vars, imageVars,
         syncVars, exchangeVars, ownerVars, callVars, wholeVars
  <1> QED
      BY <1>1, <1>2

LEMMA GripperInvariant == GripperSafety => []GripperInv
  BY GripperInitInv, GripperInvStep, PTL DEF GripperSafety

(* The gripper is well typed in every reachable state.                     *)
THEOREM GripperTypeCorrect == GripperSafety => []GripperTypeOK
  <1>1. GripperInv => GripperTypeOK
      BY DEF GripperInv
  <1> QED
      BY <1>1, GripperInvariant, PTL

(* connectionState() says Faulted only over an image that many failures    *)
(* old, and between two cycles always over such an image, wherever the     *)
(* failure counter has wrapped to.                                         *)
THEOREM GripperFaultedIffStale == GripperSafety => []FaultedIffStale
  <1>1. GripperInv => FaultedIffStale
    <2> SUFFICES ASSUME GripperInv
                 PROVE  FaultedIffStale
        OBVIOUS
    <2>1. /\ stale \in 0 .. FaultThreshold /\ FaultThreshold \in Nat
          /\ thread \in {"none", "testing", "copying", "exchanging", "counting", "faulting",
                         "clearing", "turning", "publishing", "announcing", "sleeping", "returned"}
        BY GripperAssumption DEF GripperInv, GripperTypeOK, HistoryTypeOK, ExchangeTypeOK
    <2> QED
        BY <2>1 DEF GripperInv, Health, InStep, FaultedIffStale
  <1> QED
      BY <1>1, GripperInvariant, PTL

(* The two halves of a record are of one exchange when that exchange found *)
(* no reply still owed, which it can have only after one that failed.      *)
THEOREM GripperRecordIsOneExchange == GripperSafety => []RecordIsOneExchange
  <1>1. GripperInv => RecordIsOneExchange
      BY DEF GripperInv, BlocksHold, RecordIsOneExchange, Seeded
  <1> QED
      BY <1>1, GripperInvariant, PTL

(* Until the application commands, no exchange resets the gripper, starts  *)
(* or stops it or sends it elsewhere; its speed it keeps, or is given the  *)
(* full one.                                                               *)
THEOREM GripperConnectingMovesNothing == GripperSafety => []ConnectingMovesNothing
  <1>1. GripperInv => ConnectingMovesNothing
      BY DEF GripperInv, BlocksHold, ConnectingMovesNothing
  <1> QED
      BY <1>1, GripperInvariant, PTL

(* A whole record of the target shows that the gripper acts on it, for     *)
(* good: if its block was copied after the call had set it, or if no other *)
(* one was under way when the call began.                                  *)
THEOREM GripperCarriedCommandHolds == GripperSafety => []CarriedCommandHolds
  <1>1. GripperInv => CarriedCommandHolds
      BY DEF GripperInv, CallsHold, Returned, Holds, CarriedCommandHolds, CommandHolds
  <1> QED
      BY <1>1, GripperInvariant, PTL

(* Once the destructor has joined the exchange thread, nothing of it moves *)
(* any more: not the image, not the state, not the wire.                   *)
THEOREM GripperDestroyedIsQuiet == GripperSafety => DestroyedIsQuiet
  <1> DEFINE Quiet == UNCHANGED <<imageVars, notifying, exchangeVars, device, owed>>
  <1>1. ASSUME GripperInv, owner = "gone", GripperNext
        PROVE  Quiet
    <2>1. thread \in {"none", "returned"} /\ call = "idle"
        BY <1>1 DEF GripperInv, Places
    <2>2. ~ OwnerNext
        BY <1>1 DEF OwnerNext, OwnerStops, InitialReadSucceeds, InitialReadFails, Start, Spawn,
           Destroy, StopRunning, StopClose, StopNotify, StopJoin
    <2>3. ~ ExchangeThread
        BY <2>1 DEF ExchangeThread, TestRunning, CopyCommand, ExchangeSucceeds, ExchangeFails,
           CountFailure, TurnFaulted, ClearFailures, TurnOperational, PublishExchange,
           AnnounceExchange, NextCycle, Goto
    <2>4. ~ CommanderNext
        BY <1>1, <2>1 DEF CommanderNext, CommanderContinues, PlainSetCommand, CommandCount,
           CommanderFree, CommandSet, CommandWait, CommandEnds, CommandWaitsOn
    <2> QED
        BY <1>1, <2>2, <2>3, <2>4, WaiterFrame DEF GripperNext, WaiterNext
  <1>2. GripperInv /\ [GripperNext]_gripperVars => [owner = "gone" => Quiet]_gripperVars
      BY <1>1
  <1> QED
      BY <1>2, GripperInvariant, PTL DEF GripperSafety, DestroyedIsQuiet

(* The gripper uses its image as ProcessImage allows, so that in it too no *)
(* waiter misses a notification.                                           *)
THEOREM GripperLosesNoWakeup == GripperSafety => []NoLostWakeup
  <1>1. GripperInit => NoLostWakeup
      BY DEF GripperInit, ImageInit, NoLostWakeup
  <1>2. GripperInv /\ NoLostWakeup /\ [GripperNext]_gripperVars => NoLostWakeup'
    <2>1. ASSUME NoLostWakeup, AnyCall PROVE NoLostWakeup'
        BY <2>1 DEF AnyCall, SyncCall, NoLostWakeup, imageVars
    <2>2. UNCHANGED gripperVars => UNCHANGED vars
        BY DEF gripperVars
    <2> QED
        BY <2>1, <2>2, GripperImageStep, NoLostWakeupInductive DEF GripperInv, GripperTypeOK
  <1> QED
      BY <1>1, <1>2, GripperInvariant, PTL DEF GripperSafety

(* A call of sync() is a call of the feed, whatever its deadline.          *)
LEMMA AnyCallIsFeedCall == ImageTypeOK /\ AnyCall => Feed!FeedNext
  <1> SUFFICES ASSUME ImageTypeOK, NEW w \in Waiters, NEW c \in 0 .. MaxExchanges,
                      NEW late \in BOOLEAN, SyncCall(w, c, late)
               PROVE  Feed!Call(w)
      BY DEF AnyCall, Feed!FeedNext
  <1> DEFINE inside == {v \in Waiters : at[v] # "out"}
             counts == [v \in Waiters |-> got[v].count]
  <1>1. w \notin inside /\ inside' = inside \cup {w}
      BY DEF SyncCall, ImageTypeOK
  <1>2. counts' = counts
      BY DEF SyncCall
  <1> QED
      BY <1>1, <1>2 DEF SyncCall, Feed!Call, imageVars

(* To the threads that wait on it, a whole gripper is an exchange feed.    *)
THEOREM GripperImplementsFeed == GripperSafety => ImplementsFeedSafety
  <1>1. GripperInit => Feed!FeedInit /\ UnseededIsEmpty
      BY FeedInitRefined DEF GripperInit, ImageInit, Unseeded, UnseededIsEmpty
  <1>2. GripperInv => UnseededIsEmpty /\ ImageTypeOK
      BY DEF GripperInv, GripperTypeOK, Places, UnseededIsEmpty, Seeded
  <1>3. GripperInv /\ [GripperNext]_gripperVars => [Feed!FeedNext]_(Feed!feedVars)
    <2>1. UNCHANGED gripperVars => UNCHANGED vars
        BY DEF gripperVars
    <2> QED
        BY <1>2, <2>1, GripperImageStep, FeedStepRefined, AnyCallIsFeedCall
  <1> QED
      BY <1>1, <1>3, GripperInvariant, PTL
      DEF GripperSafety, ImplementsFeedSafety, Feed!FeedSafety
=============================================================================
