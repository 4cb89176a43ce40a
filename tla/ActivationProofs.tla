-------------------------- MODULE ActivationProofs --------------------------
(***************************************************************************)
(* Proofs about Activation, for any fault codes, any number of faults and  *)
(* power cycles and any number of replies owed.  The inductive invariant   *)
(* ActivationInv follows a call through its stages: what the statuses      *)
(* still to be published can show (Pipeline), what a reset that was seen   *)
(* says of the gripper (Resets), and how far the sweep that follows it has *)
(* come (Sweeps); AtRest and Spares keep the same account of rGTO and of a *)
(* gripper that must be left alone.                                        *)
(***************************************************************************)
EXTENDS Activation, SequenceTheorems, TLAPS

exchanging == flight = "exchanging"
fresh == record # NoStatus
U == Unpublished

Locals ==
  /\ pc = "idle" => ~fresh
  /\ pc # "idle" => result = "none"
  /\ pc \in {"countReset", "waitReset", "activate"} => pending = Off
  /\ caughtUp => proc = "recoverFromFault"
  /\ flight = "replied" => reply \in Status

(* Only an exchange takes the gripper out of reset.                        *)
ActiveOnly ==
  /\ device.sta # "Reset" => device.act
  /\ \A i \in 1 .. Len(U) : U[i].sta # "Reset" => U[i].act

(* A call that was caught up has at most one status older than itself to   *)
(* come, the first.  Whatever comes after it answers blocks of the call:   *)
(* the application's until the handshake's own, which clears rACT.         *)
Shown == progress = "reset" /\ ~device.act

Pipeline ==
  /\ pc = "waitOperational" /\ ~fresh =>
       /\ \A i \in 2 .. Len(U) : U[i].act = pending.act /\ (~U[i].act => Shown)
       /\ exchanging /\ Len(U) > 0 => copy.act = pending.act
  /\ (pc = "waitOperational" /\ fresh) \/ pc = "deactivate" =>
       /\ \A i \in 1 .. Len(U) : U[i].act = pending.act /\ (~U[i].act => Shown)
       /\ exchanging => copy.act = pending.act
  /\ pc \in {"countReset", "waitReset"} =>
       \A i \in 1 .. Len(U) : ~U[i].act =>
         /\ Shown /\ (exchanging => ~copy.act)
         /\ \A j \in i .. Len(U) : ~U[j].act

(* A reset that was seen is one of the call, and all there is to see.      *)
ResetDone ==
  /\ Shown
  /\ exchanging => ~copy.act
  /\ \A i \in 1 .. Len(U) : ~U[i].act

Resets ==
  /\ pc = "waitReset" /\ fresh /\ ~record.act => ResetDone
  /\ pc = "activate" => ResetDone

(* After the handshake's reset the only way to Complete is the sweep.      *)
Recovering == pc \in {"countComplete", "waitComplete"} \/ result = "Activated"

Sweeps ==
  Recovering =>
    /\ pending.act
    /\ progress \in {"reset", "sweeping", "swept"}
    /\ progress = "reset" => device.sta = "Reset"
    /\ progress = "sweeping" => device.sta = "InProgress"
    /\ progress # "reset" /\ exchanging => copy.act
    /\ \A i \in 1 .. Len(U) : U[i].sta = "Complete" => progress = "swept"
    /\ pc = "waitComplete" /\ fresh /\ record.sta = "Complete" => progress = "swept"
    /\ pc = "idle" => progress = "swept"

(* Once the handshake's reset has arrived no block with rGTO is under way. *)
AtRest ==
  /\ shook => pc \notin {"waitOperational", "deactivate"}
  /\ shook /\ result # "Timeout" =>
       ~pending.gto /\ ~device.gto /\ (exchanging => ~copy.gto)

(* A gripper to be left alone shows it in every status.                    *)
Spares ==
  spared =>
    /\ progress = "none" /\ proc = "activate"
    /\ pc \in {"idle", "waitOperational", "countComplete", "waitComplete"}
    /\ device.act /\ LeftAlone(device)
    /\ pending.act /\ (exchanging => copy.act)
    /\ \A i \in 1 .. Len(U) : LeftAlone(U[i])
    /\ pc = "waitOperational" /\ fresh => LeftAlone(record)

ActivationInv ==
  /\ ActivationTypeOK /\ Locals /\ ActiveOnly
  /\ caughtUp => Pipeline /\ Resets /\ Sweeps
  /\ AtRest /\ Spares

USE DEF exchanging, fresh, U

(* What processCommand() makes of a gripper is a gripper, which shows a    *)
(* status.                                                                 *)
LEMMA ObeyedIsStatus == ASSUME GripperTypeOK, NEW c \in Blocks
                        PROVE  /\ processCommand(c) \in Devices
                               /\ Shows(processCommand(c)) \in Status
BY DEF GripperTypeOK, processCommand, Shows, Status, Devices, Blocks

LEMMA UnpublishedIsSeq ==
  ASSUME GripperTypeOK, Locals
  PROVE  /\ U \in Seq(Status) /\ Len(U) \in Nat
         /\ flight # "replied" => U = owed
BY EmptySeq, ConcatProperties, ConcatEmptySeq, LenProperties
DEF GripperTypeOK, Locals, Unpublished

(* An exchange leaves the youngest of what was to come, and adds its own   *)
(* answer if its block arrives.                                            *)
Kept(k) == \A i \in 1 .. Len(U) - k : U'[i] = U[i + k]

Arrives(k) ==
  /\ device' = processCommand(copy)
  /\ progress' = ProgressAfter(copy)
  /\ shook' = ShookAfter(copy)
  /\ Len(U') = Len(U) - k + 1
  /\ U'[Len(U')] = Shows(device')

Lost(k) ==
  /\ UNCHANGED <<device, progress, shook>>
  /\ Len(U') = Len(U) - k

LEMMA ComingProperties ==
  ASSUME owed \in Seq(Status), NEW k \in 0 .. Len(owed), NEW answer \in Seq(Status)
  PROVE  /\ Coming(k, answer) \in Seq(Status)
         /\ Len(Coming(k, answer)) = Len(owed) - k + Len(answer)
         /\ \A i \in 1 .. Len(owed) - k : Coming(k, answer)[i] = owed[i + k]
         /\ \A i \in 1 .. Len(answer) : Coming(k, answer)[Len(owed) - k + i] = answer[i]
<1>1. Len(owed) \in Nat /\ Len(answer) \in Nat /\ k \in Nat /\ k <= Len(owed)
  BY LenProperties
<1> DEFINE kept == SubSeq(owed, k + 1, Len(owed))
<1>2. /\ kept \in Seq(Status) /\ Len(kept) = Len(owed) - k
      /\ \A i \in 1 .. Len(owed) - k : kept[i] = owed[i + k]
  <2>1. k + 1 \in Int /\ Len(owed) \in Int /\ \A i \in k + 1 .. Len(owed) : owed[i] \in Status
    BY <1>1, ElementOfSeq
  <2> QED
    BY <1>1, <2>1, SubSeqProperties
<1> HIDE DEF kept
<1>3. /\ kept \o answer \in Seq(Status) /\ Len(kept \o answer) = Len(kept) + Len(answer)
      /\ \A i \in 1 .. Len(kept) + Len(answer) :
           (kept \o answer)[i] = IF i <= Len(kept) THEN kept[i] ELSE answer[i - Len(kept)]
  BY <1>2, ConcatProperties
<1>4. Coming(k, answer) = kept \o answer
  BY DEF Coming, kept
<1>5. \A i \in 1 .. Len(owed) - k :
        i \in 1 .. Len(kept) + Len(answer) /\ i <= Len(kept)
  BY <1>1, <1>2
<1>6. \A i \in 1 .. Len(owed) - k : Coming(k, answer)[i] = owed[i + k]
  BY <1>2, <1>3, <1>4, <1>5
<1>7. \A i \in 1 .. Len(answer) : Coming(k, answer)[Len(owed) - k + i] = answer[i]
  <2> TAKE i \in 1 .. Len(answer)
  <2> DEFINE j == Len(owed) - k + i
  <2>1. j \in 1 .. Len(kept) + Len(answer) /\ ~(j <= Len(kept)) /\ j - Len(kept) = i
    BY <1>1, <1>2
  <2> HIDE DEF j
  <2>2. Coming(k, answer)[j] = answer[i]
    BY <1>3, <1>4, <2>1
  <2> QED
    BY <2>2 DEF j
<1> QED
  BY <1>2, <1>3, <1>4, <1>6, <1>7

LEMMA ExchangeEnds ==
  ASSUME ActivationTypeOK, Locals, ExchangeSucceeds \/ ExchangeFails
  PROVE  /\ \E k \in 0 .. Len(U) : Kept(k) /\ (Arrives(k) \/ Lost(k))
         /\ owed' \in Seq(Status) /\ device' \in Devices
         /\ ExchangeSucceeds => reply' \in Status
<1>1. /\ GripperTypeOK /\ owed \in Seq(Status) /\ U = owed
      /\ copy \in Blocks /\ Shows(processCommand(copy)) \in Status
      /\ processCommand(copy) \in Devices /\ device \in Devices
  BY UnpublishedIsSeq, ObeyedIsStatus
  DEF ActivationTypeOK, GripperTypeOK, BlockTypeOK, ExchangeSucceeds, ExchangeFails
<1>2. PICK k \in 0 .. Len(owed), answer \in Answers :
        /\ Receive(copy, answer)
        /\ \/ ExchangeSucceeds /\ Take(reply', k, answer)
           \/ ExchangeFails /\ GiveUp(k, answer)
  BY DEF ExchangeSucceeds, ExchangeFails
<1> DEFINE C == Coming(k, answer)
<1>3. answer \in Seq(Status) /\ Len(answer) \in {0, 1} /\ k \in Nat /\ Len(owed) \in Nat
  <2>1. CASE answer = <<>>
    BY <1>1, <2>1, EmptySeq, LenProperties
  <2>2. CASE answer = <<Shows(processCommand(copy))>>
    BY <1>1, <2>2, LenProperties
  <2> QED
    BY <1>2, <2>1, <2>2 DEF Answers
<1>4. /\ C \in Seq(Status) /\ Len(C) = Len(owed) - k + Len(answer)
      /\ \A i \in 1 .. Len(owed) - k : C[i] = owed[i + k]
      /\ \A i \in 1 .. Len(answer) : C[Len(owed) - k + i] = answer[i]
  BY <1>1, <1>3, ComingProperties
<1>5. Receive(copy, answer)
  BY <1>2
<1>6. U' = C /\ owed' \in Seq(Status) /\ (ExchangeSucceeds => reply' \in Status)
  <2>1. CASE ExchangeSucceeds /\ Take(reply', k, answer)
    <3>1. C # <<>> /\ reply' = Head(C) /\ owed' = Tail(C) /\ flight' = "replied"
      BY <2>1 DEF Take, ExchangeSucceeds
    <3>2. U' = <<Head(C)>> \o Tail(C)
      BY <3>1 DEF Unpublished
    <3> HIDE DEF C
    <3>3. Head(C) \in Status /\ Tail(C) \in Seq(Status)
      BY <1>4, <3>1, HeadTailProperties
    <3>4. <<Head(C)>> \o Tail(C) = C
      BY <1>4, <3>1, <3>3
    <3> QED
      BY <3>1, <3>2, <3>3, <3>4
  <2>2. CASE ExchangeFails /\ GiveUp(k, answer)
    <3>1. owed' = C /\ flight' = "idle"
      BY <2>2 DEF GiveUp, ExchangeFails
    <3> HIDE DEF C
    <3>2. U' = <<>> \o C
      BY <3>1 DEF Unpublished
    <3>3. ~ ExchangeSucceeds
      BY <2>2 DEF ExchangeSucceeds, ExchangeFails
    <3> QED
      BY <1>4, <3>1, <3>2, <3>3, ConcatEmptySeq
  <2> QED
    BY <1>2, <2>1, <2>2
<1> HIDE DEF C
<1>7. Kept(k)
  BY <1>1, <1>4, <1>6 DEF Kept
<1>8. CASE answer = <<>>
  <2>1. Lost(k)
    BY <1>1, <1>3, <1>4, <1>5, <1>6, <1>8 DEF Receive, Lost
  <2> QED
    BY <1>1, <1>5, <1>6, <1>7, <1>8, <2>1 DEF Receive
<1>9. CASE answer = <<Shows(device')>> /\ answer # <<>>
  <2>1. /\ device' = processCommand(copy) /\ progress' = ProgressAfter(copy)
        /\ shook' = ShookAfter(copy)
    BY <1>5, <1>9 DEF Receive
  <2>2. Len(C) = Len(owed) - k + 1 /\ C[Len(owed) - k + 1] = Shows(device')
    BY <1>3, <1>4, <1>9
  <2>3. Arrives(k)
    BY <1>1, <1>6, <2>1, <2>2 DEF Arrives
  <2> QED
    BY <1>1, <1>6, <1>7, <2>1, <2>3
<1> QED
  BY <1>5, <1>8, <1>9 DEF Receive

(* A record that is published was the first to come.                       *)
LEMMA PublishTakesFirst ==
  ASSUME ActivationTypeOK, Locals, Publish
  PROVE  /\ Len(U) > 0 /\ Len(U') = Len(U) - 1
         /\ \A i \in 1 .. Len(U') : U'[i] = U[i + 1]
         /\ record' = IF pc = "idle" THEN NoStatus ELSE U[1]
         /\ reply = U[1]
<1>1. owed \in Seq(Status) /\ reply \in Status /\ flight = "replied" /\ flight' = "idle"
      /\ owed' = owed
  BY DEF ActivationTypeOK, GripperTypeOK, Locals, Publish
<1>2. U = <<reply>> \o owed /\ U' = <<>> \o owed
  BY <1>1 DEF Unpublished
<1>3. /\ U' = owed /\ Len(owed) \in Nat /\ Len(U) = 1 + Len(owed)
      /\ \A i \in 1 .. 1 + Len(owed) : U[i] = IF i <= 1 THEN <<reply>>[i] ELSE owed[i - 1]
  BY <1>1, <1>2, ConcatProperties, ConcatEmptySeq, LenProperties
<1>4. U[1] = reply /\ \A i \in 1 .. Len(owed) : U[i + 1] = owed[i]
  BY <1>3
<1> QED
  BY <1>3, <1>4 DEF Publish

(* A step of a procedure leaves the gripper, the link and the history.     *)
LEMMA ProcedureFrame == Procedure => UNCHANGED procConst
BY DEF Procedure, waitOperationalFails, ActivateFaultLatched, ActivateAlreadyActive,
       ActivateInProgress, HandshakeNotAllowed, HandshakeAllowed, Deactivate, StartWait, WaitReset,
       WaitOn, ResetNotYet, ResetSeen, ResetTimesOut, Activate, WaitComplete, CompleteNotYet,
       CompleteSeen, CompleteTimesOut

(* Every other step leaves what is to come.                                *)
Quiet ==
  \/ SweepEnds \/ FaultClears \/ PowerCycle \/ \E f \in Faults : FaultAppears(f)
  \/ CopyCommand
  \/ \E c \in Blocks : setCommand(c)
  \/ \E p \in {"activate", "recoverFromFault"} : Begin(p)
  \/ HalfPasses \/ DeadlinePasses
  \/ Procedure
  \/ UNCHANGED vars

LEMMA OthersKeepUnpublished ==
  Quiet => U' = U /\ owed' = owed /\ reply' = reply
<1>1. CASE ~ CopyCommand /\ Quiet
  <2>1. UNCHANGED linkVars
    BY <1>1, ProcedureFrame
    DEF Quiet, SweepEnds, FaultClears, PowerCycle, FaultAppears, setCommand, Begin, HalfPasses,
        DeadlinePasses, procConst, gripperVars, vars
  <2> QED
    BY <2>1 DEF linkVars, Unpublished
<1>2. CASE CopyCommand
  BY <1>2 DEF CopyCommand, Unpublished
<1> QED
  BY <1>1, <1>2

LEMMA InitHolds == Init => ActivationInv
<1> SUFFICES ASSUME Init PROVE ActivationInv
  OBVIOUS
<1>1. GripperTypeOK
  BY ActivationAssumption, EmptySeq DEF Init, GripperTypeOK
<1>2. BlockTypeOK
  BY <1>1 DEF Init, GripperTypeOK, BlockTypeOK, Devices, Blocks, Off
<1>3. StageTypeOK /\ FlagTypeOK
  BY DEF Init, StageTypeOK, FlagTypeOK
<1>4. Len(U) = 0
  BY EmptySeq, ConcatEmptySeq DEF Init, Unpublished
<1>5. Locals /\ ActiveOnly /\ AtRest /\ Spares
  BY <1>4 DEF Init, Locals, ActiveOnly, AtRest, Spares
<1> QED
  BY <1>1, <1>2, <1>3, <1>5 DEF ActivationInv, ActivationTypeOK, Init

-----------------------------------------------------------------------------
LEMMA GripperTypeStep == ActivationInv /\ [Next]_vars => GripperTypeOK'
<1> SUFFICES ASSUME ActivationTypeOK, Locals, [Next]_vars PROVE GripperTypeOK'
  BY DEF ActivationInv
<1> USE DEF ActivationTypeOK, GripperTypeOK, gripperVars, linkVars, imageVars
<1>1. CASE SweepEnds
  BY <1>1 DEF SweepEnds, Devices
<1>2. CASE FaultClears
  BY <1>2 DEF FaultClears, Devices
<1>3. CASE PowerCycle
  <2>1. upsets' \in 0 .. MaxUpsets
    BY <1>3, ActivationAssumption DEF PowerCycle
  <2>2. device' \in Devices
    BY <1>3 DEF PowerCycle, Devices
  <2> QED
    BY <1>3, <2>1, <2>2 DEF PowerCycle
<1>4. ASSUME NEW f \in Faults, FaultAppears(f) PROVE GripperTypeOK'
  <2>1. upsets' \in 0 .. MaxUpsets
    BY <1>4, ActivationAssumption DEF FaultAppears
  <2>2. device' \in Devices
    BY <1>4 DEF FaultAppears, Devices
  <2> QED
    BY <1>4, <2>1, <2>2 DEF FaultAppears
<1>5. CASE CopyCommand
  BY <1>5 DEF CopyCommand
<1>6. CASE ExchangeSucceeds \/ ExchangeFails
  BY <1>6, ExchangeEnds DEF ExchangeSucceeds, ExchangeFails
<1>7. CASE Publish
  BY <1>7 DEF Publish, Locals
<1>8. CASE \/ \E c \in Blocks : setCommand(c)
           \/ \E p \in {"activate", "recoverFromFault"} : Begin(p)
           \/ HalfPasses \/ DeadlinePasses
  BY <1>8 DEF setCommand, Begin, HalfPasses, DeadlinePasses
<1>9. CASE Procedure
  <2>1. record' \in {record, NoStatus}
    BY <1>9 DEF Procedure, returns, goesOn, procConst, waitOperationalFails, ActivateFaultLatched,
       ActivateAlreadyActive, ActivateInProgress, HandshakeNotAllowed, HandshakeAllowed,
       Deactivate, StartWait, WaitReset, WaitOn, ResetNotYet, ResetSeen,
       ResetTimesOut, Activate, WaitComplete, CompleteNotYet, CompleteSeen, CompleteTimesOut
  <2> QED
    BY <1>9, <2>1, ProcedureFrame DEF procConst
<1>10. CASE UNCHANGED vars
  BY <1>10 DEF vars
<1> QED
  BY <1>1, <1>2, <1>3, <1>4, <1>5, <1>6, <1>7, <1>8, <1>9, <1>10 DEF Next, ExchangeCycle

LEMMA BlockTypeStep == ActivationTypeOK /\ [Next]_vars => BlockTypeOK'
<1> SUFFICES ASSUME ActivationTypeOK, [Next]_vars PROVE BlockTypeOK'
  OBVIOUS
<1> USE DEF ActivationTypeOK, BlockTypeOK, gripperVars, linkVars, imageVars, procVars
<1>1. CASE SweepEnds \/ FaultClears \/ PowerCycle \/ \E f \in Faults : FaultAppears(f)
  BY <1>1 DEF SweepEnds, FaultClears, PowerCycle, FaultAppears
<1>2. CASE ExchangeCycle
  <2>1. Off \in Blocks
    BY DEF Off, Blocks
  <2> QED
    BY <1>2, <2>1 DEF ExchangeCycle, CopyCommand, ExchangeSucceeds, ExchangeFails, Publish
<1>3. CASE \/ \E c \in Blocks : setCommand(c)
           \/ \E p \in {"activate", "recoverFromFault"} : Begin(p)
           \/ HalfPasses \/ DeadlinePasses
  BY <1>3 DEF setCommand, Begin, HalfPasses, DeadlinePasses
<1>4. CASE Procedure
  <2>1. copy' = copy
    BY <1>4, ProcedureFrame DEF procConst
  <2>2. deactivateCommand \in Blocks /\ activateCommand \in Blocks /\ Off \in Blocks
    BY DEF deactivateCommand, activateCommand, Off, Blocks
  <2>3. pending' \in Blocks /\ previous' \in Blocks
    BY <1>4, <2>2 DEF Procedure, returns, goesOn, procConst, waitOperationalFails, ActivateFaultLatched,
       ActivateAlreadyActive, ActivateInProgress, HandshakeNotAllowed, HandshakeAllowed,
       Deactivate, StartWait, WaitReset, WaitOn, ResetNotYet, ResetSeen,
       ResetTimesOut, Activate, WaitComplete, CompleteNotYet, CompleteSeen, CompleteTimesOut
  <2> QED
    BY <2>1, <2>3
<1>5. CASE UNCHANGED vars
  BY <1>5 DEF vars
<1> QED
  BY <1>1, <1>2, <1>3, <1>4, <1>5 DEF Next

LEMMA StageTypeStep == ActivationTypeOK /\ [Next]_vars => StageTypeOK'
<1> SUFFICES ASSUME ActivationTypeOK, [Next]_vars PROVE StageTypeOK'
  OBVIOUS
<1> USE DEF ActivationTypeOK, StageTypeOK, gripperVars, linkVars, imageVars, procVars, history
<1>1. CASE SweepEnds \/ FaultClears \/ PowerCycle \/ \E f \in Faults : FaultAppears(f)
  BY <1>1 DEF SweepEnds, FaultClears, PowerCycle, FaultAppears
<1>2. CASE ExchangeCycle
  BY <1>2 DEF ExchangeCycle, CopyCommand, ExchangeSucceeds, ExchangeFails, Publish, Receive, ProgressAfter
<1>3. CASE \/ \E c \in Blocks : setCommand(c)
           \/ \E p \in {"activate", "recoverFromFault"} : Begin(p)
           \/ HalfPasses \/ DeadlinePasses
  BY <1>3 DEF setCommand, Begin, HalfPasses, DeadlinePasses
<1>4. CASE Procedure
  <2>1. UNCHANGED <<flight, proc, progress>>
    BY <1>4, ProcedureFrame DEF procConst
  <2>2. /\ pc' \in {"idle", "deactivate", "countReset", "waitReset", "activate", "countComplete",
                    "waitComplete"}
        /\ result' \in {"none", "Activated", "AlreadyActive", "FaultLatched", "Timeout"}
    BY <1>4 DEF Procedure, returns, goesOn, waitOperationalFails, ActivateFaultLatched,
       ActivateAlreadyActive, ActivateInProgress, HandshakeNotAllowed, HandshakeAllowed,
       Deactivate, StartWait, WaitReset, WaitOn, ResetNotYet, ResetSeen,
       ResetTimesOut, Activate, WaitComplete, CompleteNotYet, CompleteSeen, CompleteTimesOut
  <2> QED
    BY <2>1, <2>2
<1>5. CASE UNCHANGED vars
  BY <1>5 DEF vars
<1> QED
  BY <1>1, <1>2, <1>3, <1>4, <1>5 DEF Next

LEMMA FlagTypeStep == ActivationTypeOK /\ [Next]_vars => FlagTypeOK'
<1> SUFFICES ASSUME ActivationTypeOK, [Next]_vars PROVE FlagTypeOK'
  OBVIOUS
<1> USE DEF ActivationTypeOK, FlagTypeOK, gripperVars, linkVars, imageVars, procVars, history
<1>1. CASE SweepEnds \/ FaultClears \/ PowerCycle \/ \E f \in Faults : FaultAppears(f)
  BY <1>1 DEF SweepEnds, FaultClears, PowerCycle, FaultAppears
<1>2. CASE ExchangeCycle
  BY <1>2 DEF ExchangeCycle, CopyCommand, ExchangeSucceeds, ExchangeFails, Publish, Receive, ShookAfter
<1>3. CASE \/ \E c \in Blocks : setCommand(c)
           \/ \E p \in {"activate", "recoverFromFault"} : Begin(p)
           \/ HalfPasses \/ DeadlinePasses
  BY <1>3 DEF setCommand, Begin, HalfPasses, DeadlinePasses
<1>4. CASE Procedure
  <2>1. UNCHANGED <<shook, spared, caughtUp>>
    BY <1>4, ProcedureFrame DEF procConst
  <2>2. half' \in BOOLEAN /\ late' \in BOOLEAN
    BY <1>4 DEF Procedure, returns, goesOn, waitOperationalFails, ActivateFaultLatched,
       ActivateAlreadyActive, ActivateInProgress, HandshakeNotAllowed, HandshakeAllowed,
       Deactivate, StartWait, WaitReset, WaitOn, ResetNotYet, ResetSeen,
       ResetTimesOut, Activate, WaitComplete, CompleteNotYet, CompleteSeen, CompleteTimesOut
  <2> QED
    BY <2>1, <2>2
<1>5. CASE UNCHANGED vars
  BY <1>5 DEF vars
<1> QED
  BY <1>1, <1>2, <1>3, <1>4, <1>5 DEF Next

-----------------------------------------------------------------------------
LEMMA LocalsStep == ActivationInv /\ [Next]_vars => Locals'
<1> SUFFICES ASSUME ActivationInv, [Next]_vars PROVE Locals'
  OBVIOUS
<1> USE DEF ActivationInv, Locals, gripperVars, linkVars, imageVars, procVars
<1>1. CASE SweepEnds \/ FaultClears \/ PowerCycle \/ \E f \in Faults : FaultAppears(f)
  <2>1. UNCHANGED <<linkVars, imageVars, procVars, caughtUp>>
    BY <1>1 DEF SweepEnds, FaultClears, PowerCycle, FaultAppears, history
  <2> QED
    BY <2>1
<1>2. CASE CopyCommand \/ Publish
  BY <1>2 DEF CopyCommand, Publish, history
<1>3. CASE ExchangeSucceeds \/ ExchangeFails
  <2>1. UNCHANGED <<imageVars, procVars, caughtUp>>
    BY <1>3 DEF ExchangeSucceeds, ExchangeFails
  <2>2. flight' = "replied" => reply' \in Status
    BY <1>3, ExchangeEnds DEF ExchangeFails
  <2> QED
    BY <2>1, <2>2
<1>4. CASE \E c \in Blocks : setCommand(c)
  BY <1>4 DEF setCommand
<1>5. ASSUME NEW p \in {"activate", "recoverFromFault"}, Begin(p) PROVE Locals'
  BY <1>5 DEF Begin
<1>6. CASE HalfPasses \/ DeadlinePasses
  BY <1>6 DEF HalfPasses, DeadlinePasses, history
<1>7. CASE Procedure
  <2>1. UNCHANGED <<flight, reply, proc, caughtUp>>
    BY <1>7, ProcedureFrame DEF procConst, history
  <2> QED
    BY <1>7, <2>1 DEF Procedure, returns, goesOn, waitOperationalFails,
     ActivateFaultLatched, ActivateAlreadyActive, ActivateInProgress, HandshakeNotAllowed,
     HandshakeAllowed, Deactivate, deactivateCommand, StartWait, WaitReset, WaitOn, ResetNotYet,
     ResetSeen, ResetTimesOut, Activate, activateCommand, WaitComplete, CompleteNotYet,
     CompleteSeen, CompleteTimesOut, Sees, GivesUp
<1>8. CASE UNCHANGED vars
  BY <1>8 DEF vars, history
<1> QED
  BY <1>1, <1>2, <1>3, <1>4, <1>5, <1>6, <1>7, <1>8 DEF Next, ExchangeCycle

LEMMA ActiveOnlyStep == ActivationInv /\ [Next]_vars => ActiveOnly'
<1> SUFFICES ASSUME ActivationInv, [Next]_vars PROVE ActiveOnly'
  OBVIOUS
<1>0. Len(U) \in Nat /\ device \in Devices
  BY UnpublishedIsSeq DEF ActivationInv, ActivationTypeOK, GripperTypeOK
<1> USE <1>0 DEF ActivationInv, ActiveOnly, Devices
<1>1. CASE SweepEnds
  BY <1>1, OthersKeepUnpublished DEF Quiet, SweepEnds
<1>2. CASE FaultClears \/ PowerCycle
  BY <1>2, OthersKeepUnpublished DEF Quiet, FaultClears, PowerCycle
<1>3. ASSUME NEW f \in Faults, FaultAppears(f) PROVE ActiveOnly'
  <2>1. U' = U
    BY <1>3, OthersKeepUnpublished DEF Quiet
  <2> QED
    BY <1>3, <2>1 DEF FaultAppears
<1>4. CASE ExchangeSucceeds \/ ExchangeFails
  <2>1. PICK k \in 0 .. Len(U) : Kept(k) /\ (Arrives(k) \/ Lost(k))
    BY <1>4, ExchangeEnds
  <2>2. CASE Arrives(k)
    <3>1. device'.sta # "Reset" => device'.act
      BY <2>2 DEF Arrives, processCommand
    <3>2. Shows(device').sta = device'.sta /\ Shows(device').act = device'.act
      BY DEF Shows
    <3>3. ASSUME NEW i \in 1 .. Len(U'), U'[i].sta # "Reset" PROVE U'[i].act
      <4>1. CASE i = Len(U')
        BY <2>2, <3>1, <3>2, <3>3, <4>1 DEF Arrives
      <4>2. CASE i # Len(U')
        <5>1. i \in 1 .. Len(U) - k
          BY <2>1, <2>2, <4>2 DEF Arrives
        <5>2. PICK m \in 1 .. Len(U) : U'[i] = U[m]
          BY <2>1, <5>1 DEF Kept
        <5> QED
          BY <3>3, <5>2
      <4> QED
        BY <4>1, <4>2
    <3> QED
      BY <3>1, <3>3
  <2>3. CASE Lost(k)
    BY <2>1, <2>3 DEF Lost, Kept
  <2> QED
    BY <2>1, <2>2, <2>3
<1>5. CASE Publish
  BY <1>5, PublishTakesFirst DEF Publish
<1>6. CASE \/ CopyCommand \/ \E c \in Blocks : setCommand(c)
           \/ \E p \in {"activate", "recoverFromFault"} : Begin(p)
           \/ HalfPasses \/ DeadlinePasses \/ Procedure \/ UNCHANGED vars
  <2>1. device' = device
    BY <1>6, ProcedureFrame DEF CopyCommand, setCommand, Begin, HalfPasses, DeadlinePasses,
       procConst, gripperVars, vars
  <2>2. U' = U
    BY <1>6, OthersKeepUnpublished DEF Quiet
  <2> QED
    BY <2>1, <2>2
<1> QED
  BY <1>1, <1>2, <1>3, <1>4, <1>5, <1>6 DEF Next, ExchangeCycle

LEMMA PipelineStep ==
  ActivationInv /\ caughtUp' /\ [Next]_vars => Pipeline'
<1> SUFFICES ASSUME ActivationInv, caughtUp', [Next]_vars PROVE Pipeline'
  OBVIOUS
<1>0. Len(U) \in Nat /\ (Quiet => U' = U) /\ device \in Devices
  BY UnpublishedIsSeq, OthersKeepUnpublished DEF ActivationInv, ActivationTypeOK, GripperTypeOK
<1> USE <1>0 DEF ActivationInv, Pipeline, Shown
<1>1. CASE SweepEnds
  <2>1. /\ U' = U /\ device'.act = device.act
        /\ UNCHANGED <<flight, copy, pending, record, pc, caughtUp>>
        /\ progress = "reset" => progress' = "reset"
    BY <1>1 DEF Quiet, SweepEnds, Devices, linkVars, imageVars, procVars
  <2> QED
    BY <2>1
<1>2. CASE FaultClears \/ PowerCycle
  <2>1. /\ U' = U /\ device'.act = device.act
        /\ UNCHANGED <<flight, copy, pending, record, pc, caughtUp>>
        /\ progress = "reset" => progress' = "reset"
    BY <1>2 DEF Quiet, FaultClears, PowerCycle, Devices, linkVars, imageVars, procVars, history
  <2> QED
    BY <2>1
<1>3. ASSUME NEW f \in Faults, FaultAppears(f) PROVE Pipeline'
  <2>1. U' = U
    BY <1>3 DEF Quiet
  <2>2. /\ device'.act = device.act
        /\ UNCHANGED <<flight, copy, pending, record, pc, caughtUp>>
        /\ progress = "reset" => progress' = "reset"
    BY <1>3 DEF FaultAppears, Devices, linkVars, imageVars, procVars
  <2> QED
    BY <2>1, <2>2
<1>4. CASE CopyCommand
  <2>1. /\ U' = U /\ copy' = pending
        /\ UNCHANGED <<device, progress, pending, record, pc, caughtUp>>
        /\ flight = "idle" /\ exchanging'
    BY <1>4 DEF Quiet, CopyCommand, imageVars, procVars, history
  <2>2. pc \in {"countReset", "waitReset", "activate"} => ~pending.act
    BY DEF Locals, Off
  <2> QED
    BY <2>1, <2>2
<1>5. CASE ExchangeSucceeds \/ ExchangeFails
  <2>1. /\ exchanging /\ ~(flight' = "exchanging") /\ UNCHANGED <<pending, record, procVars, caughtUp>>
    BY <1>5 DEF ExchangeSucceeds, ExchangeFails, imageVars
  <2>2. PICK k \in 0 .. Len(U) : Kept(k) /\ (Arrives(k) \/ Lost(k))
    BY <1>5, ExchangeEnds
  <2>3. /\ \A i \in 1 .. Len(U) - k : i + k \in 1 .. Len(U) /\ U'[i] = U[i + k]
        /\ \A i \in 2 .. Len(U) - k : i + k \in 2 .. Len(U)
    BY <2>2 DEF Kept
  <2>4. CASE Lost(k)
    <3>1. Len(U') = Len(U) - k /\ (Shown => Shown')
      BY <2>4 DEF Lost
    <3>2. ASSUME pc \in {"countReset", "waitReset"}, NEW i \in 1 .. Len(U'), ~U'[i].act
          PROVE  Shown /\ \A j \in i .. Len(U') : ~U'[j].act
      <4>0. PICK m \in 1 .. Len(U) : m = i + k /\ ~U[m].act
        BY <2>3, <3>1, <3>2
      <4>1. Shown /\ \A j \in m .. Len(U) : ~U[j].act
        BY <2>1, <3>2, <4>0
      <4>2. \A j \in i .. Len(U') : j \in 1 .. Len(U) - k /\ j + k \in m .. Len(U)
        BY <2>2, <3>1, <4>0
      <4> QED
        BY <2>3, <4>1, <4>2
    <3>3. \A i \in 1 .. Len(U') : i \in 1 .. Len(U) - k
      BY <3>1
    <3>4. ASSUME pc = "waitOperational", ~fresh, NEW i \in 2 .. Len(U')
          PROVE  U'[i].act = pending.act /\ (~U'[i].act => Shown)
      <4>1. PICK m \in 2 .. Len(U) : U'[i] = U[m]
        BY <2>3, <3>1, <3>4
      <4> QED
        BY <2>1, <3>4, <4>1
    <3>5. ASSUME (pc = "waitOperational" /\ fresh) \/ pc = "deactivate", NEW i \in 1 .. Len(U')
          PROVE  U'[i].act = pending.act /\ (~U'[i].act => Shown)
      <4>1. PICK m \in 1 .. Len(U) : U'[i] = U[m]
        BY <2>3, <3>3, <3>5
      <4> QED
        BY <2>1, <3>5, <4>1
    <3> QED
      BY <2>1, <3>1, <3>2, <3>4, <3>5 DEF procVars
  <2>5. CASE Arrives(k)
    <3>1. /\ Len(U') = Len(U) - k + 1
          /\ U'[Len(U')].act = copy.act /\ device'.act = copy.act
          /\ ~copy.act => Shown'
      BY <2>5 DEF Arrives, Shows, processCommand, ProgressAfter
    <3>2. copy.act \in BOOLEAN /\ pending.act \in BOOLEAN
      BY DEF ActivationTypeOK, BlockTypeOK, Blocks
    <3>3. \A i \in 1 .. Len(U') : i = Len(U') \/ i \in 1 .. Len(U) - k
      BY <2>2, <3>1
    <3>4. ASSUME pc = "waitOperational", ~fresh, NEW i \in 2 .. Len(U')
          PROVE  U'[i].act = pending.act /\ (~U'[i].act => Shown')
      <4>1. Len(U) > 0 /\ copy.act = pending.act
        BY <2>1, <2>2, <3>1, <3>4
      <4>2. CASE i = Len(U')
        BY <3>1, <4>1, <4>2
      <4>3. CASE i \in 1 .. Len(U) - k
        <5>1. PICK m \in 2 .. Len(U) : U'[i] = U[m]
          BY <2>3, <4>3
        <5>2. U[m].act = pending.act /\ (~U[m].act => Shown)
          BY <2>1, <3>4, <5>1
        <5> QED
          BY <3>1, <3>2, <4>1, <5>1, <5>2
      <4> QED
        BY <3>3, <4>2, <4>3
    <3>5. ASSUME (pc = "waitOperational" /\ fresh) \/ pc = "deactivate", NEW i \in 1 .. Len(U')
          PROVE  U'[i].act = pending.act /\ (~U'[i].act => Shown')
      <4>1. copy.act = pending.act
        BY <2>1, <3>5
      <4>2. CASE i = Len(U')
        BY <3>1, <4>1, <4>2
      <4>3. CASE i \in 1 .. Len(U) - k
        <5>1. PICK m \in 1 .. Len(U) : U'[i] = U[m]
          BY <2>3, <4>3
        <5>2. U[m].act = pending.act /\ (~U[m].act => Shown)
          BY <2>1, <3>5, <5>1
        <5> QED
          BY <3>1, <3>2, <4>1, <5>1, <5>2
      <4> QED
        BY <3>3, <4>2, <4>3
    <3>6. ASSUME pc \in {"countReset", "waitReset"}, NEW i \in 1 .. Len(U'), ~U'[i].act
          PROVE  Shown' /\ \A j \in i .. Len(U') : ~U'[j].act
      <4>1. CASE i = Len(U')
        BY <2>2, <3>1, <3>6, <4>1
      <4>2. CASE i \in 1 .. Len(U) - k
        <5>1. i + k \in 1 .. Len(U) /\ ~U[i + k].act
          BY <2>3, <3>6, <4>2
        <5>2. ~copy.act /\ \A j \in i + k .. Len(U) : ~U[j].act
          BY <2>1, <3>6, <5>1
        <5>3. \A j \in i .. Len(U') : j = Len(U') \/ (j \in 1 .. Len(U) - k /\ j + k \in i + k .. Len(U))
          BY <2>2, <3>1
        <5> QED
          BY <2>3, <3>1, <5>2, <5>3
      <4> QED
        BY <3>3, <4>1, <4>2
    <3> QED
      BY <2>1, <3>4, <3>5, <3>6 DEF procVars
  <2> QED
    BY <2>2, <2>4, <2>5
<1>6. CASE Publish
  <2>1. /\ Len(U) > 0 /\ Len(U') = Len(U) - 1 /\ \A i \in 1 .. Len(U') : U'[i] = U[i + 1]
        /\ record' = IF pc = "idle" THEN NoStatus ELSE U[1]
        /\ U[1] \in Status
        /\ flight = "replied" /\ flight' = "idle"
        /\ UNCHANGED <<device, pending, pc, proc, result, progress, spared, caughtUp>>
    BY <1>6, PublishTakesFirst DEF Publish, Locals, procVars, history
  <2> QED
    BY <2>1, NoStatusAssumption
<1>7. ASSUME NEW c \in Blocks, setCommand(c) PROVE Pipeline'
  BY <1>7 DEF setCommand
<1>8. ASSUME NEW p \in {"activate", "recoverFromFault"}, Begin(p) PROVE Pipeline'
  <2>1. /\ pc' = "waitOperational" /\ ~fresh' /\ U' = U /\ UNCHANGED <<flight, copy, pending>>
    BY <1>8 DEF Begin, Quiet, Locals, gripperVars, linkVars, imageVars
  <2>2. U = <<>> \/ (flight # "exchanging" /\ Len(U) = 1)
    BY <1>8 DEF Begin
  <2>3. Len(U) = 0 \/ (flight # "exchanging" /\ Len(U) = 1)
    BY <2>2
  <2> QED
    BY <2>1, <2>3
<1>9. CASE HalfPasses \/ DeadlinePasses
  BY <1>9 DEF Quiet, HalfPasses, DeadlinePasses, gripperVars, linkVars, imageVars, history
<1>10. CASE Procedure
  <2>1. UNCHANGED procConst /\ U' = U
    BY <1>10, ProcedureFrame DEF Quiet
  <2>2. CASE HandshakeAllowed
    BY <2>1, <2>2 DEF procConst, gripperVars, linkVars, history, HandshakeAllowed, Sees, goesOn
  <2>3. CASE Deactivate
    BY <2>1, <2>3 DEF procConst, gripperVars, linkVars, history, Deactivate, goesOn,
       deactivateCommand, Off
  <2>4. CASE Procedure /\ ~HandshakeAllowed /\ ~Deactivate
    <3>1. pc' \in {"idle", "countComplete", "waitComplete", "waitReset", "activate"}
      BY <2>4 DEF Procedure, returns, goesOn, waitOperationalFails,
       ActivateFaultLatched, ActivateAlreadyActive, ActivateInProgress, HandshakeNotAllowed,
       HandshakeAllowed, Deactivate, deactivateCommand, StartWait, WaitReset, WaitOn, ResetNotYet,
       ResetSeen, ResetTimesOut, Activate, activateCommand, WaitComplete, CompleteNotYet,
       CompleteSeen, CompleteTimesOut, Sees, GivesUp
    <3>2. pc' = "waitReset" => pc \in {"countReset", "waitReset"} /\ UNCHANGED pending
      BY <2>4 DEF Procedure, returns, goesOn, waitOperationalFails,
       ActivateFaultLatched, ActivateAlreadyActive, ActivateInProgress, HandshakeNotAllowed,
       HandshakeAllowed, Deactivate, deactivateCommand, StartWait, WaitReset, WaitOn, ResetNotYet,
       ResetSeen, ResetTimesOut, Activate, activateCommand, WaitComplete, CompleteNotYet,
       CompleteSeen, CompleteTimesOut, Sees, GivesUp
    <3> QED
      BY <2>1, <3>1, <3>2 DEF procConst, gripperVars, linkVars, history
  <2> QED
    BY <1>10, <2>2, <2>3, <2>4
<1>11. CASE UNCHANGED vars
  BY <1>11 DEF Quiet, vars, linkVars, imageVars, procVars, history
<1> QED
  BY <1>1, <1>2, <1>3, <1>4, <1>5, <1>6, <1>7, <1>8, <1>9, <1>10, <1>11 DEF Next, ExchangeCycle

LEMMA ResetsStep ==
  ActivationInv /\ caughtUp' /\ [Next]_vars => Resets'
<1> SUFFICES ASSUME ActivationInv, caughtUp', [Next]_vars PROVE Resets'
  OBVIOUS
<1>0. Len(U) \in Nat /\ (Quiet => U' = U) /\ device \in Devices
  BY UnpublishedIsSeq, OthersKeepUnpublished DEF ActivationInv, ActivationTypeOK, GripperTypeOK
<1> USE <1>0 DEF ActivationInv, Resets, ResetDone, Shown, Locals
<1>1. CASE SweepEnds
  <2>1. /\ U' = U /\ device'.act = device.act
        /\ UNCHANGED <<flight, copy, pending, record, pc, caughtUp>>
        /\ progress = "reset" => progress' = "reset"
    BY <1>1 DEF Quiet, SweepEnds, Devices, linkVars, imageVars, procVars
  <2> QED
    BY <2>1
<1>2. CASE FaultClears \/ PowerCycle
  <2>1. /\ U' = U /\ device'.act = device.act
        /\ UNCHANGED <<flight, copy, pending, record, pc, caughtUp>>
        /\ progress = "reset" => progress' = "reset"
    BY <1>2 DEF Quiet, FaultClears, PowerCycle, Devices, linkVars, imageVars, procVars, history
  <2> QED
    BY <2>1
<1>3. ASSUME NEW f \in Faults, FaultAppears(f) PROVE Resets'
  <2>1. U' = U
    BY <1>3 DEF Quiet
  <2>2. /\ device'.act = device.act
        /\ UNCHANGED <<flight, copy, pending, record, pc, caughtUp>>
        /\ progress = "reset" => progress' = "reset"
    BY <1>3 DEF FaultAppears, Devices, linkVars, imageVars, procVars
  <2> QED
    BY <2>1, <2>2
<1>4. CASE CopyCommand
  <2>1. /\ U' = U /\ copy' = pending
        /\ UNCHANGED <<device, progress, pending, record, pc, caughtUp>>
        /\ flight = "idle" /\ exchanging'
    BY <1>4 DEF Quiet, CopyCommand, imageVars, procVars, history
  <2>2. pc \in {"countReset", "waitReset", "activate"} => ~pending.act
    BY DEF Locals, Off
  <2> QED
    BY <2>1, <2>2
<1>5. CASE ExchangeSucceeds \/ ExchangeFails
  <2>1. /\ exchanging /\ ~(flight' = "exchanging") /\ UNCHANGED <<pending, record, procVars, caughtUp>>
    BY <1>5 DEF ExchangeSucceeds, ExchangeFails, imageVars
  <2>2. PICK k \in 0 .. Len(U) : Kept(k) /\ (Arrives(k) \/ Lost(k))
    BY <1>5, ExchangeEnds
  <2>3. CASE Lost(k)
    BY <2>1, <2>2, <2>3 DEF Lost, Kept, procVars
  <2>4. CASE Arrives(k)
    <3>1. /\ Len(U') = Len(U) - k + 1
          /\ U'[Len(U')].act = copy.act /\ device'.act = copy.act
          /\ ~copy.act => Shown'
      BY <2>4 DEF Arrives, Shows, processCommand, ProgressAfter
    <3>2. ASSUME ResetDone PROVE ResetDone'
      <4>1. ~copy.act /\ \A i \in 1 .. Len(U) : ~U[i].act
        BY <2>1, <3>2
      <4>2. \A i \in 1 .. Len(U') :
              i = Len(U') \/ (i \in 1 .. Len(U) - k /\ i + k \in 1 .. Len(U))
        BY <2>2, <3>1
      <4>3. \A i \in 1 .. Len(U) - k : U'[i] = U[i + k]
        BY <2>2 DEF Kept
      <4> QED
        BY <2>1, <3>1, <4>1, <4>2, <4>3
    <3> QED
      BY <2>1, <3>2 DEF procVars
  <2> QED
    BY <2>2, <2>3, <2>4
<1>6. CASE Publish
  <2>1. /\ Len(U) > 0 /\ Len(U') = Len(U) - 1 /\ \A i \in 1 .. Len(U') : U'[i] = U[i + 1]
        /\ record' = IF pc = "idle" THEN NoStatus ELSE U[1]
        /\ U[1] \in Status
        /\ flight = "replied" /\ flight' = "idle"
        /\ UNCHANGED <<device, pending, pc, proc, result, progress, spared, caughtUp>>
    BY <1>6, PublishTakesFirst DEF Publish, Locals, procVars, history
  <2> QED
    BY <2>1, NoStatusAssumption DEF Pipeline
<1>7. ASSUME NEW c \in Blocks, setCommand(c) PROVE Resets'
  BY <1>7 DEF setCommand
<1>8. ASSUME NEW p \in {"activate", "recoverFromFault"}, Begin(p) PROVE Resets'
  BY <1>8 DEF Begin
<1>9. CASE HalfPasses \/ DeadlinePasses
  BY <1>9 DEF Quiet, HalfPasses, DeadlinePasses, gripperVars, linkVars, imageVars, history
<1>10. CASE Procedure
  <2>1. UNCHANGED procConst /\ U' = U
    BY <1>10, ProcedureFrame DEF Quiet
  <2> QED
    BY <1>10, <2>1 DEF procConst, gripperVars, linkVars, history, ResetShown, Procedure, returns, goesOn, waitOperationalFails,
       ActivateFaultLatched, ActivateAlreadyActive, ActivateInProgress, HandshakeNotAllowed,
       HandshakeAllowed, Deactivate, deactivateCommand, StartWait, WaitReset, WaitOn, ResetNotYet,
       ResetSeen, ResetTimesOut, Activate, activateCommand, WaitComplete, CompleteNotYet,
       CompleteSeen, CompleteTimesOut, Sees, GivesUp
<1>11. CASE UNCHANGED vars
  BY <1>11 DEF Quiet, vars, linkVars, imageVars, procVars, history
<1> QED
  BY <1>1, <1>2, <1>3, <1>4, <1>5, <1>6, <1>7, <1>8, <1>9, <1>10, <1>11 DEF Next, ExchangeCycle

LEMMA SweepsStep ==
  ActivationInv /\ caughtUp' /\ [Next]_vars => Sweeps'
<1> SUFFICES ASSUME ActivationInv, caughtUp', [Next]_vars PROVE Sweeps'
  OBVIOUS
<1>0. Len(U) \in Nat /\ (Quiet => U' = U) /\ device \in Devices
  BY UnpublishedIsSeq, OthersKeepUnpublished DEF ActivationInv, ActivationTypeOK, GripperTypeOK
<1> USE <1>0 DEF ActivationInv, Sweeps, Recovering, Locals, ActiveOnly, Devices
<1>1. CASE SweepEnds
  BY <1>1 DEF Quiet, SweepEnds, linkVars, imageVars, procVars
<1>2. CASE FaultClears \/ PowerCycle
  BY <1>2 DEF Quiet, FaultClears, PowerCycle, linkVars, imageVars, procVars, history
<1>3. ASSUME NEW f \in Faults, FaultAppears(f) PROVE Sweeps'
  <2>1. U' = U
    BY <1>3 DEF Quiet
  <2> QED
    BY <1>3, <2>1 DEF FaultAppears, linkVars, imageVars, procVars
<1>4. CASE CopyCommand
  BY <1>4 DEF Quiet, CopyCommand, imageVars, procVars, history, Off
<1>5. CASE ExchangeSucceeds \/ ExchangeFails
  <2>1. /\ exchanging /\ ~(flight' = "exchanging") /\ UNCHANGED <<pending, record, procVars, caughtUp>>
    BY <1>5 DEF ExchangeSucceeds, ExchangeFails, imageVars
  <2>2. PICK k \in 0 .. Len(U) : Kept(k) /\ (Arrives(k) \/ Lost(k))
    BY <1>5, ExchangeEnds
  <2>3. CASE Lost(k)
    BY <2>1, <2>2, <2>3 DEF Lost, Kept, procVars
  <2>4. CASE Arrives(k)
    <3>1. /\ Len(U') = Len(U) - k + 1
          /\ U'[Len(U')].sta = device'.sta /\ device' = processCommand(copy)
          /\ progress' = ProgressAfter(copy)
      BY <2>4 DEF Arrives, Shows
    <3>2. /\ \A i \in 1 .. Len(U') :
               i = Len(U') \/ (i \in 1 .. Len(U) - k /\ i + k \in 1 .. Len(U))
          /\ \A i \in 1 .. Len(U) - k : U'[i] = U[i + k]
      BY <2>2, <3>1 DEF Kept
    <3>3. SUFFICES ASSUME Recovering PROVE Sweeps'
      BY <2>1 DEF procVars
    <3>4. progress = "swept" => progress' = "swept"
      BY <2>1, <3>1, <3>3 DEF ProgressAfter
    <3>5. /\ progress' \in {"reset", "sweeping", "swept"}
          /\ progress' = "reset" => device'.sta = "Reset"
          /\ progress' = "sweeping" => device'.sta = "InProgress"
          /\ device'.sta = "Complete" => progress' = "swept"
      BY <2>1, <3>1, <3>3 DEF processCommand, ProgressAfter
    <3>6. ASSUME NEW i \in 1 .. Len(U'), U'[i].sta = "Complete" PROVE progress' = "swept"
      <4>1. CASE i = Len(U')
        BY <3>1, <3>5, <3>6, <4>1
      <4>2. CASE i \in 1 .. Len(U) - k /\ i + k \in 1 .. Len(U)
        <5>1. PICK m \in 1 .. Len(U) : U[m].sta = "Complete"
          BY <3>2, <3>6, <4>2
        <5> QED
          BY <2>1, <3>3, <3>4, <5>1
      <4> QED
        BY <3>2, <4>1, <4>2
    <3> QED
      BY <2>1, <3>3, <3>4, <3>5, <3>6 DEF procVars
  <2> QED
    BY <2>2, <2>3, <2>4
<1>6. CASE Publish
  <2>1. /\ Len(U) > 0 /\ Len(U') = Len(U) - 1 /\ \A i \in 1 .. Len(U') : U'[i] = U[i + 1]
        /\ record' = IF pc = "idle" THEN NoStatus ELSE U[1]
        /\ U[1] \in Status
        /\ flight = "replied" /\ flight' = "idle"
        /\ UNCHANGED <<device, pending, pc, proc, result, progress, spared, caughtUp>>
    BY <1>6, PublishTakesFirst DEF Publish, Locals, procVars, history
  <2> QED
    BY <2>1, NoStatusAssumption
<1>7. ASSUME NEW c \in Blocks, setCommand(c) PROVE Sweeps'
  BY <1>7 DEF setCommand
<1>8. ASSUME NEW p \in {"activate", "recoverFromFault"}, Begin(p) PROVE Sweeps'
  BY <1>8 DEF Begin
<1>9. CASE HalfPasses \/ DeadlinePasses
  BY <1>9 DEF Quiet, HalfPasses, DeadlinePasses, gripperVars, linkVars, imageVars, history
<1>10. CASE Procedure
  <2>1. UNCHANGED procConst /\ U' = U
    BY <1>10, ProcedureFrame DEF Quiet
  <2>2. CASE Activate
    BY <2>1, <2>2 DEF procConst, gripperVars, linkVars, history, Activate, goesOn, activateCommand,
       Resets, ResetDone, Shown
  <2>3. CASE Procedure /\ ~Activate
    BY <2>1, <2>3 DEF procConst, gripperVars, linkVars, history, Procedure, returns, goesOn, waitOperationalFails,
       ActivateFaultLatched, ActivateAlreadyActive, ActivateInProgress, HandshakeNotAllowed,
       HandshakeAllowed, Deactivate, deactivateCommand, StartWait, WaitReset, WaitOn, ResetNotYet,
       ResetSeen, ResetTimesOut, WaitComplete, CompleteNotYet,
       CompleteSeen, CompleteTimesOut, Sees, GivesUp
  <2> QED
    BY <1>10, <2>2, <2>3
<1>11. CASE UNCHANGED vars
  BY <1>11 DEF Quiet, vars, linkVars, imageVars, procVars, history
<1> QED
  BY <1>1, <1>2, <1>3, <1>4, <1>5, <1>6, <1>7, <1>8, <1>9, <1>10, <1>11 DEF Next, ExchangeCycle

LEMMA AtRestStep == ActivationInv /\ [Next]_vars => AtRest'
<1> SUFFICES ASSUME ActivationInv, [Next]_vars PROVE AtRest'
  OBVIOUS
<1> USE DEF ActivationInv, AtRest, Locals, ActivationTypeOK,
            GripperTypeOK, StageTypeOK, Status, gripperVars, linkVars, imageVars, procVars, history
<1>1. CASE SweepEnds
  BY <1>1 DEF SweepEnds
<1>2. CASE FaultClears \/ PowerCycle
  <2>1. CASE FaultClears
    BY <2>1 DEF FaultClears
  <2>2. CASE PowerCycle
    BY <2>2 DEF PowerCycle
  <2> QED
    BY <1>2, <2>1, <2>2
<1>3. ASSUME NEW f \in Faults, FaultAppears(f) PROVE AtRest'
  BY <1>3 DEF FaultAppears
<1>4. CASE CopyCommand
  BY <1>4 DEF CopyCommand
<1>5. CASE ExchangeSucceeds \/ ExchangeFails
  <2>1. /\ exchanging /\ ~(flight' = "exchanging") /\ UNCHANGED <<pending, procVars>>
        /\ copy \in Blocks
    BY <1>5 DEF ExchangeSucceeds, ExchangeFails, BlockTypeOK
  <2>2. PICK k \in 0 .. Len(U) : Arrives(k) \/ Lost(k)
    BY <1>5, ExchangeEnds
  <2>3. CASE Lost(k)
    BY <2>1, <2>3 DEF Lost
  <2>4. CASE Arrives(k)
    <3>1. /\ device'.gto = (copy.act /\ copy.gto)
          /\ shook' = (shook \/ (~copy.act /\ pc \in {"countReset", "waitReset", "activate"}))
      BY <2>4 DEF Arrives, processCommand, ShookAfter
    <3>2. pc \in {"countReset", "waitReset", "activate"} => pending = Off
      OBVIOUS
    <3> QED
      BY <2>1, <3>1, <3>2 DEF Off, FlagTypeOK, Blocks
  <2> QED
    BY <2>2, <2>3, <2>4
<1>6. CASE Publish
  BY <1>6 DEF Publish
<1>7. ASSUME NEW c \in Blocks, setCommand(c) PROVE AtRest'
  BY <1>7 DEF setCommand
<1>8. ASSUME NEW p \in {"activate", "recoverFromFault"}, Begin(p) PROVE AtRest'
  BY <1>8 DEF Begin
<1>9. CASE HalfPasses
  BY <1>9 DEF HalfPasses
<1>10. CASE DeadlinePasses
  BY <1>10 DEF DeadlinePasses
<1>11. CASE Procedure
  <2>1. UNCHANGED procConst
    BY <1>11, ProcedureFrame
  <2> QED
    BY <1>11, <2>1 DEF procConst, Procedure, returns, goesOn, waitOperationalFails,
       ActivateFaultLatched, ActivateAlreadyActive, ActivateInProgress, HandshakeNotAllowed,
       HandshakeAllowed, Deactivate, deactivateCommand, StartWait, WaitReset, WaitOn, ResetNotYet,
       ResetSeen, ResetTimesOut, Activate, activateCommand, WaitComplete, CompleteNotYet,
       CompleteSeen, CompleteTimesOut, Sees, GivesUp
<1>12. CASE UNCHANGED vars
  BY <1>12 DEF vars
<1> QED
  BY <1>1, <1>2, <1>3, <1>4, <1>5, <1>6, <1>7, <1>8, <1>9, <1>10, <1>11, <1>12
  DEF Next, ExchangeCycle

LEMMA SparesStep == ActivationInv /\ [Next]_vars => Spares'
<1> SUFFICES ASSUME ActivationInv, [Next]_vars, spared' PROVE Spares'
  BY DEF Spares
<1>0. Len(U) \in Nat /\ (Quiet => U' = U) /\ device \in Devices
  BY UnpublishedIsSeq, OthersKeepUnpublished DEF ActivationInv, ActivationTypeOK, GripperTypeOK
<1> USE <1>0 DEF ActivationInv, Spares, Locals
<1>1. CASE SweepEnds
  BY <1>1 DEF Quiet, SweepEnds, LeftAlone, Devices, linkVars, imageVars, procVars
<1>2. CASE FaultClears \/ PowerCycle
  <2>1. ~ PowerCycle
    BY DEF PowerCycle
  <2>2. /\ U' = U /\ device'.act = device.act /\ device'.sta = device.sta
        /\ severity(device.fault) # "Major"
        /\ UNCHANGED <<flight, copy, pending, record, pc, proc, progress, spared>>
    BY <1>2, <2>1 DEF Quiet, FaultClears, Devices, linkVars, imageVars, procVars, history
  <2> QED
    BY <2>2 DEF LeftAlone
<1>3. ASSUME NEW f \in Faults, FaultAppears(f) PROVE Spares'
  <2>1. U' = U
    BY <1>3 DEF Quiet
  <2> QED
    BY <1>3, <2>1 DEF FaultAppears, LeftAlone, severity, Devices, linkVars, imageVars, procVars
<1>4. CASE CopyCommand
  BY <1>4 DEF Quiet, CopyCommand, imageVars, procVars, history
<1>5. CASE ExchangeSucceeds \/ ExchangeFails
  <2>1. /\ exchanging /\ ~(flight' = "exchanging")
        /\ UNCHANGED <<pending, record, procVars, spared>>
    BY <1>5 DEF ExchangeSucceeds, ExchangeFails, imageVars
  <2>2. PICK k \in 0 .. Len(U) : Kept(k) /\ (Arrives(k) \/ Lost(k))
    BY <1>5, ExchangeEnds
  <2>3. CASE Lost(k)
    BY <2>1, <2>2, <2>3 DEF Lost, Kept, procVars
  <2>4. CASE Arrives(k)
    <3>1. /\ device'.act /\ progress' = progress
          /\ device'.sta = device.sta /\ device'.fault = device.fault
      BY <2>1, <2>4 DEF Arrives, processCommand, ProgressAfter
    <3>2. LeftAlone(device') /\ LeftAlone(Shows(device'))
      BY <2>1, <3>1 DEF LeftAlone, Shows
    <3>3. \A i \in 1 .. Len(U') : LeftAlone(U'[i])
      BY <2>1, <2>2, <2>4, <3>2 DEF Arrives, Kept
    <3> QED
      BY <2>1, <3>1, <3>2, <3>3 DEF procVars
  <2> QED
    BY <2>2, <2>3, <2>4
<1>6. CASE Publish
  <2>1. /\ Len(U) > 0 /\ Len(U') = Len(U) - 1 /\ \A i \in 1 .. Len(U') : U'[i] = U[i + 1]
        /\ record' = IF pc = "idle" THEN NoStatus ELSE U[1]
        /\ flight = "replied" /\ flight' = "idle"
        /\ UNCHANGED <<device, pending, pc, proc, progress, spared>>
    BY <1>6, PublishTakesFirst DEF Publish, procVars, history
  <2> QED
    BY <2>1
<1>7. ASSUME NEW c \in Blocks, setCommand(c) PROVE Spares'
  BY <1>7 DEF setCommand
<1>8. ASSUME NEW p \in {"activate", "recoverFromFault"}, Begin(p) PROVE Spares'
  <2>1. \A i \in 1 .. Len(U) : i \in DOMAIN U
    BY UnpublishedIsSeq, ElementOfSeq, LenProperties DEF ActivationTypeOK
  <2> QED
    BY <1>8, <2>1 DEF Begin, NoResetOnItsWay, Quiet, gripperVars, linkVars, imageVars
<1>9. CASE HalfPasses \/ DeadlinePasses
  BY <1>9 DEF Quiet, HalfPasses, DeadlinePasses, gripperVars, linkVars, imageVars, history
<1>10. CASE Procedure
  <2>1. UNCHANGED procConst /\ U' = U
    BY <1>10, ProcedureFrame DEF Quiet
  <2>2. record \in Status \cup {NoStatus}
    BY DEF ActivationTypeOK, GripperTypeOK
  <2> QED
    BY <1>10, <2>1, <2>2 DEF procConst, gripperVars, linkVars, history, LeftAlone, Status,
       NeedsHandshake, Procedure, returns, goesOn, waitOperationalFails,
       ActivateFaultLatched, ActivateAlreadyActive, ActivateInProgress, HandshakeNotAllowed,
       HandshakeAllowed, Deactivate, StartWait, WaitReset, WaitOn, ResetNotYet,
       ResetSeen, ResetTimesOut, Activate, WaitComplete, CompleteNotYet,
       CompleteSeen, CompleteTimesOut, Sees, GivesUp
<1>11. CASE UNCHANGED vars
  BY <1>11 DEF Quiet, vars, linkVars, imageVars, procVars, history
<1> QED
  BY <1>1, <1>2, <1>3, <1>4, <1>5, <1>6, <1>7, <1>8, <1>9, <1>10, <1>11 DEF Next, ExchangeCycle

-----------------------------------------------------------------------------
LEMMA InvHolds == Safety => []ActivationInv
<1>1. Init => ActivationInv
  BY InitHolds
<1>2. ActivationInv /\ [Next]_vars => ActivationInv'
  BY GripperTypeStep, BlockTypeStep, StageTypeStep, FlagTypeStep, LocalsStep, ActiveOnlyStep,
     PipelineStep, ResetsStep, SweepsStep, AtRestStep, SparesStep
  DEF ActivationInv, ActivationTypeOK
<1> QED
  BY <1>1, <1>2, PTL DEF Safety

(* Types of the gripper, the link, the image and the procedure.            *)
THEOREM ActivationTypeCorrect == Safety => []ActivationTypeOK
<1>1. ActivationInv => ActivationTypeOK
  BY DEF ActivationInv
<1> QED
  BY <1>1, InvHolds, PTL

(* recoverFromFault() returns Activated only after a reset and a whole     *)
(* sweep in the call, whatever requests are lost, however many replies are *)
(* lost or taken by a later exchange, and whatever befalls the gripper     *)
(* meanwhile, if at most one status was still to come when it was called.  *)
THEOREM RecoveryIsReal == Safety => []RecoveredBySweep
<1>1. ActivationInv => RecoveredBySweep
  <2> SUFFICES ASSUME ActivationInv, result = "Activated", caughtUp PROVE progress = "swept"
    BY DEF RecoveredBySweep
  <2>1. pc = "idle"
    BY DEF ActivationInv, Locals
  <2> QED
    BY <2>1 DEF ActivationInv, Sweeps, Recovering
<1> QED
  BY <1>1, InvHolds, PTL

(* activate() resets no gripper that is active, activating or has a major  *)
(* fault latched, unless a status that has still to be published shows it  *)
(* reset and without such a fault.                                         *)
THEOREM ActivateLeavesAlone == Safety => []ActivateSpares
<1>1. ActivationInv => ActivateSpares
  BY DEF ActivationInv, Spares, ActivateSpares
<1> QED
  BY <1>1, InvHolds, PTL

(* A sweep that the handshake started ends with rGTO clear unless the call *)
(* timed out.                                                              *)
THEOREM HandshakeEndsAtRest == Safety => []SweepEndsAtRest
<1>1. ActivationInv => SweepEndsAtRest
  BY DEF ActivationInv, AtRest, SweepEndsAtRest
<1> QED
  BY <1>1, InvHolds, PTL
=============================================================================
