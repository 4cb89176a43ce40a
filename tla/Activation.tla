----------------------------- MODULE Activation -----------------------------
(***************************************************************************)
(* activate() and recoverFromFault() (src/gripper.cpp) against a gripper   *)
(* that sweeps, faults and loses power on its own, over an exchange cycle  *)
(* that loses requests and loses or delays replies (Link).                 *)
(*                                                                         *)
(* The process image is reduced to what the procedures see of it: the      *)
(* pending block, and the last record if it is past the count the current  *)
(* wait started from (ProcessImage shows that a wait returns exactly on    *)
(* that, or at its deadline).  A block is rACT and      *)
(* rGTO, the two bits the procedures write; a status shows what they look  *)
(* at.                                                                     *)
(***************************************************************************)
EXTENDS Link

CONSTANTS
  Faults,       (* the gFLT codes the gripper may raise                    *)
  NoStatus,     (* no status                                               *)
  MaxUpsets     (* bound on the faults and power cycles of a behaviour     *)

ASSUME ActivationAssumption == Faults \subseteq 1 .. 15 /\ MaxUpsets \in Nat

(* fault_status.hpp: a code nobody lists counts as major.                  *)
severity(fault) ==
  CASE fault = 0           -> "None"
    [] fault \in {4, 5, 7} -> "Warning"
    [] fault \in {8, 9}    -> "Minor"
    [] OTHER               -> "Major"

Blocks == [act : BOOLEAN, gto : BOOLEAN]

Off == [act |-> FALSE, gto |-> FALSE]

Devices == [act : BOOLEAN, sta : {"Reset", "InProgress", "Complete"},
            gto : BOOLEAN, fault : {0} \cup Faults]

Status == [act : BOOLEAN, sta : {"Reset", "InProgress", "Complete"},
           fault : {0} \cup Faults]

ASSUME NoStatusAssumption == NoStatus \notin Status

Shows(d) == [act |-> d.act, sta |-> d.sta, fault |-> d.fault]

VARIABLES
  device,       (* the gripper, as it would answer now                     *)
  upsets,       (* faults and power cycles so far                          *)
  flight,       (* where the exchange cycle is                             *)
  copy,         (* the block it carries                                    *)
  reply,        (* the status it has in hand                               *)
  pending,      (* the command image                                       *)
  record,       (* the status of the last record, if the wait is to see it *)
  proc,         (* the procedure running, or last run                      *)
  pc,           (* where it is                                             *)
  previous,     (* previousCommand                                         *)
  half,         (* less than half the timeout is left                      *)
  late,         (* the deadline has passed                                 *)
  result,       (* what the procedure returned                             *)
  progress,     (* history: what the gripper has been through in the call  *)
  shook,        (* history: the handshake's reset has reached the gripper  *)
  spared,       (* history: the call found a gripper it must not reset     *)
  caughtUp      (* history: it found no exchange waiting behind another    *)

linkVars == <<flight, copy, reply, owed>>
imageVars == <<pending, record>>
procVars == <<proc, pc, previous, half, late, result>>
history  == <<progress, shook, spared, caughtUp>>
vars     == <<device, upsets, linkVars, imageVars, procVars, history>>

(* The states a gripper may be found in; the image is seeded from it.      *)
Init ==
  /\ device \in {d \in Devices : (d.gto => d.sta # "Reset") /\ (d.sta # "Reset" => d.act)}
  /\ upsets = 0
  /\ flight = "idle" /\ copy = Off /\ reply = NoStatus /\ owed = <<>>
  /\ pending = [act |-> device.act, gto |-> device.gto]
  /\ record = NoStatus
  /\ proc = "none" /\ pc = "idle" /\ previous = Off
  /\ half = FALSE /\ late = FALSE /\ result = "none"
  /\ progress = "none" /\ shook = FALSE
  /\ spared = FALSE /\ caughtUp = FALSE

-----------------------------------------------------------------------------
(* The gripper.  A falling rACT resets it and clears its fault, a rising   *)
(* one starts the sweep; the fake in src/fake ends the sweep at once.      *)
processCommand(c) ==
  [act   |-> c.act,
   sta   |-> IF ~c.act THEN "Reset"
             ELSE IF ~device.act THEN "InProgress" ELSE device.sta,
   gto   |-> c.act /\ c.gto,
   fault |-> IF c.act THEN device.fault ELSE 0]

ProgressAfter(c) ==
  IF ~c.act THEN "reset"
  ELSE IF ~device.act /\ progress = "reset" THEN "sweeping" ELSE progress

ShookAfter(c) ==
  shook \/ (~c.act /\ pc \in {"countReset", "waitReset", "activate"})

(* The block reaches the gripper, which answers it, or is lost.            *)
Receive(c, answer) ==
  \/ /\ device' = processCommand(c)
     /\ answer = <<Shows(device')>>
     /\ progress' = ProgressAfter(c)
     /\ shook' = ShookAfter(c)
  \/ /\ answer = <<>>
     /\ UNCHANGED <<device, progress, shook>>

SweepEnds ==
  /\ device.sta = "InProgress"
  /\ device' = [device EXCEPT !.sta = "Complete"]
  /\ progress' = IF progress = "sweeping" THEN "swept" ELSE progress
  /\ UNCHANGED <<upsets, linkVars, imageVars, procVars, shook, spared, caughtUp>>

(* A major fault may take the gripper out of its activated state; the rest *)
(* clear on their own.                                                     *)
FaultAppears(f) ==
  /\ upsets < MaxUpsets /\ device.fault = 0
  /\ upsets' = upsets + 1
  /\ \E s \in {device.sta} \cup (IF severity(f) = "Major" THEN {"Reset"} ELSE {}) :
       device' = [device EXCEPT !.fault = f, !.sta = s]
  /\ progress' = IF device'.sta = "Reset" /\ progress = "sweeping" THEN "reset" ELSE progress
  /\ UNCHANGED <<linkVars, imageVars, procVars, shook, spared, caughtUp>>

FaultClears ==
  /\ severity(device.fault) \in {"Warning", "Minor"}
  /\ device' = [device EXCEPT !.fault = 0]
  /\ UNCHANGED <<upsets, linkVars, imageVars, procVars, history>>

(* "A power-cycled gripper comes back unactivated yet echoing gACT set"    *)
(* (tests/test_gripper.cpp): only a full handshake activates it again.     *)
PowerCycle ==
  /\ upsets < MaxUpsets
  /\ upsets' = upsets + 1
  /\ device' = [device EXCEPT !.sta = "Reset", !.gto = FALSE, !.fault = 0]
  /\ progress' = IF progress = "sweeping" THEN "reset" ELSE progress
  /\ spared' = FALSE
  /\ UNCHANGED <<linkVars, imageVars, procVars, shook, caughtUp>>

-----------------------------------------------------------------------------
(* The exchange cycle: GripperState, without its thread and its counters.  *)
CopyCommand ==
  /\ flight = "idle"
  /\ flight' = "exchanging"
  /\ copy' = pending
  /\ UNCHANGED <<device, upsets, reply, owed, imageVars, procVars, history>>

Answers == {<<>>, <<Shows(processCommand(copy))>>}

ExchangeSucceeds ==
  /\ flight = "exchanging"
  /\ flight' = "replied"
  /\ \E k \in 0 .. Len(owed), answer \in Answers :
       Receive(copy, answer) /\ Take(reply', k, answer)
  /\ UNCHANGED <<upsets, copy, imageVars, procVars, spared, caughtUp>>

ExchangeFails ==
  /\ flight = "exchanging"
  /\ flight' = "idle" /\ copy' = Off
  /\ \E k \in 0 .. Len(owed), answer \in Answers :
       Receive(copy, answer) /\ GiveUp(k, answer)
  /\ UNCHANGED <<upsets, reply, imageVars, procVars, spared, caughtUp>>

Publish ==
  /\ flight = "replied"
  /\ flight' = "idle" /\ copy' = Off
  /\ record' = IF pc = "idle" THEN NoStatus ELSE reply
  /\ reply' = NoStatus
  /\ UNCHANGED <<device, upsets, owed, pending, procVars, history>>

ExchangeCycle == CopyCommand \/ ExchangeSucceeds \/ ExchangeFails \/ Publish

-----------------------------------------------------------------------------
gripperVars == <<device, upsets, linkVars>>

(* Between two procedures the application commands what it likes.          *)
setCommand(c) ==
  /\ pc = "idle"
  /\ pending' = c
  /\ result' = "none" /\ progress' = "none" /\ shook' = FALSE
  /\ spared' = FALSE /\ caughtUp' = FALSE
  /\ proc' = "none"
  /\ UNCHANGED <<gripperVars, record, pc, previous, half, late>>

NoResetOnItsWay == pending.act /\ (flight = "exchanging" => copy.act)

(* The statuses that have still to be published.                           *)
Unpublished == (IF flight = "replied" THEN <<reply>> ELSE <<>>) \o owed

(* A gripper that activate() must not reset shows this.                    *)
LeftAlone(s) == s.sta # "Reset" \/ severity(s.fault) = "Major"

(* Both procedures start by waiting for an exchange: waitOperational().    *)
(* It may be one whose status was read before the call, or one that takes  *)
(* the reply to an earlier one, so a call can find only what every status  *)
(* still to come shows.                                                    *)
Begin(p) ==
  /\ pc = "idle"
  /\ pc' = "waitOperational" /\ proc' = p
  /\ result' = "none"
  /\ progress' = "none" /\ shook' = FALSE
  /\ spared' = (/\ p = "activate" /\ device.act /\ NoResetOnItsWay
                /\ LeftAlone(device)
                /\ \A i \in DOMAIN Unpublished : LeftAlone(Unpublished[i]))
  /\ caughtUp' = (/\ p = "recoverFromFault"
                  /\ Unpublished = <<>> \/ (flight # "exchanging" /\ Len(Unpublished) = 1))
  /\ UNCHANGED <<gripperVars, imageVars, previous, half, late>>

(* isActivationHandshakeAllowed() compares with half the timeout.          *)
HalfPasses ==
  /\ pc # "idle" /\ ~half
  /\ half' = TRUE
  /\ UNCHANGED <<gripperVars, imageVars, proc, pc, previous, late, result, history>>

DeadlinePasses ==
  /\ pc # "idle" /\ half /\ ~late
  /\ late' = TRUE
  /\ UNCHANGED <<gripperVars, imageVars, proc, pc, previous, half, result, history>>

-----------------------------------------------------------------------------
(* What a wait makes of the records it is given.                           *)
Sees(at) == pc = at /\ record # NoStatus
(* Mutant of GivesUp: the wait for the end of the sweep has no deadline.   *)
GivesUpOnReset(at) == pc = at /\ at # "waitComplete" /\ late /\ record = NoStatus

GivesUp(at) == pc = at /\ late /\ record = NoStatus

(* What never changes in a step of a procedure, and what changes only when *)
(* it returns: its locals are gone then.                                   *)
procConst == <<gripperVars, proc, history>>

returns(r) ==
  /\ pc' = "idle" /\ result' = r
  /\ record' = NoStatus /\ half' = FALSE /\ late' = FALSE /\ previous' = Off

goesOn(to) == pc' = to /\ UNCHANGED <<half, late, result>>

waitOperationalFails ==
  /\ GivesUp("waitOperational")
  /\ returns("Timeout")
  /\ UNCHANGED <<procConst, pending>>

(* activate(): judge the status of the exchange that came back.            *)
ActivateFaultLatched ==
  /\ Sees("waitOperational") /\ proc = "activate"
  /\ severity(record.fault) = "Major"
  /\ returns("FaultLatched")
  /\ UNCHANGED <<procConst, pending>>

ActivateAlreadyActive ==
  /\ Sees("waitOperational") /\ proc = "activate"
  /\ severity(record.fault) # "Major" /\ record.sta = "Complete"
  /\ returns("AlreadyActive")
  /\ UNCHANGED <<procConst, pending>>

ActivateInProgress ==
  /\ Sees("waitOperational") /\ proc = "activate"
  /\ severity(record.fault) # "Major" /\ record.sta = "InProgress"
  /\ goesOn("countComplete")
  /\ UNCHANGED <<procConst, pending, record, previous>>

(* Mutant of NeedsHandshake: anything short of Complete.                   *)
NeedsHandshakeUnlessComplete == proc = "activate" => record.sta # "Complete"

(* What is left: the handshake, when there is time for it.                 *)
NeedsHandshake ==
  proc = "activate" => severity(record.fault) # "Major" /\ record.sta = "Reset"

HandshakeNotAllowed ==
  /\ Sees("waitOperational") /\ NeedsHandshake
  /\ half
  /\ returns("Timeout")
  /\ UNCHANGED <<procConst, pending>>

HandshakeAllowed ==
  /\ Sees("waitOperational") /\ NeedsHandshake
  /\ ~half
  /\ goesOn("deactivate")
  /\ UNCHANGED <<procConst, pending, record, previous>>

-----------------------------------------------------------------------------
(* Mutant of activateCommand: rGTO is kept.                                *)
activateAndGo == [act |-> TRUE, gto |-> previous.gto]

(* runActivationHandshake(): clear rACT and wait for the gripper to show   *)
(* it, ...                                                                 *)
activateCommand == [act |-> TRUE, gto |-> FALSE]
deactivateCommand == Off

Deactivate ==
  /\ pc = "deactivate"
  /\ goesOn("countReset")
  /\ previous' = pending
  /\ pending' = deactivateCommand
  /\ UNCHANGED <<procConst, record>>

(* waitFor() starts from the count it finds after the block is set.        *)
StartWait(from, to) ==
  /\ pc = from
  /\ goesOn(to)
  /\ record' = NoStatus
  /\ UNCHANGED <<procConst, pending, previous>>

WaitReset == StartWait("countReset", "waitReset")

WaitOn(at) ==
  /\ Sees(at)
  /\ goesOn(at)
  /\ record' = NoStatus
  /\ UNCHANGED <<procConst, pending, previous>>

(* Mutant of ResetShown: any new record will do.                           *)
AnyRecord(s) == TRUE

ResetShown(s) == ~s.act

ResetNotYet == WaitOn("waitReset") /\ ~ResetShown(record)

ResetSeen ==
  /\ Sees("waitReset") /\ ResetShown(record)
  /\ goesOn("activate")
  /\ UNCHANGED <<procConst, pending, record, previous>>

(* ... put the application's block back if it never does, ...              *)
ResetTimesOut ==
  /\ GivesUp("waitReset")
  /\ pending' = previous
  /\ returns("Timeout")
  /\ UNCHANGED procConst

(* Mutant of Activate: rACT is not set again.                              *)
StayReset ==
  /\ pc = "activate"
  /\ goesOn("countComplete")
  /\ previous' = Off
  /\ UNCHANGED <<procConst, pending, record>>

(* ... set rACT, and wait for the end of the sweep.                        *)
Activate ==
  /\ pc = "activate"
  /\ goesOn("countComplete")
  /\ pending' = activateCommand
  /\ previous' = Off
  /\ UNCHANGED <<procConst, record>>

WaitComplete == StartWait("countComplete", "waitComplete")

CompleteNotYet == WaitOn("waitComplete") /\ record.sta # "Complete"

CompleteSeen ==
  /\ Sees("waitComplete") /\ record.sta = "Complete"
  /\ returns("Activated")
  /\ UNCHANGED <<procConst, pending>>

CompleteTimesOut ==
  /\ GivesUp("waitComplete")
  /\ returns("Timeout")
  /\ UNCHANGED <<procConst, pending>>

Procedure ==
  \/ waitOperationalFails
  \/ ActivateFaultLatched \/ ActivateAlreadyActive \/ ActivateInProgress
  \/ HandshakeNotAllowed \/ HandshakeAllowed
  \/ Deactivate \/ WaitReset \/ ResetNotYet \/ ResetSeen \/ ResetTimesOut
  \/ Activate \/ WaitComplete \/ CompleteNotYet \/ CompleteSeen \/ CompleteTimesOut

Next ==
  \/ SweepEnds \/ FaultClears \/ PowerCycle
  \/ \E f \in Faults : FaultAppears(f)
  \/ ExchangeCycle
  \/ \E c \in Blocks : setCommand(c)
  \/ \E p \in {"activate", "recoverFromFault"} : Begin(p)
  \/ HalfPasses \/ DeadlinePasses
  \/ Procedure

Safety == Init /\ [][Next]_vars

(* Threads run.  The link, the gripper and the clock owe nothing yet.      *)
Spec == Safety /\ WF_vars(ExchangeCycle) /\ WF_vars(Procedure)

(* The clock advances.  A turn of the wait loop is shorter than an         *)
(* exchange on the wire, so a wait past its deadline does find itself      *)
(* without a new record.                                                   *)
DeadlineComes ==
  /\ WF_vars(HalfPasses) /\ WF_vars(DeadlinePasses)
  /\ SF_vars(waitOperationalFails \/ ResetTimesOut \/ CompleteTimesOut)

(* The link answers again and again, and a sweep ends.                     *)
LinkAnswers == SF_vars(ExchangeSucceeds) /\ WF_vars(SweepEnds)

-----------------------------------------------------------------------------
GripperTypeOK ==
  /\ device \in Devices /\ reply \in Status \cup {NoStatus} /\ record \in Status \cup {NoStatus}
  /\ owed \in Seq(Status)
  /\ upsets \in 0 .. MaxUpsets

BlockTypeOK == copy \in Blocks /\ pending \in Blocks /\ previous \in Blocks

StageTypeOK ==
  /\ flight \in {"idle", "exchanging", "replied"}
  /\ proc \in {"none", "activate", "recoverFromFault"}
  /\ pc \in {"idle", "waitOperational", "deactivate", "countReset", "waitReset",
             "activate", "countComplete", "waitComplete"}
  /\ result \in {"none", "Activated", "AlreadyActive", "FaultLatched", "Timeout"}
  /\ progress \in {"none", "reset", "sweeping", "swept"}

FlagTypeOK ==
  /\ half \in BOOLEAN /\ late \in BOOLEAN
  /\ shook \in BOOLEAN /\ spared \in BOOLEAN /\ caughtUp \in BOOLEAN

ActivationTypeOK == GripperTypeOK /\ BlockTypeOK /\ StageTypeOK /\ FlagTypeOK

(* recoverFromFault() says Activated only after a reset and a whole sweep  *)
(* that both happened during the call: the exchange that was on the wire   *)
(* when the handshake began, and still shows the old activation, does not  *)
(* pass for the new one, nor does the one reply that was still owed.  A    *)
(* call that begins with a reply owed and an exchange under way may be     *)
(* deceived: the procedures judge by records that then come two exchanges  *)
(* late.                                                                   *)
RecoveredBySweep ==
  (result = "Activated" /\ caughtUp) => progress = "swept"

(* "A healthy, already-activated gripper is left undisturbed, an           *)
(* activation already in progress is waited on rather than restarted" and  *)
(* a latched major fault is not reset: from call to return, and on until   *)
(* the application commands, activate() resets no such gripper, unless a   *)
(* status that shows it otherwise was still to be published.               *)
ActivateSpares == spared => progress = "none"

(* "Finishing activation should not start a motion": a sweep that the      *)
(* handshake started ends with the fingers at rest, unless the call timed  *)
(* out.                                                                    *)
SweepEndsAtRest ==
  (shook /\ progress = "swept" /\ result # "Timeout") => ~device.gto

(* Either procedure returns, by its deadline if need be.                   *)
ProcedureReturns == DeadlineComes => ((pc # "idle") ~> (pc = "idle"))

(* Over a link that answers it returns without help from the deadline,     *)
(* unless it waits for a sweep that cannot end: one cut short by a fault   *)
(* or a power cut, or one under which the application had cleared rACT     *)
(* itself.                                                                 *)
SweepIsLost ==
  \/ device.act /\ device.sta = "Reset"
  \/ ~shook /\ ~pending.act

HandshakeCompletes ==
  LinkAnswers =>
    ((pc # "idle" /\ upsets = MaxUpsets) ~>
       (pc = "idle" \/ (pc = "waitComplete" /\ SweepIsLost)))
=============================================================================
