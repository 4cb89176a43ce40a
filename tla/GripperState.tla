---------------------------- MODULE GripperState ----------------------------
(***************************************************************************)
(* A connected gripper (src/gripper_state.cpp, src/gripper.cpp,            *)
(* src/wait.cpp): the constructor that reads the gripper and seeds the     *)
(* process image, the exchange thread that writes the pending command and  *)
(* publishes the status read back, the connection state, the destructor    *)
(* that stops the thread, one commander and any number of observers.       *)
(*                                                                         *)
(* Every access to an atomic member and every section under the image's    *)
(* mutex is a step of its own.  One Modbus exchange is a step: it          *)
(* takes a reply, its own or one still owed to an exchange before it, or   *)
(* it fails; either way the gripper may have got the block (Link;          *)
(* ModbusLink looks inside it).                                            *)
(***************************************************************************)
EXTENDS ProcessImage, Link

CONSTANTS
  Commander,        (* the one thread that commands                        *)
  FaultThreshold,   (* kFaultThreshold                                     *)
  ReadAttempts,     (* kInitialReadAttempts                                *)
  CounterRange,     (* the failure counter wraps here: 2^32 in the code    *)
  MaxSpeed,         (* GripperCommand::defaults() speed and force          *)
  Found             (* what grippers act on that are connected to          *)

(* A command block and the status block that echoes it.  Speed stands for  *)
(* the two command fields that have no echo.                               *)
CommandBlock == [act : BOOLEAN, gto : BOOLEAN, pos : Nat, speed : Nat]

(* The gripper's answer to a command: rACT, rGTO and rPR are echoed, rGTO  *)
(* only by an activated gripper.                                           *)
Echo(c) == [act |-> c.act, gto |-> c.act /\ c.gto, pos |-> c.pos]

(* Mutant of SeedCommand: an empty block, with no echo put back.           *)
SeedEmpty(s) == [act |-> FALSE, gto |-> FALSE, pos |-> 0, speed |-> MaxSpeed]

(* initializeImage(): defaults, with the echoes put back.                  *)
SeedCommand(s) == [act |-> s.act, gto |-> s.gto, pos |-> s.pos, speed |-> MaxSpeed]

ASSUME GripperAssumption ==
  /\ Commander \in Waiters
  /\ FaultThreshold \in Nat \ {0}
  /\ ReadAttempts \in Nat \ {0}
  /\ CounterRange \in Nat /\ CounterRange > FaultThreshold
  /\ MaxSpeed \in Nat
  /\ Commands \subseteq CommandBlock /\ Found \subseteq CommandBlock
  /\ NoCommand \notin CommandBlock
  /\ Statuses = {Echo(c) : c \in Commands}
  /\ \A f \in Found : SeedCommand(Echo(f)) \in Commands

VARIABLES
  owner,        (* the thread that constructs and destroys the gripper     *)
  attempts,     (* initial reads made                                      *)
  running,      (* _running                                                *)
  connection,   (* _connectionState                                        *)
  failures,     (* _consecutiveFailures                                    *)
  thread,       (* where the exchange thread is                            *)
  copy,         (* exchangeOnce()'s commandCopy                            *)
  reply,        (* exchangeOnce()'s freshStatus                            *)
  device,       (* the block the gripper acts on, and echoes when asked    *)
  call,         (* where the commander is in setCommandAndWaitForExchange  *)
  before,       (* its locals                                              *)
  target,
  result,
  stale,        (* history: exchanges failed since the last record         *)
  found,        (* history: the gripper as connected to, until commanded   *)
  alone,        (* history: this exchange found no reply still owed        *)
  whole,        (* history: the counts of records of such exchanges        *)
  lagging,      (* history: an exchange failed since the last of them      *)
  settled,      (* history: no superseded block was left when `call' began *)
  copied        (* history: records past it were copied after CommandSet   *)

exchangeVars == <<thread, copy, reply, failures, connection>>
ownerVars    == <<owner, attempts, running>>
callVars     == <<call, before, target, result, settled, copied>>
wholeVars    == <<alone, whole, lagging>>
gripperVars  == <<vars, exchangeVars, ownerVars, callVars, stale, found, wholeVars, device, owed>>

GripperInit ==
  /\ ImageInit
  /\ owner = "connecting" /\ attempts = 0 /\ running = FALSE
  /\ connection = "Connecting" /\ failures = 0
  /\ thread = "none" /\ copy = NoCommand /\ reply = NoStatus
  /\ device \in Found /\ owed = <<>>
  /\ call = "idle" /\ before = 0 /\ target = NoCommand /\ result = "none"
  /\ stale = 0 /\ found = device /\ settled = FALSE /\ copied = 0
  /\ alone = FALSE /\ whole = {} /\ lagging = FALSE

-----------------------------------------------------------------------------
(* The owner: Gripper's constructor ...                                    *)
InitialReadSucceeds ==
  /\ owner = "connecting"
  /\ Seed(SeedCommand(Echo(device)), Echo(device))
  /\ connection' = "Operational"
  /\ owner' = "starting"
  /\ attempts' = 0
  /\ UNCHANGED <<running, thread, copy, reply, failures, callVars, stale, found, wholeVars, device, owed>>

(* ... which gives up, and destroys what it has built, when no attempt is  *)
(* answered ...                                                            *)
InitialReadFails ==
  /\ owner = "connecting"
  /\ attempts' = attempts + 1
  /\ owner' = IF attempts' >= ReadAttempts THEN "halting" ELSE "connecting"
  /\ UNCHANGED <<vars, running, exchangeVars, callVars, stale, found, wholeVars, device, owed>>

(* ... and start(): _running is set before the thread is there to test it, *)
(* and the spawn itself may throw.                                         *)
Start ==
  /\ owner = "starting"
  /\ running' = TRUE
  /\ owner' = "spawning"
  /\ UNCHANGED <<vars, attempts, exchangeVars, callVars, stale, found, wholeVars, device, owed>>

Spawn ==
  /\ owner = "spawning"
  /\ \/ owner' = "alive" /\ thread' = "testing"
     \/ owner' = "halting" /\ UNCHANGED thread
  /\ UNCHANGED <<vars, attempts, running, copy, reply, failures, connection,
                 callVars, stale, found, wholeVars, device, owed>>

(* What the commander's last call returned is used and gone.               *)
Forget ==
  result' = "none" /\ target' = NoCommand /\ settled' = FALSE /\ copied' = 0

(* The destructor: stop() clears _running, closes the image, notifies, and *)
(* joins the thread if there is one.  The application destroys a gripper   *)
(* between two commands; observers may be waiting inside it.               *)
Destroy ==
  /\ owner = "alive" /\ call = "idle"
  /\ owner' = "halting"
  /\ Forget
  /\ UNCHANGED <<vars, attempts, running, exchangeVars, call, before, stale, found, wholeVars, device, owed>>

(* Mutant of StopRunning: _running is left set.                            *)
StopLeavesRunning ==
  /\ owner = "halting"
  /\ owner' = "closing"
  /\ UNCHANGED <<vars, attempts, running, exchangeVars, callVars, stale, found, wholeVars, device, owed>>

StopRunning ==
  /\ owner = "halting"
  /\ running' = FALSE
  /\ owner' = "closing"
  /\ UNCHANGED <<vars, attempts, exchangeVars, callVars, stale, found, wholeVars, device, owed>>

StopClose ==
  /\ owner = "closing"
  /\ Close
  /\ owner' = "notifying"
  /\ UNCHANGED <<attempts, running, exchangeVars, callVars, stale, found, wholeVars, device, owed>>

StopNotify ==
  /\ owner = "notifying"
  /\ NotifyAll("stop")
  /\ owner' = "joining"
  /\ UNCHANGED <<attempts, running, exchangeVars, callVars, stale, found, wholeVars, device, owed>>

(* Mutant of StopJoin: the thread is detached, not joined.                 *)
StopDetaches ==
  /\ owner = "joining"
  /\ owner' = "gone"
  /\ UNCHANGED <<vars, attempts, running, exchangeVars, callVars, stale, found, wholeVars, device, owed>>

StopJoin ==
  /\ owner = "joining"
  /\ thread \in {"none", "returned"}
  /\ owner' = "gone"
  /\ UNCHANGED <<vars, attempts, running, exchangeVars, callVars, stale, found, wholeVars, device, owed>>

OwnerStops == StopRunning \/ StopClose \/ StopNotify \/ StopJoin

-----------------------------------------------------------------------------
(* The exchange thread.                                                    *)
Goto(from, to) == thread = from /\ thread' = to

TestRunning ==
  /\ Goto("testing", IF running THEN "copying" ELSE "returned")
  /\ UNCHANGED <<vars, copy, reply, failures, connection, ownerVars, callVars,
                 stale, found, wholeVars, device, owed>>

CopyCommand ==
  /\ Goto("copying", "exchanging")
  /\ copy' = command
  /\ UNCHANGED <<vars, reply, failures, connection, ownerVars, callVars, stale, found, wholeVars, device, owed>>

(* The block reaches the gripper, which answers it, or is lost.            *)
Answers(answer) ==
  \/ answer = <<Echo(copy)>> /\ device' = copy
  \/ answer = <<>> /\ UNCHANGED device

(* The first reply to come is taken.  The bound on published exchanges is  *)
(* here, so that the thread is never held up later in the cycle.           *)
ExchangeSucceeds ==
  /\ Goto("exchanging", "clearing")
  /\ stamped.count < MaxExchanges
  /\ \E k \in 0 .. Len(owed), answer \in {<<>>, <<Echo(copy)>>} :
       Answers(answer) /\ Take(reply', k, answer) /\ alone' = Alone(k)
  /\ UNCHANGED <<vars, copy, failures, connection, ownerVars, callVars, stale, found, whole, lagging>>

ExchangeFails ==
  /\ Goto("exchanging", "counting")
  /\ \E k \in 0 .. Len(owed), answer \in {<<>>, <<Echo(copy)>>} :
       Answers(answer) /\ GiveUp(k, answer)
  /\ stale' = IF stale < FaultThreshold THEN stale + 1 ELSE stale
  /\ lagging' = TRUE
  /\ UNCHANGED <<vars, copy, reply, failures, connection, ownerVars, callVars, found, alone, whole>>

(* fetch_add(1) + 1, in 32 bits, decides whether the state turns.          *)
CountFailure ==
  /\ failures' = (failures + 1) % CounterRange
  /\ Goto("counting", IF failures' >= FaultThreshold THEN "faulting" ELSE "sleeping")
  /\ UNCHANGED <<vars, copy, reply, connection, ownerVars, callVars, stale, found, wholeVars, device, owed>>

TurnFaulted ==
  /\ Goto("faulting", "sleeping")
  /\ connection' = "Faulted"
  /\ UNCHANGED <<vars, copy, reply, failures, ownerVars, callVars, stale, found, wholeVars, device, owed>>

ClearFailures ==
  /\ Goto("clearing", "turning")
  /\ failures' = 0
  /\ UNCHANGED <<vars, copy, reply, connection, ownerVars, callVars, stale, found, wholeVars, device, owed>>

(* Mutant of TurnOperational: the state is not turned back.                *)
StaysFaulted ==
  /\ Goto("turning", "publishing")
  /\ UNCHANGED <<vars, copy, reply, failures, connection, ownerVars, callVars, stale, found, wholeVars, device, owed>>

TurnOperational ==
  /\ Goto("turning", "publishing")
  /\ connection' = "Operational"
  /\ UNCHANGED <<vars, copy, reply, failures, ownerVars, callVars, stale, found, wholeVars, device, owed>>

(* What the histories make of a record.                                    *)
Stamps ==
  /\ stale' = 0
  /\ whole' = IF alone THEN whole \cup {stamped'.count} ELSE whole
  /\ lagging' = (lagging /\ ~alone) /\ alone' = FALSE

(* Mutant of PublishExchange: the pending command, read again, goes into   *)
(* the record.                                                             *)
PublishPending ==
  /\ Goto("publishing", "announcing")
  /\ Publish(command, reply)
  /\ Stamps
  /\ UNCHANGED <<copy, reply, failures, connection, ownerVars, callVars, found, device, owed>>

PublishExchange ==
  /\ Goto("publishing", "announcing")
  /\ Publish(copy, reply)
  /\ Stamps
  /\ UNCHANGED <<copy, reply, failures, connection, ownerVars, callVars, found, device, owed>>

AnnounceExchange ==
  /\ Goto("announcing", "sleeping")
  /\ NotifyAll("exchange")
  /\ UNCHANGED <<copy, reply, failures, connection, ownerVars, callVars, stale, found, wholeVars, device, owed>>

(* exchangeOnce()'s locals are gone by the next cycle.                     *)
NextCycle ==
  /\ Goto("sleeping", "testing")
  /\ copy' = NoCommand /\ reply' = NoStatus
  /\ UNCHANGED <<vars, failures, connection, ownerVars, callVars,
                 stale, found, wholeVars, device, owed>>

ExchangeThread ==
  \/ TestRunning \/ CopyCommand \/ ExchangeSucceeds \/ ExchangeFails
  \/ CountFailure \/ TurnFaulted
  \/ ClearFailures \/ TurnOperational \/ PublishExchange \/ AnnounceExchange
  \/ NextCycle

-----------------------------------------------------------------------------
(* The thread is between the copy of a block and its record.               *)
Carrying == thread \in {"exchanging", "clearing", "turning", "publishing"}

(* No block but c is in an exchange that has still to reach the gripper or *)
(* the image.                                                              *)
OnTheWireOnly(c) == Carrying => copy = c

(* The commander, in no call: a plain setCommand(), or                     *)
(* setCommandAndWaitForExchange().                                         *)
CommanderFree == owner = "alive" /\ call = "idle" /\ at[Commander] = "out"

PlainSetCommand(c) ==
  /\ CommanderFree
  /\ SetCommand(c)
  /\ Forget
  /\ found' = NoCommand
  /\ UNCHANGED <<exchangeVars, ownerVars, call, before, stale, wholeVars, device, owed>>

CommandCount(c) ==
  /\ CommanderFree
  /\ call' = "setting"
  /\ before' = stamped.count
  /\ target' = c
  /\ result' = "none"
  /\ settled' = OnTheWireOnly(command) /\ copied' = 0
  /\ UNCHANGED <<vars, exchangeVars, ownerVars, stale, found, wholeVars, device, owed>>

CommandSet ==
  /\ call = "setting"
  /\ SetCommand(target)
  /\ call' = "calling"
  /\ copied' = IF Carrying THEN stamped.count + 1 ELSE stamped.count
  /\ found' = NoCommand
  /\ UNCHANGED <<exchangeVars, ownerVars, before, target, result, settled, stale, wholeVars,
                 device, owed>>

CommandWait ==
  /\ call = "calling"
  /\ SyncCall(Commander, before, FALSE)
  /\ call' = "waiting"
  /\ UNCHANGED <<exchangeVars, ownerVars, before, target, result, settled, copied, stale, found,
                 wholeVars, device, owed>>

(* Mutant of Carried: any fresh record will do.                            *)
AnyFresh(rec) == rec.count > since[Commander]

Carried(rec) == rec.count > since[Commander] /\ rec.command = target

(* waitForExchangeAfter(): empty-handed, the record that carried the       *)
(* block, or another round with what is left of the deadline.              *)
CommandEnds ==
  /\ call = "waiting" /\ at[Commander] = "out"
  /\ \/ Carried(got[Commander]) /\ result' = "carried" /\ UNCHANGED <<target, settled, copied>>
     \/ got[Commander].count <= since[Commander] /\ Forget
  /\ call' = "idle" /\ before' = 0
  /\ UNCHANGED <<vars, exchangeVars, ownerVars, stale, found, wholeVars, device, owed>>

CommandWaitsOn ==
  /\ call = "waiting" /\ at[Commander] = "out"
  /\ got[Commander].count > since[Commander] /\ got[Commander].command # target
  /\ SyncCall(Commander, got[Commander].count, expired[Commander])
  /\ UNCHANGED <<exchangeVars, ownerVars, callVars, stale, found, wholeVars, device, owed>>

CommanderContinues == CommandSet \/ CommandWait \/ CommandEnds \/ CommandWaitsOn

(* Observers, and the commander between two commands: waitForExchange()    *)
(* asks for the next count, waitForExchangeCount() for one far ahead       *)
(* (ProcessImage has the others).                                          *)
Observe(w) ==
  /\ owner = "alive"
  /\ w = Commander => call = "idle"
  /\ \E c \in {stamped.count, MaxExchanges} : SyncCall(w, c, FALSE)
  /\ IF w = Commander THEN Forget ELSE UNCHANGED <<target, result, settled, copied>>
  /\ UNCHANGED <<exchangeVars, ownerVars, call, before, stale, found, wholeVars, device, owed>>

(* The body of sync(), in whichever thread called it.                      *)
InSync(w) ==
  /\ SyncWait(w) \/ SyncReturn(w) \/ WaitUntilExpires(w)
  /\ UNCHANGED <<exchangeVars, ownerVars, callVars, stale, found, wholeVars, device, owed>>

EarlyWakeUp(w) ==
  /\ WaitReturnsEarly(w)
  /\ UNCHANGED <<exchangeVars, ownerVars, callVars, stale, found, wholeVars, device, owed>>

GripperDeadline(w) ==
  /\ DeadlinePasses(w)
  /\ UNCHANGED <<exchangeVars, ownerVars, callVars, stale, found, wholeVars, device, owed>>

OwnerNext ==
  \/ InitialReadSucceeds \/ InitialReadFails \/ Start \/ Spawn \/ Destroy
  \/ OwnerStops

CommanderNext ==
  \/ \E c \in Commands : PlainSetCommand(c) \/ CommandCount(c)
  \/ CommanderContinues

GripperNext ==
  \/ OwnerNext
  \/ ExchangeThread
  \/ CommanderNext
  \/ \E w \in Waiters : Observe(w) \/ InSync(w) \/ EarlyWakeUp(w) \/ GripperDeadline(w)

GripperSafety == GripperInit /\ [][GripperNext]_gripperVars

(* The platform runs every thread, and an exchange ends one way or the     *)
(* other (the transport has a time-out).  That an exchange succeeds, that  *)
(* the owner ever destroys the gripper or that a deadline comes, which may *)
(* be hours away, is not assumed.                                          *)
GripperSpec ==
  /\ GripperSafety
  /\ WF_gripperVars(ExchangeThread)
  /\ WF_gripperVars(OwnerStops)
  /\ WF_gripperVars(CommanderContinues)
  /\ \A w \in Waiters : WF_gripperVars(InSync(w))

-----------------------------------------------------------------------------
OwnerTypeOK ==
  /\ owner \in {"connecting", "starting", "spawning", "alive", "halting",
                "closing", "notifying", "joining", "gone"}
  /\ attempts \in 0 .. ReadAttempts
  /\ running \in BOOLEAN

ExchangeTypeOK ==
  /\ connection \in {"Connecting", "Operational", "Faulted"}
  /\ failures \in 0 .. CounterRange - 1
  /\ thread \in {"none", "testing", "copying", "exchanging", "counting", "faulting",
                 "clearing", "turning", "publishing", "announcing", "sleeping",
                 "returned"}
  /\ copy \in Commands \cup {NoCommand}
  /\ reply \in Statuses \cup {NoStatus}
  /\ device \in Commands \cup Found /\ owed \in Seq(Statuses)

CallTypeOK ==
  /\ call \in {"idle", "setting", "calling", "waiting"}
  /\ before \in 0 .. MaxExchanges
  /\ target \in Commands \cup {NoCommand}
  /\ result \in {"none", "carried"}
  /\ settled \in BOOLEAN /\ copied \in 0 .. MaxExchanges + 1

HistoryTypeOK ==
  /\ stale \in 0 .. FaultThreshold
  /\ found \in Found \cup {NoCommand}
  /\ alone \in BOOLEAN /\ whole \subseteq 1 .. MaxExchanges /\ lagging \in BOOLEAN

GripperTypeOK == ImageTypeOK /\ OwnerTypeOK /\ ExchangeTypeOK /\ CallTypeOK /\ HistoryTypeOK

(* connectionState() tells the truth about the image: it reads Faulted     *)
(* only while the last record is at least FaultThreshold failed exchanges  *)
(* old ("a waiter the record wakes reads Operational"), and between two    *)
(* cycles an image that old never passes for a live one, even after the    *)
(* failure counter has wrapped.                                            *)
FaultedIffStale ==
  /\ connection = "Faulted" => stale = FaultThreshold
  /\ (thread = "testing" /\ stale = FaultThreshold) => connection = "Faulted"

(* "Two fields never come from different exchange cycles" (gripper.hpp:46): *)
(* the status of a record is the gripper's answer to the command of the    *)
(* same record, whatever was commanded meanwhile, if the exchange found no *)
(* reply still owed; and it can find one only after an exchange that       *)
(* failed, until a record that was whole again.  Otherwise a record may    *)
(* join a block to the answer to an earlier one.                           *)
Whole(n) == n = 0 \/ n \in whole

RecordIsOneExchange ==
  Seeded =>
    /\ Whole(stamped.count) => stamped.status = Echo(stamped.command)
    /\ ~lagging => Whole(stamped.count)

(* setCommandAndWaitForExchange(): a whole record of an exchange that      *)
(* copied its block after the call had set it shows that the gripper has   *)
(* the block for good, and no superseded one is still on its way; so does  *)
(* a record of an equal block that was under way already (wait.cpp:29), if *)
(* no other one was when the call began.                                   *)
CommandHolds == device = target /\ OnTheWireOnly(target)

CarriedCommandHolds ==
  (call = "idle" /\ result = "carried") =>
    LET n == got[Commander].count IN
      /\ command = target /\ got[Commander].command = target
      /\ n \in whole /\ (settled \/ n > copied) => CommandHolds

(* "Connecting never disturbs a gripper that is already running"           *)
(* (gripper.hpp:37), as far as that is so: until the application commands, *)
(* the exchanges neither reset it, nor start or stop it, nor give it       *)
(* another place to go.  Speed and force, which it does not echo, go to    *)
(* full scale.                                                             *)
ConnectingMovesNothing ==
  found # NoCommand =>
    Echo(device) = Echo(found) /\ device.speed \in {found.speed, MaxSpeed}

(* Once the destructor has joined, nothing of the exchange thread is left  *)
(* to touch the image, the state or the wire.                              *)
DestroyedIsQuiet ==
  [][owner = "gone" => UNCHANGED <<imageVars, notifying, exchangeVars, device, owed>>]_gripperVars

(* stop() ends, whatever the exchange thread was doing.                    *)
DestructionCompletes == (owner = "halting") ~> (owner = "gone")
=============================================================================
