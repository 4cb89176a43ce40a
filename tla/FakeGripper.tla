---------------------------- MODULE FakeGripper -----------------------------
(***************************************************************************)
(* makeFakeGripper(): the gripper that answers without hardware, down to   *)
(* its registers (src/fake/), and the typed blocks packed for them         *)
(* (command.hpp, status.hpp, byte_packing.hpp), under moveTo() of          *)
(* examples/gripper_events.cpp and the waits of wait.hpp it is made of.    *)
(* The transport is a function call on both sides, so a transaction is one *)
(* step.  The exchange thread copies the command, exchanges and publishes  *)
(* in three (GripperState has the rest of its cycle), and any number of    *)
(* cycles may pass before a waiter looks.                                  *)
(***************************************************************************)
EXTENDS Units, Sequences

CONSTANTS
  Commands,        (* what applications command                            *)
  Faults,          (* fault bytes tests stage                              *)
  Profiles,        (* device profiles, in units of length                  *)
  Openings,        (* openings, and parts of 1000, moves are asked for     *)
  Paces,           (* speeds and efforts asked for, as pairs               *)
  Frequencies,     (* exchange frequencies asked for                       *)
  CommandAddress, StatusAddress, BlockRegisters, Documented

ASSUME RegisterAssumption ==
  /\ CommandAddress \in Nat /\ StatusAddress \in Nat /\ BlockRegisters \in Nat
  /\ CommandAddress + BlockRegisters <= StatusAddress
  /\ Documented = 3 /\ Documented < BlockRegisters

Byte == 0 .. 255

CommandType ==
  [ activate : BOOLEAN, goTo : BOOLEAN, autoRelease : BOOLEAN, openDirection : BOOLEAN,
    position : Byte, speed : Byte, force : Byte ]

ProfileType ==
  [ minSpeed : Int, maxSpeed : Int, minOpening : Int, maxOpening : Int,
    openPosition : Byte, closedPosition : Byte ]

ASSUME InputAssumption ==
  /\ Commands \subseteq CommandType /\ Faults \subseteq Byte /\ Profiles \subseteq ProfileType
  /\ Openings \subseteq Int /\ Paces \subseteq Int \X Int /\ Frequencies \subseteq Int

VARIABLES
  registers,                        (* the register file                   *)
  previousActivate, activationDone, (* rACT edge tracking                  *)
  packed, returned,                 (* of the last transaction: the        *)
                                    (* command, and what came back         *)
  command, goal, waiting, report,   (* the application's                   *)
  ahead,                            (* history: an exchange newer than the *)
                                    (* move's count carried its very block *)
                                    (* before the move had set it          *)
  flight, copy, answer,             (* the exchange thread's               *)
  image, fresh,                     (* the newest exchange, and whether    *)
                                    (* the waiter has still to see it      *)
  profile, period                   (* its device, and the exchange cycle  *)

deviceVars == <<registers, previousActivate, activationDone>>
lineVars   == <<packed, returned>>
appVars    == <<command, goal, waiting, report, ahead>>
cycleVars  == <<flight, copy, answer, image>>
setUpVars  == <<profile, period>>
fakeVars   == <<deviceVars, lineVars, appVars, cycleVars, fresh, setUpVars>>

-----------------------------------------------------------------------------
(* Bytes of the blocks and bits of the bytes.                              *)

Bit(on, weight) == IF on THEN weight ELSE 0
Get(bits, weight) == (bits \div weight) % 2 = 1

CommandBytes(c) ==
  << Bit(c.activate, 1) + Bit(c.goTo, 8) + Bit(c.autoRelease, 16) + Bit(c.openDirection, 32),
     0, 0, c.position, c.speed, c.force >>

CommandFromBytes(b) ==
  [ activate |-> Get(b[1], 1), goTo |-> Get(b[1], 8),
    autoRelease |-> Get(b[1], 16), openDirection |-> Get(b[1], 32),
    position |-> b[4], speed |-> b[5], force |-> b[6] ]

StatusBytes(s) ==
  << Bit(s.activated, 1) + Bit(s.goToEnabled, 8) + 16 * s.activationState + 64 * s.objectDetection,
     0, s.fault, s.echo, s.position, s.current >>

StatusFromBytes(b) ==
  [ activated |-> Get(b[1], 1), goToEnabled |-> Get(b[1], 8),
    activationState |-> (b[1] \div 16) % 4, objectDetection |-> b[1] \div 64,
    fault |-> b[3], echo |-> b[4], position |-> b[5], current |-> b[6] ]

RegistersFromBytes(b) == [i \in 1 .. Len(b) \div 2 |-> 256 * b[2 * i - 1] + b[2 * i]]

BytesFromRegisters(r) ==
  [i \in 1 .. 2 * Len(r) |-> IF i % 2 = 1 THEN r[(i + 1) \div 2] \div 256 ELSE r[i \div 2] % 256]

-----------------------------------------------------------------------------
(* RegisterModel.                                                          *)

RegisterCount == StatusAddress + BlockRegisters

ContainsRange(address, quantity) == address + quantity \in 1 .. RegisterCount

Block(file, address) == [i \in 1 .. Documented |-> file[address + i - 1]]
CommandIn(file) == CommandFromBytes(BytesFromRegisters(Block(file, CommandAddress)))
StatusIn(file) == StatusFromBytes(BytesFromRegisters(Block(file, StatusAddress)))

(* A real gripper answers zeros for the command block, so does the fake.   *)
ReadOut(file, address, quantity) ==
  [i \in 1 .. quantity |->
     LET register == address + i - 1 IN
       IF register \in CommandAddress .. CommandAddress + BlockRegisters - 1 THEN 0 ELSE file[register]]

WithBlock(file, address, values) ==
  [register \in DOMAIN file |->
     IF register \in address .. address + Len(values) - 1 THEN values[register - address + 1]
                                                          ELSE file[register]]

(* Mutant of ProcessCommand: a fault outlives the reset.                   *)
FaultOutlivesReset(c, current, done) ==
  LET moves == c.activate /\ done /\ c.goTo IN
    [ activated |-> c.activate, goToEnabled |-> moves,
      activationState |-> IF c.activate /\ done THEN 3 ELSE 0,
      objectDetection |-> IF moves THEN 3 ELSE 0,
      fault |-> current.fault,
      echo |-> c.position, position |-> c.position, current |-> 42 ]

ProcessCommand(c, current, done) ==
  LET moves == c.activate /\ done /\ c.goTo IN
    [ activated |-> c.activate, goToEnabled |-> moves,
      activationState |-> IF c.activate /\ done THEN 3 ELSE 0,
      objectDetection |-> IF moves THEN 3 ELSE 0,
      fault |-> IF c.activate THEN current.fault ELSE 0,
      echo |-> c.position, position |-> c.position, current |-> 42 ]

(* write(): the registers, then the device acts on its whole command.      *)
WriteIn(address, values) ==
  LET file == WithBlock(registers, address, values)
      c == CommandIn(file)
      done == c.activate /\ (activationDone \/ ~previousActivate) IN
    /\ activationDone' = done /\ previousActivate' = c.activate
    /\ registers' = WithBlock(file, StatusAddress,
                      RegistersFromBytes(StatusBytes(ProcessCommand(c, StatusIn(file), done))))

-----------------------------------------------------------------------------
(* GripperServer: function codes 3, 16 and 23, the last one writing first. *)
(* An access past the register file is an exception reply, by which time   *)
(* function 23 may have written.                                           *)

Refused == returned' = <<"refused">>

ReadHolding(address, quantity) ==
  /\ IF ContainsRange(address, quantity)
     THEN returned' = <<"registers", ReadOut(registers, address, quantity)>>
     ELSE Refused
  /\ UNCHANGED deviceVars

WriteMultiple(address, values) ==
  IF ContainsRange(address, Len(values))
  THEN WriteIn(address, values) /\ returned' = <<"done">>
  ELSE Refused /\ UNCHANGED deviceVars

WriteThenRead(writeAddress, values, readAddress, quantity) ==
  IF ~ContainsRange(writeAddress, Len(values)) THEN Refused /\ UNCHANGED deviceVars
  ELSE /\ WriteIn(writeAddress, values)
       /\ IF ContainsRange(readAddress, quantity)
          THEN returned' = <<"registers", ReadOut(registers', readAddress, quantity)>>
          ELSE Refused

(* GripperModbusClient's three calls.                                      *)
AsStatus(r) == StatusFromBytes(BytesFromRegisters(r))
CommandRegisters(c) == RegistersFromBytes(CommandBytes(c))

ReadStatus == ReadHolding(StatusAddress, Documented)

WriteCommand(c) ==
  packed' = c /\ WriteMultiple(CommandAddress, CommandRegisters(c))

WriteCommandAndRead(c, address, quantity) ==
  packed' = c /\ WriteThenRead(CommandAddress, CommandRegisters(c), address, quantity)

ExchangeBlocks(c) == WriteCommandAndRead(c, StatusAddress, Documented)

-----------------------------------------------------------------------------
(* The application: commands change in place, each cycle carries the one   *)
(* it finds and publishes it with the answer.                              *)

DefaultCommand ==
  [ activate |-> TRUE, goTo |-> FALSE, autoRelease |-> FALSE, openDirection |-> FALSE,
    position |-> 0, speed |-> 255, force |-> 255 ]

Nowhere == [of |-> "none", at |-> 0]

FakeInit ==
  /\ registers = [register \in 0 .. RegisterCount - 1 |-> 0]
  /\ previousActivate = FALSE /\ activationDone = FALSE
  /\ packed = DefaultCommand /\ returned = <<"nothing">>
  /\ command = DefaultCommand /\ goal = Nowhere /\ waiting = "nothing" /\ report = None
  /\ ahead = FALSE
  /\ flight = "idle" /\ copy = command /\ answer = StatusIn(registers)
  /\ image = [command |-> command, status |-> StatusIn(registers)] /\ fresh = FALSE
  /\ profile \in Profiles
  /\ period = 0

(* A negative rate throws; no link is left to pace a free run.             *)
MakeFakeGripper(frequency) ==
  /\ period = 0 /\ frequency >= 0
  /\ period' = ExchangePeriod(IF ClampFrequency(frequency) = 0 THEN 1000000 ELSE frequency)
  /\ UNCHANGED <<deviceVars, lineVars, appVars, cycleVars, fresh, profile>>

(* The application is one thread: it commands when it is in no wait.       *)
Change(c, to) ==
  /\ period > 0 /\ waiting = "nothing"
  /\ command' = c /\ goal' = to
  /\ report' = None /\ ahead' = FALSE
  /\ UNCHANGED <<deviceVars, lineVars, waiting, cycleVars, fresh, setUpVars>>

SetCommand(c) == Change(c, Nowhere)

Pace(speed, effort) ==
  /\ SpeedToRegister(speed, profile) # None /\ EffortToRegister(effort) # None
  /\ Change([command EXCEPT !.speed = SpeedToRegister(speed, profile),
                            !.force = EffortToRegister(effort)], Nowhere)

MoveNormalized(value) ==
  Change([command EXCEPT !.position = NormalizedToRegister(value), !.goTo = TRUE],
         [of |-> "normalized", at |-> value])

(* moveTo(): setCommandAndWaitForExchange(), which counts before it        *)
(* commands, ...                                                           *)
MoveTo(opening) ==
  /\ period > 0 /\ waiting = "nothing"
  /\ OpeningToRegister(opening, profile) # None
  /\ goal' = [of |-> "opening", at |-> opening] /\ waiting' = "counted"
  /\ report' = None /\ ahead' = FALSE /\ fresh' = FALSE
  /\ UNCHANGED <<deviceVars, lineVars, command, cycleVars, setUpVars>>

CommandMove ==
  /\ waiting = "counted"
  /\ waiting' = "exchange"
  /\ command' = [command EXCEPT !.position = OpeningToRegister(goal.at, profile), !.goTo = TRUE]
  /\ ahead' = (fresh /\ image.command = command')
  /\ UNCHANGED <<deviceVars, lineVars, goal, report, cycleVars, fresh, setUpVars>>

(* waitForExchangeAfter(): the predicate runs on an exchange newer than    *)
(* the last one seen, and the next wait counts from where this one ends.   *)
WaitSees(for, holds, next) ==
  /\ waiting = for /\ fresh
  /\ fresh' = FALSE
  /\ waiting' = IF holds THEN next ELSE for
  /\ UNCHANGED <<deviceVars, lineVars, command, goal, ahead, cycleVars, setUpVars>>

(* Mutant of Carries: any new exchange will do.                            *)
AnyExchange == TRUE

Carries == image.command = command
CommandCarried == WaitSees("exchange", Carries, "motion") /\ UNCHANGED report

(* ... a moment for the motion to start, which is only advisory, ...       *)
Moving == image.status.objectDetection = 0
MotionSeen == WaitSees("motion", Moving, "end") /\ UNCHANGED report

(* ... and waitForMotionEnd(), whose exchange has the opening reported.    *)
MotionEnds ==
  /\ WaitSees("end", ~Moving, "nothing")
  /\ report' = IF Moving THEN None ELSE OpeningFromRegister(image.status.position, profile)

WaitTimesOut ==
  /\ waiting \in {"exchange", "motion", "end"}
  /\ waiting' = IF waiting = "motion" THEN "end" ELSE "nothing"
  /\ fresh' = FALSE
  /\ UNCHANGED <<deviceVars, lineVars, command, goal, report, ahead, cycleVars, setUpVars>>

(* The exchange thread.                                                    *)
CopyCommand ==
  /\ period > 0 /\ flight = "idle"
  /\ flight' = "exchanging" /\ copy' = command
  /\ UNCHANGED <<deviceVars, lineVars, appVars, answer, image, fresh, setUpVars>>

ExchangeCommand ==
  /\ flight = "exchanging"
  /\ flight' = "replied"
  /\ ExchangeBlocks(copy)
  /\ answer' = AsStatus(returned'[2])
  /\ UNCHANGED <<appVars, copy, image, fresh, setUpVars>>

Publish ==
  /\ flight = "replied"
  /\ flight' = "idle"
  /\ image' = [command |-> copy, status |-> answer]
  /\ fresh' = (waiting # "nothing")
  /\ UNCHANGED <<deviceVars, lineVars, appVars, copy, answer, setUpVars>>

(* Another client of the same server, in and out of the register map.      *)
OtherClient ==
  /\ period > 0
  /\ \/ /\ \/ ReadStatus
           \/ ReadHolding(CommandAddress, BlockRegisters)
           \/ ReadHolding(StatusAddress, BlockRegisters + 1)
           \/ WriteMultiple(RegisterCount - 1, <<0, 0>>)
        /\ UNCHANGED packed
     \/ \E c \in Commands :
          WriteCommand(c) \/ WriteCommandAndRead(c, RegisterCount, 1)
  /\ UNCHANGED <<appVars, cycleVars, fresh, setUpVars>>

(* Tests stage a device state with setStatus().                            *)
StageFault(fault) ==
  /\ period > 0
  /\ registers' = WithBlock(registers, StatusAddress,
       RegistersFromBytes(StatusBytes([StatusIn(registers) EXCEPT !.fault = fault])))
  /\ UNCHANGED <<previousActivate, activationDone, lineVars, appVars, cycleVars, fresh, setUpVars>>

FakeNext ==
  \/ \E frequency \in Frequencies : MakeFakeGripper(frequency)
  \/ \E c \in Commands : SetCommand(c)
  \/ \E pace \in Paces : Pace(pace[1], pace[2])
  \/ \E opening \in Openings : MoveTo(opening) \/ MoveNormalized(opening)
  \/ CommandMove \/ CommandCarried \/ MotionSeen \/ MotionEnds \/ WaitTimesOut
  \/ CopyCommand \/ ExchangeCommand \/ Publish
  \/ OtherClient
  \/ \E fault \in Faults : StageFault(fault)

FakeSpec == FakeInit /\ [][FakeNext]_fakeVars

-----------------------------------------------------------------------------

(* A status block as the Modbus client hands it on.                        *)
Unpacked ==
  IF returned[1] = "registers" /\ Len(returned[2]) = Documented
  THEN <<"status", AsStatus(returned[2])>> ELSE returned

(* Packed to bytes, to registers and back, with its edges tracked and its  *)
(* refused accesses, the fake is the device of its header: the status a    *)
(* caller unpacks is the one of the command it packed, and a staged fault  *)
(* lasts exactly until rACT is cleared (fake/register_model.cpp:58, :96).  *)
Device == INSTANCE FakeDevice WITH status <- StatusIn(registers), returned <- Unpacked
ActsAsDevice == Device!Spec

Distance(a, b) == IF a < b THEN b - a ELSE a - b

(* The opening moveTo() reports when the motion has ended is at most half  *)
(* a register step from the one asked for, or from the nearest end for one *)
(* out of reach: no exchange of an earlier command, none that is on the    *)
(* wire when the move is commanded, and no other client, is taken for the  *)
(* end of this move.  Blocks are told apart by value, so a move back to    *)
(* what was commanded before the last command may take that one's exchange *)
(* for its own, if it is published between the count and setCommand().     *)
(* The same for normalised positions, once an exchange has carried them    *)
(* (units.cpp:60 and :71, wait.cpp:18, gripper_events.cpp:106).            *)
MoveEndsWhereAsked ==
  /\ report # None /\ ~ahead =>
       2 * Distance(report, RegisterRange(profile) * Clamp(goal.at, profile.minOpening, profile.maxOpening))
         <= OpeningRange(profile)
  /\ goal.of = "normalized" /\ image.command = command =>
       2 * Distance(NormalizedFromRegister(image.status.position), 255 * Clamp(goal.at, 0, 1000)) <= 1000
=============================================================================
