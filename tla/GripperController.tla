------------------------- MODULE GripperController --------------------------
(***************************************************************************)
(* GripperController of the web viewer (gripper_control.py): websocket     *)
(* handlers record requests, one worker thread talks to the gripper.       *)
(* Speed and force are treated alike, so one stands for both.              *)
(*                                                                         *)
(* External: pyrobotiqgripper, as the code and its comments use it, and    *)
(* the gripper behind it, which may fault or lose power by itself.         *)
(***************************************************************************)
EXTENDS Naturals

CONSTANTS
  Positions, Speeds,
  None  (* Python's None                                                   *)

ASSUME ControllerAssumption == None \notin Positions /\ None \notin Speeds

VARIABLES
  pendingMove, pendingActivate, command, status, error, activating,
  pc, taken,     (* the worker: where it is, and its copy                  *)
  device, seen,  (* the gripper, and the library's copy of its status      *)
  told,          (* history: the last command handed to gripper.move()     *)
  excused,       (* history: why the page's command was not: it could not  *)
  outdated,      (* history: command.position is older than an activation, *)
                 (* which has "returned", or "raised" after the reset      *)
  upset          (* history: the gripper changed by itself since status    *)

requests == <<pendingMove, pendingActivate>>
history  == <<told, excused, outdated>>
vars     == <<requests, command, status, error, activating, pc, taken, device, seen, history, upset>>

Command == [position : Positions \cup {None}, speed : Speeds]
Status  == [sta : {"none", "reset", "activating", "activated"}, blocked : BOOLEAN,
            position : Positions \cup {None}]
Unread  == [sta |-> "none", blocked |-> FALSE, position |-> None]

(* _ready(): activated, and no fault of GFLT_BLOCKING.                     *)
Ready(s) == s.sta = "activated" /\ ~s.blocked

ControllerInit ==
  /\ pendingMove = FALSE /\ pendingActivate = FALSE
  /\ command \in {c \in Command : c.position = None}
  /\ status = Unread /\ seen = Unread /\ error = FALSE /\ activating = FALSE
  /\ pc = "take" /\ taken = command
  /\ device \in [sta : {"reset", "activated"}, blocked : BOOLEAN]
  /\ told = command /\ excused = TRUE /\ outdated = "no" /\ upset = FALSE

-----------------------------------------------------------------------------
(* The websocket handlers.                                                 *)

(* What is not a number counts as not given.                               *)
request_move(position, speed) ==
  /\ command' = [position |-> IF position = None THEN command.position ELSE position,
                 speed    |-> IF speed = None THEN command.speed ELSE speed]
  /\ pendingMove' = (pendingMove \/ command'.position # None)
  /\ outdated' = IF position = None THEN outdated ELSE "no"
  /\ UNCHANGED <<pendingActivate, status, error, activating, pc, taken, device, seen, told, excused, upset>>

request_activate ==
  /\ pendingActivate' = TRUE
  /\ UNCHANGED <<pendingMove, command, status, error, activating, pc, taken, device, seen, history, upset>>

-----------------------------------------------------------------------------
(* The worker.                                                             *)

(* Mutant of NextCall: a move goes before an activation.                   *)
MoveFirst ==
  IF pendingMove /\ Ready(status) THEN "move" ELSE IF pendingActivate THEN "activate" ELSE "read"

(* Mutant of NextCall: a move does not ask whether the gripper is ready.   *)
MoveAnyway ==
  IF pendingActivate THEN "activate" ELSE IF pendingMove THEN "move" ELSE "read"

NextCall ==
  IF pendingActivate THEN "activate" ELSE IF pendingMove /\ Ready(status) THEN "move" ELSE "read"

Take ==
  /\ pc = "take" /\ pc' = NextCall
  /\ taken' = command
  /\ pendingMove' = FALSE /\ pendingActivate' = FALSE
  /\ excused' = (excused \/ (pendingMove /\ NextCall # "move"))
  /\ UNCHANGED <<command, status, error, activating, device, seen, told, outdated, upset>>

(* The library reads the gripper's status into its own arrays.             *)
Refresh ==
  \E p \in Positions :
    seen' = [sta |-> device'.sta, blocked |-> device'.blocked, position |-> p]

(* except Exception                                                        *)
Dropped == pc' = "take" /\ error' = TRUE /\ UNCHANGED <<status, command, upset>>

(* How a call on the gripper ends: it answered, it raised                  *)
(* GripperFaultError, having read the status, or it raised anything else.  *)
Answers == Refresh /\ pc' = "store" /\ UNCHANGED <<status, command, error, upset>>
Faults  == device'.blocked /\ Refresh /\ pc' = "storeFault" /\ UNCHANGED <<status, command, error, upset>>
Fails   == Dropped /\ seen' \in {seen, [sta |-> device'.sta, blocked |-> device'.blocked, position |-> seen.position]}

Ends == Answers \/ Faults \/ Fails

readStatus ==
  /\ pc = "read" /\ UNCHANGED device /\ Ends
  /\ UNCHANGED <<requests, activating, taken, history>>

(* start=True: the write sets rACT, which activates a gripper in reset.    *)
Started == [device EXCEPT !.sta = IF @ = "reset" THEN "activating" ELSE @]

(* Mutant of move: the request is ticked off when it has been sent.        *)
moveThenClear ==
  /\ pc = "move"
  /\ device' \in {device, Started} /\ Ends
  /\ told' = taken /\ excused' = FALSE /\ pendingMove' = FALSE
  /\ UNCHANGED <<pendingActivate, activating, taken, outdated>>

move ==
  /\ pc = "move"
  /\ device' \in {device, Started} /\ Ends
  /\ told' = taken /\ excused' = FALSE
  /\ UNCHANGED <<requests, activating, taken, outdated>>

(* gripper.activate(): "it resets the gripper first", then activates it    *)
(* and waits; it may raise at any of these points.                         *)
activateBegins ==
  /\ pc = "activate"
  /\ \/ /\ device' = [sta |-> "reset", blocked |-> FALSE]
        /\ activating' = TRUE /\ pc' = "resetting"
        /\ UNCHANGED <<status, command, error, upset, seen>>
     \/ activating' = FALSE /\ UNCHANGED device /\ (Faults \/ Fails)
  /\ UNCHANGED <<requests, taken, history>>

activateStarts ==
  /\ pc = "resetting"
  /\ \/ /\ device' = Started /\ pc' = "activating"
        /\ UNCHANGED <<status, command, error, outdated, upset, seen, activating>>
     \/ /\ activating' = FALSE /\ UNCHANGED device
        /\ Faults \/ Fails
        /\ outdated' = "raised"
  /\ UNCHANGED <<requests, taken, told, excused>>

activateEnds ==
  /\ pc = "activating" /\ activating' = FALSE
  /\ UNCHANGED device
  /\ \/ /\ device.sta = "activated" /\ Refresh
        /\ pc' = "follow" /\ outdated' = "returned"
        /\ UNCHANGED <<status, command, error, upset>>
     \/ /\ Faults \/ Fails
        /\ outdated' = "raised"
  /\ UNCHANGED <<requests, taken, told, excused>>

(* Mutant of follow: the sliders stay where they were.                     *)
stay ==
  /\ pc = "follow" /\ pc' = "store" /\ excused' = TRUE
  /\ UNCHANGED <<requests, command, status, error, activating, taken, device, seen, told, outdated, upset>>

follow ==
  /\ pc = "follow" /\ pc' = "store"
  /\ command' = [command EXCEPT !.position = None]
  /\ excused' = TRUE /\ outdated' = "no"
  /\ UNCHANGED <<requests, status, error, activating, taken, device, seen, told, upset>>

(* _store_status(), and what run() does to error right behind it.          *)
_store_status ==
  /\ pc \in {"store", "storeFault"} /\ pc' = "take"
  /\ status' = seen /\ error' = (pc = "storeFault")
  /\ IF command.position = None
     THEN command' = [command EXCEPT !.position = seen.position] ELSE UNCHANGED command
  /\ upset' = (seen.sta # device.sta \/ seen.blocked # device.blocked)
  /\ UNCHANGED <<requests, activating, taken, device, seen, history>>

Calls  == readStatus \/ move \/ activateBegins \/ activateStarts \/ activateEnds
Worker == Take \/ Calls \/ follow \/ _store_status

-----------------------------------------------------------------------------
(* The gripper by itself: its activation ends, it faults, it loses power,  *)
(* or somebody else activates it.                                          *)
DeviceMoves ==
  /\ \/ /\ device.sta = "activating" /\ device' = [device EXCEPT !.sta = "activated"]
        /\ UNCHANGED upset
     \/ device' \in [sta : {"reset", "activated"}, blocked : BOOLEAN] /\ upset' = TRUE
  /\ UNCHANGED <<requests, command, status, error, activating, pc, taken, seen, history>>

ControllerNext ==
  \/ \E p \in Positions \cup {None}, s \in Speeds \cup {None} : request_move(p, s)
  \/ request_activate \/ Worker \/ DeviceMoves

ControllerSafety == ControllerInit /\ [][ControllerNext]_vars

(* run() never blocks for good: its calls on the gripper end, one way or   *)
(* another.  The gripper owes nothing.                                     *)
ControllerSpec == ControllerSafety /\ WF_vars(Worker)

-----------------------------------------------------------------------------
ControllerTypeOK ==
  /\ pendingMove \in BOOLEAN /\ pendingActivate \in BOOLEAN
  /\ command \in Command /\ status \in Status /\ seen \in Status
  /\ pc \in {"take", "read", "move", "activate", "resetting", "activating", "follow", "store", "storeFault"}
  /\ taken \in Command
  /\ device \in [sta : {"reset", "activating", "activated"}, blocked : BOOLEAN]
  /\ told \in Command
  /\ error \in BOOLEAN /\ activating \in BOOLEAN
  /\ excused \in BOOLEAN /\ outdated \in {"no", "returned", "raised"} /\ upset \in BOOLEAN

(* "The worker sends the latest request" (gripper_control.py:112): with    *)
(* nothing pending, the gripper has been told what the sliders show, also  *)
(* what was asked for while the call before was under way, unless it could *)
(* not be told then, or an activation has moved the sliders.               *)
LatestIsSent == pc = "take" /\ ~pendingMove /\ ~excused => told = command

(* "Activation leaves the fingers wherever the routine ended; follow them" *)
(* (gripper_control.py:210): once an activation has returned no move goes  *)
(* where a page asked to before it ended, whatever pages change meanwhile. *)
(* One that raised leaves command.position, whatever it has done to the    *)
(* fingers by then: only after such a one does a move go where a page      *)
(* asked to before it.                                                     *)
MovesFollowActivation ==
  pc = "move" => taken.position # None /\ outdated # "returned"

(* Whoever presses Activate gets an activation, however busy the sliders   *)
(* are (gripper_control.py:170).                                           *)
ActivateIsObeyed == pendingActivate ~> pc = "activate"

(* A move, which would activate a gripper in reset, is sent only to one    *)
(* that is "activated, and not stopped on a fault" (gripper_control.py:101), *)
(* unless it has changed by itself since its status was stored, or a call  *)
(* has raised since: activate() may have reset it by then, while the       *)
(* status of before stays (gripper_control.py:194).                        *)
MovesOnlyReady == pc = "move" /\ ~upset /\ ~error => Ready(device)
=============================================================================
