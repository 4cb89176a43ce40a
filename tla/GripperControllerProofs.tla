---------------------- MODULE GripperControllerProofs -----------------------
(***************************************************************************)
(* The worker of the viewer's gripper, for any positions and speeds.       *)
(***************************************************************************)
EXTENDS GripperController, TLAPS

(* The library has read the gripper before its status is stored.           *)
SeenIsRead == pc \in {"follow", "store", "storeFault"} => seen.position # None

(* Only an activation takes the position away, and only until it is stored *)
(* again.                                                                  *)
Placed ==
  command.position = None =>
    excused /\ pc # "move" /\ (pendingMove => pc = "store")

(* What the worker has told the gripper, or is about to.                   *)
Sent ==
  /\ pc # "move" /\ ~pendingMove /\ ~excused => told = command
  /\ pc = "move" => taken.position # None
  /\ pc = "move" /\ ~pendingMove => taken = command

(* The status says ready only of a ready gripper, or something has         *)
(* happened since it was stored that upset or error tells of.              *)
ReadyIsReal ==
  /\ pc = "move" => Ready(status)
  /\ pc \in {"take", "read", "move", "activate"} /\ ~upset /\ ~error /\ Ready(status) => Ready(device)

ControllerInv ==
  /\ ReadyIsReal
  /\ ControllerTypeOK /\ SeenIsRead /\ Placed /\ Sent /\ (outdated = "returned" => pc = "follow")

LEMMA ControllerInitInv == ControllerInit => ControllerInv
<1> SUFFICES ASSUME ControllerInit PROVE ControllerInv
  OBVIOUS
<1>1. Unread \in Status
  BY DEF Unread, Status
<1>2. command \in Command /\ command.position = None /\ taken = command /\ told = command
  BY DEF ControllerInit
<1>3. device \in [sta : {"reset", "activating", "activated"}, blocked : BOOLEAN]
  BY DEF ControllerInit
<1>4. status = Unread /\ seen = Unread /\ pc = "take" /\ ~pendingMove /\ excused /\ outdated = "no"
  BY DEF ControllerInit
<1>5. /\ pendingMove \in BOOLEAN /\ pendingActivate \in BOOLEAN /\ error \in BOOLEAN
      /\ activating \in BOOLEAN /\ excused \in BOOLEAN /\ upset \in BOOLEAN
  BY DEF ControllerInit
<1> QED
  BY <1>1, <1>2, <1>3, <1>4, <1>5
  DEF ControllerInv, ControllerTypeOK, SeenIsRead, Placed, Sent, ReadyIsReal, Ready, Unread

(* A request moves no worker.                                              *)
LEMMA RequestInv ==
  ASSUME ControllerInv,
         \/ \E p \in Positions \cup {None}, s \in Speeds \cup {None} : request_move(p, s)
         \/ request_activate
  PROVE  ControllerInv'
<1> USE ControllerAssumption
    DEF ControllerInv, ControllerTypeOK, SeenIsRead, Placed, Sent, ReadyIsReal, Ready, Command, Status, history, requests
<1>1. ASSUME NEW p \in Positions \cup {None}, NEW s \in Speeds \cup {None}, request_move(p, s)
      PROVE  ControllerInv'
  <2>1. /\ command' \in Command /\ pendingMove' \in BOOLEAN /\ outdated' \in {"no", "returned", "raised"}
        /\ command'.position = None => command.position = None /\ pendingMove' = pendingMove
        /\ command'.position # None => pendingMove'
        /\ outdated' = "returned" => outdated = "returned"
    BY <1>1 DEF request_move
  <2>2. UNCHANGED <<pendingActivate, status, error, activating, pc, taken, device, seen, told, excused, upset>>
    BY <1>1 DEF request_move
  <2> QED
    BY <2>1, <2>2
<1>2. CASE request_activate
  BY <1>2 DEF request_activate
<1> QED
  BY <1>1, <1>2

LEMMA TakeInv == ASSUME ControllerInv, Take PROVE ControllerInv'
<1> USE ControllerAssumption
    DEF ControllerInv, ControllerTypeOK, SeenIsRead, Placed, Sent, ReadyIsReal, Command, Status
<1>1. /\ NextCall \in {"activate", "move", "read"}
      /\ NextCall = "move" => pendingMove /\ Ready(status)
  BY DEF NextCall
<1>2. pc = "take" /\ pc' = NextCall /\ taken' = command /\ ~pendingMove' /\ ~pendingActivate'
  BY DEF Take
<1>3. excused' \in BOOLEAN /\ (excused => excused') /\ (pendingMove /\ NextCall # "move" => excused')
  BY DEF Take
<1>4. UNCHANGED <<command, status, error, activating, device, seen, told, outdated, upset>>
  BY DEF Take
<1>5. pendingMove' \in BOOLEAN /\ pendingActivate' \in BOOLEAN
  BY DEF Take
<1>6. ReadyIsReal'
  BY <1>1, <1>2, <1>4 DEF Ready
<1> QED
  BY <1>1, <1>2, <1>3, <1>4, <1>5, <1>6

(* However a call ends, it leaves the sliders alone.                       *)
LEMMA EndsWell ==
  ASSUME ControllerInv, Ends, device' \in [sta : {"reset", "activating", "activated"}, blocked : BOOLEAN]
  PROVE  /\ seen' \in Status /\ pc' \in {"take", "store", "storeFault"}
         /\ pc' \in {"store", "storeFault"} => seen'.position # None
         /\ error' \in BOOLEAN /\ (pc' = "take" => error')
         /\ UNCHANGED <<status, command, upset>>
<1> USE ControllerAssumption DEF ControllerInv, ControllerTypeOK, Status
<1>1. ASSUME Refresh PROVE seen' \in Status /\ seen'.position # None
  BY <1>1 DEF Refresh
<1>2. CASE Answers
  BY <1>1, <1>2 DEF Answers
<1>3. CASE Faults
  BY <1>1, <1>3 DEF Faults
<1>4. CASE Fails
  BY <1>4 DEF Fails, Dropped
<1> QED
  BY <1>2, <1>3, <1>4 DEF Ends

(* A call that has ended, with what it told the gripper.                   *)
LEMMA EndedInv ==
  ASSUME ControllerInv, Ends, pc \in {"read", "move", "activate", "resetting", "activating"},
         device' \in [sta : {"reset", "activating", "activated"}, blocked : BOOLEAN],
         activating' \in BOOLEAN, UNCHANGED <<pendingMove, pendingActivate, taken>>,
         outdated' \in {outdated, "raised"},
         \/ pc # "move" /\ UNCHANGED <<told, excused>>
         \/ pc = "move" /\ told' = taken /\ excused' = FALSE
  PROVE  ControllerInv'
<1>1. seen' \in Status /\ error' \in BOOLEAN /\ pc' \in {"take", "store", "storeFault"}
  BY EndsWell
<1>2. pc' \in {"store", "storeFault"} => seen'.position # None
  BY EndsWell
<1>3. UNCHANGED <<status, command, upset>>
  BY EndsWell
<1>4. ControllerTypeOK'
  BY <1>1, <1>3 DEF ControllerInv, ControllerTypeOK
<1>5. (outdated = "returned" => pc = "follow")'
  BY DEF ControllerInv
<1>6. Placed'
  BY <1>1, <1>3 DEF ControllerInv, Placed
<1>7. Sent'
  <2>1. pc' # "move" /\ UNCHANGED <<command, pendingMove>>
    BY <1>1, <1>3
  <2>2. ASSUME ~pendingMove, ~excused' PROVE told' = command
    <3>1. CASE pc # "move" /\ UNCHANGED <<told, excused>>
      BY <2>2, <3>1 DEF ControllerInv, Sent
    <3>2. CASE pc = "move" /\ told' = taken /\ excused' = FALSE
      BY <2>2, <3>2 DEF ControllerInv, Sent
    <3> QED
      BY <3>1, <3>2
  <2> QED
    BY <2>1, <2>2 DEF Sent
<1>8. ReadyIsReal'
  BY <1>1, EndsWell DEF ReadyIsReal
<1> QED
  BY <1>1, <1>2, <1>4, <1>5, <1>6, <1>7, <1>8 DEF ControllerInv, SeenIsRead

(* A part of an activation after which another follows.                    *)
LEMMA GoesOnInv ==
  ASSUME ControllerInv, pc \in {"activate", "resetting"}, pc' \in {"resetting", "activating"},
         device' \in [sta : {"reset", "activating", "activated"}, blocked : BOOLEAN],
         activating' \in BOOLEAN,
         UNCHANGED <<pendingMove, pendingActivate, status, command, error, outdated, upset, seen, taken, told, excused>>
  PROVE  ControllerInv'
<1>1. ControllerTypeOK'
  BY DEF ControllerInv, ControllerTypeOK
<1>2. SeenIsRead' /\ Placed' /\ Sent' /\ ReadyIsReal' /\ (outdated = "returned" => pc = "follow")'
  BY DEF ControllerInv, SeenIsRead, Placed, Sent, ReadyIsReal
<1> QED
  BY <1>1, <1>2 DEF ControllerInv

LEMMA StartedType ==
  ASSUME device \in [sta : {"reset", "activating", "activated"}, blocked : BOOLEAN]
  PROVE  Started \in [sta : {"reset", "activating", "activated"}, blocked : BOOLEAN]
BY DEF Started

LEMMA CallsInv == ASSUME ControllerInv, Calls PROVE ControllerInv'
<1>0. /\ device \in [sta : {"reset", "activating", "activated"}, blocked : BOOLEAN]
      /\ Started \in [sta : {"reset", "activating", "activated"}, blocked : BOOLEAN]
      /\ activating \in BOOLEAN
  BY StartedType DEF ControllerInv, ControllerTypeOK
<1>1. CASE readStatus
  <2>1. Ends /\ pc = "read" /\ UNCHANGED <<device, activating, taken, told, excused, outdated, pendingMove, pendingActivate>>
    BY <1>1 DEF readStatus, requests, history
  <2> QED
    BY <1>0, <2>1, EndedInv
<1>2. CASE move
  <2>1. Ends /\ pc = "move" /\ device' \in {device, Started} /\ told' = taken /\ excused' = FALSE
        /\ UNCHANGED <<activating, taken, outdated, pendingMove, pendingActivate>>
    BY <1>2 DEF move, requests
  <2> QED
    BY <1>0, <2>1, EndedInv
<1>3. CASE activateBegins
  <2>1. pc = "activate" /\ UNCHANGED <<pendingMove, pendingActivate, taken, told, excused, outdated>>
    BY <1>3 DEF activateBegins, requests, history
  <2>2. CASE activating' = FALSE /\ UNCHANGED device /\ (Faults \/ Fails)
    BY <1>0, <2>1, <2>2, EndedInv DEF Ends
  <2>3. CASE /\ device' = [sta |-> "reset", blocked |-> FALSE]
             /\ activating' = TRUE /\ pc' = "resetting"
             /\ UNCHANGED <<status, command, error, upset, seen>>
    BY <2>1, <2>3, GoesOnInv
  <2> QED
    BY <1>3, <2>2, <2>3 DEF activateBegins
<1>4. CASE activateStarts
  <2>1. pc = "resetting" /\ UNCHANGED <<pendingMove, pendingActivate, taken, told, excused>>
    BY <1>4 DEF activateStarts, requests
  <2>2. CASE activating' = FALSE /\ UNCHANGED device /\ (Faults \/ Fails) /\ outdated' = "raised"
    BY <1>0, <2>1, <2>2, EndedInv DEF Ends
  <2>3. CASE /\ device' = Started /\ pc' = "activating"
             /\ UNCHANGED <<status, command, error, outdated, upset, seen, activating>>
    BY <1>0, <2>1, <2>3, GoesOnInv
  <2> QED
    BY <1>4, <2>2, <2>3 DEF activateStarts
<1>5. CASE activateEnds
  <2>1. /\ pc = "activating" /\ activating' = FALSE
        /\ UNCHANGED <<device, pendingMove, pendingActivate, taken, told, excused>>
    BY <1>5 DEF activateEnds, requests
  <2>2. CASE (Faults \/ Fails) /\ outdated' = "raised"
    BY <1>0, <2>1, <2>2, EndedInv DEF Ends
  <2>3. CASE Refresh /\ pc' = "follow" /\ outdated' = "returned" /\ UNCHANGED <<status, command, error, upset>>
    <3>1. seen' \in Status /\ seen'.position # None
      BY <1>0, <2>1, <2>3, ControllerAssumption DEF Refresh, Status
    <3>2. ControllerTypeOK'
      BY <1>0, <2>1, <2>3, <3>1 DEF ControllerInv, ControllerTypeOK
    <3>3. SeenIsRead' /\ Placed' /\ Sent' /\ ReadyIsReal' /\ (outdated = "returned" => pc = "follow")'
      BY <2>1, <2>3, <3>1 DEF ControllerInv, SeenIsRead, Placed, Sent, ReadyIsReal
    <3> QED
      BY <3>2, <3>3 DEF ControllerInv
  <2> QED
    BY <1>5, <2>2, <2>3 DEF activateEnds
<1> QED
  BY <1>1, <1>2, <1>3, <1>4, <1>5 DEF Calls

LEMMA StoreInv == ASSUME ControllerInv, follow \/ _store_status PROVE ControllerInv'
<1>1. CASE follow
  <2>1. pc' = "store" /\ excused' = TRUE /\ outdated' = "no" /\ seen.position # None
    BY <1>1 DEF follow, ControllerInv, SeenIsRead
  <2>2. command \in Command /\ command' = [command EXCEPT !.position = None]
    BY <1>1 DEF follow, ControllerInv, ControllerTypeOK
  <2>3. command' \in Command /\ command'.position = None
    BY <2>2 DEF Command
  <2>4. UNCHANGED <<pendingMove, pendingActivate, status, error, activating, taken, device, seen, told, upset>>
    BY <1>1 DEF follow, requests
  <2>5. ControllerTypeOK'
    BY <2>1, <2>3, <2>4 DEF ControllerInv, ControllerTypeOK
  <2> QED
    BY <2>1, <2>3, <2>4, <2>5 DEF ControllerInv, SeenIsRead, Placed, Sent, ReadyIsReal
<1>2. CASE _store_status
  <2>1. seen \in Status /\ seen.position # None /\ command \in Command
    BY <1>2 DEF _store_status, ControllerInv, ControllerTypeOK, SeenIsRead
  <2>2. seen.position \in Positions
    BY <2>1 DEF Status
  <2>3. /\ command' \in Command /\ command'.position # None
        /\ command.position # None => command' = command
    <3>1. CASE command.position = None
      <4>1. command' = [command EXCEPT !.position = seen.position]
        BY <1>2, <3>1 DEF _store_status
      <4> QED
        BY <2>1, <2>2, <3>1, <4>1 DEF Command
    <3>2. CASE command.position # None
      BY <1>2, <2>1, <3>2 DEF _store_status
    <3> QED
      BY <3>1, <3>2
  <2>4. pc' = "take" /\ status' = seen /\ error' \in BOOLEAN /\ upset' \in BOOLEAN
    BY <1>2 DEF _store_status
  <2>5. /\ pc \in {"store", "storeFault"} /\ outdated # "returned"
        /\ UNCHANGED <<pendingMove, pendingActivate, activating, taken, device, seen, told, excused, outdated>>
    BY <1>2 DEF _store_status, requests, history, ControllerInv
  <2>6. ControllerTypeOK'
    BY <2>1, <2>3, <2>4, <2>5 DEF ControllerInv, ControllerTypeOK
  <2>7. Placed' /\ Sent'
    BY <2>3, <2>4, <2>5 DEF ControllerInv, ControllerTypeOK, Placed, Sent
  <2>8. ReadyIsReal'
    BY <1>2, <2>4, <2>5 DEF _store_status, ReadyIsReal, Ready
  <2> QED
    BY <2>4, <2>5, <2>6, <2>7, <2>8 DEF ControllerInv, SeenIsRead
<1> QED
  BY <1>1, <1>2

LEMMA ControllerNextInv == ControllerInv /\ [ControllerNext]_vars => ControllerInv'
<1> SUFFICES ASSUME ControllerInv, [ControllerNext]_vars PROVE ControllerInv'
  OBVIOUS
<1>1. CASE DeviceMoves
  <2>1. /\ device' \in [sta : {"reset", "activating", "activated"}, blocked : BOOLEAN]
        /\ upset' \in BOOLEAN /\ (~upset' => ~upset /\ (Ready(device) => Ready(device')))
    BY <1>1 DEF DeviceMoves, ControllerInv, ControllerTypeOK, Ready
  <2>2. UNCHANGED <<pendingMove, pendingActivate, command, status, error, activating, pc, taken, seen, told, excused, outdated>>
    BY <1>1 DEF DeviceMoves, requests, history
  <2>3. ControllerTypeOK'
    BY <2>1, <2>2 DEF ControllerInv, ControllerTypeOK
  <2>4. SeenIsRead' /\ Placed' /\ Sent' /\ (outdated = "returned" => pc = "follow")'
    BY <2>2 DEF ControllerInv, SeenIsRead, Placed, Sent
  <2>5. ReadyIsReal'
    BY <2>1, <2>2 DEF ControllerInv, ReadyIsReal, Ready
  <2> QED
    BY <2>3, <2>4, <2>5 DEF ControllerInv
<1>2. CASE UNCHANGED vars
  BY <1>2 DEF vars, ControllerInv, ControllerTypeOK, SeenIsRead, Placed, Sent, ReadyIsReal, Ready, requests, history
<1> QED
  BY <1>1, <1>2, RequestInv, TakeInv, CallsInv, StoreInv DEF ControllerNext, Worker

LEMMA ControllerAlwaysInv == ControllerSafety => []ControllerInv
BY ControllerInitInv, ControllerNextInv, PTL DEF ControllerSafety

(* Types of requests, worker, library and gripper.                         *)
THEOREM ControllerTypeCorrect == ControllerSafety => []ControllerTypeOK
<1>1. ControllerInv => ControllerTypeOK
  BY DEF ControllerInv
<1> QED
  BY <1>1, ControllerAlwaysInv, PTL

(* "The worker sends the latest request": what a page asks for while a     *)
(* call is under way is not lost.                                          *)
THEOREM NoRequestIsLost == ControllerSafety => []LatestIsSent
<1>1. ControllerInv => LatestIsSent
  BY DEF ControllerInv, Sent, LatestIsSent
<1> QED
  BY <1>1, ControllerAlwaysInv, PTL

(* No move goes where a page asked to before an activation ended, unless   *)
(* the activation raised.                                                  *)
THEOREM ActivationIsFollowed == ControllerSafety => []MovesFollowActivation
<1>1. ControllerInv => MovesFollowActivation
  BY DEF ControllerInv, Sent, MovesFollowActivation
<1> QED
  BY <1>1, ControllerAlwaysInv, PTL

(* A move goes only to a ready gripper, unless upset or error tells of     *)
(* what has happened since its status was stored.                          *)
THEOREM ReadyMovesOnly == ControllerSafety => []MovesOnlyReady
<1>1. ControllerInv => MovesOnlyReady
  BY DEF ControllerInv, ReadyIsReal, MovesOnlyReady
<1> QED
  BY <1>1, ControllerAlwaysInv, PTL
=============================================================================
