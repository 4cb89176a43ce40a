---------------------------- MODULE SensorStream ----------------------------
(***************************************************************************)
(* The bytes of the tactile sensor, from the wire to the callback:         *)
(* usbReadByte() and parseSensors() of RobotiqTactileSensor.cpp, with the  *)
(* samples handed to another thread through a SafeCircularBuffer, as the   *)
(* header offers; nothing in the SDK does so itself.                       *)
(*                                                                         *)
(* A byte is its value; a 16-bit or 64-bit number is the sequence of its   *)
(* bytes.  External: the sensor, which sends whole packets, and the wire,  *)
(* which may lose bytes.                                                   *)
(***************************************************************************)
EXTENDS CircularBuffer, FiniteSetsExt

CONSTANTS
  Messages,     (* what the sensor sends: [command, parts, data]            *)
  StaticCount,  (* FINGER_STATIC_TACTILE_COUNT                              *)
  MaxLosses     (* bound: bytes lost and threads restarted                  *)

VARIABLES
  sent, line,       (* the packet under way, its bytes not yet read       *)
  losses, whole,
  astray,           (* bytes read since step was lost and the last packet   *)
                    (* with the start byte in it                            *)
  recv,             (* recv, as far as readSoFar                            *)
  fingers, firmware (* what the thread has parsed                           *)

streamVars == <<sent, line, losses, astray, whole, recv, fingers, firmware>>

-----------------------------------------------------------------------------
(* The protocol.                                                           *)

START == 154
READ_SENSORS == 97
SYNC_SENSORS == 88
ASYNC_SENSORS == 89
GET_VERSION == 227

SensorReplies == {READ_SENSORS, SYNC_SENSORS, ASYNC_SENSORS}

Finger == 0 .. 1

Field ==
  [ static        |-> [code |-> 1, width |-> 2, count |-> StaticCount],
    dynamic       |-> [code |-> 2, width |-> 2, count |-> 1],
    accelerometer |-> [code |-> 3, width |-> 2, count |-> 3],
    gyroscope     |-> [code |-> 4, width |-> 2, count |-> 3],
    temperature   |-> [code |-> 6, width |-> 2, count |-> 1],
    timestamp     |-> [code |-> 7, width |-> 8, count |-> 1] ]

Zeros == [f \in Finger |-> [t \in DOMAIN Field |->
           [i \in 1 .. Field[t].count |-> [b \in 1 .. Field[t].width |-> 0]]]]

Byte == 0 .. 255

(* External: how the sensor lays out its parts in the data of a packet,    *)
(* part k from at[k] on: the type, the finger and the values.              *)
IsLayout(at, parts, data) ==
  /\ at \in [1 .. Len(parts) + 1 -> 0 .. Len(data)]
  /\ at[1] = 0 /\ at[Len(parts) + 1] = Len(data)
  /\ \A k \in 1 .. Len(parts) :
       LET field == Field[parts[k].type] IN
         /\ at[k + 1] = at[k] + 1 + field.count * field.width
         /\ data[at[k] + 1] = 16 * field.code + 4 * parts[k].finger
         /\ \A v \in 1 .. field.count, b \in 1 .. field.width :
              data[at[k] + 1 + (v - 1) * field.width + b] = parts[k].values[v][b]

LaidOut(parts, data) ==
  \E at \in [1 .. Len(parts) + 1 -> 0 .. Len(data)] : IsLayout(at, parts, data)

PacketBytes(pkt) == <<START, 0, pkt.command, Len(pkt.data)>> \o pkt.data

ASSUME MessageAssumption ==
  /\ StaticCount \in Nat /\ 2 * StaticCount \in Byte   (* extractUint16() returns one *)
  /\ MaxLosses \in Nat /\ Messages # {}
  /\ \A pkt \in Messages :
       /\ pkt.command \in Byte /\ pkt.data \in Seq(Byte) /\ Len(pkt.data) \in Byte
       /\ pkt.parts \in Seq([type : DOMAIN Field, finger : Finger, values : Seq(Seq(Byte))])
       /\ \A k \in DOMAIN pkt.parts :
            LET field == Field[pkt.parts[k].type] IN
              /\ Len(pkt.parts[k].values) = field.count
              /\ \A v \in 1 .. field.count : Len(pkt.parts[k].values[v]) = field.width
       /\ LaidOut(pkt.parts, pkt.data)

(* What the callback is told of: the fingers with something new.           *)
ASSUME ItemsAssumption == (SUBSET Finger) \ {{}} \subseteq Items

(* The start byte is not escaped: a sample may have it as one of its bytes. *)
StartInside(pkt) == \E i \in 2 .. Len(PacketBytes(pkt)) : PacketBytes(pkt)[i] = START

-----------------------------------------------------------------------------
(* usbReadByte().  calcCrc8() is a placeholder that repeats the byte it is *)
(* compared with, so every packet passes, and the search for the next      *)
(* start byte after one that does not is never reached.                    *)

(* Mutant of Complete: > for >=.                                           *)
CompleteLate(p) == Len(p) > 3 /\ Len(p) > p[4] + 4

Complete(p) == Len(p) > 3 /\ Len(p) >= p[4] + 4

ReadByte(b) ==
  LET p == Append(recv, b) IN
    CASE recv = <<>> /\ b # START -> [recv |-> <<>>, ready |-> <<>>]
      [] Complete(p) -> [recv |-> <<>>, ready |-> p]
      [] OTHER -> [recv |-> p, ready |-> <<>>]

-----------------------------------------------------------------------------
(* parseSensors(): the parts of a payload, then their values.              *)

(* extractUint16() and extractUint64(): as many whole values as there are. *)
Extracted(d, i, field) ==
  LET there == (Len(d) - i) \div field.width
      n == IF there < field.count THEN there ELSE field.count IN
    [k \in 1 .. n |-> SubSeq(d, i + 1 + (k - 1) * field.width, i + k * field.width)]

FingerOf(b) == (b \div 4) % 4
TypesOf(b) == {t \in DOMAIN Field : Field[t].code = b \div 16}
Known(b) == FingerOf(b) \in Finger /\ TypesOf(b) # {}

PartAt(d, i) ==
  LET type == CHOOSE t \in TypesOf(d[i]) : TRUE IN
    [type |-> type, finger |-> FingerOf(d[i]), values |-> Extracted(d, i, Field[type])]

PastPart(d, i) == LET part == PartAt(d, i) IN i + 1 + Len(part.values) * Field[part.type].width

(* Mutant of PartsOf: the type byte alone is consumed.                     *)
PartsUnskipped(d) ==
  LET parts[i \in 1 .. Len(d) + 1] ==
        IF i > Len(d) THEN <<>>
        ELSE IF Known(d[i]) THEN <<PartAt(d, i)>> \o parts[i + 1]
        ELSE parts[i + 1]
  IN parts[1]

(* A type byte nobody knows is skipped alone.                              *)
PartsOf(d) ==
  LET parts[i \in 1 .. Len(d) + 1] ==
        IF i > Len(d) THEN <<>>
        ELSE IF Known(d[i]) THEN <<PartAt(d, i)>> \o parts[PastPart(d, i)]
        ELSE parts[i + 1]
  IN parts[1]

(* Values that are not there keep what the last packet left.               *)
StorePart(all, part) ==
  [all EXCEPT ![part.finger][part.type] =
     [i \in DOMAIN @ |-> IF i <= Len(part.values) THEN part.values[i] ELSE @[i]]]

StoreParts(all, parts) ==
  LET stored[i \in 0 .. Len(parts)] == IF i = 0 THEN all ELSE StorePart(stored[i - 1], parts[i])
  IN stored[Len(parts)]

Updated(parts) == {parts[i].finger : i \in DOMAIN parts}

(* What the acquisition thread makes of a packet: a version, samples for   *)
(* the callback when a finger has new ones, or nothing.                    *)
Handle(p) ==
  LET data == SubSeq(p, 5, Len(p))
      parts == PartsOf(data) IN
    CASE p[3] = GET_VERSION ->
           firmware' = data /\ UNCHANGED <<fingers, bufferVars>>
      [] p[3] \in SensorReplies ->
           /\ fingers' = StoreParts(fingers, parts)
           /\ IF Updated(parts) # {} THEN Push(Updated(parts)) ELSE UNCHANGED bufferVars
           /\ UNCHANGED firmware
      [] OTHER -> UNCHANGED <<fingers, firmware, bufferVars>>

-----------------------------------------------------------------------------
StreamInit ==
  /\ BufferInit
  /\ sent \in Messages /\ line = PacketBytes(sent)
  /\ losses = 0 /\ astray = 0 /\ whole = TRUE
  /\ recv = <<>> /\ fingers = Zeros /\ firmware = <<>>

(* What of the packet under way has been read or lost, if it is not over.  *)
Begun == LET all == PacketBytes(sent) IN
           IF line = <<>> THEN <<>> ELSE SubSeq(all, 1, Len(all) - Len(line))

InStep == recv = Begun

Lengths == {4 + Len(pkt.data) : pkt \in Messages}
Bytes == UNION {Range(PacketBytes(pkt)) : pkt \in Messages}

(* A packet begun at the wrong byte is over once the longest length has    *)
(* been read, and the search for a start byte within one packet more.      *)
LockTime == 4 + Max(Bytes) + Max(Lengths)

SendPacket ==
  /\ line = <<>>
  /\ \E pkt \in Messages : sent' = pkt /\ line' = PacketBytes(pkt)
  /\ whole' = (recv = <<>>)
  /\ UNCHANGED <<losses, astray, recv, fingers, firmware, bufferVars>>

ByteRead ==
  /\ line # <<>> /\ line' = Tail(line)
  /\ LET read == ReadByte(Head(line)) IN
       /\ recv' = read.recv
       /\ IF read.ready = <<>> THEN UNCHANGED <<fingers, firmware, bufferVars>>
                               ELSE Handle(read.ready)
  /\ UNCHANGED <<sent, losses, whole>>
  /\ astray' = IF InStep' \/ StartInside(sent) THEN 0
               ELSE IF astray < LockTime THEN astray + 1 ELSE astray

Loss == losses < MaxLosses /\ losses' = losses + 1 /\ astray' = 0 /\ whole' = FALSE

ByteLost ==
  /\ Loss /\ line # <<>> /\ line' = Tail(line)
  /\ UNCHANGED <<sent, recv, fingers, firmware, bufferVars>>

(* stop() and a new thread: recvSoFar and fingers are the loop's own.      *)
ThreadRestarts ==
  /\ Loss
  /\ recv' = <<>> /\ fingers' = Zeros
  /\ UNCHANGED <<sent, line, firmware, bufferVars>>

(* Bound: between packets.  No other step reads or writes the buffer but   *)
(* the last byte of a packet, so this leaves out no order of its calls.    *)
Consume == line = <<>> /\ TakeSome /\ UNCHANGED streamVars

StreamNext == SendPacket \/ ByteRead \/ ByteLost \/ ThreadRestarts \/ Consume

StreamSpec == StreamInit /\ [][StreamNext]_<<streamVars, bufferVars>>

-----------------------------------------------------------------------------
(* Once in step, only a loss takes the receiver out of it, whatever bytes  *)
(* the packets carry, and it is back within LockTime bytes of packets that *)
(* have no start byte in them; while they have one it may stay out, as no  *)
(* checksum rejects a packet begun at the wrong byte                       *)
(* (RobotiqTactileSensor.cpp:143, :157).                                   *)
Realigns ==
  [][/\ astray' < LockTime
     /\ InStep /\ UNCHANGED losses => InStep']_<<streamVars, bufferVars>>

Decoded(parts) ==
  /\ \A f \in Finger, t \in DOMAIN Field :
       LET about == {i \in DOMAIN parts : parts[i].finger = f /\ parts[i].type = t} IN
         fingers'[f][t] = IF about = {} THEN fingers[f][t] ELSE parts[Max(about)].values
  /\ IF parts = <<>> THEN buffer' = buffer
     ELSE buffer'[(start' + count' - 1) % Capacity] = Updated(parts)

(* A packet that was sent and read from its first byte to its last leaves  *)
(* every finger with the values in it, the others untouched, and the       *)
(* callback is told of exactly the fingers in it                           *)
(* (RobotiqTactileSensor.cpp:209, :606).                                   *)
DecodesWhatWasSent ==
  [][ByteRead /\ whole /\ line' = <<>> =>
       Decoded(IF sent.command \in SensorReplies THEN sent.parts ELSE <<>>)
    ]_<<streamVars, bufferVars>>
=============================================================================
