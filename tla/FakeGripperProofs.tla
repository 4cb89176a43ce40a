------------------------- MODULE FakeGripperProofs --------------------------
(***************************************************************************)
(* Proofs about the fake gripper, for any commands, faults, profiles and   *)
(* openings and any layout of its registers: packing and unpacking lose    *)
(* nothing, so the fake is the device of its header; and rounding to a     *)
(* register and back stays within half a step.                             *)
(***************************************************************************)
EXTENDS FakeGripper, SequenceTheorems, TLAPS

-----------------------------------------------------------------------------
(* Bytes and registers.                                                    *)

StatusType ==
  [ activated : BOOLEAN, goToEnabled : BOOLEAN, activationState : 0 .. 3, objectDetection : 0 .. 3,
    fault : Byte, echo : Byte, position : Byte, current : Byte ]

BlockOfBytes == [1 .. 6 -> Byte]

LEMMA SixBytes ==
  ASSUME NEW a \in Byte, NEW b \in Byte, NEW c \in Byte, NEW d \in Byte, NEW e \in Byte, NEW f \in Byte
  PROVE  <<a, b, c, d, e, f>> \in BlockOfBytes
<1> DEFINE block == <<a, b, c, d, e, f>>
<1>1. block = [i \in 1 .. 6 |-> block[i]]
  OBVIOUS
<1>2. /\ block[1] \in Byte /\ block[2] \in Byte /\ block[3] \in Byte
      /\ block[4] \in Byte /\ block[5] \in Byte /\ block[6] \in Byte
  OBVIOUS
<1> HIDE DEF block
<1>3. \A i \in 1 .. 6 : i \in {1, 2, 3, 4, 5, 6}
  OBVIOUS
<1>4. \A i \in 1 .. 6 : block[i] \in Byte
  BY <1>2, <1>3
<1>5. block \in [1 .. 6 -> Byte]
  BY <1>1, <1>4
<1> QED
  BY <1>5 DEF block, BlockOfBytes

LEMMA CommandBytesType == \A c \in CommandType : CommandBytes(c) \in BlockOfBytes
<1> SUFFICES ASSUME NEW c \in CommandType PROVE CommandBytes(c) \in BlockOfBytes
  OBVIOUS
<1>1. /\ Bit(c.activate, 1) \in 0 .. 1 /\ Bit(c.goTo, 8) \in 0 .. 8
      /\ Bit(c.autoRelease, 16) \in 0 .. 16 /\ Bit(c.openDirection, 32) \in 0 .. 32
  BY DEF Bit
<1>2. \A u \in 0 .. 1, v \in 0 .. 8, w \in 0 .. 16, x \in 0 .. 32 : u + v + w + x \in Byte
  BY DEF Byte
<1>3. Bit(c.activate, 1) + Bit(c.goTo, 8) + Bit(c.autoRelease, 16) + Bit(c.openDirection, 32) \in Byte
  BY <1>1, <1>2
<1>4. c.position \in Byte /\ c.speed \in Byte /\ c.force \in Byte
  BY DEF CommandType
<1>5. 0 \in Byte
  BY DEF Byte
<1> QED
  BY <1>3, <1>4, <1>5, SixBytes DEF CommandBytes

LEMMA StatusBytesType == \A s \in StatusType : StatusBytes(s) \in BlockOfBytes
<1> SUFFICES ASSUME NEW s \in StatusType PROVE StatusBytes(s) \in BlockOfBytes
  OBVIOUS
<1>1. /\ Bit(s.activated, 1) \in 0 .. 1 /\ Bit(s.goToEnabled, 8) \in 0 .. 8
      /\ s.activationState \in 0 .. 3 /\ s.objectDetection \in 0 .. 3
  BY DEF Bit, StatusType
<1>2. \A u \in 0 .. 1, v \in 0 .. 8, w, x \in 0 .. 3 : u + v + 16 * w + 64 * x \in Byte
  BY DEF Byte
<1>3. Bit(s.activated, 1) + Bit(s.goToEnabled, 8) + 16 * s.activationState + 64 * s.objectDetection \in Byte
  BY <1>1, <1>2
<1>4. s.fault \in Byte /\ s.echo \in Byte /\ s.position \in Byte /\ s.current \in Byte
  BY DEF StatusType
<1>5. 0 \in Byte
  BY DEF Byte
<1> QED
  BY <1>3, <1>4, <1>5, SixBytes DEF StatusBytes

LEMMA StatusUnpacked == \A s \in StatusType : StatusFromBytes(StatusBytes(s)) = s
<1> SUFFICES ASSUME NEW s \in StatusType PROVE StatusFromBytes(StatusBytes(s)) = s
  OBVIOUS
<1>1. \A on, goTo \in {0, 1} : \A state, object \in 0 .. 3 :
        LET bits == on + 8 * goTo + 16 * state + 64 * object IN
          /\ (bits \div 1) % 2 = on /\ (bits \div 8) % 2 = goTo
          /\ (bits \div 16) % 4 = state /\ bits \div 64 = object
  OBVIOUS
<1>2. StatusBytes(s)[1] = Bit(s.activated, 1) + 8 * Bit(s.goToEnabled, 1)
                          + 16 * s.activationState + 64 * s.objectDetection
  BY DEF StatusBytes, StatusType, Bit
<1>3. /\ Bit(s.activated, 1) \in {0, 1} /\ Bit(s.goToEnabled, 1) \in {0, 1}
      /\ s.activationState \in 0 .. 3 /\ s.objectDetection \in 0 .. 3
  BY DEF StatusType, Bit
<1>4. /\ Get(StatusBytes(s)[1], 1) = s.activated /\ Get(StatusBytes(s)[1], 8) = s.goToEnabled
      /\ (StatusBytes(s)[1] \div 16) % 4 = s.activationState
      /\ StatusBytes(s)[1] \div 64 = s.objectDetection
  BY <1>1, <1>2, <1>3 DEF Get, Bit, StatusType
<1> QED
  BY <1>4 DEF StatusBytes, StatusFromBytes, StatusType

LEMMA CommandUnpacked == \A c \in CommandType : CommandFromBytes(CommandBytes(c)) = c
BY DEF CommandType, CommandBytes, CommandFromBytes, Bit, Get, Byte

LEMMA BlockIsSequence ==
  ASSUME NEW S, NEW n \in Nat, NEW block \in [1 .. n -> S]
  PROVE  block \in Seq(S) /\ Len(block) = n /\ DOMAIN block = 1 .. n
<1>1. DOMAIN block = 1 .. n /\ \A i \in 1 .. n : block[i] \in S
  OBVIOUS
<1>2. block \in Seq(S)
  BY <1>1
<1> QED
  BY <1>1, <1>2, LenProperties

(* Three registers hold six bytes.                                         *)
LEMMA BytesKept ==
  ASSUME NEW b \in BlockOfBytes
  PROVE  /\ RegistersFromBytes(b) \in [1 .. 3 -> Nat]
         /\ Len(RegistersFromBytes(b)) = 3
         /\ BytesFromRegisters(RegistersFromBytes(b)) = b
<1> DEFINE r == RegistersFromBytes(b)
<1>1. b \in Seq(Byte) /\ Len(b) = 6 /\ DOMAIN b = 1 .. 6
  BY BlockIsSequence DEF BlockOfBytes
<1>2. r = [i \in 1 .. 3 |-> 256 * b[2 * i - 1] + b[2 * i]]
  BY <1>1 DEF RegistersFromBytes
<1>3. \A i \in 1 .. 6 : b[i] \in Byte
  BY DEF BlockOfBytes
<1>4. r[1] = 256 * b[1] + b[2] /\ r[2] = 256 * b[3] + b[4] /\ r[3] = 256 * b[5] + b[6]
  BY <1>2
<1>5. r \in [1 .. 3 -> Nat]
  <2>1. \A i \in 1 .. 3 : 2 * i - 1 \in 1 .. 6 /\ 2 * i \in 1 .. 6
    OBVIOUS
  <2>2. \A high, low \in Byte : 256 * high + low \in Nat
    BY DEF Byte
  <2>3. \A i \in 1 .. 3 : 256 * b[2 * i - 1] + b[2 * i] \in Nat
    BY <1>3, <2>1, <2>2
  <2> QED
    BY <1>2, <2>3
<1>6. r \in Seq(Nat) /\ Len(r) = 3
  BY <1>5, BlockIsSequence
<1>7. \A high, low \in Byte : (256 * high + low) \div 256 = high /\ (256 * high + low) % 256 = low
  BY DEF Byte
<1> DEFINE after == BytesFromRegisters(r)
<1> HIDE DEF r
<1>8. after = [i \in 1 .. 6 |-> IF i % 2 = 1 THEN r[(i + 1) \div 2] \div 256 ELSE r[i \div 2] % 256]
  BY <1>6 DEF BytesFromRegisters
<1> HIDE DEF after
<1>9. /\ after[1] = r[1] \div 256 /\ after[2] = r[1] % 256 /\ after[3] = r[2] \div 256
      /\ after[4] = r[2] % 256 /\ after[5] = r[3] \div 256 /\ after[6] = r[3] % 256
  BY <1>8
<1>10. \A i \in 1 .. 6 : after[i] = b[i]
  <2>1. \A i \in 1 .. 6 : i \in {1, 2, 3, 4, 5, 6}
    OBVIOUS
  <2>2. after[1] = b[1] /\ after[2] = b[2] /\ after[3] = b[3]
    BY <1>3, <1>4, <1>7, <1>9
  <2>3. after[4] = b[4] /\ after[5] = b[5] /\ after[6] = b[6]
    BY <1>3, <1>4, <1>7, <1>9
  <2> QED
    BY <2>1, <2>2, <2>3
<1>11. after = b
  BY <1>1, <1>8, <1>10 DEF BlockOfBytes
<1> QED
  BY <1>5, <1>6, <1>11 DEF r, after

-----------------------------------------------------------------------------
(* The register file.                                                      *)

RegisterFile == [0 .. RegisterCount - 1 -> Nat]

LEMMA WithBlockType ==
  ASSUME NEW file \in RegisterFile, NEW address \in Nat, NEW values \in [1 .. 3 -> Nat], Len(values) = 3
  PROVE  WithBlock(file, address, values) \in RegisterFile
BY DEF WithBlock, RegisterFile

LEMMA BlockWritten ==
  ASSUME NEW file \in RegisterFile, NEW address \in {CommandAddress, StatusAddress},
         NEW values \in [1 .. 3 -> Nat], Len(values) = 3
  PROVE  Block(WithBlock(file, address, values), address) = values
<1>1. \A i \in 1 .. 3 : address + i - 1 \in 0 .. RegisterCount - 1
  BY RegisterAssumption DEF RegisterCount
<1>2. ASSUME NEW i \in 1 .. 3 PROVE WithBlock(file, address, values)[address + i - 1] = values[i]
  <2>1. address \in Nat
    BY RegisterAssumption
  <2>2. address + i - 1 \in address .. address + 3 - 1 /\ (address + i - 1) - address + 1 = i
    BY <2>1
  <2> QED
    BY <1>1, <2>2 DEF WithBlock, RegisterFile
<1>3. Block(WithBlock(file, address, values), address) = [i \in 1 .. 3 |-> values[i]]
  BY <1>2, RegisterAssumption DEF Block
<1> QED
  BY <1>3

(* Writing commands leaves the status block alone.                         *)
LEMMA StatusBlockKept ==
  ASSUME NEW file \in RegisterFile, NEW values \in [1 .. 3 -> Nat], Len(values) = 3
  PROVE  Block(WithBlock(file, CommandAddress, values), StatusAddress) = Block(file, StatusAddress)
<1>1. ASSUME NEW i \in 1 .. 3
      PROVE  WithBlock(file, CommandAddress, values)[StatusAddress + i - 1] = file[StatusAddress + i - 1]
  <2>1. /\ StatusAddress + i - 1 \in 0 .. RegisterCount - 1
        /\ StatusAddress + i - 1 \notin CommandAddress .. CommandAddress + 3 - 1
    BY RegisterAssumption DEF RegisterCount
  <2> QED
    BY <2>1 DEF WithBlock, RegisterFile
<1> QED
  BY <1>1, RegisterAssumption DEF Block

LEMMA CommandWritten ==
  ASSUME NEW file \in RegisterFile, NEW c \in CommandType
  PROVE  LET written == WithBlock(file, CommandAddress, CommandRegisters(c)) IN
           /\ written \in RegisterFile
           /\ CommandIn(written) = c /\ StatusIn(written) = StatusIn(file)
<1>1. CommandRegisters(c) \in [1 .. 3 -> Nat] /\ Len(CommandRegisters(c)) = 3
      /\ BytesFromRegisters(CommandRegisters(c)) = CommandBytes(c)
  BY CommandBytesType, BytesKept DEF CommandRegisters
<1> DEFINE written == WithBlock(file, CommandAddress, CommandRegisters(c))
<1>2. written \in RegisterFile
  BY <1>1, WithBlockType, RegisterAssumption
<1>3. Block(written, CommandAddress) = CommandRegisters(c)
  BY <1>1, BlockWritten
<1>4. CommandIn(written) = c
  BY <1>1, <1>3, CommandUnpacked DEF CommandIn
<1>5. StatusIn(written) = StatusIn(file)
  BY <1>1, StatusBlockKept DEF StatusIn
<1> QED
  BY <1>2, <1>4, <1>5

LEMMA StatusWritten ==
  ASSUME NEW file \in RegisterFile, NEW s \in StatusType
  PROVE  LET written == WithBlock(file, StatusAddress, RegistersFromBytes(StatusBytes(s))) IN
           written \in RegisterFile /\ StatusIn(written) = s
<1> DEFINE values == RegistersFromBytes(StatusBytes(s))
           written == WithBlock(file, StatusAddress, values)
<1>1. values \in [1 .. 3 -> Nat] /\ Len(values) = 3 /\ BytesFromRegisters(values) = StatusBytes(s)
  BY StatusBytesType, BytesKept
<1> HIDE DEF values
<1>2. written \in RegisterFile
  BY <1>1, WithBlockType, RegisterAssumption
<1>3. Block(written, StatusAddress) = values
  BY <1>1, BlockWritten
<1>4. StatusIn(written) = s
  BY <1>1, <1>3, StatusUnpacked DEF StatusIn
<1> QED
  BY <1>2, <1>4 DEF values

(* What a client reads of the status block is the status.                  *)
LEMMA StatusRead ==
  ASSUME NEW file \in RegisterFile
  PROVE  LET r == ReadOut(file, StatusAddress, Documented) IN
           Len(r) = Documented /\ AsStatus(r) = StatusIn(file)
<1> DEFINE r == ReadOut(file, StatusAddress, Documented)
<1>1. r = [i \in 1 .. 3 |-> file[StatusAddress + i - 1]]
  BY RegisterAssumption DEF ReadOut
<1>2. r = Block(file, StatusAddress)
  BY <1>1, RegisterAssumption DEF Block
<1>3. r \in [1 .. 3 -> Nat]
  BY <1>1, RegisterAssumption DEF RegisterFile, RegisterCount
<1>4. Len(r) = 3
  BY <1>3
<1> QED
  BY <1>2, <1>4, RegisterAssumption DEF AsStatus, StatusIn

LEMMA CommandsReadAsZeros ==
  LET r == ReadOut(registers, CommandAddress, BlockRegisters) IN
    Len(r) = BlockRegisters /\ \A i \in DOMAIN r : r[i] = 0
<1> DEFINE r == ReadOut(registers, CommandAddress, BlockRegisters)
<1>1. r = [i \in 1 .. BlockRegisters |-> 0]
  BY RegisterAssumption DEF ReadOut
<1>2. r \in Seq({0}) /\ Len(r) = BlockRegisters
  BY <1>1, RegisterAssumption
<1> QED
  BY <1>1, <1>2

-----------------------------------------------------------------------------
(* The device.  An activation is done with the write that asks for it, so  *)
(* both flags of the edge tracking are the rACT last written.              *)

DeviceInv ==
  /\ registers \in RegisterFile /\ StatusIn(registers) \in StatusType
  /\ previousActivate \in BOOLEAN /\ activationDone = previousActivate

LEMMA ObeyedType ==
  ASSUME NEW c \in CommandType, StatusIn(registers) \in StatusType
  PROVE  Device!Obeyed(c) \in StatusType /\ Device!Obeyed(c).position = c.position
BY DEF Device!Obeyed, CommandType, StatusType, Byte

(* A write of a whole command is obeyed.                                   *)
LEMMA WriteObeyed ==
  ASSUME DeviceInv, NEW c \in CommandType, WriteIn(CommandAddress, CommandRegisters(c))
  PROVE  /\ DeviceInv'
         /\ StatusIn(registers') = Device!Obeyed(c)
         /\ StatusIn(registers').position = c.position
<1> DEFINE file == WithBlock(registers, CommandAddress, CommandRegisters(c))
           done == c.activate /\ (activationDone \/ ~previousActivate)
<1>1. file \in RegisterFile /\ CommandIn(file) = c /\ StatusIn(file) = StatusIn(registers)
  BY CommandWritten DEF DeviceInv
<1>2. done = c.activate /\ c.activate \in BOOLEAN
  BY DEF DeviceInv, CommandType
<1>3. ProcessCommand(c, StatusIn(registers), done) = Device!Obeyed(c)
  BY <1>2 DEF ProcessCommand, Device!Obeyed
<1>4. /\ activationDone' = done /\ previousActivate' = c.activate
      /\ registers' = WithBlock(file, StatusAddress, RegistersFromBytes(StatusBytes(Device!Obeyed(c))))
  BY <1>1, <1>3 DEF WriteIn
<1>5. Device!Obeyed(c) \in StatusType /\ Device!Obeyed(c).position = c.position
  BY ObeyedType DEF DeviceInv
<1> HIDE DEF file, done
<1>6. registers' \in RegisterFile /\ StatusIn(registers') = Device!Obeyed(c)
  BY <1>1, <1>4, <1>5, StatusWritten
<1> QED
  BY <1>2, <1>4, <1>5, <1>6 DEF DeviceInv

LEMMA Ranges ==
  /\ ContainsRange(CommandAddress, Documented) /\ ContainsRange(StatusAddress, Documented)
  /\ ContainsRange(CommandAddress, BlockRegisters) /\ ~ContainsRange(StatusAddress, BlockRegisters + 1)
  /\ ~ContainsRange(RegisterCount - 1, 2) /\ ~ContainsRange(RegisterCount, 1)
BY RegisterAssumption DEF ContainsRange, RegisterCount

LEMMA CommandRegistersLength == \A c \in CommandType : Len(CommandRegisters(c)) = Documented
BY CommandBytesType, BytesKept, RegisterAssumption DEF CommandRegisters

(* The two transactions that carry a command, as the device sees them.     *)
LEMMA ExchangeObeyed ==
  ASSUME DeviceInv, NEW c \in CommandType, ExchangeBlocks(c)
  PROVE  /\ DeviceInv'
         /\ StatusIn(registers') = Device!Obeyed(c)
         /\ AsStatus(returned'[2]) = StatusIn(registers')
         /\ Unpacked' = <<"status", StatusIn(registers')>>
         /\ AsStatus(returned'[2]).position = c.position
<1>1. /\ WriteIn(CommandAddress, CommandRegisters(c))
      /\ returned' = <<"registers", ReadOut(registers', StatusAddress, Documented)>>
  BY Ranges, CommandRegistersLength DEF ExchangeBlocks, WriteCommandAndRead, WriteThenRead
<1>2. /\ DeviceInv' /\ StatusIn(registers') = Device!Obeyed(c)
      /\ StatusIn(registers').position = c.position
  BY <1>1, WriteObeyed
<1>3. registers' \in RegisterFile
  BY <1>2 DEF DeviceInv
<1>4. /\ Len(returned'[2]) = Documented /\ AsStatus(returned'[2]) = StatusIn(registers')
      /\ returned'[1] = "registers"
  BY <1>1, <1>3, StatusRead
<1>5. Unpacked' = <<"status", AsStatus(returned'[2])>>
  BY <1>4 DEF Unpacked
<1> QED
  BY <1>2, <1>4, <1>5

LEMMA WriteCommandObeyed ==
  ASSUME DeviceInv, NEW c \in CommandType, WriteCommand(c)
  PROVE  DeviceInv' /\ StatusIn(registers') = Device!Obeyed(c) /\ Unpacked' = <<"done">>
<1>1. WriteIn(CommandAddress, CommandRegisters(c)) /\ returned' = <<"done">>
  BY Ranges, CommandRegistersLength DEF WriteCommand, WriteMultiple
<1>2. DeviceInv' /\ StatusIn(registers') = Device!Obeyed(c)
  BY <1>1, WriteObeyed
<1>3. Unpacked' = <<"done">>
  BY <1>1 DEF Unpacked
<1> QED
  BY <1>2, <1>3

(* The exchange whose reading half is refused has done its writing half.   *)
LEMMA HalfRefused ==
  ASSUME DeviceInv, NEW c \in CommandType,
         WriteCommandAndRead(c, RegisterCount, 1)
  PROVE  DeviceInv' /\ StatusIn(registers') = Device!Obeyed(c) /\ Unpacked' = <<"refused">>
<1>1. WriteIn(CommandAddress, CommandRegisters(c)) /\ returned' = <<"refused">>
  BY Ranges, CommandRegistersLength DEF WriteCommandAndRead, WriteThenRead, Refused
<1>2. DeviceInv' /\ StatusIn(registers') = Device!Obeyed(c)
  BY <1>1, WriteObeyed
<1>3. Unpacked' = <<"refused">>
  BY <1>1 DEF Unpacked
<1> QED
  BY <1>2, <1>3

LEMMA StagedWritten ==
  ASSUME DeviceInv, NEW fault \in Faults, StageFault(fault)
  PROVE  /\ DeviceInv'
         /\ StatusIn(registers') = [StatusIn(registers) EXCEPT !.fault = fault]
         /\ Unpacked' = Unpacked
<1> DEFINE staged == [StatusIn(registers) EXCEPT !.fault = fault]
<1>1. staged \in StatusType
  BY InputAssumption DEF DeviceInv, StatusType
<1>2. /\ registers' = WithBlock(registers, StatusAddress, RegistersFromBytes(StatusBytes(staged)))
      /\ UNCHANGED <<previousActivate, activationDone, returned>>
  BY DEF StageFault, lineVars
<1>3. registers \in RegisterFile /\ previousActivate \in BOOLEAN /\ activationDone = previousActivate
  BY DEF DeviceInv
<1> HIDE DEF staged
<1>4. registers' \in RegisterFile /\ StatusIn(registers') = staged
  BY <1>1, <1>2, <1>3, StatusWritten
<1>5. Unpacked' = Unpacked
  BY <1>2 DEF Unpacked
<1> QED
  BY <1>1, <1>2, <1>3, <1>4, <1>5 DEF DeviceInv, staged

(* Registers of zeros are the blank status.                                *)
LEMMA ZerosAreBlank ==
  LET file == [register \in 0 .. RegisterCount - 1 |-> 0] IN
    file \in RegisterFile /\ StatusIn(file) = Device!Blank /\ Device!Blank \in StatusType
<1> DEFINE file == [register \in 0 .. RegisterCount - 1 |-> 0]
<1>1. Device!Blank \in StatusType
  BY DEF Device!Blank, StatusType, Byte
<1>2. file \in RegisterFile
  BY DEF RegisterFile
<1>3. StatusBytes(Device!Blank) = <<0, 0, 0, 0, 0, 0>>
  BY DEF StatusBytes, Device!Blank, Bit
<1>4. RegistersFromBytes(<<0, 0, 0, 0, 0, 0>>) = [i \in 1 .. 3 |-> 0]
  BY DEF RegistersFromBytes
<1>5. Block(file, StatusAddress) = [i \in 1 .. 3 |-> 0]
  BY RegisterAssumption DEF Block, RegisterCount
<1>6. BytesFromRegisters(RegistersFromBytes(StatusBytes(Device!Blank))) = StatusBytes(Device!Blank)
  BY <1>1, StatusBytesType, BytesKept
<1>7. StatusIn(file) = StatusFromBytes(StatusBytes(Device!Blank))
  BY <1>3, <1>4, <1>5, <1>6 DEF StatusIn
<1> QED
  BY <1>1, <1>2, <1>7, StatusUnpacked

-----------------------------------------------------------------------------
(* Rounding.  A register is whole: what its opening is off by is at most   *)
(* half of the opening one register stands for.                            *)

LEMMA RoundedBounds ==
  ASSUME NEW num \in Int, NEW den \in Nat \ {0}
  PROVE  /\ Rounded(num, den) \in Int
         /\ 2 * (den * Rounded(num, den)) <= 2 * num + den
         /\ 2 * num + den < 2 * (den * Rounded(num, den)) + 2 * den
<1> DEFINE a == 2 * num + den
           b == 2 * den
           q == a \div b
<1>1. a \in Int /\ b \in Nat \ {0}
  OBVIOUS
<1>2. \A x \in Int, y \in Nat \ {0} : x \div y \in Int /\ y * (x \div y) <= x /\ x < y * (x \div y) + y
  OBVIOUS
<1> HIDE DEF a, b
<1>3. q \in Int /\ b * q <= a /\ a < b * q + b
  BY <1>1, <1>2
<1>4. Rounded(num, den) = q
  BY DEF Rounded, a, b
<1> HIDE DEF q
<1>5. b * q = 2 * (den * q)
  BY <1>3 DEF b
<1> QED
  BY <1>3, <1>4, <1>5 DEF a, b

(* c parts of O, in R registers from a on.                                 *)
LEMMA RegisterOfSpan ==
  ASSUME NEW a \in Int, NEW R \in Nat \ {0}, NEW O \in Nat \ {0}, NEW c \in 0 .. O
  PROVE  LET q == Rounded(a * O + c * R, O) IN
           /\ q - a \in 0 .. R
           /\ 2 * (c * R - (q - a) * O) <= O /\ 2 * ((q - a) * O - c * R) <= O
<1> DEFINE q == Rounded(a * O + c * R, O)
           k == q - a
<1>1. a * O \in Int /\ c * R \in Int /\ R * O \in Int /\ a * O + c * R \in Int
  OBVIOUS
<1>2. q \in Int /\ 2 * (O * q) <= 2 * (a * O + c * R) + O /\ 2 * (a * O + c * R) + O < 2 * (O * q) + 2 * O
  BY <1>1, RoundedBounds
<1> HIDE DEF q
<1>3. k \in Int /\ O * q = a * O + k * O /\ k * O \in Int
  BY <1>2
<1> HIDE DEF k
<1>4. 2 * (k * O) <= 2 * (c * R) + O /\ 2 * (c * R) < 2 * (k * O) + O
  <2>1. O * q \in Int
    BY <1>2
  <2> QED
    BY <1>1, <1>2, <1>3, <2>1
<1>5. 0 <= c * R /\ c * R <= R * O
  <2>1. \A x, y \in Nat : 0 <= x * y
    OBVIOUS
  <2>2. 0 <= c * R /\ 0 <= (O - c) * R
    BY <2>1
  <2>3. (O - c) * R = R * O - c * R
    OBVIOUS
  <2> QED
    BY <1>1, <2>2, <2>3
<1>6. 0 <= k
  <2> SUFFICES ASSUME k <= -1 PROVE FALSE
    BY <1>3
  <2>1. \A x \in Int, y \in Nat : x <= -1 => x * y <= -y
    OBVIOUS
  <2>2. k * O <= -O
    BY <1>3, <2>1
  <2> QED
    BY <1>1, <1>3, <1>4, <1>5, <2>2
<1>7. k <= R
  <2> SUFFICES ASSUME R + 1 <= k PROVE FALSE
    BY <1>3
  <2>1. \A x, z \in Int, y \in Nat : z + 1 <= x => z * y + y <= x * y
    OBVIOUS
  <2>2. R * O + O <= k * O
    BY <1>3, <2>1
  <2> QED
    BY <1>1, <1>3, <1>4, <1>5, <2>2
<1> QED
  BY <1>1, <1>3, <1>4, <1>6, <1>7 DEF k, q

(* There and back: the opening of the register is within half a step.      *)
LEMMA OpeningThereAndBack ==
  ASSUME NEW p \in ProfileType, NEW opening \in Int, Usable(p)
  PROVE  LET register == OpeningToRegister(opening, p)
             asked == RegisterRange(p) * Clamp(opening, p.minOpening, p.maxOpening) IN
           /\ register \in Byte
           /\ 2 * Distance(OpeningFromRegister(register, p), asked) <= OpeningRange(p)
<1> DEFINE a == p.openPosition
           R == RegisterRange(p)
           O == OpeningRange(p)
           c == O - Clamp(opening - p.minOpening, 0, O)
           q == OpeningToRegister(opening, p)
           k == q - a
           asked == R * Clamp(opening, p.minOpening, p.maxOpening)
<1>1. /\ a \in Byte /\ p.closedPosition \in Byte /\ p.minOpening \in Int /\ p.maxOpening \in Int
      /\ R = p.closedPosition - a /\ O = p.maxOpening - p.minOpening
  BY DEF ProfileType, RegisterRange, OpeningRange
<1>2. a \in Int /\ R \in Nat \ {0} /\ O \in Nat \ {0} /\ a + R <= 255 /\ 0 <= a
  <2>1. R > 0 /\ O > 0
    BY DEF Usable
  <2> HIDE DEF a, R, O
  <2> QED
    BY <1>1, <2>1 DEF Byte
<1>3. c \in 0 .. O
  <2> HIDE DEF O
  <2>1. opening - p.minOpening \in Int
    BY <1>1
  <2> QED
    BY <1>2, <2>1 DEF Clamp
<1>4. q = Rounded(a * O + c * R, O)
  BY DEF OpeningToRegister
<1>5. Clamp(opening, p.minOpening, p.maxOpening) = p.minOpening + (O - c)
  BY <1>1, <1>2 DEF Clamp
<1> HIDE DEF a, R, O, c, q
<1>6. k \in 0 .. R /\ 2 * (c * R - k * O) <= O /\ 2 * (k * O - c * R) <= O
  BY <1>2, <1>3, <1>4, RegisterOfSpan
<1>7. q \in Byte
  <2>1. q \in Int
    <3>1. a * O + c * R \in Int
      BY <1>2, <1>3
    <3> QED
      BY <1>2, <1>4, <3>1, RoundedBounds
  <2> QED
    BY <1>2, <1>6, <2>1 DEF Byte
<1>8. OpeningFromRegister(q, p) = p.minOpening * R + (R - k) * O
  <2>1. OpeningFromRegister(q, p) = p.minOpening * R + (R - Clamp(q - a, 0, R)) * O
    BY DEF OpeningFromRegister, a, R, O
  <2>2. Clamp(q - a, 0, R) = k
    BY <1>2, <1>6 DEF Clamp
  <2> QED
    BY <2>1, <2>2
<1> HIDE DEF k
<1>9. /\ p.minOpening * R \in Int /\ R * O \in Int /\ c * R \in Int /\ k * O \in Int
      /\ (R - k) * O = R * O - k * O
      /\ R * (p.minOpening + (O - c)) = p.minOpening * R + R * O - c * R
  <2>1. \A x, y, z, u \in Int :
          /\ x * y \in Int /\ (x - y) * z = x * z - y * z
          /\ x * (u + (y - z)) = u * x + x * y - z * x
    OBVIOUS
  <2>2. p.minOpening \in Int /\ R \in Int /\ O \in Int /\ c \in Int /\ k \in Int
    BY <1>1, <1>2, <1>3, <1>6
  <2> QED
    BY <2>1, <2>2
<1>10. asked = p.minOpening * R + R * O - c * R
  BY <1>5, <1>9
<1>11. OpeningFromRegister(q, p) = p.minOpening * R + R * O - k * O
  BY <1>8, <1>9
<1> HIDE DEF asked
<1>12. 2 * Distance(OpeningFromRegister(q, p), asked) <= O
  BY <1>2, <1>6, <1>9, <1>10, <1>11 DEF Distance
<1> QED
  BY <1>7, <1>12 DEF q, asked, R, O

LEMMA NormalizedThereAndBack ==
  ASSUME NEW value \in Int
  PROVE  LET register == NormalizedToRegister(value) IN
           /\ register \in Byte
           /\ 2 * Distance(NormalizedFromRegister(register), 255 * Clamp(value, 0, 1000)) <= 1000
<1> DEFINE c == Clamp(value, 0, 1000)
           q == NormalizedToRegister(value)
<1>1. c \in 0 .. 1000
  BY DEF Clamp
<1>2. q = Rounded(c * 255, 1000)
  BY DEF NormalizedToRegister
<1> HIDE DEF c, q
<1>3. c * 255 \in Int /\ 1000 \in Nat \ {0}
  BY <1>1
<1>4. q \in Int /\ 2 * (1000 * q) <= 2 * (c * 255) + 1000 /\ 2 * (c * 255) + 1000 < 2 * (1000 * q) + 2 * 1000
  <2> DEFINE num == c * 255
             den == 1000
  <2>1. num \in Int /\ den \in Nat \ {0} /\ q = Rounded(num, den)
    BY <1>2, <1>3
  <2> HIDE DEF num, den
  <2>2. /\ q \in Int /\ 2 * (den * q) <= 2 * num + den
        /\ 2 * num + den < 2 * (den * q) + 2 * den
    BY <2>1, RoundedBounds
  <2> QED
    BY <2>2 DEF num, den
<1>5. q \in Byte
  BY <1>1, <1>4 DEF Byte
<1>6. 2 * Distance(q * 1000, 255 * c) <= 1000
  BY <1>1, <1>4 DEF Distance
<1> QED
  BY <1>5, <1>6 DEF c, q, NormalizedFromRegister

LEMMA SpanRegister ==
  ASSUME NEW value \in Int, NEW low \in Int, NEW high \in Int, RegisterFromSpan(value, low, high) # None
  PROVE  RegisterFromSpan(value, low, high) \in Byte
<1> DEFINE O == high - low
           c == Clamp(value - low, 0, O)
           q == Rounded(c * 255, O)
<1>1. RegisterFromSpan(value, low, high) = q /\ O \in Nat \ {0}
  BY DEF RegisterFromSpan
<1>2. c \in 0 .. O
  BY <1>1 DEF Clamp
<1> HIDE DEF O, c
<1>3. Rounded(0 * O + c * 255, O) - 0 \in 0 .. 255
  <2> DEFINE a == 0
             R == 255
  <2>1. a \in Int /\ R \in Nat \ {0} /\ O \in Nat \ {0}
    BY <1>1
  <2> HIDE DEF a, R
  <2>2. Rounded(a * O + c * R, O) - a \in 0 .. R
    BY <1>2, <2>1, RegisterOfSpan
  <2> QED
    BY <2>2 DEF a, R
<1>4. 0 * O + c * 255 = c * 255
  BY <1>1, <1>2
<1>5. c * 255 \in Int
  BY <1>2
<1>6. q \in Int
  BY <1>1, <1>5, RoundedBounds
<1> QED
  BY <1>1, <1>3, <1>4, <1>6 DEF Byte

-----------------------------------------------------------------------------
(* The application.  Its command always lies on the register of what it    *)
(* asks for, and the images it reads carry the position they answer with.  *)
(* Once a move has seen its block carried, every exchange that comes after *)
(* carries it too.                                                         *)

AppInv ==
  /\ command \in CommandType /\ copy \in CommandType /\ profile \in ProfileType
  /\ waiting \in {"nothing", "counted", "exchange", "motion", "end"}

OnTheWire == flight # "idle" => copy.position = command.position

ImageInv ==
  /\ image.status.position = image.command.position
  /\ flight = "replied" => answer.position = copy.position
  /\ waiting \in {"motion", "end"} /\ ~ahead =>
       image.command.position = command.position /\ OnTheWire
  /\ waiting = "exchange" /\ ~ahead /\ fresh /\ Carries => OnTheWire

GoalInv ==
  /\ waiting # "nothing" => goal.of = "opening"
  /\ goal.of = "opening" =>
       /\ goal.at \in Int /\ Usable(profile)
       /\ waiting # "counted" => command.position = OpeningToRegister(goal.at, profile)
  /\ goal.of = "normalized" => goal.at \in Int /\ command.position = NormalizedToRegister(goal.at)
  /\ report # None =>
       /\ goal.of = "opening" /\ waiting = "nothing"
       /\ ~ahead => report = OpeningFromRegister(command.position, profile)

FakeInv == DeviceInv /\ AppInv /\ ImageInv /\ GoalInv

LEMMA FakeInvInit == FakeInit => FakeInv
<1> SUFFICES ASSUME FakeInit PROVE FakeInv
  OBVIOUS
<1>1. registers \in RegisterFile /\ StatusIn(registers) = Device!Blank /\ Device!Blank \in StatusType
  BY ZerosAreBlank DEF FakeInit
<1>2. DeviceInv
  BY <1>1 DEF FakeInit, DeviceInv
<1>3. command \in CommandType
  BY DEF FakeInit, DefaultCommand, CommandType, Byte
<1>4. AppInv
  BY <1>3, InputAssumption DEF FakeInit, AppInv
<1>5. image.status.position = 0 /\ image.command.position = 0
  BY <1>1 DEF FakeInit, DefaultCommand, Device!Blank
<1>6. ImageInv
  BY <1>5 DEF FakeInit, ImageInv
<1>7. GoalInv
  BY DEF FakeInit, GoalInv, Nowhere
<1> QED
  BY <1>2, <1>4, <1>6, <1>7 DEF FakeInv

(* The device stutters when its registers and the last answer stay.        *)
LEMMA DeviceIdle ==
  ASSUME DeviceInv, UNCHANGED <<deviceVars, returned>>
  PROVE  DeviceInv' /\ UNCHANGED <<StatusIn(registers), Unpacked>>
BY DEF DeviceInv, deviceVars, Unpacked

LEMMA ChangeKeepsInv ==
  ASSUME FakeInv, NEW c \in CommandType, NEW to, Change(c, to),
         to.of # "opening",
         to.of = "normalized" => to.at \in Int /\ c.position = NormalizedToRegister(to.at)
  PROVE  AppInv' /\ ImageInv' /\ GoalInv' /\ UNCHANGED <<deviceVars, returned>>
<1>1. /\ command' = c /\ goal' = to /\ waiting = "nothing" /\ waiting' = waiting
      /\ report' = None
      /\ UNCHANGED <<image, profile, flight, copy, answer>> /\ UNCHANGED <<deviceVars, returned>>
  BY DEF Change, cycleVars, lineVars, setUpVars
<1>2. AppInv'
  BY <1>1 DEF FakeInv, AppInv
<1>3. ImageInv'
  BY <1>1 DEF FakeInv, ImageInv
<1>4. GoalInv'
  BY <1>1 DEF GoalInv
<1> QED
  BY <1>1, <1>2, <1>3, <1>4

LEMMA PaceKeepsInv ==
  ASSUME FakeInv, NEW speed \in Int, NEW effort \in Int, Pace(speed, effort)
  PROVE  AppInv' /\ ImageInv' /\ GoalInv' /\ UNCHANGED <<deviceVars, returned>>
<1> DEFINE c == [command EXCEPT !.speed = SpeedToRegister(speed, profile),
                                !.force = EffortToRegister(effort)]
<1>1. SpeedToRegister(speed, profile) \in Byte
  <2>1. profile.minSpeed \in Int /\ profile.maxSpeed \in Int
    BY DEF FakeInv, AppInv, ProfileType
  <2> QED
    BY <2>1, SpanRegister DEF Pace, SpeedToRegister
<1>2. EffortToRegister(effort) \in Byte
  <2>1. 0 \in Int /\ 1000 \in Int
    OBVIOUS
  <2> QED
    BY <2>1, SpanRegister DEF Pace, EffortToRegister
<1>3. c \in CommandType
  BY <1>1, <1>2 DEF FakeInv, AppInv, CommandType
<1>4. Change(c, Nowhere)
  BY DEF Pace
<1> HIDE DEF c
<1> QED
  BY <1>3, <1>4, ChangeKeepsInv DEF Nowhere

LEMMA MoveNormalizedKeepsInv ==
  ASSUME FakeInv, NEW value \in Int, MoveNormalized(value)
  PROVE  AppInv' /\ ImageInv' /\ GoalInv' /\ UNCHANGED <<deviceVars, returned>>
<1> DEFINE c == [command EXCEPT !.position = NormalizedToRegister(value), !.goTo = TRUE]
           to == [of |-> "normalized", at |-> value]
<1>1. NormalizedToRegister(value) \in Byte
  BY NormalizedThereAndBack
<1>2. c \in CommandType /\ c.position = NormalizedToRegister(value)
  BY <1>1 DEF FakeInv, AppInv, CommandType
<1>3. Change(c, to)
  BY DEF MoveNormalized
<1>4. to.of = "normalized" /\ to.at = value
  OBVIOUS
<1> HIDE DEF c, to
<1> QED
  BY <1>2, <1>3, <1>4, ChangeKeepsInv

LEMMA MoveToKeepsInv ==
  ASSUME FakeInv, NEW opening \in Int, MoveTo(opening)
  PROVE  AppInv' /\ ImageInv' /\ GoalInv' /\ UNCHANGED <<deviceVars, returned>>
<1>1. /\ goal' = [of |-> "opening", at |-> opening] /\ waiting' = "counted" /\ report' = None
      /\ UNCHANGED <<command, image, profile, flight, copy, answer>>
      /\ UNCHANGED <<deviceVars, returned>>
  BY DEF MoveTo, cycleVars, lineVars, setUpVars
<1>2. Usable(profile)
  BY DEF MoveTo, OpeningToRegister
<1>3. AppInv' /\ ImageInv'
  BY <1>1 DEF FakeInv, AppInv, ImageInv
<1>4. GoalInv'
  BY <1>1, <1>2 DEF GoalInv
<1> QED
  BY <1>1, <1>3, <1>4

(* A record that already carries the move's block is published before the  *)
(* move sets it, or after: then no older block is left on the wire.        *)
LEMMA CommandMoveKeepsInv ==
  ASSUME FakeInv, CommandMove
  PROVE  AppInv' /\ ImageInv' /\ GoalInv' /\ UNCHANGED <<deviceVars, returned>>
<1> DEFINE c == [command EXCEPT !.position = OpeningToRegister(goal.at, profile), !.goTo = TRUE]
<1>1. /\ waiting = "counted" /\ waiting' = "exchange" /\ command' = c
      /\ ahead' = (fresh /\ image.command = c)
      /\ UNCHANGED <<goal, report, fresh, image, profile, flight, copy, answer>>
      /\ UNCHANGED <<deviceVars, returned>>
  BY DEF CommandMove, cycleVars, lineVars, setUpVars
<1>2. goal.of = "opening" /\ goal.at \in Int /\ Usable(profile) /\ report = None
  BY <1>1 DEF FakeInv, GoalInv
<1>3. OpeningToRegister(goal.at, profile) \in Byte
  BY <1>2, OpeningThereAndBack DEF FakeInv, AppInv
<1>4. c \in CommandType /\ c.position = OpeningToRegister(goal.at, profile)
  BY <1>3 DEF FakeInv, AppInv, CommandType
<1> HIDE DEF c
<1>5. AppInv'
  BY <1>1, <1>4 DEF FakeInv, AppInv
<1>6. ImageInv'
  BY <1>1 DEF FakeInv, ImageInv, Carries
<1>7. GoalInv'
  BY <1>1, <1>2, <1>4 DEF GoalInv
<1> QED
  BY <1>1, <1>5, <1>6, <1>7

LEMMA MakeKeepsInv ==
  ASSUME FakeInv, NEW frequency, MakeFakeGripper(frequency)
  PROVE  AppInv' /\ ImageInv' /\ GoalInv' /\ UNCHANGED <<deviceVars, returned>>
BY DEF MakeFakeGripper, appVars, cycleVars, lineVars, FakeInv, AppInv, ImageInv, GoalInv, OnTheWire,
       Carries

LEMMA WaiterKeepsInv ==
  ASSUME FakeInv, CommandCarried \/ MotionSeen \/ MotionEnds \/ WaitTimesOut
  PROVE  AppInv' /\ ImageInv' /\ GoalInv' /\ UNCHANGED <<deviceVars, returned>>
<1>1. /\ UNCHANGED <<command, goal, ahead, image, flight, copy, answer, profile>>
      /\ UNCHANGED <<deviceVars, returned>> /\ ~fresh'
  BY DEF CommandCarried, MotionSeen, MotionEnds, WaitSees, WaitTimesOut, cycleVars, lineVars, setUpVars
<1>2. waiting \notin {"nothing", "counted"} /\ waiting' \in {"nothing", "exchange", "motion", "end"}
  BY DEF CommandCarried, MotionSeen, MotionEnds, WaitSees, WaitTimesOut, FakeInv, AppInv
<1>3. AppInv'
  BY <1>1, <1>2 DEF FakeInv, AppInv
<1>4. waiting' \in {"motion", "end"} /\ ~ahead =>
        image.command.position = command.position /\ OnTheWire
  BY DEF CommandCarried, MotionSeen, MotionEnds, WaitSees, WaitTimesOut, FakeInv, ImageInv, Carries
<1>5. ImageInv'
  BY <1>1, <1>4 DEF FakeInv, ImageInv, OnTheWire
<1>6. report' # None =>
        \/ report' = report
        \/ waiting = "end" /\ waiting' = "nothing"
           /\ report' = OpeningFromRegister(image.status.position, profile)
  BY DEF CommandCarried, MotionSeen, MotionEnds, WaitSees, WaitTimesOut, Moving
<1>7. waiting = "end" /\ ~ahead => image.status.position = command.position
  BY DEF FakeInv, ImageInv
<1>8. GoalInv'
  BY <1>1, <1>2, <1>6, <1>7 DEF FakeInv, GoalInv
<1> QED
  BY <1>1, <1>3, <1>5, <1>8

LEMMA CopyKeepsInv ==
  ASSUME FakeInv, CopyCommand
  PROVE  AppInv' /\ ImageInv' /\ GoalInv' /\ UNCHANGED <<deviceVars, returned>>
BY DEF CopyCommand, appVars, lineVars, setUpVars, FakeInv, AppInv, ImageInv, GoalInv, OnTheWire, Carries

LEMMA ExchangeKeepsInv ==
  ASSUME FakeInv, ExchangeCommand
  PROVE  DeviceInv' /\ AppInv' /\ ImageInv' /\ GoalInv' /\ Device!Exchange
<1>1. /\ copy \in CommandType /\ DeviceInv /\ ExchangeBlocks(copy)
      /\ flight = "exchanging" /\ flight' = "replied" /\ answer' = AsStatus(returned'[2])
      /\ UNCHANGED <<command, goal, waiting, report, ahead, copy, image, fresh, profile>>
  BY DEF FakeInv, AppInv, ExchangeCommand, appVars, setUpVars
<1>2. /\ DeviceInv' /\ StatusIn(registers') = Device!Obeyed(copy)
      /\ AsStatus(returned'[2]).position = copy.position
      /\ Unpacked' = <<"status", StatusIn(registers')>>
  BY <1>1, ExchangeObeyed
<1>3. AppInv' /\ GoalInv'
  BY <1>1 DEF FakeInv, AppInv, GoalInv
<1>4. ImageInv'
  BY <1>1, <1>2 DEF FakeInv, ImageInv, OnTheWire, Carries
<1>5. packed' = copy
  BY <1>1 DEF ExchangeBlocks, WriteCommandAndRead
<1>6. Device!Exchange
  BY <1>2, <1>5 DEF Device!Exchange, Device!Obeys
<1> QED
  BY <1>2, <1>3, <1>4, <1>6

LEMMA PublishKeepsInv ==
  ASSUME FakeInv, Publish
  PROVE  AppInv' /\ ImageInv' /\ GoalInv' /\ UNCHANGED <<deviceVars, returned>>
<1>1. /\ flight = "replied" /\ flight' = "idle"
      /\ image'.command = copy /\ image'.status = answer
      /\ UNCHANGED <<command, goal, waiting, report, ahead, copy, answer, profile>>
      /\ UNCHANGED <<deviceVars, returned>>
  BY DEF Publish, appVars, lineVars, setUpVars
<1>2. AppInv' /\ GoalInv'
  BY <1>1 DEF FakeInv, AppInv, GoalInv
<1>3. ImageInv'
  BY <1>1 DEF FakeInv, ImageInv, OnTheWire
<1> QED
  BY <1>1, <1>2, <1>3

LEMMA OtherClientObeyed ==
  ASSUME FakeInv, OtherClient
  PROVE  /\ DeviceInv' /\ AppInv' /\ ImageInv' /\ GoalInv'
         /\ Device!Write \/ Device!Read \/ Device!Refuse \/ Device!ReadCommands
<1>1. AppInv' /\ ImageInv' /\ GoalInv'
  BY DEF OtherClient, appVars, cycleVars, setUpVars, FakeInv, AppInv, ImageInv, GoalInv, OnTheWire,
     Carries
<1>2. DeviceInv /\ registers \in RegisterFile
  BY DEF FakeInv, DeviceInv
<1>3. ASSUME UNCHANGED deviceVars
      PROVE  DeviceInv' /\ registers' = registers /\ StatusIn(registers') = StatusIn(registers)
  BY <1>2, <1>3 DEF DeviceInv, deviceVars
<1>4. CASE ReadStatus
  <2>1. returned' = <<"registers", ReadOut(registers, StatusAddress, Documented)>> /\ UNCHANGED deviceVars
    BY <1>4, Ranges DEF ReadStatus, ReadHolding
  <2>2. Len(returned'[2]) = Documented /\ AsStatus(returned'[2]) = StatusIn(registers)
    BY <1>2, <2>1, StatusRead
  <2>3. Unpacked' = <<"status", StatusIn(registers)>>
    BY <2>1, <2>2 DEF Unpacked
  <2>4. Device!Read
    BY <1>3, <2>1, <2>3 DEF Device!Read
  <2> QED
    BY <1>1, <1>3, <2>1, <2>4
<1>5. CASE ReadHolding(CommandAddress, BlockRegisters)
  <2>1. returned' = <<"registers", ReadOut(registers, CommandAddress, BlockRegisters)>> /\ UNCHANGED deviceVars
    BY <1>5, Ranges DEF ReadHolding
  <2>2. Len(returned'[2]) = BlockRegisters /\ \A i \in DOMAIN returned'[2] : returned'[2][i] = 0
    BY <2>1, CommandsReadAsZeros
  <2>3. Unpacked' = returned'
    BY <2>2, RegisterAssumption DEF Unpacked
  <2>4. Device!ReadCommands
    BY <1>3, <2>1, <2>2, <2>3 DEF Device!ReadCommands
  <2> QED
    BY <1>1, <1>3, <2>1, <2>4
<1>6. ASSUME returned' = <<"refused">>, UNCHANGED deviceVars
      PROVE  DeviceInv' /\ Device!Refuse
  <2>1. Unpacked' = <<"refused">>
    BY <1>6 DEF Unpacked
  <2> QED
    BY <1>3, <1>6, <2>1 DEF Device!Refuse
<1>7. CASE ReadHolding(StatusAddress, BlockRegisters + 1)
  BY <1>1, <1>6, <1>7, Ranges DEF ReadHolding, Refused
<1>8. CASE WriteMultiple(RegisterCount - 1, <<0, 0>>)
  <2>1. ~ContainsRange(RegisterCount - 1, Len(<<0, 0>>))
    BY Ranges
  <2> QED
    BY <1>1, <1>6, <1>8, <2>1 DEF WriteMultiple, Refused
<1>9. ASSUME NEW c \in Commands, WriteCommand(c) PROVE DeviceInv' /\ Device!Write
  <2>1. c \in CommandType
    BY InputAssumption
  <2>2. DeviceInv' /\ StatusIn(registers') = Device!Obeyed(c) /\ Unpacked' = <<"done">>
    BY <1>2, <1>9, <2>1, WriteCommandObeyed
  <2>3. packed' = c
    BY <1>9 DEF WriteCommand
  <2> QED
    BY <2>2, <2>3 DEF Device!Write, Device!Obeys
<1>10. ASSUME NEW c \in Commands,
              WriteCommandAndRead(c, RegisterCount, 1)
       PROVE  DeviceInv' /\ Device!Refuse
  <2>1. c \in CommandType
    BY InputAssumption
  <2>2. DeviceInv' /\ StatusIn(registers') = Device!Obeyed(c) /\ Unpacked' = <<"refused">>
    BY <1>2, <1>10, <2>1, HalfRefused
  <2>3. packed' = c
    BY <1>10 DEF WriteCommandAndRead
  <2> QED
    BY <2>2, <2>3 DEF Device!Refuse, Device!Obeys
<1> QED
  BY <1>1, <1>4, <1>5, <1>7, <1>8, <1>9, <1>10 DEF OtherClient

LEMMA StageKeepsInv ==
  ASSUME FakeInv, NEW fault \in Faults, StageFault(fault)
  PROVE  DeviceInv' /\ AppInv' /\ ImageInv' /\ GoalInv' /\ Device!Stage(fault)
<1>1. AppInv' /\ ImageInv' /\ GoalInv'
  BY DEF StageFault, appVars, cycleVars, setUpVars, FakeInv, AppInv, ImageInv, GoalInv, OnTheWire,
     Carries
<1>2. /\ DeviceInv' /\ Unpacked' = Unpacked
      /\ StatusIn(registers') = [StatusIn(registers) EXCEPT !.fault = fault]
  BY StagedWritten DEF FakeInv
<1> QED
  BY <1>1, <1>2 DEF Device!Stage

(* Every step keeps the invariant and is one of the device, or none.       *)
LEMMA FakeStep ==
  ASSUME FakeInv, [FakeNext]_fakeVars
  PROVE  FakeInv' /\ [Device!Next]_(Device!vars)
<1>1. ASSUME AppInv' /\ ImageInv' /\ GoalInv' /\ UNCHANGED <<deviceVars, returned>>
      PROVE  FakeInv' /\ [Device!Next]_(Device!vars)
  BY <1>1, DeviceIdle DEF FakeInv, Device!vars
<1>2. ASSUME NEW frequency \in Frequencies, MakeFakeGripper(frequency)
      PROVE  FakeInv' /\ [Device!Next]_(Device!vars)
  BY <1>1, <1>2, MakeKeepsInv
<1>3. ASSUME NEW c \in Commands, SetCommand(c) PROVE FakeInv' /\ [Device!Next]_(Device!vars)
  <2>1. c \in CommandType /\ Change(c, Nowhere)
    BY <1>3, InputAssumption DEF SetCommand
  <2>2. AppInv' /\ ImageInv' /\ GoalInv' /\ UNCHANGED <<deviceVars, returned>>
    BY <2>1, ChangeKeepsInv DEF Nowhere
  <2> QED
    BY <1>1, <2>2
<1>4. ASSUME NEW pace \in Paces, Pace(pace[1], pace[2])
      PROVE  FakeInv' /\ [Device!Next]_(Device!vars)
  <2>1. pace[1] \in Int /\ pace[2] \in Int
    BY InputAssumption
  <2> QED
    BY <1>1, <1>4, <2>1, PaceKeepsInv
<1>5. ASSUME NEW opening \in Openings, MoveTo(opening) \/ MoveNormalized(opening)
      PROVE  FakeInv' /\ [Device!Next]_(Device!vars)
  <2>1. opening \in Int
    BY InputAssumption
  <2> QED
    BY <1>1, <1>5, <2>1, MoveToKeepsInv, MoveNormalizedKeepsInv
<1>6. CASE CommandMove \/ CommandCarried \/ MotionSeen \/ MotionEnds \/ WaitTimesOut
  BY <1>1, <1>6, CommandMoveKeepsInv, WaiterKeepsInv
<1>7. CASE CopyCommand \/ ExchangeCommand \/ Publish
  <2>1. CASE ExchangeCommand
    BY <2>1, ExchangeKeepsInv DEF FakeInv, Device!Next
  <2> QED
    BY <1>1, <1>7, <2>1, CopyKeepsInv, PublishKeepsInv
<1>8. CASE OtherClient
  BY <1>8, OtherClientObeyed DEF FakeInv, Device!Next
<1>9. ASSUME NEW fault \in Faults, StageFault(fault)
      PROVE  FakeInv' /\ [Device!Next]_(Device!vars)
  BY <1>9, StageKeepsInv DEF FakeInv, Device!Next
<1>10. CASE UNCHANGED fakeVars
  BY <1>1, <1>10 DEF fakeVars, lineVars, appVars, cycleVars, setUpVars, FakeInv, AppInv, ImageInv,
     GoalInv, OnTheWire, Carries
<1> QED
  BY <1>2, <1>3, <1>4, <1>5, <1>6, <1>7, <1>8, <1>9, <1>10 DEF FakeNext

LEMMA FakeInvAlways == FakeSpec => []FakeInv
<1>1. FakeInit => FakeInv
  BY FakeInvInit
<1>2. FakeInv /\ [FakeNext]_fakeVars => FakeInv'
  BY FakeStep
<1> QED
  BY <1>1, <1>2, PTL DEF FakeSpec

(* The fake is the device of its header: packed into bytes and registers,  *)
(* with rACT's edges tracked and accesses refused, every transaction is    *)
(* one of the typed gripper, and a staged fault lasts until rACT is        *)
(* cleared (fake/register_model.cpp:58 and :96).                           *)
THEOREM FakeActsAsDevice == FakeSpec => ActsAsDevice
<1>1. FakeInit => Device!Init
  <2> SUFFICES ASSUME FakeInit PROVE Device!Init
    OBVIOUS
  <2>1. StatusIn(registers) = Device!Blank
    BY ZerosAreBlank DEF FakeInit
  <2>2. Unpacked = <<"nothing">>
    BY DEF FakeInit, Unpacked
  <2> QED
    BY <2>1, <2>2 DEF Device!Init
<1>2. FakeInv /\ [FakeNext]_fakeVars => [Device!Next]_(Device!vars)
  BY FakeStep
<1> QED
  BY <1>1, <1>2, FakeInvAlways, PTL DEF FakeSpec, ActsAsDevice, Device!Spec

(* A move ends at most half a register from what it asked for: whatever    *)
(* others write, whichever waits time out, however often the exchange runs *)
(* and whatever block is on the wire when the move is commanded, the       *)
(* exchange taken for a move's end carried its command (units.cpp:60 and   *)
(* :71, wait.cpp:18, gripper_events.cpp:106), unless an equal block of an  *)
(* earlier command was published between the move's count and its own.     *)
THEOREM MovesEndWhereAsked == FakeSpec => []MoveEndsWhereAsked
<1>1. FakeInv => MoveEndsWhereAsked
  <2> SUFFICES ASSUME FakeInv PROVE MoveEndsWhereAsked
    OBVIOUS
  <2>1. ASSUME report # None, ~ahead
        PROVE  2 * Distance(report, RegisterRange(profile)
                              * Clamp(goal.at, profile.minOpening, profile.maxOpening))
                 <= OpeningRange(profile)
    <3>1. /\ goal.at \in Int /\ Usable(profile) /\ profile \in ProfileType
          /\ report = OpeningFromRegister(OpeningToRegister(goal.at, profile), profile)
      BY <2>1 DEF FakeInv, AppInv, GoalInv
    <3> QED
      BY <3>1, OpeningThereAndBack
  <2>2. ASSUME goal.of = "normalized", image.command = command
        PROVE  2 * Distance(NormalizedFromRegister(image.status.position),
                            255 * Clamp(goal.at, 0, 1000)) <= 1000
    <3>1. goal.at \in Int /\ image.status.position = NormalizedToRegister(goal.at)
      BY <2>2 DEF FakeInv, ImageInv, GoalInv
    <3> QED
      BY <3>1, NormalizedThereAndBack
  <2> QED
    BY <2>1, <2>2 DEF MoveEndsWhereAsked
<1> QED
  BY <1>1, FakeInvAlways, PTL
=============================================================================
