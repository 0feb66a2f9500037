------------------------ MODULE OperandReadBackProofs -------------------------
(***************************************************************************)
(* One operand, for every word and every place: the operand encoder writes *)
(* bytes, the decoder reads them as an operand that stands for the same;   *)
(* the renderer shows what was decoded, the parser reads it as the same.   *)
(***************************************************************************)
EXTENDS Assembler, StatementAtProofs

\* A set of natural numbers has a least one.
LEMMA LeastNat ==
  ASSUME NEW S, S \subseteq Nat, S # {}
  PROVE  \E n \in S : \A m \in S : n <= m
  <1> DEFINE R == OpToRel(<, Nat)
  <1>1. IsWellFoundedOn(R, Nat)
    BY NatLessThanWellFounded
  <1>2. \A x, y \in Nat : x < y => <<x, y>> \in R
    BY DEF OpToRel
  <1> HIDE DEF R
  <1>3. PICK n \in S : \A m \in S : <<m, n>> \notin R
    <2>1. S \subseteq Nat /\ S # {}
      OBVIOUS
    <2> QED BY <1>1, <2>1, WFMin
  <1>4. \A m \in S : n <= m
    <2> SUFFICES ASSUME NEW m \in S, ~(n <= m) PROVE FALSE
      OBVIOUS
    <2>1. m \in Nat /\ n \in Nat /\ m < n
      OBVIOUS
    <2> QED BY <1>2, <1>3, <2>1
  <1> QED BY <1>4

LEMMA ByteLengthTyped ==
  ASSUME NEW w \in Word
  PROVE  /\ ByteLength(w) \in 1..8
         /\ w \subseteq 0..(8 * ByteLength(w) - 1)
         /\ \A n \in 1..8 : w \subseteq 0..(8 * n - 1) => ByteLength(w) <= n
  <1> DEFINE S == {n \in 1..8 : w \subseteq 0..(8 * n - 1)}
  <1>1. 8 \in S
    BY DEF Word, Bits64
  <1>2. S \subseteq Nat /\ S # {} /\ S \subseteq 1..8
    BY <1>1
  <1>3. ByteLength(w) = CHOOSE n \in S : \A m \in S : n <= m
    BY DEF ByteLength, Min
  <1>4. \A n \in 1..8 : n \in S <=> w \subseteq 0..(8 * n - 1)
    OBVIOUS
  <1> HIDE DEF S
  <1>5. \E n \in S : \A m \in S : n <= m
    BY <1>2, LeastNat
  <1>6. ByteLength(w) \in S /\ \A m \in S : ByteLength(w) <= m
    BY <1>3, <1>5
  <1> QED BY <1>2, <1>4, <1>6

LEMMA LowBytesTyped ==
  ASSUME NEW w, NEW n \in 1..8
  PROVE  LowBytes(w, n) \in Seq(Byte) /\ Len(LowBytes(w, n)) = n
  <1>1. \A i \in 1..n : 8 * (n - i) \in Nat
    OBVIOUS
  <1>2. \A i \in 1..n : ByteAt(w, 8 * (n - i)) \in Byte
    BY <1>1, ByteAtIsByte DEF Byte
  <1>3. n \in Nat /\ LowBytes(w, n) \in [1..n -> Byte]
    BY <1>2 DEF LowBytes
  <1> HIDE DEF Byte
  <1> QED BY <1>3

LEMMA HeaderTyped ==
  \A a, b, c : Header(a, b, c) \in Byte
  BY ByteAtIsByte DEF Header, Byte

LEMMA NumbersTyped ==
  /\ \A w \in Word : WriteOffset(w) \in Seq(Byte) /\ Len(WriteOffset(w)) \in 1..8
  /\ \A n, f : WriteSlotNo(n, f) \in Seq(Byte) /\ Len(WriteSlotNo(n, f)) \in 1..8
  /\ \A n, a : \A l \in WritePtrNo(n, a) : l \in Seq(Byte) /\ Len(l) \in 1..2
  <1>1. ASSUME NEW w \in Word
        PROVE  WriteOffset(w) \in Seq(Byte) /\ Len(WriteOffset(w)) \in 1..8
    BY LowBytesTyped, ByteLengthTyped DEF WriteOffset, BigEndianOf
  <1>2. ASSUME NEW n, NEW f
        PROVE  WriteSlotNo(n, f) \in Seq(Byte) /\ Len(WriteSlotNo(n, f)) \in 1..8
    <2>1. ShiftLeft(Widened(n), 2) \in Word
      BY WordOperations
    <2> QED BY <2>1, LowBytesTyped, ByteLengthTyped DEF WriteSlotNo
  <1>3. ASSUME NEW n, NEW a, NEW l \in WritePtrNo(n, a)
        PROVE  l \in Seq(Byte) /\ Len(l) \in 1..2
    <2>1. PICK k \in 1..2 : l = LowBytes(ShiftLeft(Widened(n), 3) \cup BitsOf(a), k)
      BY DEF WritePtrNo
    <2>2. k \in 1..8
      OBVIOUS
    <2> QED BY <2>1, <2>2, LowBytesTyped
  <1> QED BY <1>1, <1>2, <1>3
-----------------------------------------------------------------------------
(* What the encoders make of an operand that the parser read: bytes.       *)
PartKinds == {"imm", "mem", "db", "slot", "ptr", "type", "cond"}

\* What an encoder needs of an operand: words where it takes its numbers from.
Numbered(acc) == acc.value \in Word /\ acc.offset \in Word

Encodable(acc) ==
  /\ acc.kind \in PartKinds \cup {"indirect"} /\ Numbered(acc)
  /\ acc.kind = "indirect" =>
         /\ Numbered(acc.sub[2]) /\ acc.sub[2].kind \in {"imm", "slot"}
         /\ acc.sub[1].kind = "ptr"

LEMMA WrittenTyped ==
  ASSUME NEW dt, NEW offset \in Word
  PROVE  Written(dt, offset) \subseteq Word
  <1>1. ShiftRight(offset, 3) \in Word
    BY WordOperations
  <1> QED BY <1>1 DEF Written

\* A byte in front of bytes.
LEMMA ByteFirst ==
  ASSUME NEW b \in Byte, NEW c \in Byte, NEW s \in Seq(Byte)
  PROVE  /\ <<b>> \in Seq(Byte) /\ <<b, c>> \in Seq(Byte)
         /\ <<b>> \o s \in Seq(Byte) /\ <<b, c>> \o s \in Seq(Byte)
  <1> HIDE DEF Byte
  <1>1. <<b>> \in Seq(Byte) /\ <<b, c>> \in Seq(Byte)
    OBVIOUS
  <1> QED BY <1>1

LEMMA ImmediateEncoded ==
  ASSUME NEW acc, Numbered(acc), NEW type, NEW mode
  PROVE  ImmediateTyped(acc, type, mode) \in Seq(Byte)
  <1>1. ASSUME NEW v \in Word
        PROVE  PositiveImmediate(v) \in Seq(Byte)
    <2>1. ByteAt(v, 0) \in Byte
      BY ByteAtIsByte DEF Byte
    <2>2. 32 + ByteLength(v) - 1 \in Byte
      BY ByteLengthTyped DEF Byte
    <2>3. BigEndianOf(v) \in Seq(Byte)
      BY NumbersTyped DEF WriteOffset
    <2> QED BY <2>1, <2>2, <2>3, ByteFirst DEF PositiveImmediate
  <1>2. acc.value \in Word /\ BoolValue(acc) \in Word
    BY WordOperations DEF Numbered, BoolValue
  <1>3. <<3>> \in Seq(Byte)
    BY DEF Byte
  <1> QED BY <1>1, <1>2, <1>3 DEF ImmediateTyped

LEMMA MemoryEncoded ==
  ASSUME NEW acc, Numbered(acc), NEW force
  PROVE  EncodeMemory(acc, force) \subseteq Seq(Byte)
  <1>1. Written(acc.dt, acc.offset) \subseteq Word
    BY WrittenTyped DEF Numbered
  <1>2. AddressCode(acc.area) \subseteq Byte
    BY DEF AddressCode, Byte
  <1>3. ASSUME NEW bit, NEW off \in Word, NEW c \in Byte
        PROVE  AddressForm(bit, off, c) \in Seq(Byte)
    BY <1>3, NumbersTyped, HeaderTyped, ByteFirst DEF AddressForm
  <1>4. ASSUME NEW bit, NEW off \in Word, NEW c
        PROVE  DirectForm(bit, off, c) \in Seq(Byte)
    BY <1>4, NumbersTyped, HeaderTyped, ByteFirst DEF DirectForm
  <1> HIDE DEF Byte
  <1> QED BY <1>1, <1>2, <1>3, <1>4 DEF EncodeMemory

LEMMA NativeEncoded ==
  ASSUME NEW acc
  PROVE  EncodeNative(acc) \subseteq Seq(Byte)
  <1>1. ASSUME NEW c \in DirectCode(acc.area)
        PROVE  <<8 + c>> \in Seq(Byte)
    <2>1. c \in 1..7
      BY DEF DirectCode
    <2> QED BY <2>1 DEF Byte
  <1>2. ASSUME NEW c, NEW a, NEW b
        PROVE  <<Header(64, a, b)>> \o WriteSlotNo(acc.number, c) \in Seq(Byte)
    BY <1>2, NumbersTyped, HeaderTyped, ByteFirst
  <1>3. \A loc, c : SlotForm(loc, WriteSlotNo(acc.number, c)) \in Seq(Byte)
    BY <1>2 DEF SlotForm
  <1>4. CASE acc.kind = "ptr" /\ acc.scope = Scope.NativeSystem
    <2>1. EncodeNative(acc) = {<<8 + c>> : c \in DirectCode(acc.area)}
      BY <1>4 DEF EncodeNative
    <2> QED BY <1>1, <2>1
  <1>5. CASE ~(acc.kind = "ptr" /\ acc.scope = Scope.NativeSystem)
    <2> SUFFICES ASSUME NEW x \in EncodeNative(acc) PROVE x \in Seq(Byte)
      OBVIOUS
    <2>1. \E loc, c : x = SlotForm(loc, WriteSlotNo(acc.number, c))
      BY <1>5 DEF EncodeNative
    <2> QED BY <1>3, <2>1
  <1> QED BY <1>4, <1>5

LEMMA DbEncoded ==
  ASSUME NEW acc, Numbered(acc)
  PROVE  EncodeDb(acc) \subseteq Seq(Byte)
  <1>1. Written(acc.dt, acc.offset) \subseteq Word
    BY WrittenTyped DEF Numbered
  <1>2. ASSUME NEW bit, NEW off \in Word, NEW c
        PROVE  DbForm(bit, WriteSlotNo(acc.number, c), off) \in Seq(Byte)
    <2> DEFINE no == WriteSlotNo(acc.number, c)
    <2>1. no \in Seq(Byte) /\ WriteOffset(off) \in Seq(Byte)
      BY <1>2, NumbersTyped
    <2> HIDE DEF no
    <2>2. \A a, b, d : <<Header(a, b, d)>> \o no \in Seq(Byte)
      BY <2>1, HeaderTyped, ByteFirst
    <2>3. \A s, t \in Seq(Byte) : s \o t \in Seq(Byte)
      <3> HIDE DEF Byte
      <3> QED OBVIOUS
    <2> QED BY <2>1, <2>2, <2>3 DEF DbForm, no
  <1> QED BY <1>1, <1>2 DEF EncodeDb

LEMMA IndirectEncoded ==
  ASSUME NEW acc, Encodable(acc), acc.kind = "indirect", NEW type
  PROVE  EncodeIndirect(acc, type) \subseteq Seq(Byte)
  <1> DEFINE base == acc.sub[1]
             off  == acc.sub[2]
             ptrs == WritePtrNo(base.number, IF base.scope = Scope.NativeBlock THEN 1 ELSE 0)
  <1>1. off.value \in Word /\ off.kind \in {"imm", "slot"}
    BY DEF Encodable, Numbered
  <1>2. ASSUME NEW form, NEW l \in ptrs, NEW m \in Nat
        PROVE  <<Header(form, 4 * (Len(l) - 1), (m - 1) % 4)>> \o l \in Seq(Byte)
    BY <1>2, NumbersTyped, HeaderTyped, ByteFirst
  <1>3. ASSUME NEW s \in Seq(Byte), NEW t \in Seq(Byte)
        PROVE  s \o t \in Seq(Byte)
    <2> HIDE DEF Byte
    <2> QED OBVIOUS
  <1>4. Written(type, off.value) \subseteq Word
    BY <1>1, WrittenTyped
  <1>5. ASSUME NEW l \in ptrs, NEW c
        PROVE  <<Header(224, 4 * (Len(l) - 1), (Len(WriteSlotNo(off.number, c)) - 1) % 4)>>
                   \o l \o WriteSlotNo(off.number, c) \in Seq(Byte)
    <2>1. Len(WriteSlotNo(off.number, c)) \in Nat /\ WriteSlotNo(off.number, c) \in Seq(Byte)
      BY NumbersTyped
    <2> QED BY <1>2, <1>3, <2>1
  <1>6. ASSUME NEW l \in ptrs, NEW o \in Word, NEW form
        PROVE  <<Header(form, 4 * (Len(l) - 1), (ByteLength(o) - 1) % 4)>>
                   \o l \o WriteOffset(o) \in Seq(Byte)
    <2>1. ByteLength(o) \in Nat /\ WriteOffset(o) \in Seq(Byte)
      <3>1. ByteLength(o) \in 1..8
        BY <1>6, ByteLengthTyped
      <3>2. WriteOffset(o) \in Seq(Byte)
        BY <1>6, NumbersTyped
      <3> QED BY <3>1, <3>2
    <2>2. <<Header(form, 4 * (Len(l) - 1), (ByteLength(o) - 1) % 4)>> \o l \in Seq(Byte)
      BY <1>2, <1>6, <2>1
    <2> QED BY <1>3, <2>1, <2>2
  <1> DEFINE bit == DirectBit(type, off.value)
             head(form, l, m) == <<Header(form, 4 * (Len(l) - 1), (m - 1) % 4)>>
             withSlot(l, no)  == head(224, l, Len(no)) \o l \o no
             withNumber(l, o) == head(IF bit THEN 240 ELSE 248, l, ByteLength(o))
                                 \o l \o WriteOffset(o)
             slots(l) == {withSlot(l, WriteSlotNo(off.number, c)) : c \in ScopeCode(off.scope)}
             none(l)  == {head(232, l, 1) \o l}
             numbers(l) == {withNumber(l, o) : o \in Written(type, off.value)}
  <1>7. EncodeIndirect(acc, type) =
            UNION {CASE off.kind = "slot" -> slots(l)
                     [] off.kind = "imm" /\ off.value = {} -> none(l)
                     [] OTHER -> numbers(l) : l \in ptrs}
    BY Zenon DEF EncodeIndirect
  <1>8. \A l \in ptrs : /\ \A c : withSlot(l, WriteSlotNo(off.number, c)) \in Seq(Byte)
                        /\ \A o \in Word : withNumber(l, o) \in Seq(Byte)
                        /\ head(232, l, 1) \o l \in Seq(Byte)
    <2> SUFFICES ASSUME NEW l \in ptrs
                 PROVE  /\ \A c : withSlot(l, WriteSlotNo(off.number, c)) \in Seq(Byte)
                        /\ \A o \in Word : withNumber(l, o) \in Seq(Byte)
                        /\ head(232, l, 1) \o l \in Seq(Byte)
      OBVIOUS
    <2>1. ASSUME NEW c
          PROVE  withSlot(l, WriteSlotNo(off.number, c)) \in Seq(Byte)
      BY <1>5
    <2>2. ASSUME NEW o \in Word
          PROVE  withNumber(l, o) \in Seq(Byte)
      BY <1>6
    <2>3. head(232, l, 1) \o l \in Seq(Byte)
      <3>1. \A m \in Nat : <<Header(232, 4 * (Len(l) - 1), (m - 1) % 4)>> \o l \in Seq(Byte)
        BY <1>2, Zenon
      <3> HIDE DEF ptrs, Byte
      <3> QED BY ONLY <3>1
    <2> HIDE DEF withSlot, withNumber, head, ptrs, Byte
    <2> QED BY <2>1, <2>2, <2>3
  <1> HIDE DEF withSlot, withNumber, head, ptrs
  <1>9. \A l \in ptrs : /\ slots(l) \subseteq Seq(Byte) /\ none(l) \subseteq Seq(Byte)
                        /\ numbers(l) \subseteq Seq(Byte)
    BY <1>4, <1>8
  <1> HIDE DEF slots, none, numbers
  <1> QED BY <1>7, <1>9

LEMMA OperandEncoded ==
  ASSUME NEW acc, Encodable(acc), NEW predef, NEW mode, NEW type
  PROVE  EncodeOperand(acc, predef, mode, type) \subseteq Seq(Byte)
  <1>1. Numbered(acc)
    BY DEF Encodable
  <1>2. CASE acc.kind = "imm"
    <2>1. ImmediateTyped(acc, IF predef # OT.Undef THEN predef ELSE type, mode) \in Seq(Byte)
      BY <1>1, ImmediateEncoded
    <2> QED BY <1>2, <2>1 DEF EncodeOperand
  <1>3. CASE acc.kind = "type"
    <2>1. \A w \in TypeToWire(acc.dt) : <<w>> \in Seq(Byte)
      BY DEF TypeToWire, Byte
    <2> QED BY <1>3, <2>1 DEF EncodeOperand
  <1>4. CASE acc.kind = "cond"
    <2>1. \A w \in CondToWire(acc.value) : <<w>> \in Seq(Byte)
      BY DEF CondToWire, Byte
    <2> QED BY <1>4, <2>1 DEF EncodeOperand
  <1>5. CASE acc.kind \in {"slot", "ptr"}
    BY <1>5, NativeEncoded DEF EncodeOperand
  <1>6. CASE acc.kind = "mem"
    <2>1. EncodeMemory(acc, mode = Mode.Direct) \subseteq Seq(Byte)
      BY <1>1, MemoryEncoded
    <2> QED BY <1>6, <2>1 DEF EncodeOperand
  <1>7. CASE acc.kind = "db"
    <2>1. EncodeDb(acc) \subseteq Seq(Byte)
      BY <1>1, DbEncoded
    <2> QED BY <1>7, <2>1 DEF EncodeOperand
  <1>8. CASE acc.kind = "indirect"
    <2>1. EncodeIndirect(acc, type) \subseteq Seq(Byte)
      BY <1>8, IndirectEncoded
    <2> QED BY <1>8, <2>1 DEF EncodeOperand
  <1>9. acc.kind \in PartKinds \cup {"indirect"}
    BY DEF Encodable
  <1> QED BY <1>2, <1>3, <1>4, <1>5, <1>6, <1>7, <1>8, <1>9 DEF PartKinds
-----------------------------------------------------------------------------
(* What the parser makes of a text, and the renderer of an operand.        *)
LEMMA PartParsed ==
  ASSUME NEW t \in PlainText, NEW acc \in ParsedPart(t)
  PROVE  acc.kind \in PartKinds /\ Numbered(acc)
  <1>1. {} \in Word /\ t.place \in Word /\ t.number \in Word /\ \A n : BitsOf(n) \in Word
    BY WordOperations DEF PlainText, TextOf
  <1>2. \A dt, a, w : /\ Memory(dt, a, w).kind = "mem" /\ Memory(dt, a, w).value = {}
                      /\ Memory(dt, a, w).offset = w
    BY DEF Memory, AccNew
  <1>3. \A dt, n, r, w : /\ DbAccess(dt, n, r, w).kind = "db" /\ DbAccess(dt, n, r, w).value = {}
                         /\ DbAccess(dt, n, r, w).offset = w
    BY DEF DbAccess, AccNew
  <1>4. CASE t.form \in {"%", "DB"}
    <2>1. acc \in ParsedMemory(t) \cup ParsedDb(t)
      BY <1>4 DEF ParsedPart
    <2>2. acc.kind \in {"mem", "db"} /\ acc.value = {} /\ acc.offset = t.place
      BY <1>2, <1>3, <2>1 DEF ParsedMemory, ParsedDb
    <2> QED BY <1>1, <2>2 DEF PartKinds, Numbered
  <1>5. CASE t.form \in {"@S", "@P"}
    <2>1. acc \in ParsedSlot(t) \cup ParsedPointer(t)
      BY <1>5 DEF ParsedPart
    <2>2. \A dt, s, n, r : /\ Slot(dt, s, n, r).kind = "slot" /\ Slot(dt, s, n, r).value = {}
                           /\ Slot(dt, s, n, r).offset = {}
      BY DEF Slot, AccNew
    <2>3. \A s, n : /\ Pointer(s, n).kind = "ptr" /\ Pointer(s, n).value = {}
                    /\ Pointer(s, n).offset = {}
      BY DEF Pointer, AccNew
    <2>4. acc.kind \in {"slot", "ptr"} /\ acc.value = {} /\ acc.offset = {}
      BY <2>1, <2>2, <2>3 DEF ParsedSlot, ParsedPointer
    <2> QED BY <1>1, <2>4 DEF PartKinds, Numbered
  <1>6. CASE t.form = "@PSYS"
    <2>1. acc = AreaPointer(t.of)
      BY <1>6 DEF ParsedPart
    <2>2. acc.kind = "ptr" /\ acc.value = {} /\ acc.offset = {}
      BY <2>1 DEF AreaPointer, Pointer, AccNew
    <2> QED BY <1>1, <2>2 DEF PartKinds, Numbered
  <1>7. CASE t.form \in {":", "="}
    <2>1. acc = AccType(t.of) \/ acc = [AccNew("cond", OT.Void) EXCEPT !.value = t.number]
      BY <1>7 DEF ParsedPart
    <2>2. acc.kind \in {"type", "cond"} /\ acc.value \in Word /\ acc.offset = {}
      BY <1>1, <2>1 DEF AccType, AccNew
    <2> QED BY <1>1, <2>2 DEF PartKinds, Numbered
  <1>8. CASE t.form \in {"bool", "int"}
    <2>1. (\E b : acc = Immediate(OT.Bool, BitsOf(b))) \/ acc = Immediate(OT.Undef, t.number)
      BY <1>8 DEF ParsedPart
    <2>2. acc.kind = "imm" /\ acc.value \in Word /\ acc.offset = {}
      BY <1>1, <2>1 DEF Immediate, AccNew
    <2> QED BY <1>1, <2>2 DEF PartKinds, Numbered
  <1>9. CASE t.form = "other"
    BY <1>9 DEF ParsedPart
  <1> QED BY <1>4, <1>5, <1>6, <1>7, <1>8, <1>9 DEF PlainText, TextOf

LEMMA OperandParsed ==
  ASSUME NEW t \in AnyText, NEW acc \in Parsed(t)
  PROVE  Encodable(acc)
  <1>1. CASE t \in PlainText
    <2>1. t.form # "["
      BY <1>1 DEF PlainText, TextOf
    <2>2. acc \in ParsedPart(t)
      BY <2>1 DEF Parsed
    <2>3. acc.kind \in PartKinds /\ Numbered(acc)
      BY <1>1, <2>2, PartParsed
    <2> QED BY <2>3 DEF Encodable, PartKinds
  <1>2. CASE t \in TextOf({"["}, PlainText \X PlainText)
    <2>1. t.form = "[" /\ t.sub[1] \in PlainText /\ t.sub[2] \in PlainText
      BY <1>2 DEF TextOf
    <2>2. PICK base \in {b \in ParsedPart(t.sub[1]) : b.kind = "ptr"},
               offset \in {o \in ParsedPart(t.sub[2]) : o.kind \in {"imm", "slot"}} :
               acc = Indirect(OT.Void, base, offset)
      BY <2>1 DEF Parsed, ParsedIndirect
    <2>3. Numbered(offset) /\ offset.kind \in {"imm", "slot"} /\ base.kind = "ptr"
      BY <2>1, PartParsed
    <2>4. /\ acc.kind = "indirect" /\ acc.value = {} /\ acc.offset = {}
          /\ acc.sub[1] = base /\ acc.sub[2] = offset
      BY <2>2 DEF Indirect, AccNew
    <2>5. {} \in Word
      BY WordOperations
    <2> QED BY <2>3, <2>4, <2>5 DEF Encodable, Numbered
  <1> QED BY <1>1, <1>2 DEF AnyText

LEMMA PlainMade ==
  ASSUME NEW form \in {"%", "DB", "@S", "@P", "@PSYS", ":", "=", "bool", "int", "other"},
         NEW of \in Nat, NEW number \in Word
  PROVE  /\ Text(form) \in PlainText
         /\ [Text(form) EXCEPT !.of = of] \in PlainText
         /\ [Text(form) EXCEPT !.number = number] \in PlainText
         /\ [Text(form) EXCEPT !.of = of, !.number = number] \in PlainText
  <1>1. {} \in Word /\ 0 \in Nat
    BY WordOperations
  <1> HIDE DEF Word
  <1> QED BY <1>1 DEF Text, PlainText, TextOf

LEMMA SlotMade ==
  ASSUME NEW of \in Nat, NEW width \in Nat, NEW number \in Word
  PROVE  [Text("@S") EXCEPT !.of = of, !.width = width, !.number = number] \in PlainText
  <1>1. {} \in Word /\ 0 \in Nat
    BY WordOperations
  <1> HIDE DEF Word
  <1> QED BY <1>1 DEF Text, PlainText, TextOf

LEMMA PlaceMade ==
  ASSUME NEW acc, acc.offset \in Word, NEW form \in {"%", "DB"}, NEW of \in Nat,
         NEW number \in Word, NEW bitwise
  PROVE  Place(form, of, number, bitwise, acc) \in PlainText
  <1> DEFINE width == IF bitwise THEN 0 ELSE ShownWidth(acc.dt)
             place == IF bitwise THEN acc.offset ELSE BytePart(acc.offset)
  <1>1. width \in Nat
    BY DEF ShownWidth
  <1>2. place \in Word
    BY DEF BytePart, Word
  <1>3. Place(form, of, number, bitwise, acc)
            = [Text(form) EXCEPT !.of = of, !.number = number, !.width = width, !.place = place]
    BY DEF Place
  <1>4. {} \in Word /\ 0 \in Nat
    BY WordOperations
  <1> HIDE DEF width, place, Word
  <1> QED BY <1>1, <1>2, <1>3, <1>4 DEF Text, PlainText, TextOf

LEMMA PartPrinted ==
  ASSUME NEW acc, acc.kind \in PartKinds, acc.dt \in Nat, acc.area \in Nat, acc.scope \in Nat,
         acc.range \in Nat, acc.number \in Word, Numbered(acc)
  PROVE  PrintedPart(acc) \in PlainText
  <1>1. acc.value \in Word /\ acc.offset \in Word /\ BytePart(acc.offset) \in Word
        /\ LowBits(acc.value, 32) \in Word
    BY WordOperations DEF Numbered, BytePart, Word
  <1>2. ShownWidth(acc.dt) \in Nat /\ 0 \in Nat /\ 1 \in Nat /\ Area.Data \in Nat
        /\ {} \in Word /\ Widened(acc.number) \in Word
    <2>1. Widened(acc.number) \in Word
      BY DEF Widened, SignExtend, Word, Bits64
    <2> QED BY <2>1, WordOperations DEF ShownWidth, Area
  <1>3. ASSUME NEW form \in {"%", "DB"}, NEW of \in Nat, NEW number \in Word, NEW bitwise
        PROVE  Place(form, of, number, bitwise, acc) \in PlainText
    BY <1>1, <1>3, PlaceMade
  <1>4. CASE acc.kind = "mem"
    <2>1. Text("other") \in PlainText
      BY <1>2, PlainMade
    <2>2. PrintedMemory(acc) \in PlainText
      BY <1>2, <1>3, <2>1 DEF PrintedMemory
    <2> QED BY <1>4, <2>2 DEF PrintedPart
  <1>5. CASE acc.kind = "db"
    <2>1. PrintedDb(acc) \in PlainText
      BY <1>2, <1>3 DEF PrintedDb
    <2> QED BY <1>5, <2>1 DEF PrintedPart
  <1>6. CASE acc.kind = "imm"
    <2>1. Text("other") \in PlainText /\ \A n \in Word : [Text("int") EXCEPT !.number = n] \in PlainText
      BY <1>2, PlainMade
    <2>2. \A n \in Nat : [Text("bool") EXCEPT !.of = n] \in PlainText
      BY <1>2, PlainMade
    <2>3. PrintedImmediate(acc) \in PlainText
      BY <1>1, <1>2, <2>1, <2>2 DEF PrintedImmediate
    <2> QED BY <1>6, <2>3 DEF PrintedPart
  <1>7. CASE acc.kind = "slot"
    <2>1. PrintedPart(acc) = [Text("@S") EXCEPT !.of = acc.scope, !.width = acc.range,
                                                !.number = Widened(acc.number)]
      BY <1>7 DEF PrintedPart
    <2>2. [Text("@S") EXCEPT !.of = acc.scope, !.width = acc.range,
                             !.number = Widened(acc.number)] \in PlainText
      BY <1>2, SlotMade
    <2> QED BY <2>1, <2>2
  <1>8. CASE acc.kind = "ptr"
    <2>1. [Text("@PSYS") EXCEPT !.of = acc.area] \in PlainText
      BY <1>2, PlainMade
    <2>2. [Text("@P") EXCEPT !.of = acc.scope, !.number = Widened(acc.number)] \in PlainText
      BY <1>2, PlainMade
    <2> QED BY <1>8, <2>1, <2>2 DEF PrintedPart
  <1>9. CASE acc.kind = "type"
    <2>1. [Text(":") EXCEPT !.of = acc.dt] \in PlainText
      BY <1>2, PlainMade
    <2> QED BY <1>9, <2>1 DEF PrintedPart
  <1>10. CASE acc.kind = "cond"
    <2>1. [Text("=") EXCEPT !.number = acc.value] \in PlainText
      BY <1>1, <1>2, PlainMade
    <2> QED BY <1>10, <2>1 DEF PrintedPart
  <1> QED BY <1>4, <1>5, <1>6, <1>7, <1>8, <1>9, <1>10 DEF PartKinds

LEMMA OperandPrinted ==
  ASSUME NEW acc \in Access
  PROVE  Printed(acc) \in AnyText
  <1>1. ASSUME NEW part \in Part
        PROVE  PrintedPart(part) \in PlainText
    <2>1. /\ part.kind \in PartKinds /\ part.dt \in Nat /\ part.area \in Nat
          /\ part.scope \in Nat /\ part.range \in Nat /\ part.number \in Word
          /\ Numbered(part)
      BY DEF Part, AccessOf, PartKinds, Numbered
    <2> QED BY <2>1, PartPrinted
  <1>2. CASE acc \in AccessOf({"indirect"}, Part \X Part)
    <2>1. acc.kind = "indirect" /\ acc.sub[1] \in Part /\ acc.sub[2] \in Part
      BY <1>2 DEF AccessOf
    <2>2. PrintedPart(acc.sub[1]) \in PlainText /\ PrintedPart(acc.sub[2]) \in PlainText
      BY <1>1, <2>1
    <2> DEFINE s == <<PrintedPart(acc.sub[1]), PrintedPart(acc.sub[2])>>
    <2>3. s \in PlainText \X PlainText
      BY <2>2
    <2>4. Printed(acc) = [Text("[") EXCEPT !.sub = s]
      BY <2>1 DEF Printed
    <2> HIDE DEF s
    <2>5. [Text("[") EXCEPT !.sub = s] \in TextOf({"["}, PlainText \X PlainText)
      <3>1. {} \in Word
        BY WordOperations
      <3> HIDE DEF PlainText, Word
      <3> QED BY <2>3, <3>1 DEF Text, TextOf
    <2> QED BY <2>4, <2>5 DEF AnyText
  <1>3. CASE acc \notin AccessOf({"indirect"}, Part \X Part)
    <2>1. acc \in AccessOf({"imm", "mem", "slot", "ptr", "db", "type", "cond"}, {<<>>})
      BY <1>3 DEF Access
    <2>2. /\ acc.kind \in PartKinds /\ acc.dt \in Nat /\ acc.area \in Nat
          /\ acc.scope \in Nat /\ acc.range \in Nat /\ acc.number \in Word
          /\ Numbered(acc)
      BY <2>1 DEF AccessOf, PartKinds, Numbered
    <2>3. PrintedPart(acc) \in PlainText /\ acc.kind # "indirect"
      BY <2>2, PartPrinted DEF PartKinds
    <2> QED BY <2>3 DEF Printed, AnyText
  <1> QED BY <1>2, <1>3
-----------------------------------------------------------------------------
(* Words, bytes and headers: what is written is read.                      *)
\* The powers of two that the bits of a byte stand for.
LEMMA Powers ==
  /\ 2^0 = 1 /\ 2^1 = 2 /\ 2^2 = 4 /\ 2^3 = 8 /\ 2^4 = 16 /\ 2^5 = 32 /\ 2^6 = 64 /\ 2^7 = 128
  OBVIOUS

\* A byte has no bit above its eighth.
LEMMA HighBits ==
  ASSUME NEW n \in 0..255, NEW i \in 8..30
  PROVE  n \div 2^i = 0
  <1>1. /\ 2^8 \in Nat \ (0..255) /\ 2^9 \in Nat \ (0..255) /\ 2^10 \in Nat \ (0..255)
        /\ 2^11 \in Nat \ (0..255) /\ 2^12 \in Nat \ (0..255) /\ 2^13 \in Nat \ (0..255)
        /\ 2^14 \in Nat \ (0..255) /\ 2^15 \in Nat \ (0..255)
    OBVIOUS
  <1>2. /\ 2^16 \in Nat \ (0..255) /\ 2^17 \in Nat \ (0..255) /\ 2^18 \in Nat \ (0..255)
        /\ 2^19 \in Nat \ (0..255) /\ 2^20 \in Nat \ (0..255) /\ 2^21 \in Nat \ (0..255)
        /\ 2^22 \in Nat \ (0..255) /\ 2^23 \in Nat \ (0..255)
    OBVIOUS
  <1>3. /\ 2^24 \in Nat \ (0..255) /\ 2^25 \in Nat \ (0..255) /\ 2^26 \in Nat \ (0..255)
        /\ 2^27 \in Nat \ (0..255) /\ 2^28 \in Nat \ (0..255) /\ 2^29 \in Nat \ (0..255)
        /\ 2^30 \in Nat \ (0..255)
    OBVIOUS
  <1>4. i \in 8..15 \/ i \in 16..23 \/ i \in 24..30
    OBVIOUS
  <1>5. ASSUME i \in 8..15
        PROVE  2^i \in Nat \ (0..255)
    <2>1. i = 8 \/ i = 9 \/ i = 10 \/ i = 11 \/ i = 12 \/ i = 13 \/ i = 14 \/ i = 15
      BY <1>5
    <2> QED BY <1>1, <2>1, Zenon
  <1>6. ASSUME i \in 16..23
        PROVE  2^i \in Nat \ (0..255)
    <2>1. i = 16 \/ i = 17 \/ i = 18 \/ i = 19 \/ i = 20 \/ i = 21 \/ i = 22 \/ i = 23
      BY <1>6
    <2> QED BY <1>2, <2>1, Zenon
  <1>7. ASSUME i \in 24..30
        PROVE  2^i \in Nat \ (0..255)
    <2>1. i = 24 \/ i = 25 \/ i = 26 \/ i = 27 \/ i = 28 \/ i = 29 \/ i = 30
      BY <1>7
    <2> QED BY <1>3, <2>1, Zenon
  <1> DEFINE d == 2^i
  <1>8. d \in Nat \ (0..255)
    BY <1>4, <1>5, <1>6, <1>7, Zenon
  <1> HIDE DEF d
  <1>9. n \div d = 0
    BY <1>8
  <1> QED BY <1>9 DEF d

\* The bits of eight bits of a word.
LEMMA BitsOfByteAt ==
  ASSUME NEW w, NEW k \in Nat
  PROVE  BitsOf(ByteAt(w, k)) = {i \in 0..7 : k + i \in w}
  <1> DEFINE bit(i) == IF k + i \in w THEN 2^i ELSE 0
             n == ByteAt(w, k)
             one(i) == IF k + i \in w THEN 1 ELSE 0
  <1>1. /\ bit(0) = one(0) /\ bit(1) = 2 * one(1) /\ bit(2) = 4 * one(2) /\ bit(3) = 8 * one(3)
        /\ bit(4) = 16 * one(4) /\ bit(5) = 32 * one(5) /\ bit(6) = 64 * one(6)
        /\ bit(7) = 128 * one(7)
    BY Powers
  <1>2. n = bit(0) + bit(1) + bit(2) + bit(3) + bit(4) + bit(5) + bit(6) + bit(7)
    BY DEF ByteAt
  <1>3. \A i : one(i) \in 0..1 /\ (one(i) = 1 <=> k + i \in w)
    OBVIOUS
  <1> HIDE DEF bit, n, one
  <1>4. n = one(0) + 2 * one(1) + 4 * one(2) + 8 * one(3) + 16 * one(4) + 32 * one(5)
            + 64 * one(6) + 128 * one(7)
    BY <1>1, <1>2
  <1>5. /\ (n \div 1) % 2 = one(0) /\ (n \div 2) % 2 = one(1) /\ (n \div 4) % 2 = one(2)
        /\ (n \div 8) % 2 = one(3) /\ (n \div 16) % 2 = one(4) /\ (n \div 32) % 2 = one(5)
        /\ (n \div 64) % 2 = one(6) /\ (n \div 128) % 2 = one(7)
    <2>1. /\ one(0) \in 0..1 /\ one(1) \in 0..1 /\ one(2) \in 0..1 /\ one(3) \in 0..1
          /\ one(4) \in 0..1 /\ one(5) \in 0..1 /\ one(6) \in 0..1 /\ one(7) \in 0..1
      BY <1>3, Zenon
    <2>2. PICK b0 \in 0..1 : one(0) = b0
      BY <2>1
    <2>3. PICK b1 \in 0..1 : one(1) = b1
      BY <2>1
    <2>4. PICK b2 \in 0..1 : one(2) = b2
      BY <2>1
    <2>5. PICK b3 \in 0..1 : one(3) = b3
      BY <2>1
    <2>6. PICK b4 \in 0..1 : one(4) = b4
      BY <2>1
    <2>7. PICK b5 \in 0..1 : one(5) = b5
      BY <2>1
    <2>8. PICK b6 \in 0..1 : one(6) = b6
      BY <2>1
    <2>9. PICK b7 \in 0..1 : one(7) = b7
      BY <2>1
    <2>10. n = b0 + 2 * b1 + 4 * b2 + 8 * b3 + 16 * b4 + 32 * b5 + 64 * b6 + 128 * b7
      BY <1>4, <2>2, <2>3, <2>4, <2>5, <2>6, <2>7, <2>8, <2>9
    <2>11. /\ (n \div 1) % 2 = b0 /\ (n \div 2) % 2 = b1 /\ (n \div 4) % 2 = b2
           /\ (n \div 8) % 2 = b3 /\ (n \div 16) % 2 = b4 /\ (n \div 32) % 2 = b5
           /\ (n \div 64) % 2 = b6 /\ (n \div 128) % 2 = b7
      BY <2>10
    <2> QED BY <2>11, <2>2, <2>3, <2>4, <2>5, <2>6, <2>7, <2>8, <2>9, Zenon
  <1>6. /\ (n \div 2^0) % 2 = one(0) /\ (n \div 2^1) % 2 = one(1) /\ (n \div 2^2) % 2 = one(2)
        /\ (n \div 2^3) % 2 = one(3) /\ (n \div 2^4) % 2 = one(4) /\ (n \div 2^5) % 2 = one(5)
        /\ (n \div 2^6) % 2 = one(6) /\ (n \div 2^7) % 2 = one(7)
    BY <1>5, Powers
  <1>7. ASSUME NEW i \in 0..7
        PROVE  (n \div 2^i) % 2 = one(i)
    <2>1. i = 0 \/ i = 1 \/ i = 2 \/ i = 3 \/ i = 4 \/ i = 5 \/ i = 6 \/ i = 7
      OBVIOUS
    <2> QED BY <1>6, <2>1, Zenon
  <1>8. n \in 0..255
    BY ByteAtIsByte DEF n
  <1>9. ASSUME NEW i \in 8..30
        PROVE  (n \div 2^i) % 2 = 0
    <2>1. n \div 2^i = 0
      BY <1>8, HighBits
    <2> QED BY <2>1
  <1>10. ASSUME NEW i \in 0..30
         PROVE  (n \div 2^i) % 2 = 1 <=> i \in 0..7 /\ k + i \in w
    <2>1. CASE i \in 0..7
      BY <1>3, <1>7, <2>1
    <2>2. CASE i \in 8..30
      <3>1. (n \div 2^i) % 2 = 0
        BY <1>9, <2>2, Zenon
      <3>2. i \notin 0..7
        BY <2>2
      <3>3. 0 # 1
        OBVIOUS
      <3> QED BY <3>1, <3>2, <3>3, Zenon
    <2> QED BY <2>1, <2>2
  <1>11. BitsOf(n) = {i \in 0..30 : (n \div 2^i) % 2 = 1}
    BY DEF BitsOf
  <1>12. \A i \in 0..7 : i \in 0..30
    OBVIOUS
  <1> QED BY <1>10, <1>11, <1>12, Zenon DEF n

\* A byte is the sum of its bits.
LEMMA ByteOfBits ==
  ASSUME NEW n \in 0..255
  PROVE  BitsOf(n) \subseteq 0..7 /\ ByteAt(BitsOf(n), 0) = n
  <1> DEFINE w == BitsOf(n)
             one(i) == IF i \in w THEN 1 ELSE 0
             b(d) == (n \div d) % 2
  <1>1. n = b(1) + 2 * b(2) + 4 * b(4) + 8 * b(8) + 16 * b(16) + 32 * b(32) + 64 * b(64)
            + 128 * b(128)
    OBVIOUS
  <1>2. \A i \in 0..30 : i \in w <=> (n \div 2^i) % 2 = 1
    BY DEF BitsOf
  <1>3. /\ 0 \in w <=> b(1) = 1
        /\ 1 \in w <=> b(2) = 1
        /\ 2 \in w <=> b(4) = 1
        /\ 3 \in w <=> b(8) = 1
        /\ 4 \in w <=> b(16) = 1
        /\ 5 \in w <=> b(32) = 1
        /\ 6 \in w <=> b(64) = 1
        /\ 7 \in w <=> b(128) = 1
    BY <1>2, Powers
  <1>4. \A d \in {1, 2, 4, 8, 16, 32, 64, 128} : b(d) \in 0..1
    OBVIOUS
  <1>5. w \subseteq 0..7
    <2> SUFFICES ASSUME NEW i \in w, i \notin 0..7 PROVE FALSE
      OBVIOUS
    <2>1. i \in 0..30 /\ (n \div 2^i) % 2 = 1
      BY DEF BitsOf
    <2>2. i \in 8..30
      BY <2>1
    <2>3. n \div 2^i = 0
      BY <2>2, HighBits
    <2>4. 0 % 2 # 1
      OBVIOUS
    <2> QED BY <2>1, <2>3, <2>4, Zenon
  <1>6. ByteAt(w, 0) = one(0) + 2 * one(1) + 4 * one(2) + 8 * one(3) + 16 * one(4)
                       + 32 * one(5) + 64 * one(6) + 128 * one(7)
    <2>1. /\ 0 + 0 = 0 /\ 0 + 1 = 1 /\ 0 + 2 = 2 /\ 0 + 3 = 3 /\ 0 + 4 = 4 /\ 0 + 5 = 5
          /\ 0 + 6 = 6 /\ 0 + 7 = 7
      OBVIOUS
    <2> HIDE DEF w
    <2> QED BY <2>1, Powers DEF ByteAt
  <1>7. /\ one(0) = b(1) /\ one(1) = b(2) /\ one(2) = b(4) /\ one(3) = b(8)
        /\ one(4) = b(16) /\ one(5) = b(32) /\ one(6) = b(64) /\ one(7) = b(128)
    <2> HIDE DEF w, b
    <2> QED BY <1>3, <1>4
  <1>8. /\ b(1) \in Int /\ b(2) \in Int /\ b(4) \in Int /\ b(8) \in Int
        /\ b(16) \in Int /\ b(32) \in Int /\ b(64) \in Int /\ b(128) \in Int
    OBVIOUS
  <1> HIDE DEF w, b, one
  <1> QED BY <1>1, <1>5, <1>6, <1>7, <1>8 DEF w

\* Eight bits of the union of two words are the sum when they share none.
LEMMA ByteAtSum ==
  ASSUME NEW v, NEW w, NEW k \in Nat, \A i \in 0..7 : ~(k + i \in v /\ k + i \in w)
  PROVE  ByteAt(v \cup w, k) = ByteAt(v, k) + ByteAt(w, k)
  <1> DEFINE bit(x, i) == IF k + i \in x THEN 2^i ELSE 0
  <1>1. \A x : ByteAt(x, k) = bit(x, 0) + bit(x, 1) + bit(x, 2) + bit(x, 3) + bit(x, 4)
                              + bit(x, 5) + bit(x, 6) + bit(x, 7)
    BY DEF ByteAt
  <1>2. /\ 2^0 \in Int /\ 2^1 \in Int /\ 2^2 \in Int /\ 2^3 \in Int
        /\ 2^4 \in Int /\ 2^5 \in Int /\ 2^6 \in Int /\ 2^7 \in Int
    OBVIOUS
  <1>3. \A i \in 0..7 : 2^i \in Int
    <2> TAKE i \in 0..7
    <2>1. i = 0 \/ i = 1 \/ i = 2 \/ i = 3 \/ i = 4 \/ i = 5 \/ i = 6 \/ i = 7
      OBVIOUS
    <2> QED BY <1>2, <2>1, Zenon
  <1>4. \A i \in 0..7 : \A x : bit(x, i) \in Int
    BY <1>3
  <1>5. \A i \in 0..7 : bit(v \cup w, i) = bit(v, i) + bit(w, i)
    <2> TAKE i \in 0..7
    <2> DEFINE p == 2^i
    <2>1. p \in Int
      BY <1>3
    <2> HIDE DEF p
    <2>2. (IF k + i \in v \cup w THEN p ELSE 0) =
              (IF k + i \in v THEN p ELSE 0) + (IF k + i \in w THEN p ELSE 0)
      BY <2>1
    <2> QED BY <2>2 DEF p
  <1> HIDE DEF bit
  <1> DEFINE Sums(x, i) == bit(x, i)
  <1>6. /\ bit(v \cup w, 0) = bit(v, 0) + bit(w, 0) /\ bit(v \cup w, 1) = bit(v, 1) + bit(w, 1)
        /\ bit(v \cup w, 2) = bit(v, 2) + bit(w, 2) /\ bit(v \cup w, 3) = bit(v, 3) + bit(w, 3)
        /\ bit(v \cup w, 4) = bit(v, 4) + bit(w, 4) /\ bit(v \cup w, 5) = bit(v, 5) + bit(w, 5)
        /\ bit(v \cup w, 6) = bit(v, 6) + bit(w, 6) /\ bit(v \cup w, 7) = bit(v, 7) + bit(w, 7)
    BY <1>5
  <1>7. /\ bit(v, 0) \in Int /\ bit(v, 1) \in Int /\ bit(v, 2) \in Int /\ bit(v, 3) \in Int
        /\ bit(v, 4) \in Int /\ bit(v, 5) \in Int /\ bit(v, 6) \in Int /\ bit(v, 7) \in Int
        /\ bit(w, 0) \in Int /\ bit(w, 1) \in Int /\ bit(w, 2) \in Int /\ bit(w, 3) \in Int
        /\ bit(w, 4) \in Int /\ bit(w, 5) \in Int /\ bit(w, 6) \in Int /\ bit(w, 7) \in Int
    BY <1>4
  <1> QED BY <1>1, <1>6, <1>7

\* The bytes of a word are the word.
LEMMA BytesOfWord ==
  ASSUME NEW w \in Word, NEW n \in 1..8
  PROVE  BigEndian(LowBytes(w, n)) = w \cap 0..(8 * n - 1)
  <1> DEFINE s == LowBytes(w, n)
  <1>1. DOMAIN s = 1..n /\ Len(s) = n
    BY LowBytesTyped DEF LowBytes
  <1>2. \A i \in 1..n : BitsOf(s[i]) = {c \in 0..7 : 8 * (n - i) + c \in w}
    <2> TAKE i \in 1..n
    <2>1. 8 * (n - i) \in Nat
      OBVIOUS
    <2>2. s[i] = ByteAt(w, 8 * (n - i))
      BY DEF LowBytes
    <2> QED BY <2>1, <2>2, BitsOfByteAt
  <1>3. BigEndian(s) = UNION {ShiftLeft(BitsOf(s[i]), 8 * (n - i)) : i \in 1..n}
    BY <1>1 DEF BigEndian
  <1> HIDE DEF s
  <1>4. ASSUME NEW b \in BigEndian(s)
        PROVE  b \in w \cap 0..(8 * n - 1)
    <2>1. PICK i \in 1..n : b \in ShiftLeft(BitsOf(s[i]), 8 * (n - i))
      BY <1>3
    <2>2. PICK c \in BitsOf(s[i]) : b = c + 8 * (n - i)
      BY <2>1 DEF ShiftLeft
    <2>3. c \in 0..7 /\ 8 * (n - i) + c \in w
      BY <1>2
    <2> QED BY <2>2, <2>3
  <1>5. ASSUME NEW b \in w \cap 0..(8 * n - 1)
        PROVE  b \in BigEndian(s)
    <2> DEFINE i == n - (b \div 8)
               c == b % 8
    <2>1. i \in 1..n /\ c \in 0..7 /\ b = c + 8 * (n - i) /\ b = 8 * (n - i) + c
      <3> DEFINE q == b \div 8
      <3>1. b \in Nat /\ b <= 8 * n - 1 /\ n \in Nat
        OBVIOUS
      <3>2. q \in Nat /\ c \in 0..7 /\ b = 8 * q + c
        BY <3>1
      <3> HIDE DEF q, c
      <3>3. q <= n - 1
        BY <3>1, <3>2
      <3> QED BY <3>1, <3>2, <3>3 DEF q
    <2> HIDE DEF i, c
    <2>2. c \in BitsOf(s[i])
      <3>1. 8 * (n - i) + c \in w
        BY <2>1
      <3> QED BY <1>2, <2>1, <3>1
    <2>3. b \in Bits64
      BY DEF Word
    <2>4. b \in ShiftLeft(BitsOf(s[i]), 8 * (n - i))
      BY <2>1, <2>2, <2>3 DEF ShiftLeft
    <2> QED BY <1>3, <2>1, <2>4
  <1> QED BY <1>4, <1>5 DEF s

\* mc7p_write_offset writes the bytes that mc7p_read_offset takes.
LEMMA OffsetWritten ==
  ASSUME NEW w \in Word
  PROVE  BigEndian(WriteOffset(w)) = w
  <1>1. ByteLength(w) \in 1..8 /\ w \subseteq 0..(8 * ByteLength(w) - 1)
    BY ByteLengthTyped
  <1>2. BigEndian(LowBytes(w, ByteLength(w))) = w \cap 0..(8 * ByteLength(w) - 1)
    BY <1>1, BytesOfWord
  <1> QED BY <1>1, <1>2 DEF WriteOffset, BigEndianOf

\* A byte whose bits are known.
LEMMA BitsKnown ==
  ASSUME NEW S \in SUBSET (0..7)
  PROVE  BitsOf(ByteAt(S, 0)) = S
  <1>1. BitsOf(ByteAt(S, 0)) = {i \in 0..7 : 0 + i \in S}
    BY BitsOfByteAt
  <1>2. \A i \in 0..7 : 0 + i = i
    OBVIOUS
  <1> QED BY <1>1, <1>2

\* The low byte of a word, bit by bit.
LEMMA ByteAtZero ==
  ASSUME NEW S
  PROVE  ByteAt(S, 0) = (IF 0 \in S THEN 1 ELSE 0) + (IF 1 \in S THEN 2 ELSE 0)
                        + (IF 2 \in S THEN 4 ELSE 0) + (IF 3 \in S THEN 8 ELSE 0)
                        + (IF 4 \in S THEN 16 ELSE 0) + (IF 5 \in S THEN 32 ELSE 0)
                        + (IF 6 \in S THEN 64 ELSE 0) + (IF 7 \in S THEN 128 ELSE 0)
  <1>1. /\ 0 + 0 = 0 /\ 0 + 1 = 1 /\ 0 + 2 = 2 /\ 0 + 3 = 3 /\ 0 + 4 = 4 /\ 0 + 5 = 5
        /\ 0 + 6 = 6 /\ 0 + 7 = 7
    OBVIOUS
  <1> QED BY <1>1, Powers DEF ByteAt

\* `|' of bytes that share no bit.
LEMMA HeaderSum ==
  ASSUME NEW A \in SUBSET (0..7), NEW B \in SUBSET (0..7), NEW C \in SUBSET (0..7),
         A \cap B = {}, A \cap C = {}, B \cap C = {}
  PROVE  Header(ByteAt(A, 0), ByteAt(B, 0), ByteAt(C, 0)) =
             ByteAt(A, 0) + ByteAt(B, 0) + ByteAt(C, 0)
  <1>1. Header(ByteAt(A, 0), ByteAt(B, 0), ByteAt(C, 0)) = ByteAt((A \cup B) \cup C, 0)
    BY BitsKnown DEF Header
  <1>2. \A i \in 0..7 : 0 + i = i
    OBVIOUS
  <1>3. ByteAt((A \cup B) \cup C, 0) = ByteAt(A \cup B, 0) + ByteAt(C, 0)
    <2>1. \A i \in 0..7 : ~(0 + i \in A \cup B /\ 0 + i \in C)
      BY <1>2
    <2> QED BY <2>1, ByteAtSum
  <1>4. ByteAt(A \cup B, 0) = ByteAt(A, 0) + ByteAt(B, 0)
    <2>1. \A i \in 0..7 : ~(0 + i \in A /\ 0 + i \in B)
      BY <1>2
    <2> QED BY <2>1, ByteAtSum
  <1> QED BY <1>1, <1>3, <1>4

\* The numbers of the fields of a header, as bits.
LEMMA FieldBytes ==
  /\ \A n \in 0..3 : \E S \in SUBSET {0, 1} : ByteAt(S, 0) = n
  /\ \A n \in 0..7 : \E S \in SUBSET {2, 3, 4} : ByteAt(S, 0) = 4 * n
  /\ \A n \in 0..1 : \E S \in SUBSET {2} : ByteAt(S, 0) = 4 * n
  /\ \A h \in {64, 96, 128} : \E S \in SUBSET {5, 6, 7} : ByteAt(S, 0) = h
  /\ \A h \in {160, 164, 168, 192, 208, 224, 232, 240, 248} :
         \E S \in SUBSET {2, 3, 4, 5, 6, 7} : ByteAt(S, 0) = h
  /\ \A h \in {192, 208, 224, 232, 240, 248} :
         \E S \in SUBSET {3, 4, 5, 6, 7} : ByteAt(S, 0) = h
  <1>1. \A n \in 0..3 : \E S \in SUBSET {0, 1} : ByteAt(S, 0) = n
    <2>1. ByteAt({}, 0) = 0 /\ ByteAt({0}, 0) = 1 /\ ByteAt({1}, 0) = 2 /\ ByteAt({0, 1}, 0) = 3
      BY ByteAtZero
    <2> QED BY <2>1
  <1>2. \A n \in 0..7 : \E S \in SUBSET {2, 3, 4} : ByteAt(S, 0) = 4 * n
    <2>1. /\ ByteAt({}, 0) = 0 /\ ByteAt({2}, 0) = 4 /\ ByteAt({3}, 0) = 8
          /\ ByteAt({2, 3}, 0) = 12
      BY ByteAtZero
    <2>2. /\ ByteAt({4}, 0) = 16 /\ ByteAt({2, 4}, 0) = 20 /\ ByteAt({3, 4}, 0) = 24
          /\ ByteAt({2, 3, 4}, 0) = 28
      BY ByteAtZero
    <2> QED BY <2>1, <2>2
  <1>3. \A n \in 0..1 : \E S \in SUBSET {2} : ByteAt(S, 0) = 4 * n
    <2>1. ByteAt({}, 0) = 0 /\ ByteAt({2}, 0) = 4
      BY ByteAtZero
    <2> QED BY <2>1
  <1>4. /\ ByteAt({6}, 0) = 64 /\ ByteAt({5, 6}, 0) = 96 /\ ByteAt({7}, 0) = 128
        /\ ByteAt({5, 7}, 0) = 160 /\ ByteAt({2, 5, 7}, 0) = 164
        /\ ByteAt({3, 5, 7}, 0) = 168
    BY ByteAtZero
  <1>5. /\ ByteAt({6, 7}, 0) = 192 /\ ByteAt({4, 6, 7}, 0) = 208
        /\ ByteAt({5, 6, 7}, 0) = 224 /\ ByteAt({3, 5, 6, 7}, 0) = 232
        /\ ByteAt({4, 5, 6, 7}, 0) = 240 /\ ByteAt({3, 4, 5, 6, 7}, 0) = 248
    BY ByteAtZero
  <1>6. \A h \in {64, 96, 128} : \E S \in SUBSET {5, 6, 7} : ByteAt(S, 0) = h
    <2> DEFINE U == SUBSET {5, 6, 7}
    <2>1. {6} \in U /\ {5, 6} \in U /\ {7} \in U
      OBVIOUS
    <2> HIDE DEF U
    <2>2. \E S \in U : ByteAt(S, 0) = 64
      BY <1>4, <2>1
    <2>3. \E S \in U : ByteAt(S, 0) = 96
      BY <1>4, <2>1
    <2>4. \E S \in U : ByteAt(S, 0) = 128
      BY <1>4, <2>1
    <2>5. \A h \in {64, 96, 128} : \E S \in U : ByteAt(S, 0) = h
      BY <2>2, <2>3, <2>4
    <2> QED BY <2>5 DEF U
  <1>7. \A h \in {192, 208, 224, 232, 240, 248} :
            \E S \in SUBSET {3, 4, 5, 6, 7} : ByteAt(S, 0) = h
    <2> DEFINE U == SUBSET {3, 4, 5, 6, 7}
    <2>1. /\ {6, 7} \in U /\ {4, 6, 7} \in U /\ {5, 6, 7} \in U /\ {3, 5, 6, 7} \in U
          /\ {4, 5, 6, 7} \in U /\ {3, 4, 5, 6, 7} \in U
      OBVIOUS
    <2> HIDE DEF U
    <2>2. \E S \in U : ByteAt(S, 0) = 192
      BY <1>5, <2>1
    <2>3. \E S \in U : ByteAt(S, 0) = 208
      BY <1>5, <2>1
    <2>4. \E S \in U : ByteAt(S, 0) = 224
      BY <1>5, <2>1
    <2>5. \E S \in U : ByteAt(S, 0) = 232
      BY <1>5, <2>1
    <2>6. \E S \in U : ByteAt(S, 0) = 240
      BY <1>5, <2>1
    <2>7. \E S \in U : ByteAt(S, 0) = 248
      BY <1>5, <2>1
    <2>8. \A h \in {192, 208, 224, 232, 240, 248} : \E S \in U : ByteAt(S, 0) = h
      BY <2>2, <2>3, <2>4, <2>5, <2>6, <2>7
    <2> QED BY <2>8 DEF U
  <1>8. \A h \in {160, 164, 168, 192, 208, 224, 232, 240, 248} :
            \E S \in SUBSET {2, 3, 4, 5, 6, 7} : ByteAt(S, 0) = h
    <2> DEFINE U == SUBSET {2, 3, 4, 5, 6, 7}
    <2>1. {5, 7} \in U /\ {2, 5, 7} \in U /\ {3, 5, 7} \in U
      OBVIOUS
    <2>0. SUBSET {3, 4, 5, 6, 7} \subseteq U
      OBVIOUS
    <2> HIDE DEF U
    <2>2. \E S \in U : ByteAt(S, 0) = 160
      BY <1>4, <2>1
    <2>3. \E S \in U : ByteAt(S, 0) = 164
      BY <1>4, <2>1
    <2>4. \E S \in U : ByteAt(S, 0) = 168
      BY <1>4, <2>1
    <2>5. \A h \in {192, 208, 224, 232, 240, 248} : \E S \in U : ByteAt(S, 0) = h
      BY <1>7, <2>0
    <2>6. \A h \in {160, 164, 168, 192, 208, 224, 232, 240, 248} : \E S \in U : ByteAt(S, 0) = h
      BY <2>2, <2>3, <2>4, <2>5
    <2> QED BY <2>6 DEF U
  <1> QED BY <1>1, <1>2, <1>3, <1>6, <1>7, <1>8, Zenon

\* The headers that the encoders compose.
LEMMA HeadersAre ==
  ASSUME NEW l \in 0..3
  PROVE  /\ \A h \in {64, 96, 128} : \A c \in 0..7 : Header(h, 4 * c, l) = h + 4 * c + l
         /\ \A h \in {160, 164, 168} : Header(h, l, 0) = h + l
         /\ \A h \in {192, 208, 224, 232, 240, 248} : \A c \in 0..1 :
                Header(h, 4 * c, l) = h + 4 * c + l
  <1>1. PICK L \in SUBSET {0, 1} : ByteAt(L, 0) = l
    BY FieldBytes
  <1>2. ByteAt({}, 0) = 0
    BY ByteAtZero
  <1>3. ASSUME NEW h \in {64, 96, 128}, NEW c \in 0..7
        PROVE  Header(h, 4 * c, l) = h + 4 * c + l
    <2>1. PICK A \in SUBSET {5, 6, 7} : ByteAt(A, 0) = h
      BY FieldBytes
    <2>2. PICK B \in SUBSET {2, 3, 4} : ByteAt(B, 0) = 4 * c
      BY FieldBytes
    <2>3. /\ A \in SUBSET (0..7) /\ B \in SUBSET (0..7) /\ L \in SUBSET (0..7)
          /\ A \cap B = {} /\ A \cap L = {} /\ B \cap L = {}
      OBVIOUS
    <2>4. Header(ByteAt(A, 0), ByteAt(B, 0), ByteAt(L, 0)) =
              ByteAt(A, 0) + ByteAt(B, 0) + ByteAt(L, 0)
      BY <2>3, HeaderSum
    <2> QED BY <1>1, <2>1, <2>2, <2>4
  <1>4. ASSUME NEW h \in {160, 164, 168}
        PROVE  Header(h, l, 0) = h + l
    <2>1. PICK A \in SUBSET {2, 3, 4, 5, 6, 7} : ByteAt(A, 0) = h
      BY FieldBytes
    <2>2. /\ A \in SUBSET (0..7) /\ L \in SUBSET (0..7) /\ {} \in SUBSET (0..7)
          /\ A \cap L = {} /\ A \cap {} = {} /\ L \cap {} = {}
      OBVIOUS
    <2>3. Header(ByteAt(A, 0), ByteAt(L, 0), ByteAt({}, 0)) =
              ByteAt(A, 0) + ByteAt(L, 0) + ByteAt({}, 0)
      BY <2>2, HeaderSum
    <2>4. Header(h, l, 0) = h + l + 0
      BY <1>1, <1>2, <2>1, <2>3
    <2> QED BY <2>4
  <1>5. ASSUME NEW h \in {192, 208, 224, 232, 240, 248}, NEW c \in 0..1
        PROVE  Header(h, 4 * c, l) = h + 4 * c + l
    <2>1. PICK A \in SUBSET {3, 4, 5, 6, 7} : ByteAt(A, 0) = h
      BY FieldBytes
    <2>2. PICK B \in SUBSET {2} : ByteAt(B, 0) = 4 * c
      BY FieldBytes
    <2>3. /\ A \in SUBSET (0..7) /\ B \in SUBSET (0..7) /\ L \in SUBSET (0..7)
          /\ A \cap B = {} /\ A \cap L = {} /\ B \cap L = {}
      OBVIOUS
    <2>4. Header(ByteAt(A, 0), ByteAt(B, 0), ByteAt(L, 0)) =
              ByteAt(A, 0) + ByteAt(B, 0) + ByteAt(L, 0)
      BY <2>3, HeaderSum
    <2> QED BY <1>1, <2>1, <2>2, <2>4
  <1> QED BY <1>3, <1>4, <1>5

\* A number shifted by k bits with a fraction in them, as it is written.
NumberFits(n, k, c, len) ==
  /\ n \in SUBSET (0..31) /\ 31 \notin n /\ k \in 1..3 /\ c \in 0..3 /\ c < 2^k
  /\ len \in 1..8 /\ ShiftLeft(n, k) \subseteq 0..(8 * len - 1)

NumberRead(w, n, k, c, len) ==
  /\ w \in Seq(Byte) /\ Len(w) = len
  /\ ShiftRight(BigEndian(w), k) = n
  /\ k = 2 => w[len] % 4 = c
  /\ k = 3 => w[len] % 8 = c

\* A number above a fraction of k bits is read back with the fraction.
LEMMA NumberWritten ==
  ASSUME NEW n, NEW k, NEW c, NEW len, NumberFits(n, k, c, len)
  PROVE  NumberRead(LowBytes(ShiftLeft(n, k) \cup BitsOf(c), len), n, k, c, len)
  <1>0. /\ n \in SUBSET (0..31) /\ 31 \notin n /\ k \in 1..3 /\ c \in 0..3 /\ c < 2^k
        /\ len \in 1..8 /\ ShiftLeft(n, k) \subseteq 0..(8 * len - 1)
    BY DEF NumberFits
  <1> USE <1>0
  <1> DEFINE wire == ShiftLeft(n, k)
             full == wire \cup BitsOf(c)
             w == LowBytes(full, len)
  <1>1. /\ \A b \in n : b + k \in wire
        /\ \A b \in wire : b \in Nat /\ b >= k /\ b - k \in n
    BY DEF ShiftLeft, Bits64
  <1>2. BitsOf(c) \subseteq 0..1 /\ ByteAt(BitsOf(c), 0) = c /\ (c < 2 => 1 \notin BitsOf(c))
    <2>1. PICK S \in SUBSET {0, 1} : ByteAt(S, 0) = c
      BY FieldBytes
    <2>2. S \in SUBSET (0..7) /\ S \subseteq 0..1
      OBVIOUS
    <2>3. BitsOf(c) = S
      BY <2>1, <2>2, BitsKnown
    <2>4. c < 2 => 1 \notin S
      BY <2>1, <2>2, ByteAtZero
    <2> QED BY <2>1, <2>2, <2>3, <2>4
  <1>3. full \in Word
    <2>1. wire \in Word /\ BitsOf(c) \in Word
      BY WordOperations
    <2> QED BY <2>1 DEF Word
  <1>4. w \in Seq(Byte) /\ Len(w) = len
    BY LowBytesTyped
  <1>5. BigEndian(w) = full
    <2>1. BigEndian(w) = full \cap 0..(8 * len - 1)
      BY <1>3, BytesOfWord
    <2>2. full \subseteq 0..(8 * len - 1)
      BY <1>2
    <2> QED BY <2>1, <2>2
  <1>6. k = 1 \/ k = 2 \/ k = 3
    OBVIOUS
  <1>7. \A b \in BitsOf(c) : b < k
    <2>1. CASE k = 1
      <3>1. c < 2
        BY <2>1
      <3> QED BY <1>2, <2>1, <3>1
    <2>2. CASE k # 1
      BY <1>2, <2>2
    <2> QED BY <2>1, <2>2
  <1>8. ShiftRight(full, k) = n
    <2> HIDE DEF wire
    <2>1. ASSUME NEW x \in ShiftRight(full, k)
          PROVE  x \in n
      <3>1. PICK b \in full : b >= k /\ x = b - k
        BY DEF ShiftRight
      <3>2. b \in wire
        BY <1>2, <1>7, <3>1
      <3> QED BY <1>1, <3>1, <3>2
    <2>2. ASSUME NEW x \in n
          PROVE  x \in ShiftRight(full, k)
      <3>1. x + k \in full /\ x + k >= k /\ (x + k) - k = x
        BY <1>1
      <3> QED BY <3>1 DEF ShiftRight
    <2> QED BY <2>1, <2>2
  <1>9. w[len] = ByteAt(full, 0)
    <2>1. len \in 1..len /\ 8 * (len - len) = 0
      OBVIOUS
    <2> QED BY <2>1 DEF LowBytes
  <1>10. ByteAt(full, 0) = ByteAt(wire, 0) + c
    <2>1. \A i \in 0..7 : ~(0 + i \in wire /\ 0 + i \in BitsOf(c))
      BY <1>1, <1>7
    <2> QED BY <1>2, <2>1, ByteAtSum
  <1>11. k = 2 => 0 \notin wire /\ 1 \notin wire
    BY <1>1
  <1>12. k = 3 => 0 \notin wire /\ 1 \notin wire /\ 2 \notin wire
    BY <1>1
  <1> DEFINE low == ByteAt(wire, 0)
  <1>13. low \in Nat
    BY ByteAtIsByte
  <1>14. k = 2 => low % 4 = 0
    BY <1>11, ByteAtZero
  <1>15. k = 3 => low % 8 = 0
    BY <1>12, ByteAtZero
  <1> HIDE DEF low
  <1>16. /\ k = 2 => (low + c) % 4 = c
         /\ k = 3 => (low + c) % 8 = c
    BY <1>13, <1>14, <1>15
  <1> QED BY <1>4, <1>5, <1>8, <1>9, <1>10, <1>16 DEF low, NumberRead

\* A number below 2^31 is not sign-extended.
LEMMA WidenedIs ==
  ASSUME NEW n, 31 \notin n
  PROVE  Widened(n) = n
  BY DEF Widened, IntIsNegative

\* What mc7p_write_slot_no writes is read as the number and the fraction.
LEMMA SlotNoReads ==
  ASSUME NEW n \in SUBSET (0..29), NEW c \in 0..3
  PROVE  LET no == WriteSlotNo(n, c)
         IN  /\ no \in Seq(Byte) /\ Len(no) \in 1..4
             /\ n \subseteq 0..13 => Len(no) \in 1..2
             /\ ShiftRight(BigEndian(no), 2) = n /\ no[Len(no)] % 4 = c
  <1> DEFINE wire == ShiftLeft(n, 2)
             len == ByteLength(wire)
  <1>1. wire = ShiftLeft(Widened(n), 2)
    BY WidenedIs
  <1>2. wire \in Word
    BY WordOperations
  <1>3. len \in 1..8 /\ wire \subseteq 0..(8 * len - 1)
        /\ \A m \in 1..8 : wire \subseteq 0..(8 * m - 1) => len <= m
    BY <1>2, ByteLengthTyped
  <1>4. wire \subseteq 0..(8 * 4 - 1) /\ (n \subseteq 0..13 => wire \subseteq 0..(8 * 2 - 1))
    BY DEF ShiftLeft
  <1>5. len \in 1..4 /\ (n \subseteq 0..13 => len \in 1..2)
    <2>1. 4 \in 1..8 /\ 2 \in 1..8
      OBVIOUS
    <2> HIDE DEF len, wire
    <2>2. len <= 4 /\ (n \subseteq 0..13 => len <= 2)
      BY <1>3, <1>4, <2>1
    <2> QED BY <1>3, <2>2
  <1>6. WriteSlotNo(n, c) = LowBytes(wire \cup BitsOf(c), len)
    BY <1>1 DEF WriteSlotNo
  <1>7. n \in SUBSET (0..31) /\ 31 \notin n /\ c < 2^2 /\ 2 \in 1..3
    OBVIOUS
  <1> DEFINE w == LowBytes(wire \cup BitsOf(c), len)
  <1>8. /\ w \in Seq(Byte) /\ Len(w) = len /\ ShiftRight(BigEndian(w), 2) = n
        /\ w[len] % 4 = c
    <2> HIDE DEF len
    <2>1. NumberFits(n, 2, c, len)
      BY <1>3, <1>7 DEF NumberFits
    <2>2. NumberRead(w, n, 2, c, len)
      BY <2>1, NumberWritten
    <2> QED BY <2>2 DEF NumberRead
  <1> HIDE DEF w, len, wire
  <1> QED BY <1>5, <1>6, <1>8 DEF w

\* What mc7p_write_ptr_no writes is read as the number and the access bit.
LEMMA PtrNoReads ==
  ASSUME NEW n \in SUBSET (0..31), NEW a \in 0..1, NEW l \in WritePtrNo(n, a)
  PROVE  /\ l \in Seq(Byte) /\ Len(l) \in 1..2
         /\ ShiftRight(BigEndian(l), 3) = n /\ l[Len(l)] % 8 = a
  <1> DEFINE wide == ShiftLeft(Widened(n), 3)
             len == ByteLength(wide)
  <1>1. len \in 1..2 /\ l = LowBytes(wide \cup BitsOf(a), len)
    BY DEF WritePtrNo
  <1>2. wide \in Word
    BY WordOperations
  <1>3. len \in 1..8 /\ wide \subseteq 0..(8 * len - 1)
    BY <1>2, ByteLengthTyped
  <1>4. 34 \notin wide
    <2> HIDE DEF len, wide
    <2> QED BY <1>1, <1>3
  <1>5. 31 \notin n
    <2> SUFFICES ASSUME 31 \in n PROVE 31 \in Widened(n)
      BY <1>4 DEF ShiftLeft, Bits64
    <2> QED BY DEF Widened, SignExtend
  <1>6. wide = ShiftLeft(n, 3)
    BY <1>5, WidenedIs
  <1>7. a \in 0..3 /\ a < 2^3 /\ 3 \in 1..3
    OBVIOUS
  <1> HIDE DEF len, wide
  <1>8. LET w == LowBytes(ShiftLeft(n, 3) \cup BitsOf(a), len)
        IN  /\ w \in Seq(Byte) /\ Len(w) = len /\ ShiftRight(BigEndian(w), 3) = n
            /\ w[len] % 8 = a
    <2>1. NumberFits(n, 3, a, len)
      BY <1>3, <1>5, <1>6, <1>7 DEF NumberFits
    <2>2. NumberRead(LowBytes(ShiftLeft(n, 3) \cup BitsOf(a), len), n, 3, a, len)
      BY <2>1, NumberWritten
    <2> QED BY <2>2 DEF NumberRead
  <1> QED BY <1>1, <1>6, <1>8

\* Where a sequence of bytes lies in the code.
At(code, pos, s) ==
  /\ code \in Seq(Byte) /\ pos \in Nat /\ s \in Seq(Byte) /\ pos + Len(s) <= Len(code)
  /\ \A i \in 1..Len(s) : code[pos + i] = s[i]

\* Two sequences one after another lie at their places.
LEMMA AtSplit ==
  ASSUME NEW code, NEW pos, NEW a \in Seq(Byte), NEW b \in Seq(Byte), At(code, pos, a \o b)
  PROVE  At(code, pos, a) /\ At(code, pos + Len(a), b) /\ Len(a \o b) = Len(a) + Len(b)
  <1>1. /\ code \in Seq(Byte) /\ pos \in Nat /\ pos + Len(a \o b) <= Len(code)
        /\ \A i \in 1..Len(a \o b) : code[pos + i] = (a \o b)[i]
    BY DEF At
  <1> HIDE DEF Byte
  <1>2. /\ Len(a) \in Nat /\ Len(b) \in Nat /\ Len(code) \in Nat
        /\ Len(a \o b) = Len(a) + Len(b)
        /\ \A i \in 1..Len(a) : (a \o b)[i] = a[i]
        /\ \A i \in 1..Len(b) : (a \o b)[Len(a) + i] = b[i]
    OBVIOUS
  <1>3. \A i \in 1..Len(a) : i \in 1..Len(a \o b)
    BY <1>2
  <1>4. \A i \in 1..Len(b) : Len(a) + i \in 1..Len(a \o b)
                             /\ pos + (Len(a) + i) = pos + Len(a) + i
    BY <1>1, <1>2
  <1>5. At(code, pos, a)
    BY <1>1, <1>2, <1>3 DEF At
  <1>6. \A i \in 1..Len(b) : code[pos + Len(a) + i] = b[i]
    <2> TAKE i \in 1..Len(b)
    <2>1. code[pos + (Len(a) + i)] = (a \o b)[Len(a) + i]
      BY <1>1, <1>4, Zenon
    <2> QED BY <1>2, <1>4, <2>1, Zenon
  <1>7. pos + Len(a) \in Nat /\ pos + Len(a) + Len(b) <= Len(code)
    BY <1>1, <1>2
  <1>8. At(code, pos + Len(a), b)
    BY <1>1, <1>6, <1>7 DEF At
  <1> QED BY <1>2, <1>5, <1>8

\* What lies at a place can be taken there.
LEMMA AtBytes ==
  ASSUME NEW code, NEW pos, NEW s, At(code, pos, s)
  PROVE  CanTake(code, pos, Len(s)) /\ Bytes(code, pos, Len(s)) = s
  <1>1. /\ pos \in Nat /\ s \in Seq(Byte) /\ pos + Len(s) <= Len(code)
        /\ \A i \in 1..Len(s) : code[pos + i] = s[i]
    BY DEF At
  <1> HIDE DEF Byte
  <1>2. Len(s) \in Nat /\ s = [i \in 1..Len(s) |-> s[i]]
    BY <1>1
  <1>3. Bytes(code, pos, Len(s)) = [i \in 1..Len(s) |-> code[pos + i]]
    <2> DEFINE n == Len(s)
    <2>1. n \in Nat
      BY <1>2
    <2> HIDE DEF n
    <2>2. Bytes(code, pos, n) = [i \in 1..n |-> code[pos + i]]
      BY <1>1, <2>1, BytesAre
    <2> QED BY <2>2 DEF n
  <1>4. [i \in 1..Len(s) |-> code[pos + i]] = [i \in 1..Len(s) |-> s[i]]
    BY <1>1
  <1> QED BY <1>1, <1>2, <1>3, <1>4 DEF CanTake

\* A first byte and what follows it.
LEMMA AtFirst ==
  ASSUME NEW code, NEW pos, NEW h, NEW s, At(code, pos, <<h>> \o s), h \in Byte, s \in Seq(Byte)
  PROVE  /\ code[pos + 1] = h /\ Peek(code, pos) = h /\ AtHeader(code, pos)
         /\ At(code, pos + 1, s) /\ Len(<<h>> \o s) = 1 + Len(s) /\ Len(s) \in Nat
         /\ pos \in Nat
  <1>1. <<h>> \in Seq(Byte) /\ Len(<<h>>) = 1 /\ <<h>>[1] = h
    OBVIOUS
  <1>2. At(code, pos, <<h>>) /\ At(code, pos + 1, s) /\ Len(<<h>> \o s) = 1 + Len(s)
    <2> DEFINE a == <<h>>
    <2>1. a \in Seq(Byte) /\ At(code, pos, a \o s)
      BY <1>1
    <2>0. Len(a) = 1
      BY <1>1
    <2> HIDE DEF a, Byte
    <2>2. At(code, pos, a) /\ At(code, pos + Len(a), s) /\ Len(a \o s) = Len(a) + Len(s)
      BY <2>1, AtSplit
    <2>3. At(code, pos, a) /\ At(code, pos + 1, s) /\ Len(a \o s) = 1 + Len(s)
      BY <2>0, <2>2, Zenon
    <2> QED BY <2>3 DEF a
  <1>3. code[pos + 1] = h /\ pos + 1 <= Len(code) /\ pos \in Nat /\ code \in Seq(Byte)
    BY <1>1, <1>2 DEF At
  <1>4. Len(code) \in Nat
    <2> HIDE DEF Byte
    <2> QED BY <1>3
  <1>5. pos < Len(code) /\ pos \in 0..(Len(code) - 1)
    BY <1>3, <1>4
  <1>6. Len(s) \in Nat
    <2> HIDE DEF Byte
    <2> QED OBVIOUS
  <1> QED BY <1>2, <1>3, <1>5, <1>6 DEF Peek, AtHeader

FirstAt(code, pos, h, s) ==
    /\ code[pos + 1] = h /\ Peek(code, pos) = h /\ pos \in Nat
    /\ At(code, pos + 1, s) /\ Len(<<h>> \o s) = 1 + Len(s)

\* A header byte and its tail lie one after the other.
LEMMA AtFirstIs ==
  ASSUME NEW code, NEW pos, NEW h, NEW s, At(code, pos, <<h>> \o s), h \in Byte, s \in Seq(Byte)
  PROVE  FirstAt(code, pos, h, s)
  <1>1. /\ code[pos + 1] = h /\ Peek(code, pos) = h /\ pos \in Nat
        /\ At(code, pos + 1, s) /\ Len(<<h>> \o s) = 1 + Len(s)
    BY AtFirst
  <1> QED BY <1>1, Zenon DEF FirstAt

\* A byte alone.
LEMMA AtOne ==
  ASSUME NEW code, NEW pos, NEW h, At(code, pos, <<h>>), h \in Byte
  PROVE  /\ code[pos + 1] = h /\ Peek(code, pos) = h /\ AtHeader(code, pos)
         /\ pos \in Nat /\ Len(<<h>>) = 1 /\ CanTake(code, pos, 1)
  <1>1. <<h>> \o <<>> = <<h>> /\ <<>> \in Seq(Byte)
    <2> HIDE DEF Byte
    <2> QED OBVIOUS
  <1>2. At(code, pos, <<h>> \o <<>>)
    BY <1>1
  <1>3. Len(<<h>>) = 1
    OBVIOUS
  <1> QED BY <1>1, <1>2, <1>3, AtFirst, AtBytes

\* DecodeIdent by its first byte: the form that takes the operand.
LEMMA IdentForm ==
  ASSUME NEW code, NEW pos, NEW consts, NEW mode, NEW predef, NEW dts
  PROVE  LET h   == Peek(code, pos)
             got == DecodeIdent(code, pos, consts, mode, predef, dts)
         IN  /\ IsImmediateHeader(h) => got = DecodeImmediate(code, pos, predef)
             /\ h \in 64..95 => got = DecodeNative(code, pos)
             /\ h \in 8..15 /\ mode \in {Mode.Pointer, Mode.SysPtr} =>
                    got = DecodeNative(code, pos)
             /\ h \in 96..167 /\ (h \in 164..167 => dts \cap {OT.String, OT.WString} = {}) =>
                    got = DecodeMemory(code, pos, dts)
             /\ h \in 168..223 => got = DecodeDb(code, pos, dts)
             /\ h \in 224..255 => got = DecodeIndirect(code, pos, dts)
  BY DEF DecodeIdent, IsImmediateHeader

\* The type a number gets when it is read with the parameter's own type.
ReadType(predef, dt) == dt = predef \/ (predef = OT.Undef /\ dt = OT.DInt)

\* The bytes of mc7p_encode_positive_immediate are read as their number.
LEMMA ImmediateReads ==
  ASSUME NEW code, NEW pos, NEW v \in Word, NEW predef, At(code, pos, PositiveImmediate(v))
  PROVE  /\ \E dt : /\ ReadType(predef, dt)
                    /\ [end |-> pos + Len(PositiveImmediate(v)), acc |-> Immediate(dt, v)]
                           \in DecodeImmediate(code, pos, predef)
         /\ IsImmediateHeader(Peek(code, pos))
  <1>1. CASE v \subseteq 0..1 /\ v # 0..1
    <2> DEFINE h == ByteAt(v, 0)
               dt == IF predef = OT.Undef THEN OT.DInt ELSE predef
    <2>1. PositiveImmediate(v) = <<h>> /\ h \in Byte
      <3>1. h \in Byte
        BY ByteAtIsByte DEF Byte
      <3> HIDE DEF h
      <3>2. PositiveImmediate(v) = <<ByteAt(v, 0)>>
        BY <1>1 DEF PositiveImmediate
      <3> QED BY <3>1, <3>2 DEF h
    <2>2. h <= 2
      <3>1. v = {} \/ v = {0} \/ v = {1}
        <4>1. v \subseteq {0, 1} /\ v # {0, 1}
          <5>1. 0..1 = {0, 1}
            OBVIOUS
          <5> QED BY <1>1, <5>1
        <4> QED BY <4>1
      <3> QED BY <3>1, ByteAtZero
    <2>3. BitsOf(h) = v
      <3>1. v \in SUBSET (0..7)
        BY <1>1
      <3> QED BY <3>1, BitsKnown
    <2> HIDE DEF h
    <2>4. At(code, pos, <<h>>)
      BY <2>1
    <2>5. code[pos + 1] = h /\ Peek(code, pos) = h /\ pos \in Nat /\ Len(<<h>>) = 1
      BY <2>1, <2>4, AtOne
    <2>6. [end |-> pos + 1, acc |-> Immediate(dt, v)] \in TinyImmediate(code, pos, predef)
      BY <2>2, <2>3, <2>5 DEF TinyImmediate, Got
    <2>7. ReadType(predef, dt)
      BY DEF ReadType
    <2>8. IsImmediateHeader(h)
      BY <2>1, <2>2 DEF IsImmediateHeader, Byte
    <2> QED BY <2>1, <2>5, <2>6, <2>7, <2>8 DEF DecodeImmediate
  <1>2. CASE ~(v \subseteq 0..1 /\ v # 0..1)
    <2> DEFINE len == ByteLength(v)
               h == 32 + len - 1
               s == BigEndianOf(v)
    <2>1. PositiveImmediate(v) = <<h>> \o s
      BY <1>2 DEF PositiveImmediate
    <2>2. len \in 1..8 /\ h \in 32..39 /\ h \in Byte /\ (h % 8) + 1 = len
      <3>1. len \in 1..8
        BY ByteLengthTyped
      <3> HIDE DEF len
      <3> QED BY <3>1 DEF Byte
    <2>3. s \in Seq(Byte) /\ Len(s) = len
      BY <2>2, LowBytesTyped DEF BigEndianOf
    <2>4. BigEndian(s) = v
      BY OffsetWritten DEF WriteOffset
    <2> HIDE DEF h, s, len
    <2>5. At(code, pos, <<h>> \o s)
      BY <2>1
    <2>6. /\ code[pos + 1] = h /\ Peek(code, pos) = h /\ pos \in Nat
          /\ At(code, pos + 1, s) /\ Len(<<h>> \o s) = 1 + Len(s)
      BY <2>2, <2>3, <2>5, AtFirst
    <2>7. CanTake(code, pos + 1, len) /\ Bytes(code, pos + 1, len) = s
      BY <2>3, <2>6, AtBytes
    <2>8. [end |-> pos + 1 + len, acc |-> Immediate(predef, v)]
              \in IntImmediate(code, pos, predef)
      <3>1. h \in 32..47 /\ ~(h >= 40)
        BY <2>2
      <3> QED BY <2>2, <2>4, <2>6, <2>7, <3>1 DEF IntImmediate, Got
    <2>9. pos + 1 + len = pos + Len(<<h>> \o s)
      BY <2>2, <2>3, <2>6
    <2>10. IsImmediateHeader(h)
      BY <2>2 DEF IsImmediateHeader
    <2> QED BY <2>1, <2>6, <2>8, <2>9, <2>10 DEF DecodeImmediate, ReadType
  <1> QED BY <1>1, <1>2

\* The byte 3 is read as all ones.
LEMMA OnesRead ==
  ASSUME NEW code, NEW pos, NEW predef, NEW h, h = 3, At(code, pos, <<h>>)
  PROVE  /\ [end |-> pos + 1, acc |-> Immediate(predef, AllOnes)]
                 \in DecodeImmediate(code, pos, predef)
         /\ IsImmediateHeader(Peek(code, pos))
  <1>1. code[pos + 1] = 3 /\ Peek(code, pos) = 3
    <2>1. h \in Byte
      BY DEF Byte
    <2>2. code[pos + 1] = h /\ Peek(code, pos) = h
      BY <2>1, AtOne
    <2> QED BY <2>2
  <1> QED BY <1>1 DEF DecodeImmediate, TinyImmediate, Got, IsImmediateHeader

\* An offset as it is written and read.
LEMMA OffsetReads ==
  ASSUME NEW dt, NEW offset \in Word, NEW off \in Written(dt, offset)
  PROVE  /\ off \in Word
         /\ BitOffset(DirectBit(dt, offset), WriteOffset(off)) = offset
         /\ off = {} /\ ~DirectBit(dt, offset) => offset = {}
  <1>1. CASE DirectBit(dt, offset)
    <2>1. off = offset
      BY <1>1 DEF Written
    <2> QED BY <1>1, <2>1, OffsetWritten DEF BitOffset
  <1>2. CASE ~DirectBit(dt, offset)
    <2>1. off = ShiftRight(offset, 3) /\ offset \cap 0..2 = {}
      BY <1>2 DEF Written
    <2>2. off \in Word
      BY <2>1, WordOperations
    <2>3. \A b \in offset : b \in 0..63 /\ b >= 3
      BY <2>1 DEF Word, Bits64
    <2>4. \A b : b \in ShiftLeft(off, 3) <=> b \in offset
      <3> TAKE b
      <3>1. ASSUME b \in ShiftLeft(off, 3)
            PROVE  b \in offset
        <4>1. PICK c \in off : b = c + 3
          BY <3>1 DEF ShiftLeft
        <4>2. PICK d \in offset : d >= 3 /\ c = d - 3
          BY <2>1 DEF ShiftRight
        <4>3. b = d
          BY <2>3, <4>1, <4>2
        <4> QED BY <4>2, <4>3
      <3>2. ASSUME b \in offset
            PROVE  b \in ShiftLeft(off, 3)
        <4>1. b \in 0..63 /\ b >= 3
          BY <2>3, <3>2
        <4>2. b - 3 \in off
          BY <2>1, <3>2, <4>1 DEF ShiftRight
        <4>3. b = (b - 3) + 3
          BY <4>1
        <4> QED BY <4>1, <4>2, <4>3 DEF ShiftLeft, Bits64
      <3> QED BY <3>1, <3>2
    <2>5. ShiftLeft(off, 3) = offset
      BY <2>4
    <2>6. off = {} => offset = {}
      BY <2>5 DEF ShiftLeft
    <2> QED BY <1>2, <2>2, <2>5, <2>6, OffsetWritten DEF BitOffset
  <1> QED BY <1>1, <1>2

\* An offset takes as many bytes as its highest bit asks for.
LEMMA OffsetLength ==
  ASSUME NEW w \in Word
  PROVE  /\ WriteOffset(w) \in Seq(Byte) /\ Len(WriteOffset(w)) = ByteLength(w)
         /\ ByteLength(w) \in 1..8
         /\ w \subseteq 0..31 => ByteLength(w) \in 1..4
  <1> DEFINE len == ByteLength(w)
  <1>1. len \in 1..8 /\ \A n \in 1..8 : w \subseteq 0..(8 * n - 1) => len <= n
    BY ByteLengthTyped
  <1>2. WriteOffset(w) \in Seq(Byte) /\ Len(WriteOffset(w)) = len
    BY <1>1, LowBytesTyped DEF WriteOffset, BigEndianOf
  <1>3. 4 \in 1..8 /\ 8 * 4 - 1 = 31
    OBVIOUS
  <1> HIDE DEF len
  <1>4. w \subseteq 0..31 => len \in 1..4
    <2>1. w \subseteq 0..31 => len <= 4
      BY <1>1, <1>3
    <2> QED BY <1>1, <2>1
  <1> QED BY <1>1, <1>2, <1>4 DEF len

\* A direct address is read as its area and place.
LEMMA DirectFormReads ==
  ASSUME NEW code, NEW pos, NEW dts, NEW bit \in BOOLEAN, NEW off \in Word, off \subseteq 0..31,
         NEW c \in 1..7, NEW area \in AreaFromDirect(c),
         At(code, pos, DirectForm(bit, off, c))
  PROVE  /\ \E dt : [end |-> pos + Len(DirectForm(bit, off, c)),
                     acc |-> Memory(dt, area, BitOffset(bit, WriteOffset(off)))]
                        \in DecodeMemory(code, pos, dts)
         /\ Peek(code, pos) \in 96..159
  <1> DEFINE s == WriteOffset(off)
             len == ByteLength(off)
             h == Header(IF bit THEN 96 ELSE 128, 4 * c, len - 1)
             k == IF bit THEN 96 ELSE 128
  <1>1. DirectForm(bit, off, c) = <<h>> \o s
    BY DEF DirectForm
  <1>2. s \in Seq(Byte) /\ Len(s) = len /\ len \in 1..4
    BY OffsetLength
  <1>3. h = k + 4 * c + (len - 1)
    <2>1. len - 1 \in 0..3
      BY <1>2
    <2>2. k \in {64, 96, 128} /\ c \in 0..7
      OBVIOUS
    <2> HIDE DEF len, k
    <2>3. Header(k, 4 * c, len - 1) = k + 4 * c + (len - 1)
      BY <2>1, <2>2, HeadersAre
    <2> QED BY <2>3 DEF k
  <1> HIDE DEF s, h, len
  <1>4. /\ h \in 96..159 /\ h % 4 = len - 1 /\ (h \div 4) % 8 = c
        /\ (h < 128 <=> bit) /\ h \in Byte
    BY <1>2, <1>3 DEF Byte
  <1> HIDE DEF k
  <1>5. /\ code[pos + 1] = h /\ Peek(code, pos) = h /\ pos \in Nat
        /\ At(code, pos + 1, s) /\ Len(<<h>> \o s) = 1 + Len(s)
    BY <1>1, <1>2, <1>4, AtFirst
  <1>6. CanTake(code, pos + 1, len) /\ Bytes(code, pos + 1, len) = s
    BY <1>2, <1>5, AtBytes
  <1> DEFINE dt == IF ~(h < 128) /\ BitOr(h < 128, dts) = OT.Bool THEN OT.Void
                   ELSE BitOr(h < 128, dts)
             got == [end |-> pos + 1 + len, acc |-> Memory(dt, area, BitOffset(h < 128, s))]
  <1>7. (h % 4) + 1 = len
    BY <1>2, <1>4
  <1>8. got \in DirectMemory(code, pos, dts)
    <2>1. got \in Got(CanTake(code, pos + 1, len), pos + 1 + len,
                      Memory(dt, area, BitOffset(h < 128, Bytes(code, pos + 1, len))))
      BY <1>6 DEF Got
    <2> QED BY <1>4, <1>5, <1>7, <2>1 DEF DirectMemory
  <1>9. got \in DecodeMemory(code, pos, dts)
    <2>1. ~(code[pos + 1] >= 160)
      BY <1>4, <1>5
    <2> QED BY <1>8, <2>1 DEF DecodeMemory
  <1>10. pos + 1 + len = pos + Len(<<h>> \o s)
    BY <1>2, <1>5
  <1> QED BY <1>1, <1>4, <1>5, <1>9, <1>10 DEF s

\* An address with an area byte is read as its area and place.
LEMMA AddressFormReads ==
  ASSUME NEW code, NEW pos, NEW dts, NEW bit \in BOOLEAN, NEW off \in Word, off \subseteq 0..31,
         NEW c \in Byte, NEW area \in AreaFromAddressByte(c),
         At(code, pos, AddressForm(bit, off, c))
  PROVE  /\ \E dt : [end |-> pos + Len(AddressForm(bit, off, c)),
                     acc |-> Memory(dt, area, BitOffset(bit, WriteOffset(off)))]
                        \in DecodeMemory(code, pos, dts)
         /\ Peek(code, pos) \in 160..167
  <1> DEFINE s == WriteOffset(off)
             len == ByteLength(off)
             k == IF bit THEN 160 ELSE 164
             h == Header(k, len - 1, 0)
  <1>1. AddressForm(bit, off, c) = <<h>> \o (<<c>> \o s)
    <2>1. AddressForm(bit, off, c) = <<h, c>> \o s
      BY DEF AddressForm
    <2>2. s \in Seq(Byte)
      BY OffsetLength
    <2> HIDE DEF h, s
    <2>3. <<h, c>> \o s = <<h>> \o (<<c>> \o s)
      BY <2>2
    <2> QED BY <2>1, <2>3
  <1>2. s \in Seq(Byte) /\ Len(s) = len /\ len \in 1..4
    BY OffsetLength
  <1>3. h = k + (len - 1)
    <2>1. len - 1 \in 0..3
      BY <1>2
    <2>2. k \in {160, 164, 168}
      OBVIOUS
    <2> HIDE DEF len, k
    <2> QED BY <2>1, <2>2, HeadersAre
  <1> HIDE DEF s, h, len
  <1>4. /\ h \in 160..167 /\ h % 4 = len - 1 /\ (h % 8 < 4 <=> bit) /\ h \in Byte
    BY <1>2, <1>3 DEF Byte
  <1> HIDE DEF k
  <1> DEFINE t == <<c>> \o s
  <1>5. t \in Seq(Byte)
    BY <1>2
  <1> HIDE DEF t
  <1>6. /\ code[pos + 1] = h /\ Peek(code, pos) = h /\ pos \in Nat
        /\ At(code, pos + 1, t) /\ Len(<<h>> \o t) = 1 + Len(t)
    <2>1. At(code, pos, <<h>> \o t)
      BY <1>1 DEF t
    <2> QED BY <1>4, <1>5, <2>1, AtFirst
  <1>7. /\ Peek(code, pos + 1) = c /\ At(code, pos + 1 + 1, s) /\ Len(t) = 1 + Len(s)
    BY <1>2, <1>6, AtFirst DEF t
  <1>8. pos + 1 + 1 = pos + 2 /\ (h % 4) + 1 = len
    BY <1>2, <1>4, <1>6
  <1>9. Bytes(code, pos + 2, len) = s /\ CanTake(code, pos + 2, len)
    BY <1>2, <1>7, <1>8, AtBytes
  <1>10. CanTake(code, pos + 1, 1 + len)
    <2>1. pos + 2 + len <= Len(code)
      BY <1>9 DEF CanTake
    <2>2. pos + 1 + (1 + len) = pos + 2 + len
      BY <1>2, <1>6
    <2> QED BY <2>1, <2>2 DEF CanTake
  <1> DEFINE got == [end |-> pos + 2 + len,
                     acc |-> Memory(BitOr(h % 8 < 4, dts), area, BitOffset(h % 8 < 4, s))]
  <1>11. got \in AddressMemory(code, pos, dts)
    <2>1. got \in Got(CanTake(code, pos + 1, 1 + len), pos + 2 + len,
                      Memory(BitOr(h % 8 < 4, dts), area,
                             BitOffset(h % 8 < 4, Bytes(code, pos + 2, len))))
      BY <1>9, <1>10 DEF Got
    <2> QED BY <1>6, <1>7, <1>8, <2>1 DEF AddressMemory
  <1>12. got \in DecodeMemory(code, pos, dts)
    <2>1. code[pos + 1] >= 160
      BY <1>4, <1>6
    <2> QED BY <1>11, <2>1 DEF DecodeMemory
  <1>13. pos + 2 + len = pos + Len(<<h>> \o t)
    BY <1>2, <1>6, <1>7
  <1> QED BY <1>1, <1>4, <1>6, <1>12, <1>13 DEF s, t

\* A slot or pointer header is read as the scope and the number.
LEMMA SlotFormReads ==
  ASSUME NEW code, NEW pos, NEW loc \in 0..6, NEW n \in SUBSET (0..29), NEW c \in 0..3,
         At(code, pos, SlotForm(loc, WriteSlotNo(n, c)))
  PROVE  LET end == pos + Len(SlotForm(loc, WriteSlotNo(n, c)))
         IN  /\ loc <= 5 => \E dt : [end |-> end,
                                     acc |-> Slot(dt, ScopeFromCode(c), n,
                                                  SlotRange.SlotBit + loc)]
                                        \in DecodeNative(code, pos)
             /\ loc = 6 => [end |-> end, acc |-> Pointer(ScopeFromCode(c), n)]
                               \in DecodeNative(code, pos)
             /\ Peek(code, pos) \in 64..95
  <1> DEFINE no == WriteSlotNo(n, c)
             len == Len(no)
             h == Header(64, 4 * loc, len - 1)
  <1>1. SlotForm(loc, no) = <<h>> \o no
    BY DEF SlotForm
  <1>2. /\ no \in Seq(Byte) /\ len \in 1..4
        /\ ShiftRight(BigEndian(no), 2) = n /\ no[len] % 4 = c
    BY SlotNoReads
  <1>3. h = 64 + 4 * loc + (len - 1)
    <2>1. len - 1 \in 0..3
      BY <1>2
    <2>2. 64 \in {64, 96, 128} /\ loc \in 0..7
      OBVIOUS
    <2> HIDE DEF len
    <2> QED BY <2>1, <2>2, HeadersAre
  <1> HIDE DEF no, h
  <1>4. /\ h \in 64..95 /\ (h % 4) + 1 = len /\ (h \div 4) % 8 = loc /\ h \in Byte
    <2>1. len \in 1..4
      BY <1>2
    <2> HIDE DEF len
    <2> QED BY ONLY <1>3, <2>1 DEF Byte
  <1>5. /\ code[pos + 1] = h /\ Peek(code, pos) = h /\ pos \in Nat
        /\ At(code, pos + 1, no) /\ Len(<<h>> \o no) = 1 + len
    <2>1. At(code, pos, <<h>> \o no)
      BY <1>1 DEF no
    <2>2. h \in Byte /\ no \in Seq(Byte)
      BY <1>2, <1>4
    <2>3. FirstAt(code, pos, h, no)
      BY ONLY <2>1, <2>2, AtFirstIs
    <2> QED BY ONLY <2>3, Zenon DEF FirstAt
  <1>6. CanTake(code, pos + 1, len) /\ Bytes(code, pos + 1, len) = no
    BY <1>2, <1>5, AtBytes
  <1>7. DecodeNative(code, pos) = SlotOrPointer(code, pos)
    BY <1>4, <1>5, NativeForm
  <1>8. pos + 1 + len = pos + Len(<<h>> \o no)
    BY <1>2, <1>5
  <1> HIDE DEF len
  <1>9. ASSUME loc <= 5
        PROVE  \E dt : [end |-> pos + 1 + len,
                        acc |-> Slot(dt, ScopeFromCode(c), n, SlotRange.SlotBit + loc)]
                           \in SlotOrPointer(code, pos)
    <2> DEFINE dt == <<OT.Bool, OT.Byte, OT.Word, OT.DWord, OT.LWord, OT.Real>>[loc + 1]
    <2>1. [end |-> pos + 1 + len,
           acc |-> Slot(dt, ScopeFromCode(c), n, SlotRange.SlotBit + loc)]
              \in SlotOrPointer(code, pos)
      BY <1>2, <1>4, <1>5, <1>6, <1>9 DEF SlotOrPointer, Got
    <2> QED BY <2>1
  <1>10. ASSUME loc = 6
         PROVE  [end |-> pos + 1 + len, acc |-> Pointer(ScopeFromCode(c), n)]
                    \in SlotOrPointer(code, pos)
    BY <1>2, <1>4, <1>5, <1>6, <1>10 DEF SlotOrPointer, Got
  <1> QED BY <1>1, <1>4, <1>5, <1>7, <1>8, <1>9, <1>10 DEF no

\* The byte of a system area is read as the area.
LEMMA SystemReads ==
  ASSUME NEW code, NEW pos, NEW c \in 1..7, NEW area \in AreaFromDirect(c),
         At(code, pos, <<8 + c>>)
  PROVE  /\ [end |-> pos + 1, acc |-> AreaPointer(area)] \in DecodeNative(code, pos)
         /\ Peek(code, pos) \in 8..15
  <1> DEFINE h == 8 + c
  <1>1. h \in Byte /\ h \in 8..15 /\ h % 8 = c
    BY DEF Byte
  <1> HIDE DEF h
  <1>2. code[pos + 1] = h /\ Peek(code, pos) = h
    BY <1>1, AtOne DEF h
  <1>3. [end |-> pos + 1, acc |-> AreaPointer(area)] \in SystemPointer(code, pos)
    BY <1>1, <1>2 DEF SystemPointer
  <1> QED BY <1>1, <1>2, <1>3, NativeForm

\* A data block's number and its offset.
LEMMA DbPlainReads ==
  ASSUME NEW code, NEW pos, NEW dts, NEW n \in SUBSET (0..29), NEW c \in 0..2,
         NEW range \in DbDirectRange(c),
         At(code, pos, DbForm(FALSE, WriteSlotNo(n, c), {}))
  PROVE  /\ \E dt : [end |-> pos + Len(DbForm(FALSE, WriteSlotNo(n, c), {})),
                     acc |-> DbAccess(dt, n, range, {})] \in DecodeDb(code, pos, dts)
         /\ Peek(code, pos) \in 168..223
  <1> DEFINE no == WriteSlotNo(n, c)
             len == Len(no)
             h == Header(168, len - 1, 0)
  <1>1. DbForm(FALSE, no, {}) = <<h>> \o no
    BY DEF DbForm
  <1>2. /\ no \in Seq(Byte) /\ len \in 1..4
        /\ ShiftRight(BigEndian(no), 2) = n /\ no[len] % 4 = c
    BY SlotNoReads
  <1>3. h = 168 + (len - 1)
    <2>1. len - 1 \in 0..3
      BY <1>2
    <2> HIDE DEF len
    <2> QED BY <2>1, HeadersAre
  <1> HIDE DEF no, h
  <1>4. h \in 168..175 /\ (h % 8) + 1 = len /\ h \in Byte
    <2>1. len \in 1..4
      BY <1>2
    <2> HIDE DEF len
    <2> QED BY ONLY <1>3, <2>1 DEF Byte
  <1>5. /\ code[pos + 1] = h /\ Peek(code, pos) = h /\ pos \in Nat
        /\ At(code, pos + 1, no) /\ Len(<<h>> \o no) = 1 + len
    <2>1. At(code, pos, <<h>> \o no)
      BY <1>1 DEF no
    <2>2. h \in Byte /\ no \in Seq(Byte)
      BY <1>2, <1>4
    <2>3. FirstAt(code, pos, h, no)
      BY ONLY <2>1, <2>2, AtFirstIs
    <2> QED BY ONLY <2>3, Zenon DEF FirstAt
  <1>6. CanTake(code, pos + 1, len) /\ Bytes(code, pos + 1, len) = no
    BY <1>2, <1>5, AtBytes
  <1>7. DecodeDb(code, pos, dts) = DbNoOffset(code, pos, dts)
    BY <1>4, <1>5, DbFormInPart
  <1>8. pos + 1 + len = pos + Len(<<h>> \o no)
    BY <1>2, <1>5
  <1> HIDE DEF len
  <1>9. [end |-> pos + 1 + len, acc |-> DbAccess(TypeOr(dts, OT.Void), n, range, {})]
            \in DbNoOffset(code, pos, dts)
    BY <1>2, <1>4, <1>5, <1>6 DEF DbNoOffset
  <1>10. h \in 168..223
    BY <1>4
  <1> QED BY <1>1, <1>5, <1>7, <1>8, <1>9, <1>10 DEF no

DbPlace(n, c, range, bit, off) ==
    /\ n \in SUBSET (0..13) /\ c \in 0..2 /\ range \in DbDirectRange(c) /\ bit \in BOOLEAN
    /\ off \in Word /\ off \subseteq 0..31 /\ (off = {} => bit = TRUE)

\* A data block's number, range and place are read back.
LEMMA DbOffsetReads ==
  ASSUME NEW code, NEW pos, NEW dts, NEW n, NEW c, NEW range, NEW bit, NEW off,
         DbPlace(n, c, range, bit, off),
         At(code, pos, DbForm(bit, WriteSlotNo(n, c), off))
  PROVE  /\ \E dt : [end |-> pos + Len(DbForm(bit, WriteSlotNo(n, c), off)),
                     acc |-> DbAccess(dt, n, range, BitOffset(bit, WriteOffset(off)))]
                        \in DecodeDb(code, pos, dts)
         /\ Peek(code, pos) \in 168..223
  <1>0. /\ n \in SUBSET (0..13) /\ c \in 0..2 /\ range \in DbDirectRange(c) /\ bit \in BOOLEAN
        /\ off \in Word /\ off \subseteq 0..31 /\ (off = {} => bit = TRUE)
    BY Zenon DEF DbPlace
  <1> DEFINE no == WriteSlotNo(n, c)
             len == Len(no)
             s == WriteOffset(off)
             m == ByteLength(off)
             k == IF bit THEN 192 ELSE 208
             h == Header(k, 4 * (len - 1), m - 1)
  <1>1. DbForm(bit, no, off) = <<h>> \o no \o s
    BY <1>0 DEF DbForm
  <1>2. /\ no \in Seq(Byte) /\ len \in 1..2
        /\ ShiftRight(BigEndian(no), 2) = n /\ no[len] % 4 = c
    <2>1. n \in SUBSET (0..29) /\ c \in 0..3
      BY <1>0
    <2> QED BY <1>0, <2>1, SlotNoReads
  <1>3. s \in Seq(Byte) /\ Len(s) = m /\ m \in 1..4
    BY <1>0, OffsetLength
  <1>4. h = k + 4 * (len - 1) + (m - 1)
    <2>1. len - 1 \in 0..1 /\ m - 1 \in 0..3
      BY <1>2, <1>3
    <2>2. k \in {192, 208, 224, 232, 240, 248}
      OBVIOUS
    <2> HIDE DEF len, m, k
    <2> QED BY <2>1, <2>2, HeadersAre
  <1> HIDE DEF no, h, s, m
  <1>5. /\ h \in (192..199) \cup (208..215) /\ ((h \div 4) % 4) + 1 = len
        /\ (h % 4) + 1 = m /\ h \in Byte /\ (h < 208 <=> bit)
    <2>1. CASE bit
      <3>1. h = 192 + 4 * (len - 1) + (m - 1)
        BY <1>4, <2>1
      <3>2. len \in 1..2 /\ m \in 1..4
        BY <1>2, <1>3
      <3> HIDE DEF len
      <3> QED BY ONLY <2>1, <3>1, <3>2 DEF Byte
    <2>2. CASE ~bit
      <3>1. h = 208 + 4 * (len - 1) + (m - 1)
        BY <1>4, <2>2
      <3>2. len \in 1..2 /\ m \in 1..4
        BY <1>2, <1>3
      <3> HIDE DEF len
      <3> QED BY ONLY <2>2, <3>1, <3>2 DEF Byte
    <2> QED BY <2>1, <2>2
  <1> DEFINE t == no \o s
  <1>6. t \in Seq(Byte) /\ <<h>> \o no \o s = <<h>> \o t
    BY <1>2, <1>3
  <1> HIDE DEF t, k
  <1>7. /\ code[pos + 1] = h /\ Peek(code, pos) = h /\ pos \in Nat
        /\ At(code, pos + 1, t) /\ Len(<<h>> \o t) = 1 + Len(t)
    <2>1. At(code, pos, <<h>> \o t)
      BY <1>1, <1>6 DEF no
    <2>2. h \in Byte /\ t \in Seq(Byte)
      BY <1>5, <1>6
    <2>3. FirstAt(code, pos, h, t)
      BY ONLY <2>1, <2>2, AtFirstIs
    <2> QED BY ONLY <2>3, Zenon DEF FirstAt
  <1>8. /\ At(code, pos + 1, no) /\ At(code, pos + 1 + len, s) /\ Len(t) = len + m
    <2>1. At(code, pos + 1, no \o s)
      BY <1>7 DEF t
    <2> QED BY <1>2, <1>3, <2>1, AtSplit DEF t
  <1>9. /\ Bytes(code, pos + 1, len) = no /\ Bytes(code, pos + 1 + len, m) = s
        /\ CanTake(code, pos + 1 + len, m)
    BY <1>3, <1>8, AtBytes
  <1> HIDE DEF len
  <1>10. CanTake(code, pos + 1, len + m)
    <2>1. pos + 1 + len + m <= Len(code)
      BY <1>9 DEF CanTake
    <2>2. pos + 1 + (len + m) = pos + 1 + len + m
      BY <1>2, <1>3, <1>7
    <2> QED BY <2>1, <2>2 DEF CanTake
  <1>11. DecodeDb(code, pos, dts) = DbDirect(code, pos, dts)
    BY <1>5, <1>7, DbFormInPart
  <1>12. pos + 1 + len + m = pos + Len(<<h>> \o t)
    BY <1>2, <1>3, <1>7, <1>8
  <1>13. [end |-> pos + 1 + len + m,
          acc |-> DbAccess(BitOr(h < 208, dts), n, range, BitOffset(h < 208, s))]
            \in DbDirect(code, pos, dts)
    <2>1. /\ ((code[pos + 1] \div 4) % 4) + 1 = len /\ (code[pos + 1] % 4) + 1 = m
          /\ code[pos + 1] = h
      BY <1>5, <1>7
    <2>2. /\ CanTake(code, pos + 1, len + m) /\ Bytes(code, pos + 1, len) = no
          /\ Bytes(code, pos + 1 + len, m) = s
          /\ ShiftRight(BigEndian(no), 2) = n /\ no[len] % 4 = c
      BY <1>2, <1>9, <1>10
    <2>3. range \in DbDirectRange(c)
      BY <1>0
    <2> HIDE DEF BitOffset
    <2> QED BY ONLY <2>1, <2>2, <2>3 DEF DbDirect
  <1>14. h \in 168..223
    BY <1>5
  <1> QED BY <1>0, <1>1, <1>5, <1>6, <1>7, <1>11, <1>12, <1>13, <1>14 DEF no, s

\* Two sequences of bytes make one.
LEMMA ConcatTyped ==
  \A a, b \in Seq(Byte) : a \o b \in Seq(Byte)
  OBVIOUS

\* An indirect operand: the header, the pointer number and the offset.
IndirectShape(form, l, o, m, n, a) ==
    /\ form \in {224, 232, 240, 248}
    /\ l \in Seq(Byte) /\ Len(l) \in 1..2 /\ o \in Seq(Byte) /\ m \in 1..4
    /\ IF form = 232 THEN o = <<>> /\ m = 1 ELSE Len(o) = m
    /\ l[Len(l)] % 8 = a /\ ShiftRight(BigEndian(l), 3) = n

IndirectGot(form, o, n, a, dts) ==
    Indirect(BitOr(form = 240, dts),
             Pointer(IF a % 2 = 1 THEN Scope.NativeBlock ELSE Scope.NativeLocal, n),
             IF form = 224
             THEN Slot(OT.DWord, ScopeFromCode(o[Len(o)] % 4), ShiftRight(BigEndian(o), 2),
                       SlotRange.Slot32)
             ELSE Immediate(OT.DInt, BitOffset(form = 240, o)))

\* An indirect operand is read as its base and its offset.
LEMMA IndirectReads ==
  ASSUME NEW code, NEW pos, NEW dts, NEW form, NEW l, NEW o, NEW m, NEW n, NEW a,
         IndirectShape(form, l, o, m, n, a),
         At(code, pos, <<Header(form, 4 * (Len(l) - 1), m - 1)>> \o (l \o o))
  PROVE  /\ [end |-> pos + 1 + Len(l) + Len(o), acc |-> IndirectGot(form, o, n, a, dts)]
                \in DecodeIndirect(code, pos, dts)
         /\ Peek(code, pos) \in 224..255
  <1> DEFINE p == Len(l)
             h == Header(form, 4 * (p - 1), m - 1)
             q == Len(o)
             t == l \o o
  <1>1. /\ form \in {224, 232, 240, 248} /\ p \in 1..2 /\ m \in 1..4
        /\ l \in Seq(Byte) /\ o \in Seq(Byte) /\ t \in Seq(Byte)
        /\ form = 232 => q = 0
        /\ form # 232 => q = m
        /\ form = 232 => m = 1
    <2>1. Len(<<>>) = 0
      OBVIOUS
    <2>2. /\ l \in Seq(Byte) /\ o \in Seq(Byte) /\ form \in {224, 232, 240, 248}
          /\ p \in 1..2 /\ m \in 1..4 /\ (form = 232 => o = <<>> /\ m = 1)
          /\ (form # 232 => q = m)
      BY Zenon DEF IndirectShape
    <2>3. t \in Seq(Byte)
      <3>1. l \in Seq(Byte) /\ o \in Seq(Byte)
        BY <2>2
      <3> QED BY <3>1, ConcatTyped
    <2> QED BY <2>1, <2>2, <2>3, Zenon
  <1>2. h = form + 4 * (p - 1) + (m - 1)
    <2>1. p - 1 \in 0..1 /\ m - 1 \in 0..3
      BY <1>1
    <2>2. form \in {192, 208, 224, 232, 240, 248}
      BY <1>1
    <2> HIDE DEF p
    <2> DEFINE low == m - 1
    <2>3. low \in 0..3
      BY <2>1
    <2> HIDE DEF low
    <2>4. \A c \in 0..1 : Header(form, 4 * c, low) = form + 4 * c + low
      BY ONLY <2>2, <2>3, HeadersAre
    <2>5. Header(form, 4 * (p - 1), low) = form + 4 * (p - 1) + low
      BY ONLY <2>1, <2>4
    <2> QED BY <2>5 DEF low
  <1> HIDE DEF h
  <1>3. /\ h \in Byte /\ h \in 224..255 /\ h - (h % 8) = form
        /\ ((h \div 4) % 2) + 1 = p /\ (form # 232 => (h % 4) + 1 = q)
    <2>1. /\ h \in Byte /\ h \in 224..255 /\ h - (h % 8) = form
          /\ ((h \div 4) % 2) + 1 = p /\ (h % 4) + 1 = m
      <3>1. p \in 1..2 /\ m \in 1..4 /\ form \in {224, 232, 240, 248}
        BY <1>1
      <3>2. form = 232 => m = 1
        BY <1>1
      <3> HIDE DEF p
      <3> QED BY ONLY <1>2, <3>1, <3>2 DEF Byte
    <2> HIDE DEF q, p
    <2> QED BY <1>1, <2>1
  <1> HIDE DEF p, q, t
  <1>4. /\ code[pos + 1] = h /\ Peek(code, pos) = h /\ pos \in Nat
        /\ At(code, pos + 1, t)
    <2>1. At(code, pos, <<h>> \o t)
      BY DEF h, t, p
    <2>2. h \in Byte /\ t \in Seq(Byte)
      BY <1>1, <1>3
    <2>3. FirstAt(code, pos, h, t)
      BY ONLY <2>1, <2>2, AtFirstIs
    <2> QED BY ONLY <2>3, Zenon DEF FirstAt
  <1>5. At(code, pos + 1, l) /\ At(code, pos + 1 + p, o)
    <2>1. At(code, pos + 1, l \o o)
      BY <1>4 DEF t
    <2>2. l \in Seq(Byte) /\ o \in Seq(Byte)
      BY <1>1
    <2>3. At(code, pos + 1, l) /\ At(code, pos + 1 + Len(l), o)
      BY ONLY <2>1, <2>2, AtSplit
    <2> QED BY <2>3 DEF p
  <1>6. /\ Bytes(code, pos + 1, p) = l /\ Bytes(code, pos + 1 + p, q) = o
        /\ CanTake(code, pos + 1 + p, q)
    BY <1>5, AtBytes DEF p, q
  <1>7. CanTake(code, pos + 1, p + q)
    <2>1. pos + 1 + p + q <= Len(code)
      BY <1>6 DEF CanTake
    <2>2. p \in Nat /\ q \in Nat
      BY <1>1
    <2>3. pos + 1 + (p + q) = pos + 1 + p + q
      BY <2>2, <1>4
    <2> QED BY <2>1, <2>3 DEF CanTake
  <1>8. (IF form = 232 THEN 0 ELSE (h % 4) + 1) = q
    BY <1>1, <1>3
  <1>9. pos + 1 + p + q = pos + 1 + Len(l) + Len(o)
    BY DEF p, q
  <1>10. l[p] % 8 = a /\ ShiftRight(BigEndian(l), 3) = n
    BY DEF IndirectShape, p
  <1>11. [end |-> pos + 1 + p + q, acc |-> IndirectGot(form, o, n, a, dts)]
             \in DecodeIndirect(code, pos, dts)
    <2> DEFINE obytes == Bytes(code, pos + 1 + p, q)
               acc == Indirect(BitOr(form = 240, dts),
                        Pointer(IF (l[p] % 8) % 2 = 1 THEN Scope.NativeBlock
                                ELSE Scope.NativeLocal, ShiftRight(BigEndian(l), 3)),
                        IF form = 224
                        THEN Slot(OT.DWord, ScopeFromCode(o[q] % 4),
                                  ShiftRight(BigEndian(o), 2), SlotRange.Slot32)
                        ELSE Immediate(OT.DInt, BitOffset(form = 240, o)))
    <2>1. acc = IndirectGot(form, o, n, a, dts)
      BY <1>10, Zenon DEF IndirectGot, q
    <2>2. DecodeIndirect(code, pos, dts) =
              Got(CanTake(code, pos + 1, p + q), pos + 1 + p + q, acc)
      <3>1. code[pos + 1] - (code[pos + 1] % 8) = form
        BY <1>3, <1>4
      <3>2. ((code[pos + 1] \div 4) % 2) + 1 = p
        BY <1>3, <1>4
      <3>3. (IF form = 232 THEN 0 ELSE (code[pos + 1] % 4) + 1) = q
        BY <1>4, <1>8
      <3>4. Bytes(code, pos + 1, p) = l /\ Bytes(code, pos + 1 + p, q) = o
        BY <1>6
      <3> QED BY ONLY <3>1, <3>2, <3>3, <3>4, Zenon DEF DecodeIndirect, acc
    <2> HIDE DEF acc
    <2> QED BY <1>7, <2>1, <2>2 DEF Got
  <1> QED BY <1>3, <1>4, <1>9, <1>11
-----------------------------------------------------------------------------
(* The operands of a line, form by form.                                   *)
\* An access by its fields.
Fields(kind, dt, value, area, offset, number, scope, range, sub) ==
    [kind |-> kind, dt |-> dt, value |-> value, real |-> FALSE, area |-> area,
     offset |-> offset, number |-> number, scope |-> scope, range |-> range,
     text |-> <<>>, sub |-> sub]

\* What each constructor of an access puts in which field.
LEMMA ConstructorFields ==
  /\ \A dt, v : Immediate(dt, v) = Fields("imm", dt, v, 0, {}, {}, 0, 0, <<>>)
  /\ \A dt, a, o : Memory(dt, a, o) =
         Fields("mem", dt, {}, a, o, {}, 0, 0, <<>>)
  /\ \A dt, n, r, o : DbAccess(dt, n, r, o) =
         Fields("db", dt, {}, 0, o, LowBits(n, 32), 0, r, <<>>)
  /\ \A dt, s, n, r : Slot(dt, s, n, r) =
         Fields("slot", dt, {}, 0, {}, n, s, r, <<>>)
  /\ \A s, n : Pointer(s, n) =
         Fields("ptr", OT.Pointer, {}, 0, {}, n, s, 0, <<>>)
  /\ \A a : AreaPointer(a) =
         Fields("ptr", OT.Pointer, {}, a, {}, {}, Scope.NativeSystem, 0, <<>>)
  /\ \A dt, b, o : Indirect(dt, b, o) =
         Fields("indirect", dt, {}, 0, {}, {}, 0, 0, <<b, o>>)
  <1> DEFINE new(kind, dt) == Fields(kind, dt, {}, 0, {}, {}, 0, 0, <<>>)
  <1>0. \A kind, dt : AccNew(kind, dt) = new(kind, dt)
    BY DEF AccNew, Fields
  <1>1. ASSUME NEW dt, NEW v
        PROVE  Immediate(dt, v) =
                   Fields("imm", dt, v, 0, {}, {}, 0, 0, <<>>)
    <2>1. Immediate(dt, v) = [new("imm", dt) EXCEPT !.value = v]
      BY <1>0, Zenon DEF Immediate
    <2> QED BY <2>1 DEF Fields
  <1>2. ASSUME NEW dt, NEW a, NEW o
        PROVE  Memory(dt, a, o) =
                   Fields("mem", dt, {}, a, o, {}, 0, 0, <<>>)
    <2>1. Memory(dt, a, o) = [new("mem", dt) EXCEPT !.area = a, !.offset = o]
      BY <1>0, Zenon DEF Memory
    <2> QED BY <2>1 DEF Fields
  <1>3. ASSUME NEW dt, NEW n, NEW r, NEW o
        PROVE  DbAccess(dt, n, r, o) =
                   Fields("db", dt, {}, 0, o, LowBits(n, 32), 0, r, <<>>)
    <2>1. DbAccess(dt, n, r, o) = [new("db", dt) EXCEPT !.number = LowBits(n, 32), !.range = r,
                                                      !.offset = o]
      BY <1>0, Zenon DEF DbAccess
    <2> QED BY <2>1 DEF Fields
  <1>4. ASSUME NEW dt, NEW s, NEW n, NEW r
        PROVE  Slot(dt, s, n, r) =
                   Fields("slot", dt, {}, 0, {}, n, s, r, <<>>)
    <2>1. Slot(dt, s, n, r) = [new("slot", dt) EXCEPT !.scope = s, !.number = n, !.range = r]
      BY <1>0, Zenon DEF Slot
    <2> QED BY <2>1 DEF Fields
  <1>5. ASSUME NEW s, NEW n
        PROVE  Pointer(s, n) =
                   Fields("ptr", OT.Pointer, {}, 0, {}, n, s, 0, <<>>)
    <2>1. Pointer(s, n) = [new("ptr", OT.Pointer) EXCEPT !.scope = s, !.number = n]
      BY <1>0, Zenon DEF Pointer
    <2> QED BY <2>1 DEF Fields
  <1>6. ASSUME NEW a
        PROVE  AreaPointer(a) =
                   Fields("ptr", OT.Pointer, {}, a, {}, {}, Scope.NativeSystem, 0, <<>>)
    <2>1. AreaPointer(a) = [Fields("ptr", OT.Pointer, {}, 0, {}, {}, Scope.NativeSystem,
                                   0, <<>>) EXCEPT !.area = a]
      BY <1>5, Zenon DEF AreaPointer
    <2> QED BY <2>1 DEF Fields
  <1>7. ASSUME NEW dt, NEW b, NEW o
        PROVE  Indirect(dt, b, o) =
                   Fields("indirect", dt, {}, 0, {}, {}, 0, 0, <<b, o>>)
    <2>1. Indirect(dt, b, o) = [new("indirect", dt) EXCEPT !.sub = <<b, o>>]
      BY <1>0, Zenon DEF Indirect
    <2> QED BY <2>1 DEF Fields
  <1> QED BY <1>1, <1>2, <1>3, <1>4, <1>5, <1>6, <1>7, Zenon

\* What an access stands for, field by field.
LEMMA DenotesFields ==
  ASSUME NEW w, NEW kind, NEW dt, NEW value, NEW area, NEW offset, NEW number,
         NEW scope, NEW range, NEW sub, kind # "indirect",
         ~(kind = "slot" /\ range = SlotRange.Pointer)
  PROVE  Denotes(Fields(kind, dt, value, area, offset, number, scope, range, sub), w)
         = Fields(kind, 0, LowBits(value, w), area, offset, number, scope, range, <<>>)
  <1> DEFINE acc == Fields(kind, dt, value, area, offset, number, scope, range, sub)
  <1>1. acc.kind = kind /\ acc.range = range
    BY DEF Fields
  <1>2. AsPointer(acc) = acc
    BY <1>1 DEF AsPointer
  <1>3. Denotes(acc, w) = [acc EXCEPT !.dt = 0, !.value = LowBits(@, w), !.real = FALSE,
                                      !.sub = <<>>]
    BY <1>1, <1>2 DEF Denotes
  <1> QED BY <1>3 DEF Fields

\* What the operands of each form stand for.
BasePlace(b)   == [b EXCEPT !.dt = 0]
OffsetPlace(o) == [o EXCEPT !.dt = 0, !.range = 0]

\* What the operands of each form stand for.
LEMMA DenotesForms ==
  ASSUME NEW w
  PROVE  /\ \A dt, v : Denotes(Immediate(dt, v), w) = Immediate(0, LowBits(v, w))
         /\ \A dt, a, o : Denotes(Memory(dt, a, o), w) = Memory(0, a, o)
         /\ \A dt, n, r, o : Denotes(DbAccess(dt, n, r, o), w) = DbAccess(0, n, r, o)
         /\ \A dt, s, n, r : r # 1 => Denotes(Slot(dt, s, n, r), w) = Slot(0, s, n, r)
         /\ \A s, n : Denotes(Pointer(s, n), w) = Fields("ptr", 0, {}, 0, {}, n, s, 0, <<>>)
         /\ \A dt, s, n : Denotes(Slot(dt, s, n, 1), w) = Denotes(Pointer(s, n), w)
         /\ \A a : Denotes(AreaPointer(a), w) =
                Fields("ptr", 0, {}, a, {}, {}, Scope.NativeSystem, 0, <<>>)
         /\ \A dt, b, o : Denotes(Indirect(dt, b, o), w) =
                Indirect(0, BasePlace(b), OffsetPlace(o))
  <1>0. LowBits({}, w) = {}
    BY DEF LowBits
  <1>r. SlotRange.Pointer = 1
    BY DEF SlotRange
  <1>1. ASSUME NEW dt, NEW v
        PROVE  Denotes(Immediate(dt, v), w) =
                   Fields("imm", 0, LowBits(v, w), 0, {}, {}, 0, 0, <<>>)
    <2>1. Denotes(Fields("imm", dt, v, 0, {}, {}, 0, 0, <<>>), w) =
              Fields("imm", 0, LowBits(v, w), 0, {}, {}, 0, 0, <<>>)
      BY <1>0, <1>r, DenotesFields
    <2> QED BY <2>1, ConstructorFields
  <1>2. ASSUME NEW dt, NEW a, NEW o
        PROVE  Denotes(Memory(dt, a, o), w) =
                   Fields("mem", 0, {}, a, o, {}, 0, 0, <<>>)
    <2>1. Denotes(Fields("mem", dt, {}, a, o, {}, 0, 0, <<>>), w) =
              Fields("mem", 0, {}, a, o, {}, 0, 0, <<>>)
      BY <1>0, <1>r, DenotesFields
    <2> QED BY <2>1, ConstructorFields
  <1>3. ASSUME NEW dt, NEW n, NEW r, NEW o
        PROVE  Denotes(DbAccess(dt, n, r, o), w) = DbAccess(0, n, r, o)
    <2> DEFINE num == LowBits(n, 32)
    <2>2. /\ DbAccess(dt, n, r, o) = Fields("db", dt, {}, 0, o, num, 0, r, <<>>)
          /\ DbAccess(0, n, r, o) = Fields("db", 0, {}, 0, o, num, 0, r, <<>>)
      BY ConstructorFields
    <2> HIDE DEF num
    <2>1. Denotes(Fields("db", dt, {}, 0, o, num, 0, r, <<>>), w) =
              Fields("db", 0, {}, 0, o, num, 0, r, <<>>)
      <3>1. "db" # "indirect" /\ ~("db" = "slot" /\ r = SlotRange.Pointer)
        OBVIOUS
      <3>2. Denotes(Fields("db", dt, {}, 0, o, num, 0, r, <<>>), w) =
                Fields("db", 0, LowBits({}, w), 0, o, num, 0, r, <<>>)
        BY <3>1, DenotesFields
      <3> QED BY <1>0, <3>2, Zenon
    <2> QED BY <2>1, <2>2
  <1>4. ASSUME NEW dt, NEW s, NEW n, NEW r, r # 1
        PROVE  Denotes(Slot(dt, s, n, r), w) =
                   Fields("slot", 0, {}, 0, {}, n, s, r, <<>>)
    <2>1. Denotes(Fields("slot", dt, {}, 0, {}, n, s, r, <<>>), w) =
              Fields("slot", 0, {}, 0, {}, n, s, r, <<>>)
      BY <1>0, <1>r, <1>4, DenotesFields
    <2> QED BY <2>1, ConstructorFields
  <1>5. ASSUME NEW s, NEW n
        PROVE  Denotes(Pointer(s, n), w) = Fields("ptr", 0, {}, 0, {}, n, s, 0, <<>>)
    <2>2. Pointer(s, n) = Fields("ptr", OT.Pointer, {}, 0, {}, n, s, 0, <<>>)
      BY ConstructorFields
    <2>3. \A dt : Denotes(Fields("ptr", dt, {}, 0, {}, n, s, 0, <<>>), w) =
              Fields("ptr", 0, {}, 0, {}, n, s, 0, <<>>)
      BY <1>0, DenotesFields
    <2> QED BY <2>2, <2>3, Zenon
  <1>6. \A dt, s, n : Denotes(Slot(dt, s, n, 1), w) = Denotes(Pointer(s, n), w)
    <2> TAKE dt, s, n
    <2>1. Slot(dt, s, n, 1).kind = "slot" /\ Slot(dt, s, n, 1).range = 1
          /\ Slot(dt, s, n, 1).scope = s /\ Slot(dt, s, n, 1).number = n
      BY ConstructorFields DEF Fields
    <2>2. Pointer(s, n).kind = "ptr"
      BY ConstructorFields DEF Fields
    <2>3. AsPointer(Slot(dt, s, n, 1)) = Pointer(s, n) /\ AsPointer(Pointer(s, n)) = Pointer(s, n)
      BY <1>r, <2>1, <2>2 DEF AsPointer
    <2> QED BY <2>1, <2>2, <2>3 DEF Denotes
  <1>7. ASSUME NEW a
        PROVE  Denotes(AreaPointer(a), w) =
                   Fields("ptr", 0, {}, a, {}, {}, Scope.NativeSystem, 0, <<>>)
    <2>2. AreaPointer(a) =
              Fields("ptr", OT.Pointer, {}, a, {}, {}, Scope.NativeSystem, 0, <<>>)
      BY ConstructorFields
    <2>3. \A dt, s : Denotes(Fields("ptr", dt, {}, a, {}, {}, s, 0, <<>>), w) =
              Fields("ptr", 0, {}, a, {}, {}, s, 0, <<>>)
      BY <1>0, DenotesFields
    <2> QED BY <2>2, <2>3, Zenon
  <1>8. ASSUME NEW dt, NEW b, NEW o
        PROVE  Denotes(Indirect(dt, b, o), w) =
                   Indirect(0, BasePlace(b), OffsetPlace(o))
    <2> DEFINE pair == <<b, o>>
               acc == Fields("indirect", dt, {}, 0, {}, {}, 0, 0, pair)
               one == BasePlace(b)
               two == OffsetPlace(o)
               sub == <<one, two>>
    <2>1. Indirect(dt, b, o) = acc
      BY ConstructorFields
    <2>0. pair[1] = b /\ pair[2] = o
      OBVIOUS
    <2> HIDE DEF pair
    <2>2. acc.kind = "indirect" /\ acc.sub = pair
      BY DEF Fields
    <2>3. AsPointer(acc) = acc
      BY <2>2 DEF AsPointer
    <2> DEFINE low == LowBits(acc.value, w)
               places == <<BasePlace(acc.sub[1]), OffsetPlace(acc.sub[2])>>
    <2>4. Denotes(acc, w) = [acc EXCEPT !.dt = 0, !.value = low, !.real = FALSE, !.sub = places]
      BY <2>2, <2>3, Zenon DEF Denotes, BasePlace, OffsetPlace
    <2>5. low = {}
      BY <1>0 DEF Fields
    <2>6. places = sub
      BY <2>0, <2>2, Zenon
    <2> HIDE DEF sub, low, places
    <2>7. Denotes(acc, w) = Fields("indirect", 0, {}, 0, {}, {}, 0, 0, sub)
      BY <2>4, <2>5, <2>6 DEF Fields
    <2>8. Indirect(0, one, two) = Fields("indirect", 0, {}, 0, {}, {}, 0, 0, sub)
      BY ConstructorFields DEF sub
    <2> QED BY <2>1, <2>7, <2>8, Zenon
  <1>9. /\ \A dt, v : Denotes(Immediate(dt, v), w) = Immediate(0, LowBits(v, w))
        /\ \A dt, a, o : Denotes(Memory(dt, a, o), w) = Memory(0, a, o)
        /\ \A dt, s, n, r : r # 1 => Denotes(Slot(dt, s, n, r), w) = Slot(0, s, n, r)
    BY <1>1, <1>2, <1>4, ConstructorFields
  <1> QED BY <1>3, <1>5, <1>6, <1>7, <1>8, <1>9, Zenon

(* A parameter reads an encoded operand to its end, as an operand that     *)
(* stands for the same.                                                    *)
IdentReads(code, pos, mode, predef, dts, enc, acc, width) ==
    \E d : /\ [end |-> pos + Len(enc), acc |-> d]
                  \in DecodeIdent(code, pos, ReaderConstants, mode, predef, dts)
           /\ Denotes(d, width) = Denotes(acc, width)

\* The tables of mc7p_area_direct_code and mc7p_area_address_code invert the decoder's.
LEMMA AreaCodes ==
  /\ \A area \in NamedAreas : DirectCode(area) # {}
  /\ \A area : \A c \in DirectCode(area) : c \in 1..7 /\ area \in AreaFromDirect(c)
  /\ \A area : \A c \in AddressCode(area) : c \in Byte /\ area \in AreaFromAddressByte(c)
  <1>1. \A area \in NamedAreas : DirectCode(area) # {}
    <2>1. /\ 1 \in DirectCode(Area.Input) /\ 2 \in DirectCode(Area.Output)
          /\ 3 \in DirectCode(Area.Memory) /\ 4 \in DirectCode(Area.PInput)
          /\ 5 \in DirectCode(Area.POutput) /\ 6 \in DirectCode(Area.Local)
      BY DEF DirectCode
    <2> QED BY <2>1 DEF NamedAreas
  <1>2. \A area : \A c \in DirectCode(area) : c \in 1..7 /\ area \in AreaFromDirect(c)
    <2> TAKE area
    <2> TAKE c \in DirectCode(area)
    <2> DEFINE areas == <<Area.Input, Area.Output, Area.Memory, Area.PInput,
                          Area.POutput, Area.Local, Area.TSLocal>>
    <2>1. c \in DOMAIN areas /\ areas[c] = area
      BY DEF DirectCode
    <2>2. DOMAIN areas = 1..7
      OBVIOUS
    <2>3. AreaFromDirect(c) = {areas[i] : i \in {c} \cap DOMAIN areas}
      BY DEF AreaFromDirect
    <2> HIDE DEF areas
    <2> QED BY <2>1, <2>2, <2>3
  <1>3. \A area : \A c \in AddressCode(area) : c \in Byte /\ area \in AreaFromAddressByte(c)
    BY DEF AddressCode, Byte
  <1> QED BY <1>1, <1>2, <1>3

\* An address comes back from its bytes as the same place.
LEMMA MemoryKept ==
  ASSUME NEW code, NEW pos, NEW mode, NEW predef, NEW dts, NEW width,
         NEW dt, NEW area \in NamedAreas, NEW offset \in Word,
         \A o \in Written(dt, offset) : o \subseteq 0..31,
         mode = Mode.Direct => dts \cap {OT.String, OT.WString} = {},
         NEW enc \in EncodeMemory(Memory(dt, area, offset), mode = Mode.Direct),
         At(code, pos, enc)
  PROVE  IdentReads(code, pos, mode, predef, dts, enc, Memory(dt, area, offset), width)
  <1> DEFINE acc == Memory(dt, area, offset)
             bit == DirectBit(dt, offset)
  <1>0. enc \in EncodeMemory(acc, mode = Mode.Direct)
    OBVIOUS
  <1>1. acc.dt = dt /\ acc.area = area /\ acc.offset = offset
    BY ConstructorFields DEF Fields
  <1>2. bit \in BOOLEAN
    BY DEF DirectBit
  <1>3. \A off \in Written(dt, offset) :
            off \in Word /\ off \subseteq 0..31 /\ BitOffset(bit, WriteOffset(off)) = offset
    BY OffsetReads
  <1>4. ASSUME NEW d, Denotes(d, width) = Denotes(acc, width),
               [end |-> pos + Len(enc), acc |-> d]
                   \in DecodeIdent(code, pos, ReaderConstants, mode, predef, dts)
        PROVE  IdentReads(code, pos, mode, predef, dts, enc, acc, width)
    BY <1>4 DEF IdentReads
  <1>5. \A d : Denotes(Memory(d, area, offset), width) = Denotes(acc, width)
    BY DenotesForms
  <1>6. CASE mode = Mode.Direct
    <2>1. PICK off \in Written(dt, offset), c \in AddressCode(area) :
              enc = AddressForm(bit, off, c)
      <3> HIDE DEF acc
      <3>1. PICK off \in Written(acc.dt, acc.offset), c \in AddressCode(acc.area) :
                enc = AddressForm(DirectBit(acc.dt, acc.offset), off, c)
        BY <1>0, <1>6 DEF EncodeMemory
      <3> QED BY <1>1, <3>1, Zenon
    <2>2. c \in Byte /\ area \in AreaFromAddressByte(c)
      BY AreaCodes
    <2>3. /\ \E d : [end |-> pos + Len(enc), acc |-> Memory(d, area, offset)]
                        \in DecodeMemory(code, pos, dts)
          /\ Peek(code, pos) \in 160..167
      <3>1. At(code, pos, AddressForm(bit, off, c))
        BY <2>1
      <3>2. off \in Word /\ off \subseteq 0..31 /\ BitOffset(bit, WriteOffset(off)) = offset
        BY <1>3
      <3> HIDE DEF bit
      <3> QED BY <1>2, <2>1, <2>2, <3>1, <3>2, AddressFormReads
    <2>4. DecodeIdent(code, pos, ReaderConstants, mode, predef, dts)
              = DecodeMemory(code, pos, dts)
      BY <1>6, <2>3, IdentForm
    <2> HIDE DEF acc
    <2>5. PICK d : [end |-> pos + Len(enc), acc |-> Memory(d, area, offset)]
                       \in DecodeIdent(code, pos, ReaderConstants, mode, predef, dts)
      BY <2>3, <2>4
    <2>6. Denotes(Memory(d, area, offset), width) = Denotes(acc, width)
      BY <1>5
    <2> QED BY <1>4, <2>5, <2>6, Zenon DEF acc
  <1>7. CASE mode # Mode.Direct
    <2>1. PICK off \in Written(dt, offset), c \in DirectCode(area) :
              enc = DirectForm(bit, off, c)
      <3> HIDE DEF acc
      <3>1. DirectCode(acc.area) # {}
        BY <1>1, AreaCodes
      <3>2. PICK off \in Written(acc.dt, acc.offset), c \in DirectCode(acc.area) :
                enc = DirectForm(DirectBit(acc.dt, acc.offset), off, c)
        BY <1>0, <1>7, <3>1 DEF EncodeMemory
      <3> QED BY <1>1, <3>2, Zenon
    <2>2. c \in 1..7 /\ area \in AreaFromDirect(c)
      BY AreaCodes
    <2>3. /\ \E d : [end |-> pos + Len(enc), acc |-> Memory(d, area, offset)]
                        \in DecodeMemory(code, pos, dts)
          /\ Peek(code, pos) \in 96..159
      <3>1. At(code, pos, DirectForm(bit, off, c))
        BY <2>1
      <3>2. off \in Word /\ off \subseteq 0..31 /\ BitOffset(bit, WriteOffset(off)) = offset
        BY <1>3
      <3> HIDE DEF bit
      <3> QED BY <1>2, <2>1, <2>2, <3>1, <3>2, DirectFormReads
    <2>4. DecodeIdent(code, pos, ReaderConstants, mode, predef, dts)
              = DecodeMemory(code, pos, dts)
      <3>2. \A h \in 96..159 : h \in 96..167 /\ h \notin 164..167
        OBVIOUS
      <3>1. Peek(code, pos) \in 96..167 /\ Peek(code, pos) \notin 164..167
        BY <2>3, <3>2, Zenon
      <3> QED BY <3>1, IdentForm
    <2> HIDE DEF acc
    <2>5. PICK d : [end |-> pos + Len(enc), acc |-> Memory(d, area, offset)]
                       \in DecodeIdent(code, pos, ReaderConstants, mode, predef, dts)
      BY <2>3, <2>4
    <2>6. Denotes(Memory(d, area, offset), width) = Denotes(acc, width)
      BY <1>5
    <2> QED BY <1>4, <2>5, <2>6, Zenon DEF acc
  <1> QED BY <1>6, <1>7

\* The table of mc7p_scope_code inverts the decoder's.
LEMMA ScopesNamed ==
  /\ Scope.NativeSystem \notin NamedScopes
  /\ Scope.NativeBlock # Scope.NativeLocal
  /\ \A s : \A c \in ScopeCode(s) : c \in 0..3 /\ ScopeFromCode(c) = s
  BY DEF NamedScopes, Scope, ScopeCode

\* A slot or a pointer with a number.
LEMMA NumberedKept ==
  ASSUME NEW code, NEW pos, NEW mode, NEW predef, NEW dts, NEW width,
         NEW acc, NEW loc \in 0..6, NEW scope, NEW n \in SUBSET (0..29),
         \/ loc \in 0..5 /\ \E dt : acc = Slot(dt, scope, n, SlotRange.SlotBit + loc)
         \/ loc = 6 /\ \E dt : acc = Slot(dt, scope, n, SlotRange.Pointer)
         \/ loc = 6 /\ acc = Pointer(scope, n),
         NEW c \in ScopeCode(scope), NEW enc, enc = SlotForm(loc, WriteSlotNo(n, c)),
         At(code, pos, enc)
  PROVE  IdentReads(code, pos, mode, predef, dts, enc, acc, width)
  <1>0. SlotRange.Pointer = 1 /\ SlotRange.SlotBit = 2
    BY DEF SlotRange
  <1>1. c \in 0..3 /\ ScopeFromCode(c) = scope
    BY ScopesNamed
  <1>2. /\ loc \in 0..5 => \E dt : [end |-> pos + Len(enc),
                                    acc |-> Slot(dt, scope, n, SlotRange.SlotBit + loc)]
                                       \in DecodeNative(code, pos)
        /\ loc = 6 => [end |-> pos + Len(enc), acc |-> Pointer(scope, n)]
                          \in DecodeNative(code, pos)
        /\ Peek(code, pos) \in 64..95
    <2>1. At(code, pos, SlotForm(loc, WriteSlotNo(n, c)))
      OBVIOUS
    <2>2. loc \in 0..5 <=> loc <= 5
      OBVIOUS
    <2> QED BY <1>1, <2>1, <2>2, SlotFormReads
  <1>3. DecodeIdent(code, pos, ReaderConstants, mode, predef, dts) = DecodeNative(code, pos)
    BY <1>2, IdentForm
  <1>4. ASSUME NEW d, Denotes(d, width) = Denotes(acc, width),
               [end |-> pos + Len(enc), acc |-> d] \in DecodeNative(code, pos)
        PROVE  IdentReads(code, pos, mode, predef, dts, enc, acc, width)
    BY <1>3, <1>4 DEF IdentReads
  <1>5. CASE loc \in 0..5
    <2>1. PICK dt : acc = Slot(dt, scope, n, SlotRange.SlotBit + loc)
      BY <1>5
    <2>2. PICK d : [end |-> pos + Len(enc), acc |-> Slot(d, scope, n, SlotRange.SlotBit + loc)]
                       \in DecodeNative(code, pos)
      BY <1>2, <1>5
    <2>3. SlotRange.SlotBit + loc # 1
      BY <1>0, <1>5
    <2>4. Denotes(Slot(d, scope, n, SlotRange.SlotBit + loc), width) = Denotes(acc, width)
      <3> DEFINE k == SlotRange.SlotBit + loc
      <3>1. acc = Slot(dt, scope, n, k) /\ k # 1
        BY <2>1, <2>3
      <3> HIDE DEF k
      <3>2. /\ Denotes(Slot(d, scope, n, k), width) = Slot(0, scope, n, k)
            /\ Denotes(Slot(dt, scope, n, k), width) = Slot(0, scope, n, k)
        BY ONLY <3>1, DenotesForms
      <3> QED BY <3>1, <3>2, Zenon DEF k
    <2> QED BY <1>4, <2>2, <2>4, Zenon
  <1>6. CASE loc = 6
    <2>1. Denotes(Pointer(scope, n), width) = Denotes(acc, width)
      BY <1>0, <1>6, DenotesForms
    <2> QED BY <1>2, <1>4, <1>6, <2>1, Zenon
  <1> QED BY <1>5, <1>6

\* A slot or pointer comes back as the same number in the same scope.
LEMMA NativeKept ==
  ASSUME NEW code, NEW pos, NEW mode, NEW predef, NEW dts, NEW width,
         NEW acc, NEW scope \in NamedScopes, NEW n \in SUBSET (0..29),
         \/ \E dt : \E range \in 0..7 : acc = Slot(dt, scope, n, range)
         \/ acc = Pointer(scope, n),
         NEW enc \in EncodeNative(acc), At(code, pos, enc)
  PROVE  IdentReads(code, pos, mode, predef, dts, enc, acc, width)
  <1>1. /\ acc.number = n /\ acc.scope = scope
        /\ acc.kind = "slot" => \E dt : \E range \in 0..7 : acc = Slot(dt, scope, n, range)
                                                           /\ acc.range = range
        /\ acc.kind # "slot" => acc.kind = "ptr" /\ acc = Pointer(scope, n)
    BY ConstructorFields DEF Fields
  <1>2. PICK loc \in LocationCode(acc), c \in ScopeCode(scope) :
            enc = SlotForm(loc, WriteSlotNo(n, c))
    BY <1>1, ScopesNamed DEF EncodeNative
  <1>3. /\ loc \in 0..6
        /\ \/ loc \in 0..5 /\ \E dt : acc = Slot(dt, scope, n, SlotRange.SlotBit + loc)
           \/ loc = 6 /\ \E dt : acc = Slot(dt, scope, n, SlotRange.Pointer)
           \/ loc = 6 /\ acc = Pointer(scope, n)
    <2>1. CASE acc.kind = "slot"
      <3>0. PICK dt : \E range \in 0..7 : acc = Slot(dt, scope, n, range) /\ acc.range = range
        BY <1>1, <2>1
      <3>1. PICK range \in 0..7 : acc = Slot(dt, scope, n, range) /\ acc.range = range
        BY <3>0
      <3>2. CASE range = SlotRange.Pointer
        <4>1. LocationCode(acc) = {6}
          BY <3>1, <3>2 DEF LocationCode
        <4>2. loc = 6
          BY <4>1
        <4>3. acc = Slot(dt, scope, n, SlotRange.Pointer)
          BY <3>1, <3>2
        <4> QED BY <4>2, <4>3
      <3>3. CASE range # SlotRange.Pointer
        <4>1. loc = range - SlotRange.SlotBit /\ loc \in 0..5
          BY <2>1, <3>1, <3>3 DEF LocationCode
        <4>2. range = SlotRange.SlotBit + loc
          BY <4>1 DEF SlotRange
        <4> QED BY <3>1, <4>1, <4>2
      <3> QED BY <3>2, <3>3
    <2>2. CASE acc.kind # "slot"
      BY <1>1, <2>2 DEF LocationCode
    <2> QED BY <2>1, <2>2
  <1> HIDE DEF LocationCode
  <1> QED BY <1>2, <1>3, NumberedKept

\* A system area comes back.
LEMMA SystemKept ==
  ASSUME NEW code, NEW pos, NEW mode, NEW predef, NEW dts, NEW width, NEW area,
         mode \in {Mode.Pointer, Mode.SysPtr},
         NEW enc \in EncodeNative(AreaPointer(area)), At(code, pos, enc)
  PROVE  IdentReads(code, pos, mode, predef, dts, enc, AreaPointer(area), width)
  <1> DEFINE acc == AreaPointer(area)
  <1>1. acc.kind = "ptr" /\ acc.scope = Scope.NativeSystem /\ acc.area = area
    BY ConstructorFields DEF Fields
  <1> HIDE DEF acc
  <1>2. PICK c \in DirectCode(area) : enc = <<8 + c>>
    BY <1>1 DEF EncodeNative, acc
  <1>3. c \in 1..7 /\ area \in AreaFromDirect(c)
    BY AreaCodes
  <1>4. At(code, pos, <<8 + c>>)
    BY <1>2
  <1>5. /\ [end |-> pos + 1, acc |-> acc] \in DecodeNative(code, pos)
        /\ Peek(code, pos) \in 8..15
    BY <1>3, <1>4, SystemReads DEF acc
  <1>6. Len(enc) = 1
    BY <1>2
  <1>7. DecodeIdent(code, pos, ReaderConstants, mode, predef, dts) = DecodeNative(code, pos)
    BY <1>5, IdentForm
  <1> QED BY <1>5, <1>6, <1>7 DEF IdentReads, acc

\* A place in a data block.
LEMMA DbKept ==
  ASSUME NEW code, NEW pos, NEW mode, NEW predef, NEW dts, NEW width,
         NEW dt, NEW n \in SUBSET (0..30), NEW range, NEW offset \in Word,
         FitsHeader(DbAccess(dt, n, range, offset)),
         NEW enc \in EncodeDb(DbAccess(dt, n, range, offset)), At(code, pos, enc)
  PROVE  IdentReads(code, pos, mode, predef, dts, enc, DbAccess(dt, n, range, offset), width)
  <1> DEFINE acc == DbAccess(dt, n, range, offset)
             bit == DirectBit(dt, offset)
  <1>1. /\ acc.kind = "db" /\ acc.dt = dt /\ acc.number = n /\ acc.range = range
        /\ acc.offset = offset
    <2>1. LowBits(n, 32) = n
      <3>1. \A b \in n : b < 32
        OBVIOUS
      <3> QED BY <3>1 DEF LowBits
    <2> QED BY <2>1, ConstructorFields DEF Fields
  <1>2. bit \in BOOLEAN
    BY DEF DirectBit
  <1>3. \A off \in Written(dt, offset) :
            /\ off \in Word /\ BitOffset(bit, WriteOffset(off)) = offset
            /\ off = {} /\ ~bit => offset = {}
    BY OffsetReads
  <1>e. enc \in EncodeDb(acc) /\ FitsHeader(acc)
    OBVIOUS
  <1>f. \A d : Denotes(DbAccess(d, n, range, offset), width) = Denotes(acc, width)
    BY DenotesForms
  <1>g. IdentReads(code, pos, mode, predef, dts, enc, acc, width)
    <2> HIDE DEF acc
    <2>1. PICK off \in Written(dt, offset), c \in 0..2 :
              /\ DbDirectRange(c) = {range}
              /\ enc = DbForm(bit, WriteSlotNo(n, c), off)
      BY <1>1, <1>e DEF EncodeDb
    <2>2. /\ \A o \in Written(dt, offset) : o \subseteq 0..31
          /\ offset = {} => n \subseteq 0..29
          /\ offset # {} => n \subseteq 0..13
      BY <1>1, <1>e DEF FitsHeader
    <2>3. range \in DbDirectRange(c) /\ off \in Word /\ off \subseteq 0..31
      BY <1>3, <2>1, <2>2
    <2> HIDE DEF bit
    <2>4. /\ \E d : [end |-> pos + Len(enc), acc |-> DbAccess(d, n, range, offset)]
                        \in DecodeDb(code, pos, dts)
          /\ Peek(code, pos) \in 168..223
      <3>1. CASE off = {} /\ ~bit
        <4>1. offset = {} /\ n \in SUBSET (0..29)
          BY <1>3, <2>2, <3>1
        <4>2. enc = DbForm(FALSE, WriteSlotNo(n, c), {})
          BY <1>2, <2>1, <3>1
        <4>3. At(code, pos, DbForm(FALSE, WriteSlotNo(n, c), {}))
          BY <4>2
        <4>4. c \in 0..2 /\ range \in DbDirectRange(c) /\ n \in SUBSET (0..29)
          BY <2>1, <2>3, <4>1
        <4>5. /\ \E d : [end |-> pos + Len(DbForm(FALSE, WriteSlotNo(n, c), {})),
                          acc |-> DbAccess(d, n, range, {})] \in DecodeDb(code, pos, dts)
              /\ Peek(code, pos) \in 168..223
          BY ONLY <4>3, <4>4, DbPlainReads
        <4> QED BY <4>1, <4>2, <4>5, Zenon
      <3>2. CASE off # {} \/ bit
        <4>1. offset # {}
          <5>1. off # {} => offset # {}
            BY DEF Written, ShiftRight
          <5>2. bit => offset # {}
            BY DEF DirectBit, bit
          <5> QED BY <3>2, <5>1, <5>2
        <4>2. n \in SUBSET (0..13) /\ BitOffset(bit, WriteOffset(off)) = offset
          BY <1>3, <2>2, <4>1
        <4>3. At(code, pos, DbForm(bit, WriteSlotNo(n, c), off))
          BY <2>1
        <4>4. DbPlace(n, c, range, bit, off)
          BY <1>2, <2>3, <3>2, <4>2 DEF DbPlace
        <4>5. /\ \E d : [end |-> pos + Len(DbForm(bit, WriteSlotNo(n, c), off)),
                          acc |-> DbAccess(d, n, range, BitOffset(bit, WriteOffset(off)))]
                             \in DecodeDb(code, pos, dts)
              /\ Peek(code, pos) \in 168..223
          BY ONLY <4>3, <4>4, DbOffsetReads
        <4> QED BY <2>1, <4>2, <4>5, Zenon
      <3> QED BY <3>1, <3>2
    <2>5. DecodeIdent(code, pos, ReaderConstants, mode, predef, dts) = DecodeDb(code, pos, dts)
      <3>1. Peek(code, pos) \in 168..223
        BY <2>4
      <3> QED BY <3>1, IdentForm
    <2>6. PICK d : [end |-> pos + Len(enc), acc |-> DbAccess(d, n, range, offset)]
                       \in DecodeIdent(code, pos, ReaderConstants, mode, predef, dts)
      BY <2>4, <2>5
    <2>7. Denotes(DbAccess(d, n, range, offset), width) = Denotes(acc, width)
      BY <1>f
    <2> QED BY <2>6, <2>7 DEF IdentReads
  <1> QED BY <1>g

\* What is written of a number, and what is read of that.
NumberSent(acc, num) ==
    IF NumberType(acc, num) = OT.Bool THEN BoolValue(acc) ELSE acc.value

NumberOnes(acc, num, mode) ==
    /\ 0..(ImmediateWidth(NumberType(acc, num)) - 1) \subseteq NumberSent(acc, num)
    /\ mode \notin {Mode.Id, Mode.Len}

NumberGot(acc, num, mode, predef, d) ==
    \E t : /\ ReadType(predef, t)
           /\ \/ NumberOnes(acc, num, mode) /\ d = Immediate(t, AllOnes)
              \/ ~NumberOnes(acc, num, mode) /\ d = Immediate(t, NumberSent(acc, num))

(* The same for the operands that do not always come back: a number for a  *)
(* Bool and an indirect operand of another base are read all the same.     *)
IdentGot(code, pos, mode, predef, dts, enc, acc, width, type) ==
    \E d : /\ [end |-> pos + Len(enc), acc |-> d]
                  \in DecodeIdent(code, pos, ReaderConstants, mode, predef, dts)
           /\ \/ Denotes(d, width) = Denotes(acc, width)
              \/ acc.kind = "imm" /\ acc.dt = OT.Undef /\ type = OT.Bool
              \/ OtherBase(acc)
           /\ acc.kind = "imm" => NumberGot(acc, type, mode, predef, d)

TextNumber(dt, v) == v \in Word /\ (dt = OT.Undef \/ (dt = OT.Bool /\ v \in {{}, {0}}))

\* The low bits of a word and of its ones.
LEMMA LowBitsIs ==
  /\ \A w \in Word : LowBits(w, 64) = w
  /\ \A w \in Word : \A k \in 0..64 : 0..(k - 1) \subseteq w => LowBits(w, k) = 0..(k - 1)
  <1>1. ASSUME NEW w \in Word
        PROVE  LowBits(w, 64) = w
    <2>1. \A b \in w : b < 64
      BY DEF Word, Bits64
    <2> QED BY <2>1 DEF LowBits
  <1>2. ASSUME NEW w \in Word, NEW k \in 0..64, 0..(k - 1) \subseteq w
        PROVE  LowBits(w, k) = 0..(k - 1)
    <2>1. \A b \in w : b \in Nat
      BY DEF Word, Bits64
    <2> QED BY <1>2, <2>1 DEF LowBits
  <1> QED BY <1>1, <1>2

\* The widths a number is written in.
LEMMA WidthsAre ==
  /\ \A t : ImmediateWidth(t) \in {8, 16, 32, 64}
  /\ OT.Bool \in OneByteTypes /\ OT.Undef # OT.Bool
  BY DEF ImmediateWidth, OneByteTypes, OT

\* A number comes back in the width of its type.
LEMMA ImmediateKept ==
  ASSUME NEW code, NEW pos, NEW mode, NEW predef, NEW dts, NEW width, NEW type,
         NEW dt, NEW v, TextNumber(dt, v),
         width = IF mode \in {Mode.Id, Mode.Len} THEN 64 ELSE ImmediateWidth(type),
         NEW enc, enc = ImmediateTyped(Immediate(dt, v), type, mode), At(code, pos, enc)
  PROVE  IdentGot(code, pos, mode, predef, dts, enc, Immediate(dt, v), width, type)
  <1> DEFINE acc == Immediate(dt, v)
             own == NumberType(acc, type)
             w == IF own = OT.Bool THEN BoolValue(acc) ELSE acc.value
             all == 0..(ImmediateWidth(own) - 1) \subseteq w
             ones == all /\ mode \notin {Mode.Id, Mode.Len}
  <1>1. acc.kind = "imm" /\ acc.dt = dt /\ acc.value = v
    BY ConstructorFields DEF Fields
  <1>2. enc = IF ones THEN <<3>> ELSE PositiveImmediate(w)
    BY DEF ImmediateTyped
  <1>3. v \in Word /\ {} \in Word /\ OT.Undef # OT.Bool
    BY WidthsAre, WordOperations DEF TextNumber
  <1>4. /\ own = IF dt = OT.Undef THEN type ELSE dt
        /\ w = IF own = OT.Bool THEN (IF dt = OT.Bool THEN v ELSE {}) ELSE v
        /\ w \in Word
    BY <1>1, <1>3 DEF NumberType, BoolValue
  <1>5. dt = OT.Undef \/ (dt = OT.Bool /\ v \in {{}, {0}})
    BY DEF TextNumber
  <1> HIDE DEF acc, own, w
  <1> DEFINE Read(d, x) ==
               /\ [end |-> pos + Len(enc), acc |-> Immediate(d, x)]
                      \in DecodeImmediate(code, pos, predef)
               /\ \/ LowBits(x, width) = LowBits(v, width)
                  \/ dt = OT.Undef /\ type = OT.Bool
               /\ ReadType(predef, d)
               /\ \/ ones /\ x = AllOnes
                  \/ ~ones /\ x = w
  <1>n. w = NumberSent(acc, type) /\ (ones <=> NumberOnes(acc, type, mode))
    BY DEF w, own, NumberSent, NumberOnes
  <1>6. ones \/ ~ones
    BY DEF ones
  <1>7. ASSUME ~ones
        PROVE  (\E d, x : Read(d, x)) /\ IsImmediateHeader(Peek(code, pos))
    <2>1. enc = PositiveImmediate(w) /\ At(code, pos, PositiveImmediate(w))
      BY <1>2, <1>7
    <2>2. /\ \E d : /\ ReadType(predef, d)
                    /\ [end |-> pos + Len(PositiveImmediate(w)), acc |-> Immediate(d, w)]
                           \in DecodeImmediate(code, pos, predef)
          /\ IsImmediateHeader(Peek(code, pos))
      BY <1>4, <2>1, ImmediateReads
    <2>3. PICK d : /\ ReadType(predef, d)
                   /\ [end |-> pos + Len(enc), acc |-> Immediate(d, w)]
                          \in DecodeImmediate(code, pos, predef)
      BY <2>1, <2>2
    <2>4. w = v \/ (dt = OT.Undef /\ type = OT.Bool)
      BY <1>3, <1>4, <1>5
    <2>5. LowBits(w, width) = LowBits(v, width) \/ (dt = OT.Undef /\ type = OT.Bool)
      BY <2>4, Zenon
    <2>6. Read(d, w)
      BY <1>7, <2>3, <2>5, Zenon
    <2> QED BY <2>2, <2>6
  <1>8. ASSUME ones
        PROVE  (\E d, x : Read(d, x)) /\ IsImmediateHeader(Peek(code, pos))
    <2>1. enc = <<3>> /\ At(code, pos, <<3>>) /\ Len(enc) = 1
      BY <1>2, <1>8
    <2>2. /\ [end |-> pos + Len(enc), acc |-> Immediate(predef, AllOnes)]
                 \in DecodeImmediate(code, pos, predef)
          /\ IsImmediateHeader(Peek(code, pos))
      BY <2>1, OnesRead
    <2>3. own # OT.Bool
      <3>1. SUFFICES ASSUME own = OT.Bool PROVE FALSE
        OBVIOUS
      <3>2. w \in {{}, {0}}
        BY <1>3, <1>4, <1>5, <3>1
      <3>3. 0..(8 - 1) \subseteq w
        BY <1>8, <3>1, WidthsAre DEF ImmediateWidth
      <3>4. 1 \in w
        BY <3>3
      <3> QED BY <3>2, <3>4
    <2>4. own = type /\ w = v /\ width = ImmediateWidth(type)
      BY <1>3, <1>4, <1>5, <1>8, <2>3
    <2>5. LowBits(AllOnes, width) = LowBits(v, width)
      <3>1. width \in 0..64 /\ 0..(width - 1) \subseteq v
        BY <1>8, <2>4, WidthsAre
      <3>2. 0..(width - 1) \subseteq AllOnes /\ AllOnes \in Word
        BY <3>1 DEF AllOnes, Bits64, Word
      <3>3. LowBits(AllOnes, width) = 0..(width - 1)
        BY <3>1, <3>2, LowBitsIs
      <3>4. LowBits(v, width) = 0..(width - 1)
        BY <1>3, <3>1, LowBitsIs
      <3> QED BY <3>3, <3>4
    <2>6. Read(predef, AllOnes)
      BY <1>8, <2>2, <2>5, Zenon DEF ReadType
    <2> QED BY <2>2, <2>6
  <1>9. PICK d, x : Read(d, x)
    BY <1>6, <1>7, <1>8
  <1>10. IsImmediateHeader(Peek(code, pos))
    BY <1>6, <1>7, <1>8
  <1>11. DecodeIdent(code, pos, ReaderConstants, mode, predef, dts)
             = DecodeImmediate(code, pos, predef)
    BY <1>10, IdentForm
  <1>12. /\ Denotes(Immediate(d, x), width) = Immediate(0, LowBits(x, width))
         /\ Denotes(acc, width) = Immediate(0, LowBits(v, width))
    BY DenotesForms DEF acc
  <1>13. \/ Denotes(Immediate(d, x), width) = Denotes(acc, width)
         \/ acc.kind = "imm" /\ acc.dt = OT.Undef /\ type = OT.Bool
    BY <1>1, <1>9, <1>12
  <1>14. [end |-> pos + Len(enc), acc |-> Immediate(d, x)]
             \in DecodeIdent(code, pos, ReaderConstants, mode, predef, dts)
    BY <1>9, <1>11
  <1>16. NumberGot(acc, type, mode, predef, Immediate(d, x))
    BY <1>9, <1>n, Zenon DEF NumberGot
  <1>15. IdentGot(code, pos, mode, predef, dts, enc, acc, width, type)
    BY <1>13, <1>14, <1>16, Zenon DEF IdentGot
  <1> QED BY <1>15 DEF acc

\* The offset of an indirect operand as it is read.
OffsetBits(form, o) == BitOffset(form = 240, o)

OffsetRead(form, o) ==
    IF form = 224
    THEN Slot(OT.DWord, ScopeFromCode(o[Len(o)] % 4), ShiftRight(BigEndian(o), 2),
              SlotRange.Slot32)
    ELSE Immediate(OT.DInt, OffsetBits(form, o))

BaseKept(base, n, a) ==
    \/ base.scope \notin {Scope.NativeBlock, Scope.NativeLocal}
    \/ base = Pointer(IF a % 2 = 1 THEN Scope.NativeBlock ELSE Scope.NativeLocal, n)

\* An indirect operand that the decoder reads comes back, if its base does.
LEMMA IndirectTail ==
  ASSUME NEW code, NEW pos, NEW mode, NEW predef, NEW dts, NEW width, NEW type,
         NEW form, NEW l, NEW o, NEW m, NEW n, NEW a, NEW base, NEW off, NEW enc,
         IndirectShape(form, l, o, m, n, a), BaseKept(base, n, a),
         enc = <<Header(form, 4 * (Len(l) - 1), m - 1)>> \o (l \o o),
         At(code, pos, enc), Len(enc) = 1 + Len(l) + Len(o), pos \in Nat,
         OffsetPlace(OffsetRead(form, o)) = OffsetPlace(off)
  PROVE  IdentGot(code, pos, mode, predef, dts, enc, Indirect(OT.Void, base, off), width, type)
  <1> DEFINE read == Pointer(IF a % 2 = 1 THEN Scope.NativeBlock ELSE Scope.NativeLocal, n)
             d == IndirectGot(form, o, n, a, dts)
             acc == Indirect(OT.Void, base, off)
  <1>1. /\ [end |-> pos + 1 + Len(l) + Len(o), acc |-> d] \in DecodeIndirect(code, pos, dts)
        /\ Peek(code, pos) \in 224..255
    BY IndirectReads
  <1>2. DecodeIdent(code, pos, ReaderConstants, mode, predef, dts)
            = DecodeIndirect(code, pos, dts)
    BY <1>1, IdentForm
  <1>3. Len(l) \in Nat /\ Len(o) \in Nat
    BY DEF IndirectShape
  <1>4. pos + Len(enc) = pos + 1 + Len(l) + Len(o)
    BY <1>3
  <1>5. [end |-> pos + Len(enc), acc |-> d]
            \in DecodeIdent(code, pos, ReaderConstants, mode, predef, dts)
    BY <1>1, <1>2, <1>4
  <1>6. d = Indirect(BitOr(form = 240, dts), read, OffsetRead(form, o))
    BY DEF IndirectGot, OffsetRead, OffsetBits
  <1>0. \A t, b, x : Denotes(Indirect(t, b, x), width)
                         = Indirect(0, BasePlace(b), OffsetPlace(x))
    BY DenotesForms
  <1>7. Denotes(acc, width) = Indirect(0, BasePlace(base), OffsetPlace(off))
    BY <1>0
  <1>8. Denotes(d, width) = Indirect(0, BasePlace(read), OffsetPlace(OffsetRead(form, o)))
    BY <1>0, <1>6
  <1>9. acc.kind = "indirect" /\ acc.sub[1] = base
    BY ConstructorFields DEF Fields
  <1>10. base = read \/ OtherBase(acc)
    BY <1>9 DEF BaseKept, OtherBase
  <1>11. Denotes(d, width) = Denotes(acc, width) \/ OtherBase(acc)
    <2>1. CASE base = read
      BY <1>7, <1>8, <2>1
    <2> QED BY <1>10, <2>1
  <1>12. acc.kind # "imm"
    BY <1>9
  <1> HIDE DEF acc, d
  <1>13. IdentGot(code, pos, mode, predef, dts, enc, acc, width, type)
    BY <1>5, <1>11, <1>12, Zenon DEF IdentGot
  <1> QED BY <1>13 DEF acc

\* An offset is written for a type no other way than for none.
LEMMA WrittenAlike ==
  ASSUME NEW type, NEW v
  PROVE  Written(type, v) \subseteq Written(OT.Void, v)
  BY DEF Written, DirectBit, OT

\* A header and two tails in either grouping.
LEMMA ConcatAssociates ==
  \A h : \A l, o \in Seq(Byte) : h \in Byte =>
      (<<h>> \o l) \o o = <<h>> \o (l \o o) /\ <<h>> \o l = <<h>> \o (l \o <<>>)
  OBVIOUS

ScopedPointer(b) ==
    \/ \E s \in NamedScopes : \E n \in SUBSET (0..31) : b = Pointer(s, n)
    \/ \E a : b = AreaPointer(a)

TextOffset(off) ==
    \/ \E dt, s, n, r : off = Slot(dt, s, n, r) /\ s \in NamedScopes
    \/ \E dt, v : off = Immediate(dt, v) /\ v \in Word

BaseAccess(base) == IF base.scope = Scope.NativeBlock THEN 1 ELSE 0

\* The base of an indirect operand comes back, local or of the block.
LEMMA BaseIs ==
  ASSUME NEW base, ScopedPointer(base), NEW l \in WritePtrNo(base.number, BaseAccess(base))
  PROVE  \E n, a : /\ BaseKept(base, n, a) /\ a \in 0..1
                   /\ l \in Seq(Byte) /\ Len(l) \in 1..2
                   /\ ShiftRight(BigEndian(l), 3) = n /\ l[Len(l)] % 8 = a
  <1> DEFINE n == base.number
             a == BaseAccess(base)
  <1>1. \A s, x : Pointer(s, x).scope = s /\ Pointer(s, x).number = x
    BY ConstructorFields DEF Fields
  <1>2. \A x : AreaPointer(x).scope = Scope.NativeSystem /\ AreaPointer(x).number = {}
    BY ConstructorFields DEF Fields
  <1>3. n \in SUBSET (0..31)
    <2>1. CASE \E s \in NamedScopes : \E x \in SUBSET (0..31) : base = Pointer(s, x)
      <3>1. PICK s \in NamedScopes, x \in SUBSET (0..31) : base = Pointer(s, x)
        BY <2>1
      <3> QED BY ONLY <1>1, <3>1, x \in SUBSET (0..31)
    <2>2. CASE \E x : base = AreaPointer(x)
      <3>1. {} \in SUBSET (0..31)
        OBVIOUS
      <3> QED BY ONLY <1>2, <2>2, <3>1
    <2> QED BY <2>1, <2>2 DEF ScopedPointer
  <1>4. BaseKept(base, n, a)
    <2>1. CASE \E s \in NamedScopes : \E x \in SUBSET (0..31) : base = Pointer(s, x)
      <3>1. PICK s \in NamedScopes, x \in SUBSET (0..31) : base = Pointer(s, x)
        BY <2>1
      <3>2. base.scope = s /\ base.number = x
        BY <1>1, <3>1
      <3> QED BY <3>1, <3>2, ScopesNamed DEF BaseKept, BaseAccess
    <2>2. CASE \E x : base = AreaPointer(x)
      BY <1>2, <2>2 DEF BaseKept, Scope
    <2> QED BY <2>1, <2>2 DEF ScopedPointer
  <1>5. a \in 0..1
    BY DEF BaseAccess
  <1> HIDE DEF n, a
  <1>6. l \in WritePtrNo(n, a)
    BY DEF n, a
  <1>7. /\ l \in Seq(Byte) /\ Len(l) \in 1..2
        /\ ShiftRight(BigEndian(l), 3) = n /\ l[Len(l)] % 8 = a
    BY <1>3, <1>5, <1>6, PtrNoReads
  <1> QED BY <1>4, <1>5, <1>7

\* The header of an indirect operand is a byte.
LEMMA IndirectHeader ==
  \A form \in {224, 232, 240, 248}, k \in 0..1, m \in 1..4 :
      Header(form, 4 * k, m - 1) \in Byte /\ (m - 1) % 4 = m - 1
  <1> TAKE form \in {224, 232, 240, 248}, k \in 0..1, m \in 1..4
  <1>1. m - 1 \in 0..3 /\ k \in 0..7 /\ (m - 1) % 4 = m - 1
    OBVIOUS
  <1>2. Header(form, 4 * k, m - 1) = form + 4 * k + (m - 1)
    <2> DEFINE j == m - 1
    <2>1. j \in 0..3
      BY <1>1
    <2> HIDE DEF j
    <2>2. Header(form, 4 * k, j) = form + 4 * k + j
      BY <2>1, HeadersAre
    <2> QED BY <2>2 DEF j
  <1>3. form + 4 * k + (m - 1) \in 0..255
    OBVIOUS
  <1> QED BY <1>1, <1>2, <1>3 DEF Byte

\* The place of an offset does not depend on its type and width.
LEMMA OffsetPlaces ==
  /\ \A dt, s, x, r : OffsetPlace(Slot(dt, s, x, r))
                          = OffsetPlace(Slot(OT.DWord, s, x, SlotRange.Slot32))
  /\ \A dt, v : OffsetPlace(Immediate(dt, v)) = OffsetPlace(Immediate(OT.DInt, v))
  <1>1. ASSUME NEW dt, NEW s, NEW x, NEW r
        PROVE  OffsetPlace(Slot(dt, s, x, r)) = Fields("slot", 0, {}, 0, {}, x, s, 0, <<>>)
    <2>1. Slot(dt, s, x, r) = Fields("slot", dt, {}, 0, {}, x, s, r, <<>>)
      BY ConstructorFields
    <2>2. OffsetPlace(Slot(dt, s, x, r))
              = [Fields("slot", dt, {}, 0, {}, x, s, r, <<>>) EXCEPT !.dt = 0, !.range = 0]
      BY <2>1, Zenon DEF OffsetPlace
    <2> QED BY <2>2 DEF Fields
  <1>2. ASSUME NEW dt, NEW v
        PROVE  OffsetPlace(Immediate(dt, v)) = Fields("imm", 0, v, 0, {}, {}, 0, 0, <<>>)
    <2>1. Immediate(dt, v) = Fields("imm", dt, v, 0, {}, {}, 0, 0, <<>>)
      BY ConstructorFields
    <2>2. OffsetPlace(Immediate(dt, v))
              = [Fields("imm", dt, v, 0, {}, {}, 0, 0, <<>>) EXCEPT !.dt = 0, !.range = 0]
      BY <2>1, Zenon DEF OffsetPlace
    <2> QED BY <2>2 DEF Fields
  <1> QED BY <1>1, <1>2

Headed(form, l, m) == <<Header(form, 4 * (Len(l) - 1), (m - 1) % 4)>>
NumberForm(bit)  == IF bit THEN 240 ELSE 248

IndirectParts(off, type, l, enc) ==
    \/ off.kind = "slot" /\ \E c \in ScopeCode(off.scope) :
           enc = Headed(224, l, Len(WriteSlotNo(off.number, c)))
                 \o l \o WriteSlotNo(off.number, c)
    \/ off.kind = "imm" /\ off.value = {} /\ enc = Headed(232, l, 1) \o l
    \/ /\ off.kind # "slot" /\ ~(off.kind = "imm" /\ off.value = {})
       /\ \E o \in Written(type, off.value) :
              enc = Headed(NumberForm(DirectBit(type, off.value)), l, ByteLength(o))
                    \o l \o WriteOffset(o)

\* mc7p_encode_indirect writes a pointer number and then an offset.
LEMMA EncodeIndirectIs ==
  ASSUME NEW acc, NEW type, NEW enc \in EncodeIndirect(acc, type)
  PROVE  \E l \in WritePtrNo(acc.sub[1].number, BaseAccess(acc.sub[1])) :
             IndirectParts(acc.sub[2], type, l, enc)
  <1> DEFINE off == acc.sub[2]
             W == WritePtrNo(acc.sub[1].number, BaseAccess(acc.sub[1]))
             A(l) == {Headed(224, l, Len(WriteSlotNo(off.number, c)))
                          \o l \o WriteSlotNo(off.number, c) : c \in ScopeCode(off.scope)}
             B(l) == {Headed(232, l, 1) \o l}
             C(l) == {Headed(NumberForm(DirectBit(type, off.value)), l, ByteLength(o))
                          \o l \o WriteOffset(o) : o \in Written(type, off.value)}
             parts(l) == CASE off.kind = "slot" -> A(l)
                           [] off.kind = "imm" /\ off.value = {} -> B(l)
                           [] OTHER -> C(l)
  <1>1. EncodeIndirect(acc, type) = UNION {parts(l) : l \in W}
    BY Zenon DEF EncodeIndirect, Headed, NumberForm, BaseAccess
  <1> HIDE DEF W, A, B, C
  <1>2. PICK l \in W : enc \in parts(l)
    <2> HIDE DEF parts
    <2> QED BY <1>1
  <1>3. CASE off.kind = "slot"
    <2>1. enc \in A(l)
      BY <1>2, <1>3
    <2>2. IndirectParts(off, type, l, enc)
      BY <1>3, <2>1 DEF A, IndirectParts
    <2> QED BY <2>2 DEF W
  <1>4. CASE off.kind = "imm" /\ off.value = {}
    <2>1. enc \in B(l)
      BY <1>2, <1>4
    <2>2. IndirectParts(off, type, l, enc)
      BY <1>4, <2>1 DEF B, IndirectParts
    <2> QED BY <2>2 DEF W
  <1>5. CASE off.kind # "slot" /\ ~(off.kind = "imm" /\ off.value = {})
    <2>1. enc \in C(l)
      BY <1>2, <1>5
    <2>2. IndirectParts(off, type, l, enc)
      BY <1>5, <2>1 DEF C, IndirectParts
    <2> QED BY <2>2 DEF W
  <1> QED BY <1>3, <1>4, <1>5

\* An indirect operand comes back with the place of its offset.
LEMMA IndirectKept ==
  ASSUME NEW code, NEW pos, NEW mode, NEW predef, NEW dts, NEW width, NEW type,
         NEW base, NEW off, ScopedPointer(base), TextOffset(off),
         FitsHeader(Indirect(OT.Void, base, off)),
         NEW enc \in EncodeIndirect(Indirect(OT.Void, base, off), type), At(code, pos, enc)
  PROVE  IdentGot(code, pos, mode, predef, dts, enc, Indirect(OT.Void, base, off), width, type)
  <1> DEFINE acc == Indirect(OT.Void, base, off)
             bit == DirectBit(type, off.value)
  <1>1. acc.kind = "indirect" /\ acc.sub[1] = base /\ acc.sub[2] = off
    BY ConstructorFields DEF Fields
  <1>2. /\ off.number \subseteq 0..29
        /\ \A o \in Written(OT.Void, off.value) : o \subseteq 0..31
    BY <1>1 DEF FitsHeader
  <1>3. PICK l \in WritePtrNo(base.number, BaseAccess(base)) : IndirectParts(off, type, l, enc)
    <2>1. enc \in EncodeIndirect(acc, type)
      OBVIOUS
    <2> HIDE DEF acc
    <2> QED BY <1>1, <2>1, EncodeIndirectIs
  <1>4. PICK n, a : /\ BaseKept(base, n, a) /\ a \in 0..1
                    /\ l \in Seq(Byte) /\ Len(l) \in 1..2
                    /\ ShiftRight(BigEndian(l), 3) = n /\ l[Len(l)] % 8 = a
    BY <1>3, BaseIs
  <1>5. /\ \A dt, s, x, r : /\ Slot(dt, s, x, r).kind = "slot"
                            /\ Slot(dt, s, x, r).scope = s
                            /\ Slot(dt, s, x, r).number = x
        /\ \A dt, v : Immediate(dt, v).kind = "imm" /\ Immediate(dt, v).value = v
    BY ConstructorFields DEF Fields
  <1> DEFINE Shaped(form, o, m) ==
               /\ IndirectShape(form, l, o, m, n, a)
               /\ enc = <<Header(form, 4 * (Len(l) - 1), m - 1)>> \o (l \o o)
               /\ OffsetPlace(OffsetRead(form, o)) = OffsetPlace(off)
  <1>6. \A form \in {224, 232, 240, 248}, m \in 1..4 :
               Header(form, 4 * (Len(l) - 1), m - 1) \in Byte /\ (m - 1) % 4 = m - 1
    <2>1. Len(l) - 1 \in 0..1
      BY <1>4
    <2> DEFINE k == Len(l) - 1
    <2> HIDE DEF k
    <2> SUFFICES \A form \in {224, 232, 240, 248}, m \in 1..4 :
                     Header(form, 4 * k, m - 1) \in Byte /\ (m - 1) % 4 = m - 1
      BY DEF k
    <2>2. k \in 0..1
      BY <2>1 DEF k
    <2> QED BY <2>2, IndirectHeader
  <1>7. \E form, o, m : Shaped(form, o, m)
    <2>1. CASE off.kind = "slot"
      <3>1. PICK c \in ScopeCode(off.scope) : enc = Headed(224, l, Len(WriteSlotNo(off.number, c)))
                                           \o l \o WriteSlotNo(off.number, c)
        BY <1>3, <2>1 DEF IndirectParts
      <3> DEFINE no == WriteSlotNo(off.number, c)
      <3>2. PICK dt, s, x, r : off = Slot(dt, s, x, r) /\ s \in NamedScopes
        BY <1>5, <2>1 DEF TextOffset
      <3>3. off.scope = s /\ off.number = x /\ x \in SUBSET (0..29)
        BY <1>2, <1>5, <3>2
      <3>4. c \in 0..3 /\ ScopeFromCode(c) = s
        BY <3>1, <3>3, ScopesNamed
      <3>5. /\ no \in Seq(Byte) /\ Len(no) \in 1..4
            /\ ShiftRight(BigEndian(no), 2) = x /\ no[Len(no)] % 4 = c
        BY <3>3, <3>4, SlotNoReads
      <3> HIDE DEF no
      <3>6. IndirectShape(224, l, no, Len(no), n, a)
        BY <1>4, <3>5 DEF IndirectShape
      <3>7. enc = (<<Header(224, 4 * (Len(l) - 1), Len(no) - 1)>> \o l) \o no
        BY <1>6, <3>1, <3>5 DEF no, Headed
      <3>8. enc = <<Header(224, 4 * (Len(l) - 1), Len(no) - 1)>> \o (l \o no)
        <4>1. Header(224, 4 * (Len(l) - 1), Len(no) - 1) \in Byte
          <5>1. 224 \in {224, 232, 240, 248}
            OBVIOUS
          <5> DEFINE m == Len(no)
          <5>2. m \in 1..4
            BY <3>5
          <5> HIDE DEF m
          <5>3. Header(224, 4 * (Len(l) - 1), m - 1) \in Byte
            BY <1>6, <5>1, <5>2
          <5> QED BY <5>3 DEF m
        <4> DEFINE h == Header(224, 4 * (Len(l) - 1), Len(no) - 1)
        <4> HIDE DEF h
        <4> SUFFICES enc = <<h>> \o (l \o no)
          BY DEF h
        <4>2. h \in Byte /\ enc = (<<h>> \o l) \o no
          BY <3>7, <4>1 DEF h
        <4> QED BY ONLY <1>4, <3>5, <4>2, ConcatAssociates
      <3>9. OffsetRead(224, no) = Slot(OT.DWord, s, x, SlotRange.Slot32)
        BY <3>4, <3>5 DEF OffsetRead
      <3>10. OffsetPlace(OffsetRead(224, no)) = OffsetPlace(off)
        BY <3>2, <3>9, OffsetPlaces
      <3>11. Shaped(224, no, Len(no))
        BY <3>6, <3>8, <3>10
      <3> QED BY <3>11
    <2>2. CASE off.kind = "imm" /\ off.value = {}
      <3>1. enc = Headed(232, l, 1) \o l /\ 1 \in 1..4
        BY <1>3, <2>2 DEF IndirectParts
      <3>2. IndirectShape(232, l, <<>>, 1, n, a)
        BY <1>4 DEF IndirectShape
      <3>3. enc = <<Header(232, 4 * (Len(l) - 1), 1 - 1)>> \o (l \o <<>>)
        <4>1. enc = <<Header(232, 4 * (Len(l) - 1), 1 - 1)>> \o l
          BY <1>6, <3>1 DEF Headed
        <4> QED BY <1>4, <1>6, <3>1, <4>1, ConcatAssociates
      <3>4. PICK dt, v : off = Immediate(dt, v) /\ v = {}
        BY <1>5, <2>2 DEF TextOffset
      <3>5. OffsetBits(232, <<>>) = {}
        <4>1. BigEndian(<<>>) = {}
          BY DEF BigEndian
        <4>2. ShiftLeft(BigEndian(<<>>), 3) = {}
          BY <4>1 DEF ShiftLeft
        <4> QED BY <4>1, <4>2 DEF OffsetBits, BitOffset
      <3>6. OffsetRead(232, <<>>) = Immediate(OT.DInt, {})
        <4>1. OffsetRead(232, <<>>) = Immediate(OT.DInt, OffsetBits(232, <<>>))
          BY DEF OffsetRead
        <4> QED BY <3>5, <4>1
      <3>7. OffsetPlace(OffsetRead(232, <<>>)) = OffsetPlace(off)
        BY <3>4, <3>6, OffsetPlaces
      <3>8. Shaped(232, <<>>, 1)
        BY <3>2, <3>3, <3>7
      <3> QED BY <3>8
    <2>3. CASE off.kind # "slot" /\ ~(off.kind = "imm" /\ off.value = {})
      <3>1. PICK o \in Written(type, off.value) : enc = Headed(NumberForm(bit), l, ByteLength(o))
                                                     \o l \o WriteOffset(o)
        BY <1>3, <2>3 DEF IndirectParts
      <3> DEFINE form == NumberForm(bit)
                 w == WriteOffset(o)
      <3>2. PICK dt, v : off = Immediate(dt, v) /\ v \in Word
        BY <1>5, <2>3 DEF TextOffset
      <3>3. off.value = v
        BY <1>5, <3>2
      <3>4. o \subseteq 0..31
        BY <1>2, WrittenAlike
      <3>5. o \in Word /\ BitOffset(DirectBit(type, v), w) = v
        BY <3>1, <3>2, <3>3, OffsetReads
      <3>6. w \in Seq(Byte) /\ Len(w) = ByteLength(o) /\ Len(w) \in 1..4
        BY <3>4, <3>5, OffsetLength
      <3>7. bit = DirectBit(type, v) /\ bit \in BOOLEAN
        BY <3>3 DEF DirectBit
      <3> HIDE DEF w, bit
      <3>8. form \in {240, 248} /\ (bit => form = 240) /\ (~bit => form = 248)
        BY <3>7 DEF NumberForm
      <3> HIDE DEF form
      <3>9. IndirectShape(form, l, w, Len(w), n, a)
        BY <1>4, <3>6, <3>8 DEF IndirectShape
      <3>10. enc = (<<Header(form, 4 * (Len(l) - 1), Len(w) - 1)>> \o l) \o w
        <4>1. (ByteLength(o) - 1) % 4 = Len(w) - 1
          BY <1>6, <3>6, <3>8
        <4> QED BY <3>1, <4>1 DEF w, bit, form, Headed
      <3>11. enc = <<Header(form, 4 * (Len(l) - 1), Len(w) - 1)>> \o (l \o w)
        <4>1. Header(form, 4 * (Len(l) - 1), Len(w) - 1) \in Byte
          BY <1>6, <3>6, <3>8
        <4> HIDE DEF form
        <4> QED BY <1>4, <3>6, <3>10, <4>1, ConcatAssociates
      <3>12. OffsetRead(form, w) = Immediate(OT.DInt, v)
        <4>1. OffsetBits(form, w) = v
          <5>1. CASE bit
            BY <3>5, <3>7, <3>8, <5>1 DEF OffsetBits, BitOffset
          <5>2. CASE ~bit
            BY <3>5, <3>7, <3>8, <5>2 DEF OffsetBits, BitOffset
          <5> QED BY <3>7, <5>1, <5>2
        <4>2. OffsetRead(form, w) = Immediate(OT.DInt, OffsetBits(form, w))
          BY <3>8 DEF OffsetRead
        <4> QED BY <4>1, <4>2
      <3>13. OffsetPlace(OffsetRead(form, w)) = OffsetPlace(off)
        BY <3>2, <3>12, OffsetPlaces
      <3>14. Shaped(form, w, Len(w))
        BY <3>9, <3>11, <3>13
      <3> QED BY <3>14
    <2> QED BY <2>1, <2>2, <2>3
  <1>8. PICK form, o, m : Shaped(form, o, m)
    BY <1>7
  <1>9. Len(enc) = 1 + Len(l) + Len(o) /\ pos \in Nat
    <2>1. m \in 1..4 /\ form \in {224, 232, 240, 248} /\ l \in Seq(Byte) /\ o \in Seq(Byte)
      BY <1>8 DEF IndirectShape
    <2>2. Header(form, 4 * (Len(l) - 1), m - 1) \in Byte
      BY <1>6, <2>1
    <2> QED BY <1>8, <2>1, <2>2 DEF At
  <1> QED BY <1>4, <1>8, <1>9, IndirectTail

TextMemory(acc) == \E dt : \E area \in NamedAreas, o \in Word : acc = Memory(dt, area, o)
TextDb(acc)     == \E dt : \E n \in SUBSET (0..30), range \in NamedRanges, o \in Word :
                       acc = DbAccess(dt, n, range, o)
TextSlot(acc)   == \E dt : \E s \in NamedScopes, n \in SUBSET (0..31), range \in 0..7 :
                       acc = Slot(dt, s, n, range)
TextImm(acc)    == \E dt, v : acc = Immediate(dt, v) /\ TextNumber(dt, v)
AccCond(v)      == [AccNew("cond", OT.Void) EXCEPT !.value = v]
TextPart(acc)   ==
    \/ TextMemory(acc) \/ TextDb(acc) \/ TextSlot(acc) \/ ScopedPointer(acc) \/ TextImm(acc)
    \/ \E t \in Nat : acc = AccType(t)
    \/ \E v \in Word : acc = AccCond(v)
TextIndirect(acc) ==
    \E base, off : /\ acc = Indirect(OT.Void, base, off)
                   /\ ScopedPointer(base) /\ TextOffset(off)

\* The bits of zero and one.
LEMMA SmallBits ==
  BitsOf(0) = {} /\ BitsOf(1) = {0}
  <1>1. ByteAt({}, 0) = 0 /\ ByteAt({0}, 0) = 1
    BY ByteAtZero
  <1>2. {} \in SUBSET (0..7) /\ {0} \in SUBSET (0..7)
    OBVIOUS
  <1>3. BitsOf(ByteAt({}, 0)) = {} /\ BitsOf(ByteAt({0}, 0)) = {0}
    BY <1>2, BitsKnown
  <1> QED BY <1>1, <1>3

\* What the parser makes of a plain text.
LEMMA PartIsText ==
  ASSUME NEW t \in PlainText, NEW acc \in ParsedPart(t)
  PROVE  TextPart(acc)
  <1>1. t.number \in Word /\ t.place \in Word /\ t.of \in Nat
    BY DEF PlainText, TextOf
  <1>2. CASE t.form = "%"
    <2>1. acc \in ParsedMemory(t)
      BY <1>2 DEF ParsedPart
    <2> QED BY <1>1, <2>1 DEF ParsedMemory, TextPart, TextMemory
  <1>3. CASE t.form = "DB"
    <2>1. acc \in ParsedDb(t)
      BY <1>3 DEF ParsedPart
    <2> QED BY <1>1, <2>1 DEF ParsedDb, TextPart, TextDb
  <1>4. CASE t.form = "@S"
    <2>1. acc \in ParsedSlot(t)
      BY <1>4 DEF ParsedPart
    <2> QED BY <1>1, <2>1 DEF ParsedSlot, TextPart, TextSlot
  <1>5. CASE t.form = "@P"
    <2>1. acc \in ParsedPointer(t)
      BY <1>5 DEF ParsedPart
    <2> QED BY <1>1, <2>1 DEF ParsedPointer, TextPart, ScopedPointer
  <1>6. CASE t.form = "@PSYS"
    BY <1>6 DEF ParsedPart, TextPart, ScopedPointer
  <1>7. CASE t.form = ":"
    BY <1>1, <1>7 DEF ParsedPart, TextPart
  <1>8. CASE t.form = "="
    <2>1. acc = AccCond(t.number)
      BY <1>8 DEF ParsedPart, AccCond
    <2> QED BY <1>1, <2>1 DEF TextPart
  <1>9. CASE t.form = "bool"
    <2>1. PICK b \in 0..1 : acc = Immediate(OT.Bool, BitsOf(b))
      BY <1>9 DEF ParsedPart
    <2>2. BitsOf(b) \in {{}, {0}} /\ BitsOf(b) \in Word
      BY SmallBits DEF Word, Bits64
    <2> QED BY <2>1, <2>2 DEF TextPart, TextImm, TextNumber
  <1>10. CASE t.form = "int"
    <2>1. acc = Immediate(OT.Undef, t.number)
      BY <1>10 DEF ParsedPart
    <2> QED BY <1>1, <2>1 DEF TextPart, TextImm, TextNumber
  <1>11. CASE t.form = "other"
    BY <1>11 DEF ParsedPart
  <1> QED BY <1>2, <1>3, <1>4, <1>5, <1>6, <1>7, <1>8, <1>9, <1>10, <1>11 DEF PlainText, TextOf

\* The kind tells the forms apart.
LEMMA KindsApart ==
  ASSUME NEW acc, TextPart(acc)
  PROVE  /\ acc.kind = "mem" => TextMemory(acc)
         /\ acc.kind = "db" => TextDb(acc)
         /\ acc.kind = "slot" => TextSlot(acc)
         /\ acc.kind = "ptr" => ScopedPointer(acc)
         /\ acc.kind = "imm" => TextImm(acc)
         /\ acc.kind = "type" => \E t \in Nat : acc = AccType(t)
         /\ acc.kind = "cond" => \E v \in Word : acc = AccCond(v)
         /\ acc.kind \in {"mem", "db", "slot", "ptr", "imm", "type", "cond"}
  <1>1. TextMemory(acc) => acc.kind = "mem"
    BY ConstructorFields DEF TextMemory, Fields
  <1>2. TextDb(acc) => acc.kind = "db"
    BY ConstructorFields DEF TextDb, Fields
  <1>3. TextSlot(acc) => acc.kind = "slot"
    BY ConstructorFields DEF TextSlot, Fields
  <1>4. ScopedPointer(acc) => acc.kind = "ptr"
    BY ConstructorFields DEF ScopedPointer, Fields
  <1>5. TextImm(acc) => acc.kind = "imm"
    BY ConstructorFields DEF TextImm, Fields
  <1>6. \A t : AccType(t).kind = "type"
    BY DEF AccType, AccNew
  <1>7. \A v : AccCond(v).kind = "cond"
    BY DEF AccCond, AccNew
  <1> QED BY <1>1, <1>2, <1>3, <1>4, <1>5, <1>6, <1>7 DEF TextPart

\* What mc7p_parse_operand makes of a text.
LEMMA TextIs ==
  ASSUME NEW t \in AnyText, NEW acc \in Parsed(t)
  PROVE  TextPart(acc) \/ TextIndirect(acc)
  <1>1. CASE t.form # "["
    <2>1. t \in PlainText /\ acc \in ParsedPart(t)
      BY <1>1 DEF Parsed, AnyText, PlainText, TextOf
    <2> QED BY <2>1, PartIsText
  <1>2. CASE t.form = "["
    <2>1. t.sub \in PlainText \X PlainText
      BY <1>2 DEF AnyText, PlainText, TextOf
    <2>2. PICK base \in ParsedPart(t.sub[1]), off \in ParsedPart(t.sub[2]) :
              /\ base.kind = "ptr" /\ off.kind \in {"imm", "slot"}
              /\ acc = Indirect(OT.Void, base, off)
      BY <1>2 DEF Parsed, ParsedIndirect
    <2>3. TextPart(base) /\ TextPart(off)
      BY <2>1, PartIsText
    <2>4. ScopedPointer(base) /\ (TextImm(off) \/ TextSlot(off))
      BY <2>2, <2>3, KindsApart
    <2>5. TextOffset(off)
      BY <2>4 DEF TextOffset, TextImm, TextNumber, TextSlot
    <2> QED BY <2>2, <2>4, <2>5 DEF TextIndirect
  <1> QED BY <1>1, <1>2

\* An operand that is read back is read.
LEMMA GotOfReads ==
  ASSUME NEW code, NEW pos, NEW mode, NEW predef, NEW dts, NEW enc, NEW acc, NEW width, NEW num,
         IdentReads(code, pos, mode, predef, dts, enc, acc, width), acc.kind # "imm"
  PROVE  IdentGot(code, pos, mode, predef, dts, enc, acc, width, num)
  BY Zenon DEF IdentReads, IdentGot

\* An operand of a line that an ident parameter takes.
IdentOperand(acc, mode, dts) ==
    /\ TextPart(acc) \/ TextIndirect(acc)
    /\ acc.kind \notin {"type", "cond"}
    /\ FitsHeader(acc)
    /\ acc.kind = "ptr" /\ acc.scope = Scope.NativeSystem => mode \in {Mode.Pointer, Mode.SysPtr}
    /\ mode = Mode.Direct => dts \cap {OT.String, OT.WString} = {}

\* Every operand of a line that an ident parameter takes comes back from its bytes.
LEMMA IdentKept ==
  ASSUME NEW code, NEW pos, NEW acc, NEW mode, NEW predef, NEW type, NEW dts, NEW width, NEW num,
         IdentOperand(acc, mode, dts),
         num = IF predef # OT.Undef THEN predef ELSE type,
         width = IF mode \in {Mode.Id, Mode.Len} THEN 64 ELSE ImmediateWidth(num),
         NEW enc \in EncodeOperand(acc, predef, mode, type), At(code, pos, enc)
  PROVE  IdentGot(code, pos, mode, predef, dts, enc, acc, width, num)
  <1> DEFINE Goal == IdentGot(code, pos, mode, predef, dts, enc, acc, width, num)
  <1>0. /\ TextPart(acc) \/ TextIndirect(acc)
        /\ acc.kind \notin {"type", "cond"} /\ FitsHeader(acc)
        /\ mode = Mode.Direct => dts \cap {OT.String, OT.WString} = {}
    BY DEF IdentOperand
  <1>1. CASE TextIndirect(acc)
    <2>1. PICK base, off : /\ acc = Indirect(OT.Void, base, off)
                           /\ ScopedPointer(base) /\ TextOffset(off)
      BY <1>1 DEF TextIndirect
    <2>2. acc.kind = "indirect"
      BY <2>1, ConstructorFields DEF Fields
    <2>3. enc \in EncodeIndirect(acc, type)
      BY <2>2 DEF EncodeOperand
    <2>4. FitsHeader(Indirect(OT.Void, base, off))
          /\ enc \in EncodeIndirect(Indirect(OT.Void, base, off), type)
      BY <1>0, <2>1, <2>3, Zenon
    <2>5. IdentGot(code, pos, mode, predef, dts, enc, Indirect(OT.Void, base, off), width, num)
      <3>1. \A t : IdentGot(code, pos, mode, predef, dts, enc, Indirect(OT.Void, base, off),
                            width, t)
                   <=> IdentGot(code, pos, mode, predef, dts, enc,
                                Indirect(OT.Void, base, off), width, num)
        <4>1. Indirect(OT.Void, base, off).kind # "imm"
          BY <2>1, <2>2
        <4> QED BY <4>1, Zenon DEF IdentGot
      <3>2. IdentGot(code, pos, mode, predef, dts, enc, Indirect(OT.Void, base, off), width, type)
        BY <2>1, <2>4, IndirectKept
      <3> QED BY <3>1, <3>2, Zenon
    <2> QED BY <2>1, <2>5, Zenon
  <1>2. CASE TextPart(acc) /\ acc.kind = "mem"
    <2>1. PICK dt : \E area \in NamedAreas, o \in Word : acc = Memory(dt, area, o)
      BY <1>2, KindsApart DEF TextMemory
    <2>2. PICK area \in NamedAreas, o \in Word : acc = Memory(dt, area, o)
      BY <2>1
    <2>3. acc.dt = dt /\ acc.offset = o
      BY <2>2, ConstructorFields DEF Fields
    <2>4. \A x \in Written(dt, o) : x \subseteq 0..31
      BY <1>0, <1>2, <2>3 DEF FitsHeader
    <2>5. enc \in EncodeMemory(acc, mode = Mode.Direct)
      BY <1>2 DEF EncodeOperand
    <2>6. enc \in EncodeMemory(Memory(dt, area, o), mode = Mode.Direct)
      BY <2>2, <2>5, Zenon
    <2>7. IdentReads(code, pos, mode, predef, dts, enc, Memory(dt, area, o), width)
      BY <1>0, <2>4, <2>6, MemoryKept
    <2>8. IdentReads(code, pos, mode, predef, dts, enc, acc, width)
      BY <2>2, <2>7, Zenon
    <2> QED BY <1>2, <2>8, GotOfReads
  <1>3. CASE TextPart(acc) /\ acc.kind = "db"
    <2>1. PICK dt : \E n \in SUBSET (0..30), range \in NamedRanges, o \in Word :
                        acc = DbAccess(dt, n, range, o)
      BY <1>3, KindsApart DEF TextDb
    <2>2. PICK n \in SUBSET (0..30), range \in NamedRanges, o \in Word :
                   acc = DbAccess(dt, n, range, o)
      BY <2>1
    <2>3. enc \in EncodeDb(acc)
      BY <1>3 DEF EncodeOperand
    <2>4. enc \in EncodeDb(DbAccess(dt, n, range, o)) /\ FitsHeader(DbAccess(dt, n, range, o))
      BY <1>0, <2>2, <2>3, Zenon
    <2>5. IdentReads(code, pos, mode, predef, dts, enc, DbAccess(dt, n, range, o), width)
      BY <2>4, DbKept
    <2>6. IdentReads(code, pos, mode, predef, dts, enc, acc, width)
      BY <2>2, <2>5, Zenon
    <2> QED BY <1>3, <2>6, GotOfReads
  <1>4. CASE TextPart(acc) /\ acc.kind \in {"slot", "ptr"}
    <2>1. enc \in EncodeNative(acc) /\ acc.number \subseteq 0..29
      BY <1>0, <1>4 DEF EncodeOperand, FitsHeader
    <2>2. CASE \E area : acc = AreaPointer(area)
      <3>1. PICK area : acc = AreaPointer(area)
        BY <2>2
      <3>2. acc.kind = "ptr" /\ acc.scope = Scope.NativeSystem
        BY <3>1, ConstructorFields DEF Fields
      <3>3. mode \in {Mode.Pointer, Mode.SysPtr}
        BY <3>2 DEF IdentOperand
      <3>4. enc \in EncodeNative(AreaPointer(area))
        BY <2>1, <3>1, Zenon
      <3>5. IdentReads(code, pos, mode, predef, dts, enc, AreaPointer(area), width)
        BY <3>3, <3>4, SystemKept
      <3>6. IdentReads(code, pos, mode, predef, dts, enc, acc, width)
        BY <3>1, <3>5, Zenon
      <3> QED BY <3>2, <3>6, GotOfReads
    <2>3. CASE ~\E area : acc = AreaPointer(area)
      <3>1. \E scope \in NamedScopes : \E n :
                /\ n \in SUBSET (0..29)
                /\ \/ \E dt : \E range \in 0..7 : acc = Slot(dt, scope, n, range)
                   \/ acc = Pointer(scope, n)
        <4>1. CASE acc.kind = "slot"
          <5>1. PICK dt : \E s \in NamedScopes, n \in SUBSET (0..31), range \in 0..7 :
                              acc = Slot(dt, s, n, range)
            BY <1>4, <4>1, KindsApart DEF TextSlot
          <5>2. PICK s \in NamedScopes, n \in SUBSET (0..31), range \in 0..7 :
                         acc = Slot(dt, s, n, range)
            BY <5>1
          <5>3. acc.number = n
            BY <5>2, ConstructorFields DEF Fields
          <5> QED BY <2>1, <5>2, <5>3
        <4>2. CASE acc.kind = "ptr"
          <5>1. PICK s \in NamedScopes, n \in SUBSET (0..31) : acc = Pointer(s, n)
            BY <1>4, <2>3, <4>2, KindsApart DEF ScopedPointer
          <5>2. acc.number = n
            BY <5>1, ConstructorFields DEF Fields
          <5> QED BY <2>1, <5>1, <5>2
        <4> QED BY <1>4, <4>1, <4>2
      <3>2. IdentReads(code, pos, mode, predef, dts, enc, acc, width)
        BY <2>1, <3>1, NativeKept
      <3> QED BY <1>4, <3>2, GotOfReads
    <2> QED BY <2>2, <2>3
  <1>5. CASE TextPart(acc) /\ acc.kind = "imm"
    <2>1. PICK dt, v : acc = Immediate(dt, v) /\ TextNumber(dt, v)
      BY <1>5, KindsApart DEF TextImm
    <2>2. enc = ImmediateTyped(acc, num, mode)
      BY <1>5 DEF EncodeOperand
    <2>3. enc = ImmediateTyped(Immediate(dt, v), num, mode)
      BY <2>1, <2>2, Zenon
    <2>4. IdentGot(code, pos, mode, predef, dts, enc, Immediate(dt, v), width, num)
      BY <2>1, <2>3, ImmediateKept
    <2> QED BY <2>1, <2>4, Zenon
  <1>6. TextPart(acc) => acc.kind \in {"mem", "db", "slot", "ptr", "imm", "type", "cond"}
    BY KindsApart
  <1> QED BY <1>0, <1>1, <1>2, <1>3, <1>4, <1>5, <1>6

(* An operand of another base than the header knows is the one of the      *)
(* local base to the encoder already.                                      *)
AsRead(acc) ==
    IF OtherBase(acc)
    THEN Indirect(OT.Void, Pointer(Scope.NativeLocal, acc.sub[1].number), acc.sub[2])
    ELSE acc

\* The operand that the header makes of a global or the caller's base.
LEMMA AsReadIs ==
  ASSUME NEW acc, TextPart(acc) \/ TextIndirect(acc), OtherBase(acc)
  PROVE  \E base, off :
             /\ acc = Indirect(OT.Void, base, off) /\ ScopedPointer(base) /\ TextOffset(off)
             /\ base.kind = "ptr"
             /\ AsRead(acc) = Indirect(OT.Void, Pointer(Scope.NativeLocal, base.number), off)
             /\ base.scope # Scope.NativeBlock
             /\ base.number \subseteq 0..31
  <1>1. acc.kind = "indirect" /\ acc.sub[1].scope \notin {Scope.NativeBlock, Scope.NativeLocal}
    BY DEF OtherBase
  <1>2. TextIndirect(acc)
    BY <1>1, KindsApart
  <1>3. PICK base, off : /\ acc = Indirect(OT.Void, base, off)
                         /\ ScopedPointer(base) /\ TextOffset(off)
    BY <1>2 DEF TextIndirect
  <1>4. acc.sub = <<base, off>>
    BY <1>3, ConstructorFields DEF Fields
  <1>5. base.kind = "ptr" /\ base.number \subseteq 0..31
    <2>1. CASE \E s \in NamedScopes, n \in SUBSET (0..31) : base = Pointer(s, n)
      <3>1. PICK s \in NamedScopes, n \in SUBSET (0..31) : base = Pointer(s, n)
        BY <2>1
      <3>2. base.kind = "ptr" /\ base.number = n
        BY <3>1, ConstructorFields DEF Fields
      <3> QED BY <3>2
    <2>2. CASE \E a : base = AreaPointer(a)
      <3>1. PICK a : base = AreaPointer(a)
        BY <2>2
      <3>2. base.kind = "ptr" /\ base.number = {}
        BY <3>1, ConstructorFields DEF Fields
      <3> QED BY <3>2
    <2> QED BY <1>3, <2>1, <2>2 DEF ScopedPointer
  <1>6. AsRead(acc) = Indirect(OT.Void, Pointer(Scope.NativeLocal, acc.sub[1].number), acc.sub[2])
    BY Zenon DEF AsRead
  <1> QED BY <1>1, <1>3, <1>4, <1>5, <1>6

\* The bytes of an indirect operand by what they depend on.
IndirectBytes(ptrs, kind, number, scope, value, type) ==
    LET bit == DirectBit(type, value)
        head(form, l, m) == <<Header(form, 4 * (Len(l) - 1), (m - 1) % 4)>>
        withSlot(l, no)  == head(224, l, Len(no)) \o l \o no
        withNumber(l, o) == head(IF bit THEN 240 ELSE 248, l, ByteLength(o))
                            \o l \o WriteOffset(o)
    IN  UNION {CASE kind = "slot" ->
                        {withSlot(l, WriteSlotNo(number, c)) : c \in ScopeCode(scope)}
                 [] kind = "imm" /\ value = {} -> {head(232, l, 1) \o l}
                 [] OTHER -> {withNumber(l, o) : o \in Written(type, value)} :
               l \in ptrs}

\* mc7p_encode_indirect by what it looks at.
LEMMA IndirectBytesAre ==
  ASSUME NEW acc, NEW type
  PROVE  EncodeIndirect(acc, type) =
             IndirectBytes(WritePtrNo(acc.sub[1].number, BaseAccess(acc.sub[1])),
                           acc.sub[2].kind, acc.sub[2].number, acc.sub[2].scope,
                           acc.sub[2].value, type)
  BY Zenon DEF EncodeIndirect, IndirectBytes, BaseAccess

\* It is an operand like the other, with the same bytes.
LEMMA AsReadOperand ==
  ASSUME NEW acc, NEW mode, NEW dts, IdentOperand(acc, mode, dts), NEW predef, NEW type
  PROVE  /\ IdentOperand(AsRead(acc), mode, dts) /\ ~OtherBase(AsRead(acc))
         /\ AsRead(acc).kind = acc.kind
         /\ EncodeOperand(AsRead(acc), predef, mode, type) = EncodeOperand(acc, predef, mode, type)
  <1>1. CASE ~OtherBase(acc)
    <2>1. AsRead(acc) = acc
      BY <1>1, Zenon DEF AsRead
    <2> QED BY <1>1, <2>1
  <1>2. CASE OtherBase(acc)
    <2>1. TextPart(acc) \/ TextIndirect(acc)
      BY DEF IdentOperand
    <2>2. PICK base, off :
              /\ acc = Indirect(OT.Void, base, off) /\ ScopedPointer(base) /\ TextOffset(off)
              /\ base.kind = "ptr"
              /\ AsRead(acc) = Indirect(OT.Void, Pointer(Scope.NativeLocal, base.number), off)
              /\ base.scope # Scope.NativeBlock
              /\ base.number \subseteq 0..31
      BY <1>2, <2>1, AsReadIs
    <2> DEFINE local == Pointer(Scope.NativeLocal, base.number)
               got   == Indirect(OT.Void, local, off)
    <2>3. local.kind = "ptr" /\ local.scope = Scope.NativeLocal /\ local.number = base.number
      BY ConstructorFields DEF Fields
    <2>4. ScopedPointer(local)
      BY <2>2 DEF ScopedPointer, NamedScopes
    <2> HIDE DEF local
    <2>5. /\ acc.kind = "indirect" /\ acc.sub[1] = base /\ acc.sub[2] = off
          /\ got.kind = "indirect" /\ got.sub[1] = local /\ got.sub[2] = off
      BY <2>2, ConstructorFields DEF Fields
    <2>6. TextIndirect(got)
      BY <2>2, <2>4 DEF TextIndirect
    <2>7. FitsHeader(acc) <=> FitsHeader(got)
      BY <2>5 DEF FitsHeader
    <2>8. ~OtherBase(got)
      BY <2>3, <2>5 DEF OtherBase
    <2>9. Scope.NativeLocal # Scope.NativeBlock
      BY DEF Scope
    <2>10. EncodeIndirect(got, type) = EncodeIndirect(acc, type)
      <3>1. BaseAccess(local) = BaseAccess(base)
        BY <2>2, <2>3, <2>9 DEF BaseAccess
      <3>2. EncodeIndirect(got, type) =
                IndirectBytes(WritePtrNo(local.number, BaseAccess(local)),
                              off.kind, off.number, off.scope, off.value, type)
        BY ONLY <2>5, IndirectBytesAre, Zenon
      <3>3. EncodeIndirect(acc, type) =
                IndirectBytes(WritePtrNo(base.number, BaseAccess(base)),
                              off.kind, off.number, off.scope, off.value, type)
        BY <2>5, IndirectBytesAre, Zenon
      <3> QED BY <2>3, <3>1, <3>2, <3>3, Zenon
    <2>11. EncodeOperand(got, predef, mode, type) = EncodeOperand(acc, predef, mode, type)
      BY <2>5, <2>10 DEF EncodeOperand
    <2>12. IdentOperand(got, mode, dts)
      BY <2>5, <2>6, <2>7 DEF IdentOperand
    <2>13. AsRead(acc) = got
      BY <2>2 DEF local
    <2> HIDE DEF got
    <2> QED BY <2>5, <2>8, <2>11, <2>12, <2>13
  <1> QED BY <1>1, <1>2
-----------------------------------------------------------------------------
(* The operands of a blob as text.                                         *)
\* The operands the decoders make, by what their texts depend on.
DecodedMemory(d) == \E dt, a : \E o \in Word :
                        d = Memory(dt, a, o) /\ (dt = OT.Bool \/ BitPart(o) = {})
DecodedDb(d)     == \E dt, n, r, o : d = DbAccess(dt, n, r, o)
DecodedSlot(d)   == \E dt, s, n, r : d = Slot(dt, s, n, r)
DecodedNumber(d) == \E dt : \E v \in Word : d = Immediate(dt, v) \/ d = RealNumber(dt, v)
DecodedBase(d)   == \E s, n : d = Pointer(s, n) /\ s # Scope.NativeSystem
DecodedPart(d)   ==
    \/ DecodedMemory(d) \/ DecodedDb(d) \/ DecodedSlot(d) \/ DecodedNumber(d)
    \/ DecodedBase(d) \/ \E a : d = AreaPointer(a)
    \/ \E t : d = AccType(t)
    \/ \E v : d = AccCond(v)
DecodedOffset(d) == DecodedSlot(d) \/ \E v \in Word : d = Immediate(OT.DInt, v)
DecodedIndirect(d) ==
    \E dt, b, o : d = Indirect(dt, b, o) /\ DecodedBase(b) /\ DecodedOffset(o)

\* What ShownReadsBack says of one operand and one reading of its text.
ShownBits(acc) == IF acc.dt = OT.UDInt THEN 32 ELSE 64

ShownAs(acc, read) ==
    \/ Denotes(read, ShownBits(acc)) = Denotes(acc, ShownBits(acc))
    \/ acc.kind = "db" /\ acc.range \notin NamedRanges
    \/ acc.kind = "imm" /\ acc.dt = OT.Bool /\ acc.value \notin {{}, {0}}

\* A text of a form has nothing else yet.
LEMMA TextFields ==
  \A form : /\ Text(form).form = form /\ Text(form).number = {} /\ Text(form).place = {}
            /\ Text(form).of = 0 /\ Text(form).width = 0
            /\ DOMAIN Text(form) = {"form", "of", "width", "number", "place", "sub"}
  BY DEF Text

\* The fields of a text that shows a place.
LEMMA PlaceFields ==
  ASSUME NEW form, NEW of, NEW number, NEW bitwise \in BOOLEAN, NEW acc, NEW text,
         text = Place(form, of, number, bitwise, acc)
  PROVE  /\ text.form = form /\ text.of = of /\ text.number = number
         /\ bitwise => text.width = 0 /\ text.place = acc.offset
         /\ ~bitwise => text.width = ShownWidth(acc.dt) /\ text.place = acc.offset \ (0..2)
  BY TextFields DEF Place, BytePart

\* An address as text reads back as the same place.
LEMMA ShownMemory ==
  ASSUME NEW dt, NEW a, NEW o, dt = OT.Bool \/ BitPart(o) = {},
         NEW read \in ParsedPart(PrintedPart(Memory(dt, a, o)))
  PROVE  \E t : read = Memory(t, a, o)
  <1> DEFINE acc     == Memory(dt, a, o)
             bitwise == acc.dt = OT.Bool
                        \/ (acc.dt \in {OT.Undef, OT.Void} /\ BitPart(acc.offset) # {})
             text    == Place("%", acc.area, {}, bitwise, acc)
  <1>1. acc.kind = "mem" /\ acc.dt = dt /\ acc.area = a /\ acc.offset = o
    BY ConstructorFields DEF Fields
  <1>2. PrintedPart(acc) = IF acc.area \in NamedAreas THEN text ELSE Text("other")
    BY <1>1 DEF PrintedPart, PrintedMemory
  <1>3. Text("other").form = "other"
    BY TextFields
  <1>4. ParsedPart(Text("other")) = {}
    BY <1>3 DEF ParsedPart
  <1>5. /\ text.form = "%" /\ text.of = a
        /\ bitwise => text.place = o
        /\ ~bitwise => text.place = o \ (0..2)
    <2> HIDE DEF acc
    <2>1. bitwise \in BOOLEAN
      OBVIOUS
    <2> HIDE DEF bitwise
    <2> QED BY <1>1, <2>1, PlaceFields
  <1>6. text.place = o
    <2>1. ~bitwise => o \cap (0..2) = {}
      BY <1>1 DEF BitPart
    <2> HIDE DEF text, bitwise
    <2> QED BY <1>5, <2>1
  <1> HIDE DEF text, acc, bitwise
  <1>7. read \in ParsedPart(text)
    BY <1>2, <1>4 DEF acc
  <1>8. read \in ParsedMemory(text)
    BY <1>5, <1>7 DEF ParsedPart
  <1> QED BY <1>5, <1>6, <1>8 DEF ParsedMemory

\* A place in a data block as text reads back, if its range has a name.
LEMMA ShownDb ==
  ASSUME NEW dt, NEW n, NEW r \in NamedRanges, NEW o,
         NEW read \in ParsedPart(PrintedPart(DbAccess(dt, n, r, o)))
  PROVE  \E t : read = DbAccess(t, n, r, o)
  <1> DEFINE acc     == DbAccess(dt, n, r, o)
             bitwise == BitPart(acc.offset) # {} \/ acc.dt = OT.Bool
             of      == IF acc.range \in NamedRanges THEN acc.range ELSE Area.Data
             text    == Place("DB", of, acc.number, bitwise, acc)
  <1>1. acc.kind = "db" /\ acc.dt = dt /\ acc.range = r /\ acc.offset = o
        /\ acc.number = LowBits(n, 32)
    BY ConstructorFields DEF Fields
  <1>2. PrintedPart(acc) = text /\ of = r
    BY <1>1 DEF PrintedPart, PrintedDb
  <1>3. /\ text.form = "DB" /\ text.of = r /\ text.number = LowBits(n, 32)
        /\ bitwise => text.place = o
        /\ ~bitwise => text.place = o \ (0..2)
    <2> HIDE DEF acc
    <2>1. bitwise \in BOOLEAN
      OBVIOUS
    <2> HIDE DEF bitwise, of
    <2> QED BY <1>1, <1>2, <2>1, PlaceFields
  <1>4. text.place = o
    <2>1. ~bitwise => o \cap (0..2) = {}
      BY <1>1 DEF BitPart
    <2> HIDE DEF text, bitwise
    <2> QED BY <1>3, <2>1
  <1> HIDE DEF text, acc, bitwise, of
  <1>5. read \in ParsedDb(text)
    <2>1. read \in ParsedPart(text)
      BY <1>2 DEF acc
    <2> QED BY <1>3, <2>1 DEF ParsedPart
  <1>6. PICK t : read = DbAccess(t, LowBits(n, 32), r, o)
    BY <1>3, <1>4, <1>5 DEF ParsedDb
  <1>7. LowBits(LowBits(n, 32), 32) = LowBits(n, 32)
    BY DEF LowBits
  <1>8. DbAccess(t, LowBits(n, 32), r, o) = DbAccess(t, n, r, o)
    BY <1>7, Zenon DEF DbAccess
  <1> QED BY <1>6, <1>8

\* A number that prints and reads back has no sign to extend.
LEMMA WidenedShort ==
  ASSUME NEW n, Widened(n) \subseteq 0..31
  PROVE  Widened(n) = n
  <1>1. 31 \notin n
    <2> SUFFICES ASSUME 31 \in n PROVE FALSE
      OBVIOUS
    <2>1. 32 \in Widened(n)
      BY DEF Widened, IntIsNegative, SignExtend, Bits64
    <2> QED BY <2>1
  <1> QED BY <1>1, WidenedIs

\* A slot as text reads back, but for its type.
LEMMA ShownSlot ==
  ASSUME NEW dt, NEW s, NEW n, NEW r,
         NEW read \in ParsedPart(PrintedPart(Slot(dt, s, n, r)))
  PROVE  \E t : read = Slot(t, s, n, r)
  <1> DEFINE acc  == Slot(dt, s, n, r)
             text == [Text("@S") EXCEPT !.of = acc.scope, !.width = acc.range,
                                        !.number = Widened(acc.number)]
  <1>1. acc.kind = "slot" /\ acc.scope = s /\ acc.number = n /\ acc.range = r
    BY ConstructorFields DEF Fields
  <1>2. PrintedPart(acc) = text
    BY <1>1 DEF PrintedPart
  <1>3. text.form = "@S" /\ text.of = s /\ text.width = r /\ text.number = Widened(n)
    BY <1>1, TextFields
  <1> HIDE DEF acc, text
  <1>4. read \in ParsedSlot(text)
    <2>1. read \in ParsedPart(text)
      BY <1>2 DEF acc
    <2> QED BY <1>3, <2>1 DEF ParsedPart
  <1>5. PICK t : read = Slot(t, s, Widened(n), r) /\ Widened(n) \subseteq 0..31
    BY <1>3, <1>4 DEF ParsedSlot
  <1> QED BY <1>5, WidenedShort

\* A pointer as text reads back.
LEMMA ShownPointer ==
  ASSUME NEW s, s # Scope.NativeSystem, NEW n,
         NEW read \in ParsedPart(PrintedPart(Pointer(s, n)))
  PROVE  read = Pointer(s, n)
  <1> DEFINE acc  == Pointer(s, n)
             text == [Text("@P") EXCEPT !.of = acc.scope, !.number = Widened(acc.number)]
  <1>1. acc.kind = "ptr" /\ acc.scope = s /\ acc.number = n
    BY ConstructorFields DEF Fields
  <1>2. PrintedPart(acc) = text
    BY <1>1 DEF PrintedPart
  <1>3. text.form = "@P" /\ text.of = s /\ text.number = Widened(n)
    BY <1>1, TextFields
  <1> HIDE DEF acc, text
  <1>4. read \in ParsedPointer(text)
    <2>1. read \in ParsedPart(text)
      BY <1>2 DEF acc
    <2> QED BY <1>3, <2>1 DEF ParsedPart
  <1>5. read = Pointer(s, Widened(n)) /\ Widened(n) \subseteq 0..31
    BY <1>3, <1>4 DEF ParsedPointer
  <1> QED BY <1>5, WidenedShort

\* System areas, types and conditions read back as they are.
LEMMA ShownOthers ==
  /\ \A a : ParsedPart(PrintedPart(AreaPointer(a))) = {AreaPointer(a)}
  /\ \A t : ParsedPart(PrintedPart(AccType(t))) = {AccType(t)}
  /\ \A v : ParsedPart(PrintedPart(AccCond(v))) = {AccCond(v)}
  <1>1. ASSUME NEW a PROVE ParsedPart(PrintedPart(AreaPointer(a))) = {AreaPointer(a)}
    <2> DEFINE acc  == AreaPointer(a)
               text == [Text("@PSYS") EXCEPT !.of = acc.area]
    <2>1. acc.kind = "ptr" /\ acc.scope = Scope.NativeSystem /\ acc.area = a
      BY ConstructorFields DEF Fields
    <2>2. PrintedPart(acc) = text
      BY <2>1 DEF PrintedPart
    <2>3. text.form = "@PSYS" /\ text.of = a
      BY <2>1, TextFields
    <2> HIDE DEF acc, text
    <2>4. ParsedPart(text) = {AreaPointer(a)}
      BY <2>3 DEF ParsedPart
    <2> QED BY <2>2, <2>4 DEF acc
  <1>2. ASSUME NEW t PROVE ParsedPart(PrintedPart(AccType(t))) = {AccType(t)}
    <2> DEFINE acc  == AccType(t)
               text == [Text(":") EXCEPT !.of = acc.dt]
    <2>1. acc.kind = "type" /\ acc.dt = t
      BY DEF AccType, AccNew
    <2>2. PrintedPart(acc) = text
      BY <2>1 DEF PrintedPart
    <2>3. text.form = ":" /\ text.of = t
      BY <2>1, TextFields
    <2> HIDE DEF acc, text
    <2>4. ParsedPart(text) = {AccType(t)}
      BY <2>3 DEF ParsedPart
    <2> QED BY <2>2, <2>4 DEF acc
  <1>3. ASSUME NEW v PROVE ParsedPart(PrintedPart(AccCond(v))) = {AccCond(v)}
    <2> DEFINE acc  == AccCond(v)
               text == [Text("=") EXCEPT !.number = acc.value]
    <2>1. acc.kind = "cond" /\ acc.value = v
      BY DEF AccCond, AccNew
    <2>2. PrintedPart(acc) = text
      BY <2>1 DEF PrintedPart
    <2>3. text.form = "=" /\ text.number = v
      BY <2>1, TextFields
    <2> HIDE DEF acc, text
    <2>4. ParsedPart(text) = {AccCond(v)}
      BY <2>3 DEF ParsedPart, AccCond
    <2> QED BY <2>2, <2>4 DEF acc
  <1> QED BY <1>1, <1>2, <1>3

\* A number as it is shown and read: a Bool by its value, the others without a type.
ShownNumber(dt, v, read) ==
    \/ dt = OT.Bool /\ read = Immediate(OT.Bool, IF v = {} THEN {} ELSE {0}) /\ v \in {{}, {0}}
    \/ dt = OT.Bool /\ v \notin {{}, {0}}
    \/ dt = OT.UDInt /\ read = Immediate(OT.Undef, LowBits(v, 32))
    \/ dt \notin {OT.Bool, OT.UDInt} /\ read = Immediate(OT.Undef, v)

\* A number as text reads back.
LEMMA ShownImmediate ==
  ASSUME NEW dt, NEW v,
         NEW read \in ParsedPart(PrintedPart(Immediate(dt, v)))
  PROVE  ShownNumber(dt, v, read)
  <1> DEFINE acc == Immediate(dt, v)
  <1>1. acc.kind = "imm" /\ acc.dt = dt /\ acc.value = v /\ acc.real = FALSE
    BY ConstructorFields DEF Fields
  <1>2. PrintedPart(acc) = PrintedImmediate(acc)
    BY <1>1 DEF PrintedPart
  <1> HIDE DEF acc
  <1>3. OT.Bool # OT.UDInt /\ OT.Bool \notin PrefixedTypes \cup {OT.String, OT.WString}
    BY DEF OT, PrefixedTypes
  <1>4. CASE dt \in PrefixedTypes \cup {OT.String, OT.WString}
    <2>1. PrintedImmediate(acc) = Text("other")
      BY <1>1, <1>3, <1>4 DEF PrintedImmediate
    <2>2. ParsedPart(Text("other")) = {}
      BY TextFields DEF ParsedPart
    <2> QED BY <1>2, <2>1, <2>2 DEF acc
  <1>5. CASE dt = OT.Bool
    <2> DEFINE b    == IF v \in {BitsOf(1), BitsOf(2)} THEN 1 ELSE 0
               text == [Text("bool") EXCEPT !.of = b]
    <2>1. PrintedImmediate(acc) = text
      BY <1>1, <1>3, <1>5 DEF PrintedImmediate
    <2>2. text.form = "bool" /\ text.of = b
      BY TextFields
    <2> HIDE DEF text
    <2>3. read = Immediate(OT.Bool, BitsOf(b))
      <3>1. read \in ParsedPart(text)
        BY <1>2, <2>1 DEF acc
      <3>2. ParsedPart(text) \subseteq {Immediate(OT.Bool, BitsOf(b))}
        <4> HIDE DEF b
        <4> QED BY <2>2 DEF ParsedPart
      <3> QED BY <3>1, <3>2
    <2>4. v = {} => b = 0
      <3>1. BitsOf(1) # {} /\ BitsOf(2) # {}
        <4>1. 1 \in BitsOf(2)
          BY Powers DEF BitsOf
        <4> QED BY <4>1, SmallBits
      <3> QED BY <3>1
    <2>5. v = {0} => b = 1
      BY SmallBits
    <2> HIDE DEF b
    <2>6. CASE v = {}
      BY <1>5, <2>3, <2>4, <2>6, SmallBits DEF ShownNumber
    <2>7. CASE v = {0}
      BY <1>5, <2>3, <2>5, <2>7, SmallBits DEF ShownNumber
    <2>8. CASE v \notin {{}, {0}}
      BY <1>5, <2>8 DEF ShownNumber
    <2> QED BY <2>6, <2>7, <2>8
  <1>6. CASE dt \notin PrefixedTypes \cup {OT.String, OT.WString} /\ dt # OT.Bool
    <2> DEFINE n    == IF dt = OT.UDInt THEN LowBits(v, 32) ELSE v
               text == [Text("int") EXCEPT !.number = n]
    <2>1. PrintedImmediate(acc) = text
      BY <1>1, <1>6 DEF PrintedImmediate
    <2>2. text.form = "int" /\ text.number = n
      BY TextFields
    <2> HIDE DEF text
    <2>3. read = Immediate(OT.Undef, n)
      <3>1. read \in ParsedPart(text)
        BY <1>2, <2>1 DEF acc
      <3>2. ParsedPart(text) = {Immediate(OT.Undef, n)}
        <4> HIDE DEF n
        <4> QED BY <2>2 DEF ParsedPart
      <3> QED BY <3>1, <3>2
    <2> QED BY <1>6, <2>3 DEF ShownNumber
  <1> QED BY <1>4, <1>5, <1>6

\* ShownAs for every operand that is not indirect.
LEMMA ShownPart ==
  ASSUME NEW d, DecodedPart(d), NEW read \in ParsedPart(PrintedPart(d))
  PROVE  ShownAs(d, read)
  <1> DEFINE w == ShownBits(d)
  <1>1. CASE DecodedMemory(d)
    <2>1. PICK dt, a, o : d = Memory(dt, a, o) /\ (dt = OT.Bool \/ BitPart(o) = {})
      BY <1>1 DEF DecodedMemory
    <2>2. PICK t : read = Memory(t, a, o)
      BY <2>1, ShownMemory
    <2>3. Denotes(Memory(dt, a, o), w) = Memory(0, a, o)
          /\ Denotes(Memory(t, a, o), w) = Memory(0, a, o)
      <3> HIDE DEF w
      <3> QED BY DenotesForms
    <2> QED BY <2>1, <2>2, <2>3 DEF ShownAs
  <1>2. CASE DecodedDb(d)
    <2>1. PICK dt, n, r, o : d = DbAccess(dt, n, r, o)
      BY <1>2 DEF DecodedDb
    <2>2. d.kind = "db" /\ d.range = r
      BY <2>1, ConstructorFields DEF Fields
    <2>3. CASE r \in NamedRanges
      <3>1. PICK t : read = DbAccess(t, n, r, o)
        BY <2>1, <2>3, ShownDb
      <3>2. Denotes(DbAccess(dt, n, r, o), w) = DbAccess(0, n, r, o)
            /\ Denotes(DbAccess(t, n, r, o), w) = DbAccess(0, n, r, o)
        <4> HIDE DEF w
        <4> QED BY DenotesForms
      <3> QED BY <2>1, <3>1, <3>2 DEF ShownAs
    <2> QED BY <2>2, <2>3 DEF ShownAs
  <1>3. CASE DecodedSlot(d)
    <2>1. PICK dt, s, n, r : d = Slot(dt, s, n, r)
      BY <1>3 DEF DecodedSlot
    <2>2. PICK t : read = Slot(t, s, n, r)
      BY <2>1, ShownSlot
    <2>3. Denotes(Slot(dt, s, n, r), w) = Denotes(Slot(t, s, n, r), w)
      <3> HIDE DEF w
      <3>1. CASE r # 1
        <4>1. Denotes(Slot(dt, s, n, r), w) = Slot(0, s, n, r)
          BY <3>1, DenotesForms
        <4>2. Denotes(Slot(t, s, n, r), w) = Slot(0, s, n, r)
          BY <3>1, DenotesForms
        <4> QED BY <4>1, <4>2
      <3>2. CASE r = 1
        <4>1. Denotes(Slot(dt, s, n, 1), w) = Denotes(Pointer(s, n), w)
          BY DenotesForms
        <4>2. Denotes(Slot(t, s, n, 1), w) = Denotes(Pointer(s, n), w)
          BY DenotesForms
        <4> QED BY <3>2, <4>1, <4>2
      <3> QED BY <3>1, <3>2
    <2> QED BY <2>1, <2>2, <2>3 DEF ShownAs
  <1>4. CASE DecodedNumber(d)
    <2>1. PICK dt : \E v \in Word : d = Immediate(dt, v) \/ d = RealNumber(dt, v)
      BY <1>4 DEF DecodedNumber
    <2>2. PICK v \in Word : d = Immediate(dt, v) \/ d = RealNumber(dt, v)
      BY <2>1
    <2>3. CASE d = RealNumber(dt, v)
      <3>1. d.kind = "imm" /\ d.real = TRUE
        BY <2>3, ConstructorFields DEF RealNumber, Fields
      <3>2. PrintedPart(d) = Text("other")
        BY <3>1 DEF PrintedPart, PrintedImmediate
      <3>3. ParsedPart(Text("other")) = {}
        BY TextFields DEF ParsedPart
      <3> QED BY <3>2, <3>3
    <2>4. CASE d = Immediate(dt, v)
      <3>1. ShownNumber(dt, v, read)
        BY <2>4, ShownImmediate
      <3>2. d.kind = "imm" /\ d.dt = dt /\ d.value = v
        BY <2>4, ConstructorFields DEF Fields
      <3>3. \A t, x : Denotes(Immediate(t, x), w) = Immediate(0, LowBits(x, w))
        <4> HIDE DEF w
        <4> QED BY DenotesForms
      <3>4. CASE dt = OT.Bool /\ v \in {{}, {0}} /\ read = Immediate(OT.Bool, IF v = {} THEN {} ELSE {0})
        <4>1. read = d
          BY <2>4, <3>4
        <4> QED BY <4>1 DEF ShownAs
      <3>5. CASE dt = OT.Bool /\ v \notin {{}, {0}}
        BY <3>2, <3>5 DEF ShownAs
      <3>6. CASE dt = OT.UDInt /\ read = Immediate(OT.Undef, LowBits(v, 32))
        <4>1. w = 32
          BY <3>2, <3>6 DEF ShownBits
        <4>2. LowBits(LowBits(v, 32), 32) = LowBits(v, 32)
          BY DEF LowBits
        <4>3. Denotes(read, 32) = Immediate(0, LowBits(v, 32))
          BY <3>3, <3>6, <4>1, <4>2
        <4>4. Denotes(d, 32) = Immediate(0, LowBits(v, 32))
          BY <2>4, <3>3, <4>1
        <4> QED BY <4>1, <4>3, <4>4 DEF ShownAs
      <3>7. CASE read = Immediate(OT.Undef, v)
        BY <2>4, <3>3, <3>7 DEF ShownAs
      <3> QED BY <3>1, <3>4, <3>5, <3>6, <3>7 DEF ShownNumber
    <2> QED BY <2>2, <2>3, <2>4
  <1>5. CASE DecodedBase(d)
    BY <1>5, ShownPointer DEF DecodedBase, ShownAs
  <1>6. CASE \E a : d = AreaPointer(a)
    BY <1>6, ShownOthers DEF ShownAs
  <1>7. CASE \E t : d = AccType(t)
    BY <1>7, ShownOthers DEF ShownAs
  <1>8. CASE \E v : d = AccCond(v)
    BY <1>8, ShownOthers DEF ShownAs
  <1> QED BY <1>1, <1>2, <1>3, <1>4, <1>5, <1>6, <1>7, <1>8 DEF DecodedPart

\* An indirect operand as text reads back with the same base and place.
LEMMA ShownIndirect ==
  ASSUME NEW dt, NEW b, NEW o, DecodedBase(b), DecodedOffset(o), NEW w,
         NEW read \in Parsed(Printed(Indirect(dt, b, o)))
  PROVE  /\ Denotes(read, w) = Denotes(Indirect(dt, b, o), w)
         /\ \E off : read = Indirect(OT.Void, b, off) /\ OffsetPlace(off) = OffsetPlace(o)
                     /\ off.kind = o.kind
  <1> DEFINE acc  == Indirect(dt, b, o)
             text == [Text("[") EXCEPT !.sub = <<PrintedPart(acc.sub[1]), PrintedPart(acc.sub[2])>>]
  <1>1. acc.kind = "indirect" /\ acc.sub = <<b, o>>
    BY ConstructorFields DEF Fields
  <1>2. Printed(acc) = text
    BY <1>1 DEF Printed
  <1>3. text.form = "[" /\ text.sub = <<PrintedPart(b), PrintedPart(o)>>
    BY <1>1 DEF Text
  <1> HIDE DEF acc, text
  <1>4. read \in ParsedIndirect(text)
    <2>1. read \in Parsed(text)
      BY <1>2 DEF acc
    <2> QED BY <1>3, <2>1 DEF Parsed
  <1>5. PICK base \in ParsedPart(PrintedPart(b)), off \in ParsedPart(PrintedPart(o)) :
            read = Indirect(OT.Void, base, off)
    BY <1>3, <1>4 DEF ParsedIndirect
  <1>6. base = b
    BY <1>5, ShownPointer DEF DecodedBase
  <1>7. OffsetPlace(off) = OffsetPlace(o) /\ off.kind = o.kind
    <2>1. CASE DecodedSlot(o)
      <3>1. PICK t, s, n, r : o = Slot(t, s, n, r)
        BY <2>1 DEF DecodedSlot
      <3>2. PICK u : off = Slot(u, s, n, r)
        BY <1>5, <3>1, ShownSlot
      <3>3. OffsetPlace(Slot(t, s, n, r)) = OffsetPlace(Slot(OT.DWord, s, n, SlotRange.Slot32))
        BY OffsetPlaces
      <3>4. OffsetPlace(Slot(u, s, n, r)) = OffsetPlace(Slot(OT.DWord, s, n, SlotRange.Slot32))
        BY OffsetPlaces
      <3>5. off.kind = "slot" /\ o.kind = "slot"
        BY <3>1, <3>2, ConstructorFields DEF Fields
      <3> QED BY <3>1, <3>2, <3>3, <3>4, <3>5
    <2>2. CASE \E v \in Word : o = Immediate(OT.DInt, v)
      <3>1. PICK v \in Word : o = Immediate(OT.DInt, v)
        BY <2>2
      <3>2. ShownNumber(OT.DInt, v, off)
        BY <1>5, <3>1, ShownImmediate
      <3>3. off = Immediate(OT.Undef, v)
        BY <3>2 DEF ShownNumber, OT
      <3>4. OffsetPlace(Immediate(OT.Undef, v)) = OffsetPlace(Immediate(OT.DInt, v))
        BY OffsetPlaces
      <3>5. off.kind = "imm" /\ o.kind = "imm"
        BY <3>1, <3>3, ConstructorFields DEF Fields
      <3> QED BY <3>1, <3>3, <3>4, <3>5
    <2> QED BY <2>1, <2>2 DEF DecodedOffset
  <1>8. Denotes(Indirect(dt, b, o), w) = Indirect(0, BasePlace(b), OffsetPlace(o))
        /\ Denotes(Indirect(OT.Void, b, off), w) = Indirect(0, BasePlace(b), OffsetPlace(off))
    BY DenotesForms
  <1> QED BY <1>5, <1>6, <1>7, <1>8

Decoded(d) == DecodedPart(d) \/ DecodedIndirect(d)

\* An offset in octets has no bit part.
LEMMA NoBits ==
  \A bit, octets : ~bit => BitPart(BitOffset(bit, octets)) = {}
  <1> TAKE bit, octets
  <1> SUFFICES ASSUME ~bit, NEW x \in BitPart(BitOffset(bit, octets)) PROVE FALSE
    OBVIOUS
  <1>1. x \in 0..2 /\ x \in ShiftLeft(BigEndian(octets), 3)
    BY DEF BitPart, BitOffset
  <1>2. PICK b \in BigEndian(octets) : x = b + 3
    BY <1>1 DEF ShiftLeft
  <1>3. b \in 0..63
    BY WordOperations DEF Word, Bits64
  <1> QED BY <1>1, <1>2, <1>3

\* What the immediates decode to.
LEMMA ImmediateDecoded ==
  ASSUME NEW code, NEW pos, NEW predef, NEW r \in DecodeImmediate(code, pos, predef)
  PROVE  DecodedNumber(r.acc)
  <1> USE WordOperations
  <1>1. CASE r \in TinyImmediate(code, pos, predef)
    <2>1. \E dt : \E v \in Word : r.acc = Immediate(dt, v)
      BY <1>1 DEF TinyImmediate, Got
    <2> QED BY <2>1 DEF DecodedNumber
  <1>2. CASE r \in AnyImmediate(code, pos)
    <2>1. r.acc = Immediate(OT.Any, {})
      BY <1>2 DEF AnyImmediate, Got
    <2> QED BY <2>1 DEF DecodedNumber
  <1>3. CASE r \in RealImmediate(code, pos, predef)
    <2>1. \E dt : \E w, k : r.acc = RealNumber(dt, ShiftLeft(w, k))
      BY <1>3 DEF RealImmediate, Got
    <2> QED BY <2>1 DEF DecodedNumber
  <1>4. CASE r \in IntImmediate(code, pos, predef)
    <2>1. \E w \in Word : r.acc = Immediate(predef, w)
      BY <1>4 DEF IntImmediate, Got
    <2> QED BY <2>1 DEF DecodedNumber
  <1> QED BY <1>1, <1>2, <1>3, <1>4 DEF DecodeImmediate

\* Without constants a long reference has no text.
LEMMA LongRefDecoded ==
  ASSUME NEW code, NEW pos, NEW dt,
         NEW r \in DecodeImmediateLongRef(code, pos, ReaderConstants, dt)
  PROVE  DecodedNumber(r.acc)
  <1>1. PICK off : r.acc = TextConstant(dt, LongText(<<>>, off, dt))
    BY DEF DecodeImmediateLongRef, Got, ReaderConstants
  <1>2. BlobFrom(<<>>, off) = <<>>
    <2>1. IntValue(off) \in Nat
      BY IntValueIsNat
    <2>2. IntValue(off) >= Len(<<>>)
      BY <2>1
    <2> QED BY <2>2 DEF BlobFrom
  <1>3. LongText(<<>>, off, dt) = <<>>
    BY <1>2 DEF LongText
  <1>4. TextConstant(dt, <<>>) = Immediate(dt, {})
    <2>1. TextConstant(dt, <<>>) = [Fields("imm", dt, {}, 0, {}, {}, 0, 0, <<>>) EXCEPT !.text = <<>>]
      <3>1. AccNew("imm", dt) = Fields("imm", dt, {}, 0, {}, {}, 0, 0, <<>>)
        BY DEF AccNew, Fields
      <3> QED BY <3>1, Zenon DEF TextConstant
    <2> QED BY <2>1, ConstructorFields DEF Fields
  <1>5. {} \in Word
    BY WordOperations
  <1> QED BY <1>1, <1>3, <1>4, <1>5 DEF DecodedNumber

\* What the addresses decode to: a bit part needs a Bool.
LEMMA MemoryDecoded ==
  ASSUME NEW code, NEW pos, NEW dts, NEW r \in DecodeMemory(code, pos, dts)
  PROVE  DecodedMemory(r.acc)
  <1>0. \A bit, octets : /\ BitOffset(bit, octets) \in Word
                         /\ bit => BitOr(bit, dts) = OT.Bool
    BY WordOperations DEF BitOffset, BitOr
  <1>1. CASE r \in AddressMemory(code, pos, dts)
    <2>1. \E bit \in BOOLEAN : \E area, octets :
              r.acc = Memory(BitOr(bit, dts), area, BitOffset(bit, octets))
      <3> DEFINE bit  == code[pos + 1] % 8 < 4
                 plen == (code[pos + 1] % 4) + 1
      <3>1. \E area : r.acc = Memory(BitOr(bit, dts), area, BitOffset(bit, Bytes(code, pos + 2, plen)))
        BY <1>1 DEF AddressMemory, Got
      <3>2. bit \in BOOLEAN
        OBVIOUS
      <3> HIDE DEF bit, plen
      <3> QED BY <3>1, <3>2
    <2>2. PICK bit, area, octets :
              bit \in BOOLEAN /\ r.acc = Memory(BitOr(bit, dts), area, BitOffset(bit, octets))
      BY <2>1
    <2>3. BitOr(bit, dts) = OT.Bool \/ BitPart(BitOffset(bit, octets)) = {}
      BY <1>0, NoBits
    <2> QED BY <1>0, <2>2, <2>3 DEF DecodedMemory
  <1>2. CASE r \in DirectMemory(code, pos, dts)
    <2>1. \E bit \in BOOLEAN : \E dt, area, octets :
              /\ r.acc = Memory(dt, area, BitOffset(bit, octets))
              /\ bit => dt = BitOr(bit, dts)
      <3> DEFINE bit  == code[pos + 1] < 128
                 plen == (code[pos + 1] % 4) + 1
                 dt   == IF ~bit /\ BitOr(bit, dts) = OT.Bool THEN OT.Void ELSE BitOr(bit, dts)
      <3>1. \E area : r.acc = Memory(dt, area, BitOffset(bit, Bytes(code, pos + 1, plen)))
        BY <1>2 DEF DirectMemory, Got
      <3>2. bit \in BOOLEAN /\ (bit => dt = BitOr(bit, dts))
        OBVIOUS
      <3> HIDE DEF bit, plen, dt
      <3> QED BY <3>1, <3>2
    <2>2. PICK bit, dt, area, octets :
              /\ bit \in BOOLEAN /\ r.acc = Memory(dt, area, BitOffset(bit, octets))
              /\ bit => dt = BitOr(bit, dts)
      BY <2>1
    <2>3. dt = OT.Bool \/ BitPart(BitOffset(bit, octets)) = {}
      BY <1>0, <2>2, NoBits
    <2> QED BY <1>0, <2>2, <2>3 DEF DecodedMemory
  <1> QED BY <1>1, <1>2 DEF DecodeMemory

\* No scope that is decoded is the system's.
LEMMA ScopesDecoded ==
  /\ \A c \in 0..3 : ScopeFromCode(c) # Scope.NativeSystem
  /\ Scope.NativeBlock # Scope.NativeSystem /\ Scope.NativeLocal # Scope.NativeSystem
  BY DEF ScopeFromCode, Scope

\* What slots and pointers decode to.
LEMMA NativeDecoded ==
  ASSUME NEW code, NEW pos, AtHeader(code, pos), NEW r \in DecodeNative(code, pos)
  PROVE  DecodedPart(r.acc)
  <1> DEFINE hdr == code[pos + 1]
  <1>1. hdr \in 0..255 /\ Len(code) \in Nat /\ pos \in Nat
    BY HeaderIsByte
  <1>2. CASE r \in SystemPointer(code, pos)
    BY <1>2 DEF SystemPointer, DecodedPart
  <1>3. CASE r \in SlotOrPointer(code, pos)
    <2> DEFINE loc    == (hdr \div 4) % 8
               plen   == (hdr % 4) + 1
               octets  == Bytes(code, pos + 1, plen)
               scope  == ScopeFromCode(octets[plen] % 4)
               number == ShiftRight(BigEndian(octets), 2)
               dt     == <<OT.Bool, OT.Byte, OT.Word, OT.DWord, OT.LWord, OT.Real>>
    <2>1. /\ CanTake(code, pos + 1, plen)
          /\ \/ r.acc = Slot(dt[loc + 1], scope, number, SlotRange.SlotBit + loc)
             \/ r.acc = Pointer(scope, number)
      BY <1>3 DEF SlotOrPointer, Got
    <2>2. scope # Scope.NativeSystem
      <3>0. plen \in 1..4
        BY <1>1, LengthFields
      <3>1. plen \in Nat /\ plen >= 1
        BY <3>0
      <3>2. octets[plen] \in 0..255
        <4> HIDE DEF plen
        <4> QED BY <1>1, <2>1, <3>1, LastByte DEF AtHeader
      <3>3. octets[plen] % 4 \in 0..3
        BY <3>2, LengthFields
      <3> QED BY <3>3, ScopesDecoded
    <2> HIDE DEF scope, number, dt, loc
    <2> QED BY <2>1, <2>2 DEF DecodedPart, DecodedSlot, DecodedBase
  <1> QED BY <1>2, <1>3 DEF DecodeNative

\* What the places in a data block decode to.
LEMMA DbDecoded ==
  ASSUME NEW code, NEW pos, NEW dts, NEW r \in DecodeDb(code, pos, dts)
  PROVE  DecodedDb(r.acc)
  <1>1. CASE r \in DbNoOffset(code, pos, dts)
    BY <1>1 DEF DbNoOffset, DecodedDb
  <1>2. CASE r \in DbDirect(code, pos, dts)
    BY <1>2 DEF DbDirect, DecodedDb
  <1>3. CASE r \in DbExtended(code, pos, dts)
    BY <1>3 DEF DbExtended, DecodedDb, Got
  <1> QED BY <1>1, <1>2, <1>3 DEF DecodeDb

\* What the indirect operands decode to.
LEMMA IndirectDecoded ==
  ASSUME NEW code, NEW pos, NEW dts, NEW r \in DecodeIndirect(code, pos, dts)
  PROVE  DecodedIndirect(r.acc)
  <1> DEFINE hdr    == code[pos + 1]
             kind   == hdr - (hdr % 8)
             plen   == ((hdr \div 4) % 2) + 1
             olen   == IF kind = 232 THEN 0 ELSE (hdr % 4) + 1
             octets  == Bytes(code, pos + 1, plen)
             access == octets[plen] % 8
             scope  == IF access % 2 = 1 THEN Scope.NativeBlock ELSE Scope.NativeLocal
             base   == Pointer(scope, ShiftRight(BigEndian(octets), 3))
             obytes == Bytes(code, pos + 1 + plen, olen)
             slot   == Slot(OT.DWord, ScopeFromCode(obytes[olen] % 4),
                            ShiftRight(BigEndian(obytes), 2), SlotRange.Slot32)
             offset == IF kind = 224 THEN slot
                       ELSE Immediate(OT.DInt, BitOffset(kind = 240, obytes))
  <1>1. r.acc = Indirect(BitOr(kind = 240, dts), base, offset)
    BY DEF DecodeIndirect, Got
  <1>2. DecodedBase(base)
    BY ScopesDecoded DEF DecodedBase
  <1>3. DecodedOffset(offset)
    <2>1. DecodedSlot(slot)
      BY DEF DecodedSlot
    <2>2. \A bit, b : BitOffset(bit, b) \in Word
      BY WordOperations DEF BitOffset
    <2> HIDE DEF slot, kind, obytes
    <2>3. BitOffset(kind = 240, obytes) \in Word
      BY <2>2, Zenon
    <2> QED BY <2>1, <2>3 DEF DecodedOffset
  <1> HIDE DEF base, offset, kind
  <1> QED BY <1>1, <1>2, <1>3 DEF DecodedIndirect

\* What an ident parameter decodes to.
LEMMA IdentDecoded ==
  ASSUME NEW code \in Seq(Byte), NEW pos \in 0..Len(code), NEW mode, NEW predef, NEW dts,
         NEW r \in DecodeIdent(code, pos, ReaderConstants, mode, predef, dts)
  PROVE  Decoded(r.acc)
  <1>1. CASE pos = Len(code)
    <2>1. Peek(code, pos) = -1
      BY <1>1 DEF Peek
    <2> QED BY <2>1 DEF DecodeIdent, IsImmediateHeader
  <1>2. CASE pos < Len(code)
    <2>1. AtHeader(code, pos)
      BY <1>2 DEF AtHeader
    <2>2. \/ r \in DecodeImmediate(code, pos, predef)
          \/ r \in DecodeImmediateLongRef(code, pos, ReaderConstants, TypeOr(dts, OT.Void))
          \/ r \in DecodeNative(code, pos)
          \/ r \in DecodeMemory(code, pos, dts)
          \/ r \in DecodeDb(code, pos, dts)
          \/ r \in DecodeIndirect(code, pos, dts)
      BY DEF DecodeIdent
    <2> QED BY <2>1, <2>2, ImmediateDecoded, LongRefDecoded, NativeDecoded, MemoryDecoded,
               DbDecoded, IndirectDecoded DEF Decoded, DecodedPart
  <1> QED BY <1>1, <1>2

\* What any parameter decodes to.
LEMMA ParamDecoded ==
  ASSUME NEW code \in Seq(Byte), NEW pos, NEW p \in Param, p.kind # "flag",
         NEW rpos \in 0..Len(code), NEW pending,
         NEW got \in ParamOperand(code, pos, p, rpos, pending)
  PROVE  Decoded(got.acc)
  <1>1. CASE p.kind \in {"coding", "type"}
    <2>1. \E t : got.acc = TypeAccess(t)
      BY <1>1 DEF ParamOperand
    <2> QED BY <2>1 DEF Decoded, DecodedPart, TypeAccess, AccType
  <1>2. CASE p.kind = "cond"
    <2>1. \E c : got.acc = CondAccess(c)
      BY <1>2 DEF ParamOperand
    <2> QED BY <2>1 DEF Decoded, DecodedPart, CondAccess, AccCond
  <1>3. CASE p.kind = "ident"
    <2> DEFINE dts == IF p.ref THEN pending ELSE {p.predef}
    <2>1. got \in DecodeIdent(code, rpos, ReaderConstants, p.mode, p.predef, dts)
      BY <1>3 DEF ParamOperand
    <2> HIDE DEF dts
    <2> QED BY <2>1, IdentDecoded
  <1> QED BY <1>1, <1>2, <1>3 DEF Param
=============================================================================
