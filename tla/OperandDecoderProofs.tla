------------------------ MODULE OperandDecoderProofs ------------------------
(***************************************************************************)
(* What every operand decoder of mc7plus.c does to the reader: a decoded   *)
(* operand took at least one byte and nothing past the end of the blob.    *)
(* It is an access with every field in its C range, and there is at most   *)
(* one: the decoders are functions of the blob and the position.           *)
(***************************************************************************)
EXTENDS OperandDecoder, TLAPS

\* A blob and a position in it, as each lemma assumes them.
AtHeader(code, pos) == code \in Seq(Byte) /\ pos \in 0..(Len(code) - 1)

\* A byte of the blob at a position inside it, in terms of its divisions.
LEMMA ByteOfSeq ==
  ASSUME NEW code \in Seq(Byte), NEW i \in 1..Len(code)
  PROVE  code[i] \in 0..255 /\ code[i] \in Int
  <1>1. code[i] \in Byte
    OBVIOUS
  <1>2. \A b \in Byte : b \in 0..255 /\ b \in Int
    BY DEF Byte
  <1> QED BY <1>1, <1>2, Zenon

\* An operand that Got returns met its guard and has the end it was given.
LEMMA GotGuarded ==
  ASSUME NEW guard \in BOOLEAN, NEW end, NEW acc, NEW r \in Got(guard, end, acc)
  PROVE  guard /\ r.end = end
  BY DEF Got

\* The lengths that the length fields of a header stand for.
LEMMA LengthFields ==
  ASSUME NEW n \in 0..255
  PROVE  /\ n % 4 \in 0..3 /\ (n % 4) + 1 \in 1..4
         /\ n % 8 \in 0..7 /\ (n % 8) + 1 \in 1..8
         /\ ((n \div 4) % 2) + 1 \in 1..2 /\ ((n \div 4) % 4) + 1 \in 1..4
         /\ (n \div 4) % 8 \in 0..7
  <1>1. n \div 4 \in 0..63
    OBVIOUS
  <1>2. \A m \in 0..255 : m % 2 \in 0..1 /\ m % 4 \in 0..3 /\ m % 8 \in 0..7
    OBVIOUS
  <1>3. /\ n % 4 \in 0..3 /\ n % 8 \in 0..7
        /\ (n \div 4) % 2 \in 0..1 /\ (n \div 4) % 4 \in 0..3
        /\ (n \div 4) % 8 \in 0..7
    BY <1>1, <1>2
  <1> QED BY <1>3

\* rd_peek inside the blob returns the byte there.
LEMMA HeaderIsByte ==
  ASSUME NEW code, NEW pos, AtHeader(code, pos)
  PROVE  /\ code[pos + 1] \in 0..255
         /\ Len(code) \in Nat /\ pos \in Nat /\ pos < Len(code)
  <1>1. code \in Seq(Byte) /\ pos \in 0..(Len(code) - 1)
    BY DEF AtHeader
  <1>2. Len(code) \in Nat
    BY <1>1
  <1>3. pos + 1 \in 1..Len(code)
    BY <1>1, <1>2
  <1> QED BY <1>1, <1>2, <1>3, ByteOfSeq

\* decode_immediate takes its header and the payload it found room for.
LEMMA ImmediateAdvances ==
  ASSUME NEW code, NEW pos, NEW predef, AtHeader(code, pos),
         NEW r \in DecodeImmediate(code, pos, predef)
  PROVE  r.end \in (pos + 1)..Len(code)
  <1> DEFINE hdr == code[pos + 1]
  <1>1. hdr \in 0..255 /\ Len(code) \in Nat /\ pos \in Nat /\ pos < Len(code)
    BY HeaderIsByte
  <1>2. hdr % 8 \in 0..7
    BY <1>1, LengthFields
  <1>3. CASE r \in TinyImmediate(code, pos, predef)
    <2>1. r.end = pos + 1
      BY <1>3, GotGuarded DEF TinyImmediate, Got
    <2> QED BY <1>1, <2>1
  <1>4. CASE r \in AnyImmediate(code, pos)
    <2>1. CanTake(code, pos + 1, 10) /\ r.end = pos + 11
      BY <1>4 DEF AnyImmediate, Got
    <2> QED BY <1>1, <2>1 DEF CanTake
  <1>5. CASE r \in RealImmediate(code, pos, predef)
    <2> DEFINE plen == IF hdr % 8 > 0 \/ Peek(code, pos + 1) > 0
                       THEN (hdr % 8) + 1 ELSE 0
    <2>1. CanTake(code, pos + 1, plen) /\ r.end = pos + 1 + plen
      BY <1>5 DEF RealImmediate, Got
    <2>2. plen \in 0..8
      BY <1>2
    <2> QED BY <1>1, <2>1, <2>2 DEF CanTake
  <1>6. CASE r \in IntImmediate(code, pos, predef)
    <2> DEFINE plen == (hdr % 8) + 1
    <2>1. CanTake(code, pos + 1, plen) /\ r.end = pos + 1 + plen
      BY <1>6 DEF IntImmediate, Got
    <2>2. plen \in 1..8
      BY <1>2
    <2> QED BY <1>1, <2>1, <2>2 DEF CanTake
  <1> QED BY <1>3, <1>4, <1>5, <1>6 DEF DecodeImmediate

\* decode_immediate_long_ref: header, length byte and offset were there to take.
LEMMA LongRefAdvances ==
  ASSUME NEW code, NEW pos, NEW consts, NEW dt, AtHeader(code, pos),
         NEW r \in DecodeImmediateLongRef(code, pos, consts, dt)
  PROVE  r.end \in (pos + 1)..Len(code)
  <1> DEFINE L    == code[pos + 1] % 4
             plen == IF L = 0 THEN 0 ELSE L + 1
  <1>1. code[pos + 1] \in 0..255 /\ Len(code) \in Nat /\ pos \in Nat
    BY HeaderIsByte
  <1>2. L \in 0..3
    BY <1>1, LengthFields
  <1>3. plen \in 0..4
    BY <1>2
  <1>4. CanTake(code, pos + 1, 1 + plen) /\ r.end = pos + 2 + plen
    BY DEF DecodeImmediateLongRef, Got
  <1> QED BY <1>1, <1>3, <1>4 DEF CanTake

\* decode_memory, in both styles, took what it found room for.
LEMMA MemoryAdvances ==
  ASSUME NEW code, NEW pos, NEW dts, AtHeader(code, pos),
         NEW r \in DecodeMemory(code, pos, dts)
  PROVE  r.end \in (pos + 1)..Len(code)
  <1> DEFINE plen == (code[pos + 1] % 4) + 1
  <1>1. code[pos + 1] \in 0..255 /\ Len(code) \in Nat /\ pos \in Nat
    BY HeaderIsByte
  <1>2. plen \in 1..4
    BY <1>1, LengthFields
  <1>3. CASE r \in AddressMemory(code, pos, dts)
    <2>1. CanTake(code, pos + 1, 1 + plen) /\ r.end = pos + 2 + plen
      BY <1>3 DEF AddressMemory, Got
    <2> QED BY <1>1, <1>2, <2>1 DEF CanTake
  <1>4. CASE r \in DirectMemory(code, pos, dts)
    <2>1. CanTake(code, pos + 1, plen) /\ r.end = pos + 1 + plen
      BY <1>4 DEF DirectMemory, Got
    <2> QED BY <1>1, <1>2, <2>1 DEF CanTake
  <1> QED BY <1>3, <1>4 DEF DecodeMemory

\* decode_native: the system pointer byte, or header and payload.
LEMMA NativeAdvances ==
  ASSUME NEW code, NEW pos, AtHeader(code, pos), NEW r \in DecodeNative(code, pos)
  PROVE  r.end \in (pos + 1)..Len(code)
  <1> DEFINE plen == (code[pos + 1] % 4) + 1
  <1>1. /\ code[pos + 1] \in 0..255
        /\ Len(code) \in Nat /\ pos \in Nat /\ pos < Len(code)
    BY HeaderIsByte
  <1>2. plen \in 1..4
    BY <1>1, LengthFields
  <1>3. CASE r \in SystemPointer(code, pos)
    <2>1. r.end = pos + 1
      BY <1>3 DEF SystemPointer
    <2> QED BY <1>1, <2>1
  <1>4. CASE r \in SlotOrPointer(code, pos)
    <2>1. CanTake(code, pos + 1, plen) /\ r.end = pos + 1 + plen
      BY <1>4 DEF SlotOrPointer, Got
    <2> QED BY <1>1, <1>2, <2>1 DEF CanTake
  <1> QED BY <1>3, <1>4 DEF DecodeNative

\* decode_db: all three forms end where their last payload byte ends.
LEMMA DbAdvances ==
  ASSUME NEW code, NEW pos, NEW dts, AtHeader(code, pos),
         NEW r \in DecodeDb(code, pos, dts)
  PROVE  r.end \in (pos + 1)..Len(code)
  <1> DEFINE hdr  == code[pos + 1]
             plen == ((hdr \div 4) % 4) + 1
             olen == (hdr % 4) + 1
             nlen == (hdr % 8) + 1
  <1>1. hdr \in 0..255 /\ Len(code) \in Nat /\ pos \in Nat
    BY HeaderIsByte
  <1>2. plen \in 1..4 /\ olen \in 1..4 /\ nlen \in 1..8
    BY <1>1, LengthFields
  <1>3. CASE r \in DbNoOffset(code, pos, dts)
    <2>1. CanTake(code, pos + 1, nlen) /\ r.end = pos + 1 + nlen
      BY <1>3 DEF DbNoOffset
    <2> QED BY <1>1, <1>2, <2>1 DEF CanTake
  <1>4. CASE r \in DbDirect(code, pos, dts)
    <2>1. CanTake(code, pos + 1, plen + olen) /\ r.end = pos + 1 + plen + olen
      BY <1>4 DEF DbDirect
    <2> QED BY <1>1, <1>2, <2>1 DEF CanTake
  <1>5. CASE r \in DbExtended(code, pos, dts)
    <2>1. CanTake(code, pos + 1, 1 + plen + olen) /\ r.end = pos + 2 + plen + olen
      BY <1>5 DEF DbExtended, Got
    <2> HIDE DEF plen, olen
    <2> QED BY <1>1, <1>2, <2>1 DEF CanTake
  <1> QED BY <1>3, <1>4, <1>5 DEF DecodeDb

\* decode_indirect: pointer number and offset were there to take.
LEMMA IndirectAdvances ==
  ASSUME NEW code, NEW pos, NEW dts, AtHeader(code, pos),
         NEW r \in DecodeIndirect(code, pos, dts)
  PROVE  r.end \in (pos + 1)..Len(code)
  <1> DEFINE hdr  == code[pos + 1]
             plen == ((hdr \div 4) % 2) + 1
             olen == IF hdr - (hdr % 8) = 232 THEN 0 ELSE (hdr % 4) + 1
  <1>1. hdr \in 0..255 /\ Len(code) \in Nat /\ pos \in Nat
    BY HeaderIsByte
  <1>2. plen \in 1..2 /\ (hdr % 4) + 1 \in 1..4
    BY <1>1, LengthFields
  <1>3. olen \in 0..4
    BY <1>2
  <1>4. CanTake(code, pos + 1, plen + olen) /\ r.end = pos + 1 + plen + olen
    BY DEF DecodeIndirect, Got
  <1> QED BY <1>1, <1>2, <1>3, <1>4 DEF CanTake

(* Whatever the blob, the mode and the types: an operand that decode_ident *)
(* returns took at least its header and ended inside the blob.             *)
THEOREM DecodeIdentAdvances ==
  ASSUME NEW code \in Seq(Byte), NEW pos \in 0..Len(code), NEW consts,
         NEW mode, NEW predef, NEW dts,
         NEW r \in DecodeIdent(code, pos, consts, mode, predef, dts)
  PROVE  r.end \in (pos + 1)..Len(code)
  <1>1. CASE pos = Len(code)
    <2>1. Peek(code, pos) = -1
      BY <1>1 DEF Peek
    <2> QED BY <2>1 DEF DecodeIdent, IsImmediateHeader
  <1>2. CASE pos < Len(code)
    <2>1. AtHeader(code, pos)
      BY <1>2 DEF AtHeader
    <2>2. \/ r \in DecodeImmediate(code, pos, predef)
          \/ r \in DecodeImmediateLongRef(code, pos, consts, TypeOr(dts, OT.Void))
          \/ r \in DecodeNative(code, pos)
          \/ r \in DecodeMemory(code, pos, dts)
          \/ r \in DecodeDb(code, pos, dts)
          \/ r \in DecodeIndirect(code, pos, dts)
      BY DEF DecodeIdent
    <2> QED BY <2>1, <2>2, ImmediateAdvances, LongRefAdvances, NativeAdvances,
               MemoryAdvances, DbAdvances, IndirectAdvances
  <1> QED BY <1>1, <1>2
----------------------------------------------------------------------------
\* The operations on words stay inside the word, whatever they are given.
LEMMA WordOperations ==
  /\ \A w, k : ShiftLeft(w, k) \in Word
  /\ \A w \in Word, k \in Nat : ShiftRight(w, k) \in Word
  /\ \A w \in Word : \A n : LowBits(w, n) \in Word
  /\ \A w \in Word : \A k : SignExtend(w, k) \in Word
  /\ \A n : BitsOf(n) \in Word
  /\ \A bytes : BigEndian(bytes) \in Word
  /\ AllOnes \in Word /\ {} \in Word
  <1>1. \A w, k : ShiftLeft(w, k) \in Word
    BY DEF ShiftLeft, Word
  <1>2. \A w \in Word, k \in Nat : ShiftRight(w, k) \in Word
    BY DEF ShiftRight, Word, Bits64
  <1>3. \A w \in Word : \A n : LowBits(w, n) \in Word
    BY DEF LowBits, Word
  <1>4. \A w \in Word : \A k : SignExtend(w, k) \in Word
    BY DEF SignExtend, Word
  <1>5. \A n : BitsOf(n) \in Word
    BY DEF BitsOf, Word, Bits64
  <1>6. \A bytes : BigEndian(bytes) \in Word
    BY <1>1 DEF BigEndian, Word
  <1>7. AllOnes \in Word /\ {} \in Word
    BY DEF AllOnes, Word
  <1> QED BY <1>1, <1>2, <1>3, <1>4, <1>5, <1>6, <1>7

\* Eight bits of a word are a byte.
LEMMA ByteAtIsByte ==
  ASSUME NEW w, NEW k \in Nat
  PROVE  ByteAt(w, k) \in 0..255
  <1> DEFINE bit(i) == IF k + i \in w THEN 2^i ELSE 0
  <1>1. /\ bit(0) \in {0, 1} /\ bit(1) \in {0, 2} /\ bit(2) \in {0, 4}
        /\ bit(3) \in {0, 8}
    OBVIOUS
  <1>2. /\ bit(4) \in {0, 16} /\ bit(5) \in {0, 32} /\ bit(6) \in {0, 64}
        /\ bit(7) \in {0, 128}
    OBVIOUS
  <1>3. ByteAt(w, k) = bit(0) + bit(1) + bit(2) + bit(3) + bit(4) + bit(5)
                       + bit(6) + bit(7)
    BY DEF ByteAt
  <1> HIDE DEF bit
  <1> QED BY <1>1, <1>2, <1>3

\* The (int) cast of a word that is not negative is a natural number.
LEMMA IntValueIsNat ==
  ASSUME NEW w
  PROVE  IntValue(w) \in Nat
  <1>1. /\ ByteAt(w, 0) \in Nat /\ ByteAt(w, 8) \in Nat
        /\ ByteAt(w, 16) \in Nat /\ ByteAt(w \ {31}, 24) \in Nat
    BY ByteAtIsByte
  <1> QED BY <1>1 DEF IntValue
----------------------------------------------------------------------------
\* An access without parts, which an indirect access may have as a part.
Simple == AccessOf({"imm", "mem", "slot", "ptr", "db"}, {<<>>})

\* An access without parts is an mc7p_access_t, and so is one with two of them.
LEMMA SimpleIsAccess ==
  /\ Simple \subseteq Access /\ AccessOf({"type", "cond"}, {<<>>}) \subseteq Access
  /\ AccessOf({"indirect"}, Part \X Part) \subseteq Access
  BY DEF Simple, Access, AccessOf

\* Each way the decoders fill an access gives an access without parts.
LEMMA ConstructorsTyped ==
  ASSUME NEW dt \in Nat, NEW w \in Word, NEW n \in Nat, NEW v \in Word,
         NEW m \in Nat
  PROVE  /\ Immediate(dt, w) \in Part /\ Immediate(dt, w) \in Simple
         /\ RealNumber(dt, w) \in Simple
         /\ \A t \in Seq(Byte) : TextConstant(dt, t) \in Simple
         /\ Memory(dt, n, w) \in Simple
         /\ Slot(dt, n, w, m) \in Part /\ Slot(dt, n, w, m) \in Simple
         /\ Pointer(n, w) \in Part /\ Pointer(n, w) \in Simple
         /\ AreaPointer(n) \in Simple
         /\ DbAccess(dt, w, n, v) \in Simple
         /\ [AccNew("type", dt) EXCEPT !.value = w] \in Access
         /\ [AccNew("cond", dt) EXCEPT !.value = w] \in Access
  <1> DEFINE One(kind) == AccessOf({kind}, {<<>>})
  <1>0. <<>> \in Seq(Byte) /\ {} \in Word /\ 0 \in Nat
    BY DEF Word
  <1>1. OT.Pointer \in Nat
    BY DEF OT
  <1>2. Immediate(dt, w) \in One("imm")
    BY <1>0 DEF Immediate, AccNew, AccessOf
  <1>3. Memory(dt, n, w) \in One("mem")
    BY <1>0 DEF Memory, AccNew, AccessOf
  <1>4. Slot(dt, n, w, m) \in One("slot")
    BY <1>0 DEF Slot, AccNew, AccessOf
  <1>5. Pointer(n, w) \in One("ptr")
    BY <1>0, <1>1 DEF Pointer, AccNew, AccessOf
  <1>6. LowBits(w, 32) \in Word
    BY WordOperations
  <1>7. DbAccess(dt, w, n, v) \in One("db")
    BY <1>0, <1>6 DEF DbAccess, AccNew, AccessOf
  <1>8. /\ One("imm") \subseteq Simple /\ One("imm") \subseteq Part
        /\ One("slot") \subseteq Simple /\ One("slot") \subseteq Part
        /\ One("ptr") \subseteq Simple /\ One("ptr") \subseteq Part
        /\ One("mem") \subseteq Simple /\ One("db") \subseteq Simple
    BY DEF Simple, Part, AccessOf
  <1>9. /\ RealNumber(dt, w) \in One("imm")
        /\ \A t \in Seq(Byte) : TextConstant(dt, t) \in One("imm")
    BY <1>0 DEF RealNumber, TextConstant, Immediate, AccNew, AccessOf
  <1>12. AreaPointer(n) \in One("ptr")
    <2>1. Scope.NativeSystem \in Nat
      BY DEF Scope
    <2> QED BY <1>0, <1>1, <2>1 DEF AreaPointer, Pointer, AccNew, AccessOf
  <1>10. /\ [AccNew("type", dt) EXCEPT !.value = w] \in One("type")
         /\ [AccNew("cond", dt) EXCEPT !.value = w] \in One("cond")
    BY <1>0 DEF AccNew, AccessOf
  <1>11. One("type") \subseteq Access /\ One("cond") \subseteq Access
    BY SimpleIsAccess DEF AccessOf
  <1> HIDE DEF One
  <1> QED BY <1>2, <1>3, <1>4, <1>5, <1>7, <1>8, <1>9, <1>10, <1>11,
             <1>12

\* The type a decoder settles on is an operand type.
LEMMA TypesAreNumbers ==
  ASSUME NEW dts \in SUBSET Nat, NEW default \in Nat
  PROVE  /\ TypeOr(dts, default) \in Nat
         /\ \A bit : BitOr(bit, dts) \in Nat
         /\ \A bit, bytes : BitOffset(bit, bytes) \in Word
         /\ OT.Void \in Nat /\ OT.Bool \in Nat /\ OT.DInt \in Nat
         /\ OT.Any \in Nat /\ OT.Real \in Nat /\ OT.LReal \in Nat
         /\ OT.DWord \in Nat
  <1>1. /\ OT.Void \in Nat /\ OT.Bool \in Nat /\ OT.DInt \in Nat
        /\ OT.Any \in Nat /\ OT.Real \in Nat /\ OT.LReal \in Nat
        /\ OT.DWord \in Nat
    BY DEF OT
  <1>2. \A d \in Nat : TypeOr(dts, d) \in Nat
    BY DEF TypeOr
  <1>3. \A bit : BitOr(bit, dts) \in Nat
    BY <1>1, <1>2 DEF BitOr
  <1>4. \A bit, bytes : BitOffset(bit, bytes) \in Word
    BY WordOperations DEF BitOffset
  <1> QED BY <1>1, <1>2, <1>3, <1>4

\* What rd_peek may return.
Peeked == {-1} \cup Byte

\* rd_peek returns a byte or -1.
LEMMA PeekTyped ==
  ASSUME NEW code \in Seq(Byte), NEW p \in Nat
  PROVE  Peek(code, p) \in Peeked
  <1>1. CASE p < Len(code)
    <2>1. code[p + 1] \in Byte
      BY <1>1
    <2> QED BY <1>1, <2>1 DEF Peek, Peeked
  <1>2. CASE ~(p < Len(code))
    BY <1>2 DEF Peek, Peeked
  <1> QED BY <1>1, <1>2

\* The area and range tables give areas and ranges.
LEMMA LookupsAreNumbers ==
  /\ \A b \in Peeked : AreaFromAddressByte(b) \in SUBSET Nat
  /\ \A c \in 0..7 : AreaFromDirect(c) \in SUBSET Nat
  /\ \A c \in 0..3 : ScopeFromCode(c) \in Nat /\ DbDirectRange(c) \in SUBSET Nat
  /\ \A b \in Peeked : DbExtRange(b) \in SUBSET Nat
  /\ Scope.NativeSystem \in Nat /\ Scope.NativeBlock \in Nat
  /\ Scope.NativeLocal \in Nat
  /\ SlotRange.Slot32 \in Nat /\ SlotRange.SlotBit \in Nat
  <1>1. \A b \in Peeked : AreaFromAddressByte(b) \in SUBSET Nat
    BY DEF AreaFromAddressByte, Area, Peeked, Byte
  <1>2. \A c \in 0..7 : AreaFromDirect(c) \in SUBSET Nat
    BY DEF AreaFromDirect, Area
  <1>3. \A c \in 0..3 : ScopeFromCode(c) \in Nat
    BY DEF ScopeFromCode, Scope
  <1>4. \A c \in 0..3 : DbDirectRange(c) \in SUBSET Nat
    BY DEF DbDirectRange, Area
  <1>5. \A b \in Peeked : DbExtRange(b) \in SUBSET Nat
    BY DEF DbExtRange, Area, Peeked, Byte
  <1>6. /\ Scope.NativeSystem \in Nat /\ Scope.NativeBlock \in Nat
        /\ Scope.NativeLocal \in Nat
    BY DEF Scope
  <1>7. SlotRange.Slot32 \in Nat /\ SlotRange.SlotBit \in Nat
    BY DEF SlotRange
  <1> QED BY <1>1, <1>2, <1>3, <1>4, <1>5, <1>6, <1>7

\* The last byte of a piece of the blob, where the scope and range bits are.
LEMMA LastByte ==
  ASSUME NEW code \in Seq(Byte), NEW p \in Nat, NEW n \in Nat, n >= 1,
         CanTake(code, p, n)
  PROVE  Bytes(code, p, n)[n] \in 0..255
  <1>1. Len(code) \in Nat /\ p + n \in 1..Len(code)
    BY DEF CanTake
  <1>2. SubSeq(code, p + 1, p + n)[n] = code[p + n]
    BY <1>1
  <1> QED BY <1>1, <1>2, ByteOfSeq DEF Bytes

\* decode_immediate returns an access, whichever of its four forms applies.
LEMMA ImmediateIsTyped ==
  ASSUME NEW code, NEW pos, NEW predef \in Nat, AtHeader(code, pos),
         NEW r \in DecodeImmediate(code, pos, predef)
  PROVE  r.acc \in Simple
  <1> USE WordOperations, ConstructorsTyped, TypesAreNumbers
  <1>1. CASE r \in TinyImmediate(code, pos, predef)
    <2> DEFINE dt == IF predef = OT.Undef THEN OT.DInt ELSE predef
    <2>1. \/ r.acc = Immediate(dt, BitsOf(code[pos + 1]))
          \/ r.acc = Immediate(predef, AllOnes)
      BY <1>1 DEF TinyImmediate, Got
    <2>2. dt \in Nat
      OBVIOUS
    <2> HIDE DEF dt
    <2> QED BY <2>1, <2>2
  <1>2. CASE r \in AnyImmediate(code, pos)
    <2>1. r.acc = Immediate(OT.Any, {})
      BY <1>2 DEF AnyImmediate, Got
    <2> QED BY <2>1
  <1>3. CASE r \in RealImmediate(code, pos, predef)
    <2> DEFINE L     == code[pos + 1] % 8
               plen  == IF L > 0 \/ Peek(code, pos + 1) > 0 THEN L + 1 ELSE 0
               long  == predef = OT.LReal \/ plen > 4
               width == IF long THEN 8 ELSE 4
               bits  == ShiftLeft(BigEndian(Bytes(code, pos + 1, plen)),
                                  8 * (width - plen))
               dt    == IF long THEN OT.LReal ELSE OT.Real
    <2>1. r.acc = RealNumber(dt, bits)
      BY <1>3 DEF RealImmediate, Got
    <2>2. dt \in Nat /\ bits \in Word
      OBVIOUS
    <2> HIDE DEF dt, bits
    <2> QED BY <2>1, <2>2
  <1>4. CASE r \in IntImmediate(code, pos, predef)
    <2>1. \E w \in Word : r.acc = Immediate(predef, w)
      BY <1>4 DEF IntImmediate, Got
    <2> QED BY <2>1
  <1> QED BY <1>1, <1>2, <1>3, <1>4 DEF DecodeImmediate

\* The lesser of two numbers is one of them and not above either.
LEMMA MinOfTwo ==
  ASSUME NEW a \in Int, NEW b \in Int
  PROVE  Min({a, b}) \in Int /\ Min({a, b}) <= b
  <1>1. \E x \in {a, b} : \A y \in {a, b} : x <= y
    <2>1. CASE a <= b
      BY <2>1
    <2>2. CASE b <= a
      BY <2>2
    <2> QED BY <2>1, <2>2
  <1>2. Min({a, b}) \in {a, b} /\ \A y \in {a, b} : Min({a, b}) <= y
    BY <1>1 DEF Min
  <1> QED BY <1>2

\* A piece of a byte sequence that does not reach past its end is one.
LEMMA PieceTyped ==
  ASSUME NEW s \in Seq(Byte), NEW lo \in Nat, NEW hi \in Int, lo >= 1,
         hi <= Len(s)
  PROVE  SubSeq(s, lo, hi) \in Seq(Byte)
  OBVIOUS

\* The text of a constant is cut out of the constants blob.
LEMMA TextTyped ==
  ASSUME NEW consts \in Seq(Byte), NEW off, NEW dt
  PROVE  LongText(consts, off, dt) \in Seq(Byte)
  <1> DEFINE tail == BlobFrom(consts, off)
  <1>1. tail \in Seq(Byte) /\ Len(tail) \in Nat
    BY IntValueIsNat DEF BlobFrom
  <1> HIDE DEF tail
  <1>2. ASSUME Len(tail) > 0
        PROVE  StringText(tail) \in Seq(Byte)
    <2> DEFINE n == Min({tail[1], Len(tail)})
    <2>1. tail[1] \in Int /\ Len(tail) \in Int
      BY <1>1, <1>2, ByteOfSeq
    <2>3. n \in Int /\ n <= Len(tail)
      BY <2>1, MinOfTwo
    <2>4. StringText(tail) = SubSeq(tail, 2, n)
      BY DEF StringText
    <2> HIDE DEF n
    <2> QED BY <1>1, <2>3, <2>4, PieceTyped
  <1>3. ASSUME Len(tail) > 1
        PROVE  WStringText(tail) \in Seq(Byte)
    <2> DEFINE half == (Len(tail) - 2) \div 2
               n    == Min({tail[2], half})
    <2>1. tail[2] \in Int
      BY <1>1, <1>3, ByteOfSeq
    <2>2. half \in Int /\ 2 + 2 * half <= Len(tail)
      BY <1>1, <1>3
    <2>3. n \in Int /\ n <= half
      <3> HIDE DEF half
      <3> QED BY <2>1, <2>2, MinOfTwo
    <2>4. 2 + 2 * n \in Int /\ 2 + 2 * n <= Len(tail)
      <3> HIDE DEF half, n
      <3> QED BY <1>1, <2>2, <2>3
    <2>5. WStringText(tail) = SubSeq(tail, 3, 2 + 2 * n)
      BY DEF WStringText
    <2> HIDE DEF n
    <2> QED BY <1>1, <2>4, <2>5, PieceTyped
  <1>4. <<>> \in Seq(Byte)
    OBVIOUS
  <1> QED BY <1>1, <1>2, <1>3, <1>4 DEF LongText, tail

\* decode_immediate_long_ref returns an access.
LEMMA LongRefTyped ==
  ASSUME NEW code, NEW pos, NEW consts \in Seq(Byte), NEW dt \in Nat,
         NEW r \in DecodeImmediateLongRef(code, pos, consts, dt)
  PROVE  r.acc \in Simple
  <1>1. \E off : r.acc = TextConstant(dt, LongText(consts, off, dt))
    BY DEF DecodeImmediateLongRef, Got
  <1>2. \A off : LongText(consts, off, dt) \in Seq(Byte)
    BY TextTyped
  <1>3. \A t \in Seq(Byte) : TextConstant(dt, t) \in Simple
    BY ConstructorsTyped, WordOperations
  <1> QED BY <1>1, <1>2, <1>3

\* decode_memory returns an access.
LEMMA MemoryTyped ==
  ASSUME NEW code, NEW pos, NEW dts \in SUBSET Nat, AtHeader(code, pos),
         NEW r \in DecodeMemory(code, pos, dts)
  PROVE  r.acc \in Simple
  <1> DEFINE hdr == code[pos + 1]
  <1>1. \A dt \in Nat, area \in Nat, w \in Word : Memory(dt, area, w) \in Simple
    BY ConstructorsTyped
  <1>2. hdr \in 0..255 /\ Len(code) \in Nat /\ pos \in Nat
    BY HeaderIsByte
  <1>3. CASE r \in AddressMemory(code, pos, dts)
    <2> DEFINE plen  == (hdr % 4) + 1
               bit   == hdr % 8 < 4
               bytes == Bytes(code, pos + 2, plen)
    <2>1. Peek(code, pos + 1) \in Peeked
      BY <1>2, PeekTyped DEF AtHeader
    <2>2. PICK area \in AreaFromAddressByte(Peek(code, pos + 1)) :
            r.acc = Memory(BitOr(bit, dts), area, BitOffset(bit, bytes))
      BY <1>3 DEF AddressMemory, Got
    <2>3. area \in Nat
      BY <2>1, LookupsAreNumbers
    <2>4. BitOr(bit, dts) \in Nat /\ BitOffset(bit, bytes) \in Word
      BY TypesAreNumbers, Zenon
    <2> QED BY <1>1, <2>2, <2>3, <2>4
  <1>4. CASE r \in DirectMemory(code, pos, dts)
    <2> DEFINE plen  == (hdr % 4) + 1
               bit   == hdr < 128
               bytes == Bytes(code, pos + 1, plen)
               dt    == IF ~bit /\ BitOr(bit, dts) = OT.Bool THEN OT.Void
                        ELSE BitOr(bit, dts)
    <2>1. (hdr \div 4) % 8 \in 0..7
      BY <1>2, LengthFields
    <2>2. PICK area \in AreaFromDirect((hdr \div 4) % 8) :
            r.acc = Memory(dt, area, BitOffset(bit, bytes))
      BY <1>4 DEF DirectMemory, Got
    <2>3. area \in Nat
      BY <2>1, LookupsAreNumbers
    <2>4. dt \in Nat /\ BitOffset(bit, bytes) \in Word
      <3>1. BitOr(bit, dts) \in Nat /\ OT.Void \in Nat
            /\ BitOffset(bit, bytes) \in Word
        BY TypesAreNumbers, Zenon
      <3> QED BY <3>1, Zenon
    <2> QED BY <1>1, <2>2, <2>3, <2>4
  <1> QED BY <1>3, <1>4 DEF DecodeMemory

\* decode_native returns an access.
LEMMA NativeTyped ==
  ASSUME NEW code, NEW pos, AtHeader(code, pos), NEW r \in DecodeNative(code, pos)
  PROVE  r.acc \in Simple
  <1> DEFINE hdr == code[pos + 1]
  <1>1. hdr \in 0..255 /\ Len(code) \in Nat /\ pos \in Nat
    BY HeaderIsByte
  <1>2. (hdr \div 4) % 8 \in 0..7 /\ hdr % 8 \in 0..7 /\ (hdr % 4) + 1 \in 1..4
    BY <1>1, LengthFields
  <1>3. \A w \in Word, n \in Nat, m \in Nat, dt \in Nat :
           /\ Slot(dt, n, w, m) \in Simple /\ Pointer(n, w) \in Simple
           /\ AreaPointer(n) \in Simple
    BY ConstructorsTyped
  <1>4. CASE r \in SystemPointer(code, pos)
    <2>1. PICK area \in AreaFromDirect(hdr % 8) : r.acc = AreaPointer(area)
      BY <1>4 DEF SystemPointer
    <2>2. area \in Nat
      BY <1>2, LookupsAreNumbers
    <2> QED BY <1>3, <2>1, <2>2, WordOperations
  <1>5. CASE r \in SlotOrPointer(code, pos)
    <2> DEFINE loc    == (hdr \div 4) % 8
               plen   == (hdr % 4) + 1
               bytes  == Bytes(code, pos + 1, plen)
               scope  == ScopeFromCode(bytes[plen] % 4)
               number == ShiftRight(BigEndian(bytes), 2)
               dt     == <<OT.Bool, OT.Byte, OT.Word, OT.DWord, OT.LWord, OT.Real>>
    <2>1. /\ CanTake(code, pos + 1, plen)
          /\ \/ loc <= 5 /\ r.acc = Slot(dt[loc + 1], scope, number,
                                        SlotRange.SlotBit + loc)
             \/ r.acc = Pointer(scope, number)
      BY <1>5 DEF SlotOrPointer, Got
    <2>2. bytes[plen] \in 0..255
      <3> HIDE DEF plen
      <3>1. plen \in Nat /\ plen >= 1
        BY <1>2 DEF plen
      <3> QED BY <1>1, <2>1, <3>1, LastByte DEF AtHeader
    <2>3. scope \in Nat
      <3>1. bytes[plen] % 4 \in 0..3
        BY <2>2, LengthFields
      <3> QED BY <3>1, LookupsAreNumbers
    <2>4. number \in Word
      BY WordOperations
    <2>5. loc \in 0..7
      BY <1>2
    <2>6. ASSUME loc <= 5 PROVE dt[loc + 1] \in Nat
      <3> HIDE DEF loc
      <3> QED BY <2>5, <2>6 DEF OT
    <2>7. SlotRange.SlotBit + loc \in Nat
      BY <2>5 DEF SlotRange
    <2> HIDE DEF scope, number, dt, loc
    <2> QED BY <1>3, <2>1, <2>3, <2>4, <2>6, <2>7
  <1> QED BY <1>4, <1>5 DEF DecodeNative

\* decode_db returns an access, its number cut to 32 bits.
LEMMA DbTyped ==
  ASSUME NEW code, NEW pos, NEW dts \in SUBSET Nat, AtHeader(code, pos),
         NEW r \in DecodeDb(code, pos, dts)
  PROVE  r.acc \in Simple
  <1> DEFINE hdr  == code[pos + 1]
             plen == ((hdr \div 4) % 4) + 1
             olen == (hdr % 4) + 1
             nlen == (hdr % 8) + 1
  <1>1. /\ hdr \in 0..255 /\ Len(code) \in Nat /\ pos \in Nat
        /\ code \in Seq(Byte)
    BY HeaderIsByte DEF AtHeader
  <1>2. plen \in 1..4 /\ olen \in 1..4 /\ nlen \in 1..8
    BY <1>1, LengthFields
  <1>3. \A dt \in Nat, w \in Word, n \in Nat, v \in Word :
           DbAccess(dt, w, n, v) \in Simple
    BY ConstructorsTyped
  <1>4. ASSUME NEW n \in Nat, n >= 1, CanTake(code, pos + 1, n),
               NEW range \in DbDirectRange(Bytes(code, pos + 1, n)[n] % 4)
        PROVE  range \in Nat
    <2>1. Bytes(code, pos + 1, n)[n] \in 0..255
      BY <1>1, <1>4, LastByte
    <2>2. Bytes(code, pos + 1, n)[n] % 4 \in 0..3
      BY <2>1, LengthFields
    <2> QED BY <2>2, LookupsAreNumbers
  <1>5. CASE r \in DbNoOffset(code, pos, dts)
    <2> DEFINE bytes == Bytes(code, pos + 1, nlen)
    <2>1. CanTake(code, pos + 1, nlen)
      BY <1>5 DEF DbNoOffset
    <2>2. PICK range \in DbDirectRange(bytes[nlen] % 4) :
            r.acc = DbAccess(TypeOr(dts, OT.Void),
                             ShiftRight(BigEndian(bytes), 2), range, {})
      BY <1>5 DEF DbNoOffset
    <2>3. nlen \in Nat /\ nlen >= 1
      BY <1>2
    <2> HIDE DEF nlen
    <2>4. range \in Nat
      BY <1>4, <2>1, <2>2, <2>3
    <2>5. TypeOr(dts, OT.Void) \in Nat
      BY TypesAreNumbers
    <2> QED BY <1>3, <2>2, <2>4, <2>5, WordOperations
  <1>6. CASE r \in DbDirect(code, pos, dts)
    <2> DEFINE bit    == hdr < 208
               bytes  == Bytes(code, pos + 1, plen)
               number == ShiftRight(BigEndian(bytes), 2)
               offset == BitOffset(bit, Bytes(code, pos + 1 + plen, olen))
    <2>1. CanTake(code, pos + 1, plen + olen)
      BY <1>6 DEF DbDirect
    <2>2. PICK range \in DbDirectRange(bytes[plen] % 4) :
            r.acc = DbAccess(BitOr(bit, dts), number, range, offset)
      BY <1>6 DEF DbDirect
    <2>3. /\ plen \in Nat /\ plen >= 1 /\ CanTake(code, pos + 1, plen)
      <3> HIDE DEF plen, olen
      <3> QED BY <1>1, <1>2, <2>1 DEF CanTake
    <2>4. range \in Nat
      <3> HIDE DEF plen
      <3> QED BY <1>4, <2>2, <2>3
    <2>5. BitOr(bit, dts) \in Nat /\ offset \in Word
      BY TypesAreNumbers, Zenon
    <2>6. number \in Word
      BY WordOperations
    <2> HIDE DEF number, offset
    <2> QED BY <1>3, <2>2, <2>4, <2>5, <2>6
  <1>7. CASE r \in DbExtended(code, pos, dts)
    <2> DEFINE bit    == hdr < 184
               number == BigEndian(Bytes(code, pos + 2, plen))
               offset == BitOffset(bit, Bytes(code, pos + 2 + plen, olen))
    <2>1. Peek(code, pos + 1) \in Peeked
      BY <1>1, PeekTyped
    <2>2. PICK range \in DbExtRange(Peek(code, pos + 1)) :
            r.acc = DbAccess(BitOr(bit, dts), number, range, offset)
      BY <1>7 DEF DbExtended, Got
    <2>3. range \in Nat
      BY <2>1, LookupsAreNumbers
    <2>4. BitOr(bit, dts) \in Nat /\ offset \in Word
      BY TypesAreNumbers, Zenon
    <2>5. number \in Word
      BY WordOperations
    <2> HIDE DEF number, offset
    <2> QED BY <1>3, <2>2, <2>3, <2>4, <2>5
  <1> QED BY <1>5, <1>6, <1>7 DEF DecodeDb

\* decode_indirect returns an access whose parts are accesses without parts.
LEMMA IndirectTyped ==
  ASSUME NEW code, NEW pos, NEW dts \in SUBSET Nat, AtHeader(code, pos),
         NEW r \in DecodeIndirect(code, pos, dts)
  PROVE  r.acc \in Access
  <1> DEFINE hdr    == code[pos + 1]
             kind   == hdr - (hdr % 8)
             plen   == ((hdr \div 4) % 2) + 1
             olen   == IF kind = 232 THEN 0 ELSE (hdr % 4) + 1
             bytes  == Bytes(code, pos + 1, plen)
             access == bytes[plen] % 8
             scope  == IF access % 2 = 1 THEN Scope.NativeBlock
                                         ELSE Scope.NativeLocal
             base   == Pointer(scope, ShiftRight(BigEndian(bytes), 3))
             obytes == Bytes(code, pos + 1 + plen, olen)
             slot   == Slot(OT.DWord, ScopeFromCode(obytes[olen] % 4),
                            ShiftRight(BigEndian(obytes), 2), SlotRange.Slot32)
             offset == IF kind = 224 THEN slot
                       ELSE Immediate(OT.DInt, BitOffset(kind = 240, obytes))
  <1>1. /\ hdr \in 0..255 /\ Len(code) \in Nat /\ pos \in Nat
        /\ code \in Seq(Byte)
    BY HeaderIsByte DEF AtHeader
  <1>2. plen \in 1..2 /\ (hdr % 4) + 1 \in 1..4
    BY <1>1, LengthFields
  <1>3. CanTake(code, pos + 1, plen + olen)
    BY DEF DecodeIndirect, Got
  <1>4. r.acc = Indirect(BitOr(kind = 240, dts), base, offset)
    BY DEF DecodeIndirect, Got
  <1>5. base \in Part
    <2>1. scope \in Nat
      BY LookupsAreNumbers
    <2>2. ShiftRight(BigEndian(bytes), 3) \in Word
      BY WordOperations
    <2> HIDE DEF scope, bytes
    <2> QED BY <2>1, <2>2, ConstructorsTyped
  <1>6. ASSUME kind = 224
        PROVE  slot \in Part
    <2>1. olen \in Nat /\ olen >= 1 /\ pos + 1 + plen \in Nat
      BY <1>1, <1>2, <1>6
    <2>2. CanTake(code, pos + 1 + plen, olen)
      <3>1. plen \in Nat
        BY <1>2
      <3> HIDE DEF plen, olen
      <3> QED BY <1>1, <1>3, <2>1, <3>1 DEF CanTake
    <2>3. obytes[olen] \in 0..255
      <3> HIDE DEF plen, olen
      <3> QED BY <1>1, <2>1, <2>2, LastByte
    <2>4. obytes[olen] % 4 \in 0..3
      BY <2>3, LengthFields
    <2>5. ScopeFromCode(obytes[olen] % 4) \in Nat
      BY <2>4, LookupsAreNumbers
    <2>6. OT.DWord \in Nat /\ SlotRange.Slot32 \in Nat
      BY DEF OT, SlotRange
    <2>7. ShiftRight(BigEndian(obytes), 2) \in Word
      BY WordOperations
    <2> HIDE DEF obytes, olen
    <2> QED BY <2>5, <2>6, <2>7, ConstructorsTyped
  <1>7. Immediate(OT.DInt, BitOffset(kind = 240, obytes)) \in Part
    <2>1. OT.DInt \in Nat
      BY DEF OT
    <2>2. BitOffset(kind = 240, obytes) \in Word
      <3> HIDE DEF kind, obytes
      <3> QED BY WordOperations DEF BitOffset
    <2> HIDE DEF kind, obytes
    <2> QED BY <2>1, <2>2, ConstructorsTyped
  <1>8. offset \in Part
    <2> HIDE DEF slot, kind, obytes
    <2> QED BY <1>6, <1>7
  <1>9. BitOr(kind = 240, dts) \in Nat
    BY TypesAreNumbers, Zenon
  <1>10. \A dt \in Nat, b \in Part, o \in Part : Indirect(dt, b, o) \in Access
    <2>1. TAKE dt \in Nat, b \in Part, o \in Part
    <2>2. /\ <<b, o>> \in Part \X Part /\ <<>> \in Seq(Byte) /\ {} \in Word
          /\ 0 \in Nat
      BY DEF Word
    <2> QED BY <2>2, SimpleIsAccess DEF Indirect, AccNew, AccessOf
  <1> HIDE DEF kind, base, offset
  <1> QED BY <1>4, <1>5, <1>8, <1>9, <1>10

(* What decode_ident returns is an access with every field in its C range, *)
(* whatever the blob, the mode and the types.                              *)
THEOREM DecodeIdentTyped ==
  ASSUME NEW code \in Seq(Byte), NEW pos \in 0..Len(code),
         NEW consts \in Seq(Byte), NEW mode, NEW predef \in Nat,
         NEW dts \in SUBSET Nat,
         NEW r \in DecodeIdent(code, pos, consts, mode, predef, dts)
  PROVE  r.acc \in Access
  <1>1. CASE pos = Len(code)
    <2>1. Peek(code, pos) = -1
      BY <1>1 DEF Peek
    <2> QED BY <2>1 DEF DecodeIdent, IsImmediateHeader
  <1>2. CASE pos < Len(code)
    <2>1. AtHeader(code, pos)
      BY <1>2 DEF AtHeader
    <2>2. \/ r \in DecodeImmediate(code, pos, predef)
          \/ r \in DecodeImmediateLongRef(code, pos, consts, TypeOr(dts, OT.Void))
          \/ r \in DecodeNative(code, pos)
          \/ r \in DecodeMemory(code, pos, dts)
          \/ r \in DecodeDb(code, pos, dts)
          \/ r \in DecodeIndirect(code, pos, dts)
      BY DEF DecodeIdent
    <2>3. OT.Void \in Nat
      BY DEF OT
    <2>4. TypeOr(dts, OT.Void) \in Nat
      BY <2>3, TypesAreNumbers
    <2> QED BY <2>1, <2>2, <2>4, SimpleIsAccess, ImmediateIsTyped, LongRefTyped,
               NativeTyped, MemoryTyped, DbTyped, IndirectTyped
  <1> QED BY <1>1, <1>2
-----------------------------------------------------------------------------
(* At most one operand is decoded: the guards of the forms exclude each    *)
(* other, and the tables have one area for a byte.                         *)
AtMostOne(set) == \A q, r \in set : q = r

LEMMA LookupsSingle ==
  /\ \A b : AtMostOne(AreaFromAddressByte(b)) /\ AtMostOne(DbExtRange(b))
  /\ \A c : AtMostOne(AreaFromDirect(c)) /\ AtMostOne(DbDirectRange(c))
  <1>1. \A b : AtMostOne(AreaFromAddressByte(b))
    BY DEF AtMostOne, AreaFromAddressByte
  <1>2. \A b : AtMostOne(DbExtRange(b))
    BY DEF AtMostOne, DbExtRange
  <1>3. \A c : AtMostOne(AreaFromDirect(c))
    BY DEF AtMostOne, AreaFromDirect
  <1>4. \A c : AtMostOne(DbDirectRange(c))
    BY DEF AtMostOne, DbDirectRange
  <1> QED BY <1>1, <1>2, <1>3, <1>4

LEMMA GotSingle ==
  ASSUME NEW guard, NEW end, NEW acc
  PROVE  AtMostOne(Got(guard, end, acc))
  BY DEF AtMostOne, Got

LEMMA ImmediateSingle ==
  ASSUME NEW code, NEW pos, NEW predef, AtHeader(code, pos)
  PROVE  AtMostOne(DecodeImmediate(code, pos, predef))
  <1> DEFINE hdr == code[pos + 1]
  <1>1. hdr \in 0..255
    BY HeaderIsByte
  <1>2. \A r \in TinyImmediate(code, pos, predef) :
            hdr <= 3 /\ r = (IF hdr <= 2
                             THEN [end |-> pos + 1,
                                   acc |-> Immediate(IF predef = OT.Undef THEN OT.DInt
                                                     ELSE predef, BitsOf(hdr))]
                             ELSE [end |-> pos + 1, acc |-> Immediate(predef, AllOnes)])
    BY <1>1 DEF TinyImmediate, Got
  <1>3. AtMostOne(TinyImmediate(code, pos, predef))
    BY <1>2 DEF AtMostOne
  <1>4. /\ AtMostOne(AnyImmediate(code, pos))
        /\ AtMostOne(RealImmediate(code, pos, predef))
        /\ AtMostOne(IntImmediate(code, pos, predef))
    BY GotSingle DEF AnyImmediate, RealImmediate, IntImmediate
  <1>5. /\ AnyImmediate(code, pos) # {} => hdr = 4
        /\ RealImmediate(code, pos, predef) # {} => hdr \in 48..55
        /\ IntImmediate(code, pos, predef) # {} => hdr \in 32..47
    BY DEF AnyImmediate, RealImmediate, IntImmediate, Got
  <1> HIDE DEF hdr
  <1> QED BY <1>1, <1>2, <1>3, <1>4, <1>5 DEF AtMostOne, DecodeImmediate

LEMMA MemorySingle ==
  ASSUME NEW code, NEW pos, NEW dts
  PROVE  AtMostOne(DecodeMemory(code, pos, dts))
  <1>1. AtMostOne(AddressMemory(code, pos, dts))
    BY LookupsSingle DEF AtMostOne, AddressMemory, Got
  <1>2. AtMostOne(DirectMemory(code, pos, dts))
    BY LookupsSingle DEF AtMostOne, DirectMemory, Got
  <1> QED BY <1>1, <1>2 DEF DecodeMemory

LEMMA NativeSingle ==
  ASSUME NEW code, NEW pos
  PROVE  AtMostOne(DecodeNative(code, pos))
  <1>1. AtMostOne(SystemPointer(code, pos))
    BY LookupsSingle DEF AtMostOne, SystemPointer
  <1>2. AtMostOne(SlotOrPointer(code, pos))
    BY DEF AtMostOne, SlotOrPointer, Got
  <1> QED BY <1>1, <1>2 DEF DecodeNative, AtMostOne

LEMMA DbSingle ==
  ASSUME NEW code, NEW pos, NEW dts
  PROVE  AtMostOne(DecodeDb(code, pos, dts))
  <1>1. AtMostOne(DbNoOffset(code, pos, dts))
    BY LookupsSingle DEF AtMostOne, DbNoOffset
  <1>2. AtMostOne(DbDirect(code, pos, dts))
    BY LookupsSingle DEF AtMostOne, DbDirect
  <1>3. AtMostOne(DbExtended(code, pos, dts))
    BY LookupsSingle DEF AtMostOne, DbExtended, Got
  <1> QED BY <1>1, <1>2, <1>3 DEF DecodeDb, AtMostOne

(* decode_ident is a function of the blob, the position and the parameter: *)
(* what it returns, if anything, is determined.                            *)
LEMMA DecodeIdentSingle ==
  ASSUME NEW code \in Seq(Byte), NEW pos \in 0..Len(code), NEW consts,
         NEW mode, NEW predef, NEW dts
  PROVE  AtMostOne(DecodeIdent(code, pos, consts, mode, predef, dts))
  <1>1. CASE pos = Len(code)
    <2>1. Peek(code, pos) = -1
      BY <1>1 DEF Peek
    <2> QED BY <2>1 DEF DecodeIdent, IsImmediateHeader, AtMostOne
  <1>2. CASE pos < Len(code)
    <2>1. AtHeader(code, pos)
      BY <1>2 DEF AtHeader
    <2>2. AtMostOne(DecodeImmediate(code, pos, predef))
      BY <2>1, ImmediateSingle
    <2>3. \A dt : AtMostOne(DecodeImmediateLongRef(code, pos, consts, dt))
      BY GotSingle DEF DecodeImmediateLongRef
    <2>4. AtMostOne(DecodeIndirect(code, pos, dts))
      BY GotSingle DEF DecodeIndirect
    <2>5. AtMostOne({})
      BY DEF AtMostOne
    <2> QED BY <2>2, <2>3, <2>4, <2>5, NativeSingle, MemorySingle, DbSingle
            DEF DecodeIdent
  <1> QED BY <1>1, <1>2
-----------------------------------------------------------------------------
(* Decoding a part of a blob.  w is the part of code behind offset o; an   *)
(* operand that ends inside the part is decoded from the part as it is     *)
(* from the blob: no decoder looks behind the end of its operand, but for  *)
(* the byte that tells 0.0 from a payload, and that one is payload then.   *)
WindowOf(w, code, o) ==
  /\ code \in Seq(Byte) /\ w \in Seq(Byte) /\ o \in Nat
  /\ o + Len(w) <= Len(code)
  /\ \A i \in 1..Len(w) : w[i] = code[o + i]

\* The operand got of the blob, with its end as the part has it.
Back(got, o) == [end |-> got.end - o, acc |-> got.acc]

LEMMA BytesAre ==
  ASSUME NEW code, NEW pos \in Nat, NEW n \in Nat
  PROVE  Bytes(code, pos, n) = [i \in 1..n |-> code[pos + i]]
  <1>1. \A i \in 1..n : i + (pos + 1) - 1 = pos + i
    OBVIOUS
  <1>2. 1 + (pos + n) - (pos + 1) = n
    OBVIOUS
  <1> QED BY <1>1, <1>2 DEF Bytes

\* What a decoder reads at a position of the part and of the blob.
LEMMA WindowBytes ==
  ASSUME NEW w, NEW code, NEW o, WindowOf(w, code, o), NEW p \in Nat, NEW n \in Nat
  PROVE  /\ p < Len(w) => w[p + 1] = code[o + p + 1] /\ Peek(w, p) = w[p + 1]
                          /\ Peek(code, o + p) = w[p + 1]
         /\ p + n <= Len(w) => Bytes(w, p, n) = Bytes(code, o + p, n)
  <1>1. /\ w \in Seq(Byte) /\ code \in Seq(Byte) /\ o \in Nat
        /\ Len(w) \in Nat /\ Len(code) \in Nat /\ o + Len(w) <= Len(code)
    BY DEF WindowOf
  <1>2. \A i \in 1..Len(w) : w[i] = code[o + i]
    BY DEF WindowOf
  <1>3. ASSUME p < Len(w)
        PROVE  w[p + 1] = code[o + p + 1] /\ Peek(w, p) = w[p + 1]
               /\ Peek(code, o + p) = w[p + 1]
    <2>1. p + 1 \in 1..Len(w) /\ o + (p + 1) = o + p + 1 /\ o + p < Len(code)
      BY <1>1, <1>3
    <2>2. w[p + 1] = code[o + (p + 1)]
      BY <1>2, <2>1
    <2> QED BY <1>3, <2>1, <2>2 DEF Peek
  <1>4. ASSUME p + n <= Len(w)
        PROVE  Bytes(w, p, n) = Bytes(code, o + p, n)
    <2>1. Bytes(w, p, n) = [i \in 1..n |-> w[p + i]]
      BY BytesAre
    <2>2. Bytes(code, o + p, n) = [i \in 1..n |-> code[o + p + i]]
      <3> DEFINE q == o + p
      <3>1. q \in Nat
        BY <1>1
      <3> HIDE DEF q
      <3>2. Bytes(code, q, n) = [i \in 1..n |-> code[q + i]]
        BY <3>1, BytesAre
      <3> QED BY <3>2 DEF q
    <2>3. \A i \in 1..n : w[p + i] = code[o + p + i]
      <3>1. \A i \in 1..n : p + i \in 1..Len(w) /\ o + (p + i) = o + p + i
        BY <1>1, <1>4
      <3> QED BY <1>2, <3>1
    <2> QED BY <2>1, <2>2, <2>3
  <1> QED BY <1>3, <1>4
\* A header in the part, and what the decoders read from there on.
AtPart(w, code, o, p) == WindowOf(w, code, o) /\ p \in Nat /\ p < Len(w)

LEMMA PartReads ==
  ASSUME NEW w, NEW code, NEW o, NEW p, AtPart(w, code, o, p)
  PROVE  /\ o \in Nat /\ p \in Nat /\ Len(w) \in Nat /\ p + 1 <= Len(w)
         /\ w[p + 1] \in 0..255 /\ code[o + p + 1] = w[p + 1]
         /\ Peek(w, p) = w[p + 1] /\ Peek(code, o + p) = w[p + 1]
         /\ \A k, n \in Nat : p + k + n <= Len(w) =>
                Bytes(w, p + k, n) = Bytes(code, o + p + k, n)
         /\ \A k \in Nat : p + k < Len(w) => Peek(w, p + k) = Peek(code, o + p + k)
  <1>1. /\ WindowOf(w, code, o) /\ p \in Nat /\ p < Len(w) /\ o \in Nat
        /\ w \in Seq(Byte) /\ Len(w) \in Nat
    BY DEF AtPart, WindowOf
  <1>2. AtHeader(w, p)
    BY <1>1 DEF AtHeader
  <1>3. w[p + 1] \in 0..255
    BY <1>2, HeaderIsByte
  <1>4. /\ p < Len(w) => w[p + 1] = code[o + p + 1] /\ Peek(w, p) = w[p + 1]
                         /\ Peek(code, o + p) = w[p + 1]
    BY <1>1, WindowBytes
  <1>5. ASSUME NEW k \in Nat, NEW n \in Nat, p + k + n <= Len(w)
        PROVE  Bytes(w, p + k, n) = Bytes(code, o + p + k, n)
    <2> DEFINE q == p + k
    <2>1. q \in Nat /\ q + n <= Len(w) /\ o + q = o + p + k
      BY <1>1, <1>5
    <2> HIDE DEF q
    <2>2. Bytes(w, q, n) = Bytes(code, o + q, n)
      BY <1>1, <2>1, WindowBytes
    <2>3. Bytes(w, q, n) = Bytes(code, o + p + k, n)
      BY <2>1, <2>2
    <2> QED BY <2>3 DEF q
  <1>6. ASSUME NEW k \in Nat, p + k < Len(w)
        PROVE  Peek(w, p + k) = Peek(code, o + p + k)
    <2> DEFINE q == p + k
    <2>1. q \in Nat /\ q < Len(w) /\ o + q = o + p + k
      BY <1>1, <1>6
    <2> HIDE DEF q
    <2>2. Peek(w, q) = Peek(code, o + q)
      BY <1>1, <2>1, WindowBytes
    <2>3. Peek(w, q) = Peek(code, o + p + k)
      BY <2>1, <2>2
    <2> QED BY <2>3 DEF q
  <1>7. p + 1 <= Len(w)
    BY <1>1
  <1> QED BY <1>1, <1>3, <1>4, <1>5, <1>6, <1>7

\* The end that is end bytes into the part.
LEMMA BackIs ==
  ASSUME NEW o \in Nat, NEW end \in Nat, NEW acc
  PROVE  Back([end |-> o + end, acc |-> acc], o) = [end |-> end, acc |-> acc]
  <1>1. (o + end) - o = end
    OBVIOUS
  <1> QED BY <1>1 DEF Back

LEMMA ImmediateInPart ==
  ASSUME NEW w, NEW code, NEW o, NEW p, AtPart(w, code, o, p), NEW predef,
         NEW got \in DecodeImmediate(code, o + p, predef), got.end <= o + Len(w)
  PROVE  Back(got, o) \in DecodeImmediate(w, p, predef)
  <1> DEFINE hdr == w[p + 1]
  <1>1. /\ o \in Nat /\ p \in Nat /\ Len(w) \in Nat /\ p + 1 <= Len(w)
        /\ hdr \in 0..255 /\ code[o + p + 1] = hdr
    BY PartReads
  <1>2. \A n \in Nat : p + 1 + n <= Len(w) =>
            Bytes(w, p + 1, n) = Bytes(code, o + p + 1, n)
    BY PartReads
  <1>3. p + 1 < Len(w) => Peek(w, p + 1) = Peek(code, o + p + 1)
    BY PartReads
  <1>4. hdr % 8 \in 0..7
    BY <1>1, LengthFields
  <1>5. CASE got \in TinyImmediate(code, o + p, predef)
    <2> DEFINE end  == p + 1
               dt   == IF predef = OT.Undef THEN OT.DInt ELSE predef
               low  == Immediate(dt, BitsOf(hdr))
               ones == Immediate(predef, AllOnes)
    <2>1. end \in Nat /\ o + p + 1 = o + end
      BY <1>1
    <2>2. \/ got \in Got(hdr <= 2, o + end, low)
          \/ got \in Got(hdr = 3, o + end, ones)
      BY <1>1, <1>5, <2>1 DEF TinyImmediate
    <2>3. TinyImmediate(w, p, predef) = Got(hdr <= 2, end, low) \cup Got(hdr = 3, end, ones)
      BY DEF TinyImmediate
    <2> HIDE DEF end, low, ones
    <2>4. \A acc : Back([end |-> o + end, acc |-> acc], o) = [end |-> end, acc |-> acc]
      BY <1>1, <2>1, BackIs
    <2> HIDE DEF hdr
    <2>5. \/ hdr <= 2 /\ got = [end |-> o + end, acc |-> low]
          \/ hdr = 3 /\ got = [end |-> o + end, acc |-> ones]
      BY <2>2 DEF Got
    <2>6. Back(got, o) \in TinyImmediate(w, p, predef)
      BY <2>3, <2>4, <2>5 DEF Got
    <2> QED BY <2>6 DEF DecodeImmediate
  <1>6. CASE got \in AnyImmediate(code, o + p)
    <2> HIDE DEF hdr
    <2> DEFINE end == p + 11
               any == Immediate(OT.Any, {})
    <2>1. hdr = 4 /\ got = [end |-> o + p + 11, acc |-> any]
      BY <1>1, <1>6 DEF AnyImmediate, Got
    <2>2. end \in Nat /\ o + p + 11 = o + end /\ AnyImmediate(w, p) =
              Got(hdr = 4 /\ p + 1 + 10 <= Len(w), end, any)
      BY <1>1 DEF AnyImmediate, CanTake, hdr
    <2> HIDE DEF any
    <2>3. p + 1 + 10 <= Len(w)
      BY <1>1, <2>1
    <2> HIDE DEF end
    <2>4. Back(got, o) = [end |-> end, acc |-> any]
      BY <1>1, <2>1, <2>2, BackIs
    <2> QED BY <2>1, <2>2, <2>3, <2>4 DEF DecodeImmediate, Got
  <1>7. CASE got \in RealImmediate(code, o + p, predef)
    <2> HIDE DEF hdr
    <2> DEFINE plen(next) == IF hdr % 8 > 0 \/ next > 0 THEN (hdr % 8) + 1 ELSE 0
               real(n, bytes) ==
                   LET long == predef = OT.LReal \/ n > 4
                   IN  RealNumber(IF long THEN OT.LReal ELSE OT.Real,
                                  ShiftLeft(BigEndian(bytes), 8 * ((IF long THEN 8 ELSE 4) - n)))
               there == plen(Peek(code, o + p + 1))
               here  == plen(Peek(w, p + 1))
    <2>1. /\ hdr \in 48..55
          /\ got = [end |-> o + p + 1 + there,
                    acc |-> real(there, Bytes(code, o + p + 1, there))]
      BY <1>1, <1>7 DEF RealImmediate, Got
    <2>2. RealImmediate(w, p, predef) =
              Got(hdr \in 48..55 /\ p + 1 + here <= Len(w), p + 1 + here,
                  real(here, Bytes(w, p + 1, here)))
      BY <1>1 DEF RealImmediate, CanTake, hdr
    <2> HIDE DEF real
    <2>3. there \in 0..8 /\ here \in 0..8
      BY <1>4
    <2>4. p + 1 + there <= Len(w)
      <3> HIDE DEF there
      <3> QED BY <1>1, <2>1, <2>3
    <2>5. there = here
      <3>1. CASE p + 1 < Len(w)
        BY <1>3, <3>1
      <3>2. CASE p + 1 = Len(w)
        <4>1. there = 0
          <5> HIDE DEF there
          <5> QED BY <1>1, <2>3, <2>4, <3>2
        <4>2. ~(hdr % 8 > 0)
          BY <1>4, <4>1
        <4>3. Peek(w, p + 1) = -1
          BY <1>1, <3>2 DEF Peek
        <4> QED BY <4>1, <4>2, <4>3
      <3> QED BY <1>1, <3>1, <3>2
    <2> HIDE DEF there, here
    <2> DEFINE end == p + 1 + there
               acc == real(there, Bytes(w, p + 1, there))
    <2>6. end \in Nat /\ o + p + 1 + there = o + end
      BY <1>1, <2>3
    <2>7. Bytes(w, p + 1, there) = Bytes(code, o + p + 1, there)
      BY <1>2, <2>3, <2>4
    <2>8. got = [end |-> o + end, acc |-> acc]
      BY <2>1, <2>6, <2>7
    <2>9. RealImmediate(w, p, predef) = {[end |-> end, acc |-> acc]}
      BY <2>1, <2>2, <2>4, <2>5 DEF Got
    <2> HIDE DEF end, acc
    <2>10. Back(got, o) = [end |-> end, acc |-> acc]
      BY <1>1, <2>6, <2>8, BackIs
    <2> QED BY <2>9, <2>10 DEF DecodeImmediate
  <1>8. CASE got \in IntImmediate(code, o + p, predef)
    <2> HIDE DEF hdr
    <2> DEFINE plen == (hdr % 8) + 1
               int(bytes) == LET v == BigEndian(bytes)
                             IN  Immediate(predef, IF hdr >= 40 THEN SignExtend(v, 8 * plen)
                                                   ELSE v)
               end == p + 1 + plen
               acc == int(Bytes(w, p + 1, plen))
    <2>1. /\ hdr \in 32..47
          /\ got = [end |-> o + p + 1 + plen, acc |-> int(Bytes(code, o + p + 1, plen))]
      BY <1>1, <1>8 DEF IntImmediate, Got
    <2>2. IntImmediate(w, p, predef) = Got(hdr \in 32..47 /\ p + 1 + plen <= Len(w), end, acc)
      BY <1>1 DEF IntImmediate, CanTake, hdr
    <2>3. plen \in Nat
      BY <1>4
    <2> HIDE DEF plen, int
    <2>4. p + 1 + plen <= Len(w) /\ end \in Nat /\ o + p + 1 + plen = o + end
      BY <1>1, <2>1, <2>3
    <2>5. Bytes(w, p + 1, plen) = Bytes(code, o + p + 1, plen)
      BY <1>2, <2>3, <2>4
    <2>6. got = [end |-> o + end, acc |-> acc]
      BY <2>1, <2>4, <2>5
    <2>7. IntImmediate(w, p, predef) = {[end |-> end, acc |-> acc]}
      BY <2>1, <2>2, <2>4 DEF Got
    <2> HIDE DEF end, acc
    <2>8. Back(got, o) = [end |-> end, acc |-> acc]
      BY <1>1, <2>4, <2>6, BackIs
    <2> QED BY <2>7, <2>8 DEF DecodeImmediate
  <1> QED BY <1>5, <1>6, <1>7, <1>8 DEF DecodeImmediate

\* The last step of each of these proofs.
LEMMA BackInto ==
  ASSUME NEW o \in Nat, NEW end \in Nat, NEW acc, NEW got, NEW set,
         got = [end |-> o + end, acc |-> acc], [end |-> end, acc |-> acc] \in set
  PROVE  Back(got, o) \in set
  BY BackIs

LEMMA LongRefInPart ==
  ASSUME NEW w, NEW code, NEW o, NEW p, AtPart(w, code, o, p), NEW consts, NEW dt,
         NEW got \in DecodeImmediateLongRef(code, o + p, consts, dt),
         got.end <= o + Len(w)
  PROVE  Back(got, o) \in DecodeImmediateLongRef(w, p, consts, dt)
  <1> DEFINE hdr  == w[p + 1]
             plen == IF hdr % 4 = 0 THEN 0 ELSE (hdr % 4) + 1
             text(bytes) == TextConstant(dt, LongText(consts, BigEndian(bytes), dt))
             end  == p + 2 + plen
             acc  == text(Bytes(w, p + 2, plen))
  <1>1. /\ o \in Nat /\ p \in Nat /\ Len(w) \in Nat /\ p + 1 <= Len(w)
        /\ hdr \in 0..255 /\ code[o + p + 1] = hdr
    BY PartReads
  <1>2. \A n \in Nat : p + 2 + n <= Len(w) =>
            Bytes(w, p + 2, n) = Bytes(code, o + p + 2, n)
    BY PartReads
  <1>3. hdr % 4 \in 0..3
    BY <1>1, LengthFields
  <1> HIDE DEF hdr
  <1>4. plen \in 0..4
    BY <1>3
  <1>5. got = [end |-> o + p + 2 + plen, acc |-> text(Bytes(code, o + p + 2, plen))]
    BY <1>1 DEF DecodeImmediateLongRef, Got
  <1>6. DecodeImmediateLongRef(w, p, consts, dt) =
            Got(p + 1 + (1 + plen) <= Len(w), end, acc)
    BY <1>1 DEF DecodeImmediateLongRef, CanTake, hdr
  <1> HIDE DEF plen, text
  <1>7. p + 2 + plen <= Len(w) /\ end \in Nat /\ o + p + 2 + plen = o + end
        /\ p + 1 + (1 + plen) <= Len(w)
    BY <1>1, <1>4, <1>5
  <1>8. Bytes(w, p + 2, plen) = Bytes(code, o + p + 2, plen)
    BY <1>2, <1>4, <1>7
  <1>9. got = [end |-> o + end, acc |-> acc]
    BY <1>5, <1>7, <1>8
  <1>10. [end |-> end, acc |-> acc] \in DecodeImmediateLongRef(w, p, consts, dt)
    BY <1>6, <1>7 DEF Got
  <1> HIDE DEF end, acc
  <1> QED BY <1>1, <1>7, <1>9, <1>10, BackInto

LEMMA MemoryInPart ==
  ASSUME NEW w, NEW code, NEW o, NEW p, AtPart(w, code, o, p), NEW dts,
         NEW got \in DecodeMemory(code, o + p, dts), got.end <= o + Len(w)
  PROVE  Back(got, o) \in DecodeMemory(w, p, dts)
  <1> DEFINE hdr  == w[p + 1]
             plen == (hdr % 4) + 1
  <1>1. /\ o \in Nat /\ p \in Nat /\ Len(w) \in Nat /\ p + 1 <= Len(w)
        /\ hdr \in 0..255 /\ code[o + p + 1] = hdr
    BY PartReads
  <1>2. \A n \in Nat :
            /\ p + 1 + n <= Len(w) => Bytes(w, p + 1, n) = Bytes(code, o + p + 1, n)
            /\ p + 2 + n <= Len(w) => Bytes(w, p + 2, n) = Bytes(code, o + p + 2, n)
    BY PartReads
  <1>3. p + 1 < Len(w) => Peek(w, p + 1) = Peek(code, o + p + 1)
    BY PartReads
  <1>4. plen \in 1..4
    BY <1>1, LengthFields
  <1> HIDE DEF hdr
  <1>5. CASE hdr >= 160
    <2> DEFINE bit == hdr % 8 < 4
               mem(area, bytes) == Memory(BitOr(bit, dts), area, BitOffset(bit, bytes))
               end == p + 2 + plen
    <2>1. got \in AddressMemory(code, o + p, dts)
      BY <1>1, <1>5 DEF DecodeMemory
    <2>2. DecodeMemory(w, p, dts) = AddressMemory(w, p, dts)
      BY <1>5 DEF DecodeMemory, hdr
    <2>3. PICK area \in AreaFromAddressByte(Peek(code, o + p + 1)) :
              got = [end |-> o + p + 2 + plen,
                     acc |-> mem(area, Bytes(code, o + p + 2, plen))]
      BY <1>1, <2>1 DEF AddressMemory, Got
    <2>4. \A a \in AreaFromAddressByte(Peek(w, p + 1)) :
              p + 1 + (1 + plen) <= Len(w) =>
                  [end |-> end, acc |-> mem(a, Bytes(w, p + 2, plen))]
                      \in AddressMemory(w, p, dts)
      BY <1>1 DEF AddressMemory, CanTake, Got, hdr
    <2> HIDE DEF plen, mem
    <2>5. p + 2 + plen <= Len(w) /\ end \in Nat /\ o + p + 2 + plen = o + end
          /\ p + 1 + (1 + plen) <= Len(w) /\ p + 1 < Len(w)
      BY <1>1, <1>4, <2>3
    <2>6. Bytes(w, p + 2, plen) = Bytes(code, o + p + 2, plen)
      BY <1>2, <1>4, <2>5
    <2> DEFINE acc == mem(area, Bytes(w, p + 2, plen))
    <2>7. got = [end |-> o + end, acc |-> acc]
      BY <2>3, <2>5, <2>6
    <2>8. [end |-> end, acc |-> acc] \in AddressMemory(w, p, dts)
      BY <1>3, <2>3, <2>4, <2>5
    <2> HIDE DEF end, acc
    <2> QED BY <1>1, <2>2, <2>5, <2>7, <2>8, BackInto
  <1>6. CASE ~(hdr >= 160)
    <2> DEFINE bit == hdr < 128
               dt  == IF ~bit /\ BitOr(bit, dts) = OT.Bool THEN OT.Void ELSE BitOr(bit, dts)
               mem(area, bytes) == Memory(dt, area, BitOffset(bit, bytes))
               end == p + 1 + plen
    <2>1. got \in DirectMemory(code, o + p, dts)
      BY <1>1, <1>6 DEF DecodeMemory
    <2>2. DecodeMemory(w, p, dts) = DirectMemory(w, p, dts)
      BY <1>6 DEF DecodeMemory, hdr
    <2>3. PICK area \in AreaFromDirect((hdr \div 4) % 8) :
              got = [end |-> o + p + 1 + plen,
                     acc |-> mem(area, Bytes(code, o + p + 1, plen))]
      BY <1>1, <2>1 DEF DirectMemory, Got
    <2>4. \A a \in AreaFromDirect((hdr \div 4) % 8) :
              p + 1 + plen <= Len(w) =>
                  [end |-> end, acc |-> mem(a, Bytes(w, p + 1, plen))]
                      \in DirectMemory(w, p, dts)
      BY <1>1 DEF DirectMemory, CanTake, Got, hdr
    <2> HIDE DEF plen, mem
    <2>5. p + 1 + plen <= Len(w) /\ end \in Nat /\ o + p + 1 + plen = o + end
      BY <1>1, <1>4, <2>3
    <2>6. Bytes(w, p + 1, plen) = Bytes(code, o + p + 1, plen)
      BY <1>2, <1>4, <2>5
    <2> DEFINE acc == mem(area, Bytes(w, p + 1, plen))
    <2>7. got = [end |-> o + end, acc |-> acc]
      BY <2>3, <2>5, <2>6
    <2>8. [end |-> end, acc |-> acc] \in DirectMemory(w, p, dts)
      BY <2>3, <2>4, <2>5
    <2> HIDE DEF end, acc
    <2> QED BY <1>1, <2>2, <2>5, <2>7, <2>8, BackInto
  <1> QED BY <1>5, <1>6

\* Which form the header chooses.
LEMMA NativeForm ==
  ASSUME NEW code, NEW pos
  PROVE  LET h == code[pos + 1]
         IN  /\ h \in 8..15  => DecodeNative(code, pos) = SystemPointer(code, pos)
             /\ h \in 64..95 => DecodeNative(code, pos) = SlotOrPointer(code, pos)
  <1> DEFINE h == code[pos + 1]
  <1>1. h \in 64..95 => ~(h \in 8..15)
    OBVIOUS
  <1>2. DecodeNative(code, pos) = CASE h \in 8..15  -> SystemPointer(code, pos)
                                    [] h \in 64..95 -> SlotOrPointer(code, pos)
                                    [] OTHER        -> {}
    BY DEF DecodeNative
  <1> HIDE DEF h
  <1> QED BY <1>1, <1>2, Zenon DEF h

LEMMA DbFormInPart ==
  ASSUME NEW code, NEW pos, NEW dts
  PROVE  LET h == code[pos + 1]
         IN  /\ h \in 168..175 => DecodeDb(code, pos, dts) = DbNoOffset(code, pos, dts)
             /\ h \in 176..191 => DecodeDb(code, pos, dts) = DbExtended(code, pos, dts)
             /\ h \in (192..199) \cup (208..215) =>
                    DecodeDb(code, pos, dts) = DbDirect(code, pos, dts)
  <1> DEFINE h == code[pos + 1]
             direct == (192..199) \cup (208..215)
  <1>1. /\ h \in 168..175 => ~(h \in 176..191) /\ ~(h \in direct)
        /\ h \in 176..191 => ~(h \in direct)
    OBVIOUS
  <1>2. DecodeDb(code, pos, dts) = CASE h \in 168..175 -> DbNoOffset(code, pos, dts)
                                     [] h \in 176..191 -> DbExtended(code, pos, dts)
                                     [] h \in direct   -> DbDirect(code, pos, dts)
                                     [] OTHER          -> {}
    BY DEF DecodeDb
  <1> HIDE DEF h, direct
  <1>3. h \in 168..175 => DecodeDb(code, pos, dts) = DbNoOffset(code, pos, dts)
    BY <1>1, <1>2
  <1>4. h \in 176..191 => DecodeDb(code, pos, dts) = DbExtended(code, pos, dts)
    BY <1>1, <1>2
  <1>5. h \in direct => DecodeDb(code, pos, dts) = DbDirect(code, pos, dts)
    BY <1>1, <1>2
  <1> QED BY <1>3, <1>4, <1>5 DEF h, direct

LEMMA NativeInPart ==
  ASSUME NEW w, NEW code, NEW o, NEW p, AtPart(w, code, o, p),
         NEW got \in DecodeNative(code, o + p), got.end <= o + Len(w)
  PROVE  Back(got, o) \in DecodeNative(w, p)
  <1> DEFINE hdr  == w[p + 1]
             plen == (hdr % 4) + 1
  <1>1. /\ o \in Nat /\ p \in Nat /\ Len(w) \in Nat /\ p + 1 <= Len(w)
        /\ hdr \in 0..255 /\ code[o + p + 1] = hdr
    BY PartReads
  <1>2. \A n \in Nat : p + 1 + n <= Len(w) =>
            Bytes(w, p + 1, n) = Bytes(code, o + p + 1, n)
    BY PartReads
  <1>3. plen \in 1..4
    BY <1>1, LengthFields
  <1> HIDE DEF hdr
  <1>4. CASE hdr \in 8..15
    <2> DEFINE end == p + 1
    <2>1. got \in SystemPointer(code, o + p)
      BY <1>1, <1>4, NativeForm
    <2>2. DecodeNative(w, p) = SystemPointer(w, p)
      BY <1>4, NativeForm DEF hdr
    <2>3. PICK area \in AreaFromDirect(hdr % 8) :
              got = [end |-> o + p + 1, acc |-> AreaPointer(area)]
      BY <1>1, <2>1 DEF SystemPointer
    <2>4. end \in Nat /\ o + p + 1 = o + end
      BY <1>1
    <2>5. [end |-> end, acc |-> AreaPointer(area)] \in SystemPointer(w, p)
      BY <2>3 DEF SystemPointer, hdr
    <2> HIDE DEF end
    <2> QED BY <1>1, <2>2, <2>3, <2>4, <2>5, BackInto
  <1>5. CASE hdr \in 64..95
    <2> DEFINE loc == (hdr \div 4) % 8
               scope(bytes)  == ScopeFromCode(bytes[plen] % 4)
               number(bytes) == ShiftRight(BigEndian(bytes), 2)
               dt == <<OT.Bool, OT.Byte, OT.Word, OT.DWord, OT.LWord, OT.Real>>
               slot(bytes) == Slot(dt[loc + 1], scope(bytes), number(bytes),
                                   SlotRange.SlotBit + loc)
               ptr(bytes)  == Pointer(scope(bytes), number(bytes))
               end  == p + 1 + plen
               here == Bytes(w, p + 1, plen)
    <2>1. got \in SlotOrPointer(code, o + p)
      BY <1>1, <1>5, NativeForm
    <2>2. DecodeNative(w, p) = SlotOrPointer(w, p)
      BY <1>5, NativeForm DEF hdr
    <2>3. \/ loc <= 5 /\ got = [end |-> o + p + 1 + plen,
                               acc |-> slot(Bytes(code, o + p + 1, plen))]
          \/ loc = 6 /\ got = [end |-> o + p + 1 + plen,
                              acc |-> ptr(Bytes(code, o + p + 1, plen))]
      BY <1>1, <2>1 DEF SlotOrPointer, Got
    <2>4. SlotOrPointer(w, p) =
              Got(loc <= 5 /\ p + 1 + plen <= Len(w), end, slot(here))
              \cup Got(loc = 6 /\ p + 1 + plen <= Len(w), end, ptr(here))
      BY <1>1 DEF SlotOrPointer, CanTake, hdr
    <2> HIDE DEF plen, slot, ptr, loc
    <2>5. p + 1 + plen <= Len(w) /\ end \in Nat /\ o + p + 1 + plen = o + end
      BY <1>1, <1>3, <2>3
    <2>6. here = Bytes(code, o + p + 1, plen)
      BY <1>2, <1>3, <2>5
    <2> HIDE DEF here
    <2>7. CASE loc <= 5 /\ got = [end |-> o + end, acc |-> slot(here)]
      <3>1. [end |-> end, acc |-> slot(here)] \in SlotOrPointer(w, p)
        BY <2>4, <2>5, <2>7 DEF Got
      <3> HIDE DEF end
      <3> QED BY <1>1, <2>2, <2>5, <2>7, <3>1, BackInto
    <2>8. CASE loc = 6 /\ got = [end |-> o + end, acc |-> ptr(here)]
      <3>1. [end |-> end, acc |-> ptr(here)] \in SlotOrPointer(w, p)
        BY <2>4, <2>5, <2>8 DEF Got
      <3> HIDE DEF end
      <3> QED BY <1>1, <2>2, <2>5, <2>8, <3>1, BackInto
    <2> HIDE DEF end
    <2> QED BY <2>3, <2>5, <2>6, <2>7, <2>8
  <1>6. hdr \in 8..15 \/ hdr \in 64..95
    BY <1>1 DEF DecodeNative
  <1> QED BY <1>4, <1>5, <1>6

LEMMA DbInPart ==
  ASSUME NEW w, NEW code, NEW o, NEW p, AtPart(w, code, o, p), NEW dts,
         NEW got \in DecodeDb(code, o + p, dts), got.end <= o + Len(w)
  PROVE  Back(got, o) \in DecodeDb(w, p, dts)
  <1> DEFINE hdr  == w[p + 1]
             nlen == (hdr % 8) + 1
             plen == ((hdr \div 4) % 4) + 1
             olen == (hdr % 4) + 1
             number(bytes) == ShiftRight(BigEndian(bytes), 2)
  <1>1. /\ o \in Nat /\ p \in Nat /\ Len(w) \in Nat /\ p + 1 <= Len(w)
        /\ hdr \in 0..255 /\ code[o + p + 1] = hdr
    BY PartReads
  <1>2. /\ \A n \in Nat : p + 1 + n <= Len(w) => Bytes(w, p + 1, n) = Bytes(code, o + p + 1, n)
        /\ \A n \in Nat : p + 2 + n <= Len(w) => Bytes(w, p + 2, n) = Bytes(code, o + p + 2, n)
    BY PartReads
  <1>3. ASSUME NEW k \in Nat, NEW n \in Nat, k \in {1, 2}, NEW m \in Nat, p + k + m + n <= Len(w)
        PROVE  Bytes(w, p + k + m, n) = Bytes(code, o + p + k + m, n)
    <2> DEFINE j == k + m
    <2>1. j \in Nat /\ p + j + n <= Len(w) /\ p + j = p + k + m /\ o + p + j = o + p + k + m
      BY <1>1, <1>3
    <2> HIDE DEF j
    <2>2. Bytes(w, p + j, n) = Bytes(code, o + p + j, n)
      BY <2>1, PartReads
    <2> QED BY <2>1, <2>2
  <1>4. p + 1 < Len(w) => Peek(w, p + 1) = Peek(code, o + p + 1)
    BY PartReads
  <1>5. nlen \in 1..8 /\ plen \in 1..4 /\ olen \in 1..4
    BY <1>1, LengthFields
  <1> HIDE DEF hdr
  <1>6. CASE hdr \in 168..175
    <2> DEFINE end  == p + 1 + nlen
               db(range, bytes) == DbAccess(TypeOr(dts, OT.Void), number(bytes), range, {})
               here == Bytes(w, p + 1, nlen)
    <2>1. got \in DbNoOffset(code, o + p, dts)
      BY <1>1, <1>6, DbFormInPart
    <2>2. DecodeDb(w, p, dts) = DbNoOffset(w, p, dts)
      BY <1>6, DbFormInPart DEF hdr
    <2>3. PICK range \in DbDirectRange(Bytes(code, o + p + 1, nlen)[nlen] % 4) :
              got = [end |-> o + p + 1 + nlen,
                     acc |-> db(range, Bytes(code, o + p + 1, nlen))]
      BY <1>1, <2>1 DEF DbNoOffset
    <2>4. p + 1 + nlen <= Len(w) =>
              DbNoOffset(w, p, dts) =
                  {[end |-> end, acc |-> db(r, here)] : r \in DbDirectRange(here[nlen] % 4)}
      BY <1>1 DEF DbNoOffset, CanTake, hdr
    <2> HIDE DEF nlen, db
    <2>5. p + 1 + nlen <= Len(w) /\ end \in Nat /\ o + p + 1 + nlen = o + end
      BY <1>1, <1>5, <2>3
    <2>6. here = Bytes(code, o + p + 1, nlen)
      BY <1>2, <1>5, <2>5
    <2> HIDE DEF here
    <2> DEFINE acc == db(range, here)
    <2>7. got = [end |-> o + end, acc |-> acc]
      BY <2>3, <2>5, <2>6
    <2>8. [end |-> end, acc |-> acc] \in DbNoOffset(w, p, dts)
      BY <2>3, <2>4, <2>5, <2>6
    <2> HIDE DEF end, acc
    <2> QED BY <1>1, <2>2, <2>5, <2>7, <2>8, BackInto
  <1>7. CASE hdr \in 176..191
    <2> DEFINE end  == p + 2 + plen + olen
               bit  == hdr < 184
               db(range, num, off) == DbAccess(BitOr(bit, dts), BigEndian(num), range,
                                               BitOffset(bit, off))
               num == Bytes(w, p + 2, plen)
               off == Bytes(w, p + 2 + plen, olen)
    <2>1. got \in DbExtended(code, o + p, dts)
      BY <1>1, <1>7, DbFormInPart
    <2>2. DecodeDb(w, p, dts) = DbExtended(w, p, dts)
      BY <1>7, DbFormInPart DEF hdr
    <2>3. PICK range \in DbExtRange(Peek(code, o + p + 1)) :
              got = [end |-> o + p + 2 + plen + olen,
                     acc |-> db(range, Bytes(code, o + p + 2, plen),
                                Bytes(code, o + p + 2 + plen, olen))]
      BY <1>1, <2>1 DEF DbExtended, Got
    <2>4. \A r \in DbExtRange(Peek(w, p + 1)) :
              p + 1 + (1 + plen + olen) <= Len(w) =>
                  [end |-> end, acc |-> db(r, num, off)] \in DbExtended(w, p, dts)
      BY <1>1 DEF DbExtended, CanTake, Got, hdr
    <2> HIDE DEF plen, olen, db
    <2>5. /\ p + 2 + plen + olen <= Len(w) /\ end \in Nat
          /\ o + p + 2 + plen + olen = o + end
          /\ p + 1 + (1 + plen + olen) <= Len(w) /\ p + 1 < Len(w) /\ p + 2 + plen <= Len(w)
      BY <1>1, <1>5, <2>3
    <2>6. num = Bytes(code, o + p + 2, plen) /\ off = Bytes(code, o + p + 2 + plen, olen)
      BY <1>2, <1>3, <1>5, <2>5
    <2> HIDE DEF num, off
    <2> DEFINE acc == db(range, num, off)
    <2>7. got = [end |-> o + end, acc |-> acc]
      BY <2>3, <2>5, <2>6
    <2>8. [end |-> end, acc |-> acc] \in DbExtended(w, p, dts)
      BY <1>4, <2>3, <2>4, <2>5
    <2> HIDE DEF end, acc
    <2> QED BY <1>1, <2>2, <2>5, <2>7, <2>8, BackInto
  <1>8. CASE hdr \in (192..199) \cup (208..215)
    <2> DEFINE end  == p + 1 + plen + olen
               bit  == hdr < 208
               db(range, num, off) == DbAccess(BitOr(bit, dts), number(num), range,
                                               BitOffset(bit, off))
               num == Bytes(w, p + 1, plen)
               off == Bytes(w, p + 1 + plen, olen)
    <2>1. got \in DbDirect(code, o + p, dts)
      BY <1>1, <1>8, DbFormInPart
    <2>2. DecodeDb(w, p, dts) = DbDirect(w, p, dts)
      BY <1>8, DbFormInPart DEF hdr
    <2>3. PICK range \in DbDirectRange(Bytes(code, o + p + 1, plen)[plen] % 4) :
              got = [end |-> o + p + 1 + plen + olen,
                     acc |-> db(range, Bytes(code, o + p + 1, plen),
                                Bytes(code, o + p + 1 + plen, olen))]
      BY <1>1, <2>1 DEF DbDirect
    <2>4. p + 1 + (plen + olen) <= Len(w) =>
              DbDirect(w, p, dts) =
                  {[end |-> end, acc |-> db(r, num, off)] : r \in DbDirectRange(num[plen] % 4)}
      BY <1>1 DEF DbDirect, CanTake, hdr
    <2> HIDE DEF plen, olen, db
    <2>5. /\ p + 1 + plen + olen <= Len(w) /\ end \in Nat
          /\ o + p + 1 + plen + olen = o + end
          /\ p + 1 + (plen + olen) <= Len(w) /\ p + 1 + plen <= Len(w)
      BY <1>1, <1>5, <2>3
    <2>6. num = Bytes(code, o + p + 1, plen) /\ off = Bytes(code, o + p + 1 + plen, olen)
      BY <1>2, <1>3, <1>5, <2>5
    <2> HIDE DEF num, off
    <2> DEFINE acc == db(range, num, off)
    <2>7. got = [end |-> o + end, acc |-> acc]
      BY <2>3, <2>5, <2>6
    <2>8. [end |-> end, acc |-> acc] \in DbDirect(w, p, dts)
      BY <2>3, <2>4, <2>5, <2>6
    <2> HIDE DEF end, acc
    <2> QED BY <1>1, <2>2, <2>5, <2>7, <2>8, BackInto
  <1>9. hdr \in 168..175 \/ hdr \in 176..191 \/ hdr \in (192..199) \cup (208..215)
    BY <1>1 DEF DecodeDb
  <1> QED BY <1>6, <1>7, <1>8, <1>9

LEMMA IndirectInPart ==
  ASSUME NEW w, NEW code, NEW o, NEW p, AtPart(w, code, o, p), NEW dts,
         NEW got \in DecodeIndirect(code, o + p, dts), got.end <= o + Len(w)
  PROVE  Back(got, o) \in DecodeIndirect(w, p, dts)
  <1> DEFINE hdr  == w[p + 1]
             kind == hdr - (hdr % 8)
             plen == ((hdr \div 4) % 2) + 1
             olen == IF kind = 232 THEN 0 ELSE (hdr % 4) + 1
             base(bytes) == Pointer(IF (bytes[plen] % 8) % 2 = 1
                                    THEN Scope.NativeBlock ELSE Scope.NativeLocal,
                                    ShiftRight(BigEndian(bytes), 3))
             offset(obytes) ==
                 IF kind = 224
                 THEN Slot(OT.DWord, ScopeFromCode(obytes[olen] % 4),
                           ShiftRight(BigEndian(obytes), 2), SlotRange.Slot32)
                 ELSE Immediate(OT.DInt, BitOffset(kind = 240, obytes))
             access(bytes, obytes) == Indirect(BitOr(kind = 240, dts), base(bytes), offset(obytes))
             end == p + 1 + plen + olen
             num == Bytes(w, p + 1, plen)
             off == Bytes(w, p + 1 + plen, olen)
             acc == access(num, off)
  <1>1. /\ o \in Nat /\ p \in Nat /\ Len(w) \in Nat /\ p + 1 <= Len(w)
        /\ hdr \in 0..255 /\ code[o + p + 1] = hdr
    BY PartReads
  <1>2. \A n \in Nat : p + 1 + n <= Len(w) =>
            Bytes(w, p + 1, n) = Bytes(code, o + p + 1, n)
    BY PartReads
  <1>3. plen \in 1..2 /\ (hdr % 4) + 1 \in 1..4
    BY <1>1, LengthFields
  <1>4. olen \in 0..4
    BY <1>3
  <1>5. ASSUME p + 1 + plen + olen <= Len(w)
        PROVE  off = Bytes(code, o + p + 1 + plen, olen)
    <2> DEFINE j == 1 + plen
    <2> HIDE DEF plen, olen
    <2>1. j \in Nat /\ p + j + olen <= Len(w) /\ p + j = p + 1 + plen
          /\ o + p + j = o + p + 1 + plen /\ olen \in Nat
      BY <1>1, <1>3, <1>4, <1>5
    <2> HIDE DEF j
    <2>2. Bytes(w, p + j, olen) = Bytes(code, o + p + j, olen)
      BY <2>1, PartReads
    <2> QED BY <2>1, <2>2
  <1> HIDE DEF hdr
  <1>6. got = [end |-> o + p + 1 + plen + olen,
               acc |-> access(Bytes(code, o + p + 1, plen),
                              Bytes(code, o + p + 1 + plen, olen))]
    BY <1>1 DEF DecodeIndirect, Got
  <1>7. DecodeIndirect(w, p, dts) = Got(p + 1 + (plen + olen) <= Len(w), end, acc)
    BY <1>1 DEF DecodeIndirect, CanTake, hdr
  <1> HIDE DEF plen, olen, access
  <1>8. /\ p + 1 + plen + olen <= Len(w) /\ end \in Nat
        /\ o + p + 1 + plen + olen = o + end
        /\ p + 1 + (plen + olen) <= Len(w) /\ p + 1 + plen <= Len(w)
    BY <1>1, <1>3, <1>4, <1>6
  <1>9. num = Bytes(code, o + p + 1, plen) /\ off = Bytes(code, o + p + 1 + plen, olen)
    BY <1>2, <1>3, <1>5, <1>8
  <1> HIDE DEF num, off
  <1>10. got = [end |-> o + end, acc |-> acc]
    BY <1>6, <1>8, <1>9
  <1>11. [end |-> end, acc |-> acc] \in DecodeIndirect(w, p, dts)
    BY <1>7, <1>8 DEF Got
  <1> HIDE DEF end, acc
  <1> QED BY <1>1, <1>8, <1>10, <1>11, BackInto

(* decode_ident: what ends inside the part is decoded from the part.       *)
LEMMA DecodeIdentInPart ==
  ASSUME NEW w, NEW code, NEW o, WindowOf(w, code, o), NEW p \in Nat,
         NEW consts, NEW mode, NEW predef, NEW dts,
         NEW got \in DecodeIdent(code, o + p, consts, mode, predef, dts),
         o + p <= Len(code), got.end <= o + Len(w)
  PROVE  DecodeIdent(w, p, consts, mode, predef, dts) = {Back(got, o)}
  <1> DEFINE q == o + p
  <1>1. /\ code \in Seq(Byte) /\ w \in Seq(Byte) /\ Len(code) \in Nat /\ Len(w) \in Nat
        /\ o \in Nat /\ q \in 0..Len(code)
    BY DEF WindowOf
  <1>2. got.end \in (q + 1)..Len(code)
    <2> HIDE DEF q
    <2>1. got \in DecodeIdent(code, q, consts, mode, predef, dts)
      BY DEF q
    <2> QED BY <1>1, <2>1, DecodeIdentAdvances
  <1>3. p < Len(w)
    BY <1>1, <1>2
  <1>4. AtPart(w, code, o, p)
    BY <1>3 DEF AtPart
  <1>5. Peek(code, o + p) = Peek(w, p)
    BY <1>4, PartReads
  <1>6. /\ got \in DecodeImmediate(code, o + p, predef) =>
               Back(got, o) \in DecodeImmediate(w, p, predef)
        /\ \A dt : got \in DecodeImmediateLongRef(code, o + p, consts, dt) =>
               Back(got, o) \in DecodeImmediateLongRef(w, p, consts, dt)
        /\ got \in DecodeNative(code, o + p) => Back(got, o) \in DecodeNative(w, p)
        /\ got \in DecodeMemory(code, o + p, dts) => Back(got, o) \in DecodeMemory(w, p, dts)
        /\ got \in DecodeDb(code, o + p, dts) => Back(got, o) \in DecodeDb(w, p, dts)
        /\ got \in DecodeIndirect(code, o + p, dts) =>
               Back(got, o) \in DecodeIndirect(w, p, dts)
    BY <1>4, ImmediateInPart, LongRefInPart, NativeInPart, MemoryInPart, DbInPart,
       IndirectInPart
  <1>7. Back(got, o) \in DecodeIdent(w, p, consts, mode, predef, dts)
    <2> DEFINE hdr     == Peek(w, p)
               long    == hdr \in 164..167 /\ dts \cap {OT.String, OT.WString} # {}
               pointer == mode \in {Mode.Pointer, Mode.SysPtr}
               native  == hdr \in 64..95 \/ (pointer /\ hdr \in 8..15)
               memory  == hdr \in 96..167 /\ ~long
               form(c, at) ==
                   CASE IsImmediateHeader(hdr) -> DecodeImmediate(c, at, predef)
                     [] long -> DecodeImmediateLongRef(c, at, consts, TypeOr(dts, OT.Void))
                     [] native -> DecodeNative(c, at)
                     [] memory -> DecodeMemory(c, at, dts)
                     [] hdr \in 168..223 -> DecodeDb(c, at, dts)
                     [] hdr \in 224..255 -> DecodeIndirect(c, at, dts)
                     [] OTHER -> {}
    <2>1. got \in form(code, o + p)
      BY <1>5 DEF DecodeIdent
    <2>2. DecodeIdent(w, p, consts, mode, predef, dts) = form(w, p)
      BY DEF DecodeIdent
    <2> HIDE DEF hdr, long, native, memory
    <2>3. Back(got, o) \in form(w, p)
      BY <1>6, <2>1
    <2> QED BY <2>2, <2>3
  <1>8. AtMostOne(DecodeIdent(w, p, consts, mode, predef, dts))
    <2>1. p \in 0..Len(w)
      BY <1>1, <1>3
    <2> QED BY <1>1, <2>1, DecodeIdentSingle
  <1> QED BY <1>7, <1>8 DEF AtMostOne
=============================================================================
