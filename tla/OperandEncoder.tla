--------------------------- MODULE OperandEncoder ---------------------------
(***************************************************************************)
(* The operand encoders of mc7plus_asm.c, the inverses of OperandDecoder:  *)
(* each is a set, {} where the C function returns -1 and else the one      *)
(* sequence of bytes it writes.  A header is composed with `|' and cast to *)
(* a byte, so a length that does not fit its bits spills into the others.  *)
(* The room in the output buffer is left out.                              *)
(***************************************************************************)
EXTENDS OperandDecoder

\* The bytes a number needs, at least one, and the low n bytes of a word.
ByteLength(w)     == Min({n \in 1..8 : w \subseteq 0..(8 * n - 1)})
LowBytes(w, n)    == [i \in 1..n |-> ByteAt(w, 8 * (n - i))]
BigEndianOf(w)    == LowBytes(w, ByteLength(w))

\* `a | b | c' of small numbers, as a byte.
Header(a, b, c) == ByteAt(BitsOf(a) \cup BitsOf(b) \cup BitsOf(c), 0)

\* mc7p_write_offset and mc7p_write_slot_no; the return value is the length - 1.
WriteOffset(w) == BigEndianOf(w)

WriteSlotNo(number, fraction) ==
    LET wire == ShiftLeft(Widened(number), 2)
    IN  LowBytes(wire \cup BitsOf(fraction), ByteLength(wire))

\* mc7p_write_ptr_no: one or two bytes.
WritePtrNo(number, access) ==
    LET wire == ShiftLeft(Widened(number), 3)
    IN  {LowBytes(wire \cup BitsOf(access), n) : n \in {ByteLength(wire)} \cap 1..2}
----------------------------------------------------------------------------
\* mc7p_encode_positive_immediate, then mc7p_encode_immediate_typed.
\* Mutant: the header counts the bytes instead of the bytes after the first.
PositiveImmediateLonger(v) ==
    IF v \subseteq 0..1 /\ v # 0..1 THEN <<ByteAt(v, 0)>>
    ELSE <<32 + ByteLength(v)>> \o BigEndianOf(v)

PositiveImmediate(v) ==
    IF v \subseteq 0..1 /\ v # 0..1 THEN <<ByteAt(v, 0)>>
    ELSE <<32 + ByteLength(v) - 1>> \o BigEndianOf(v)

OneByteTypes   == {OT.Bool, OT.Byte, 3, 40, 52, 55}
TwoByteTypes   == {OT.Word, 5, 9, 12, 53, 61}
EightByteTypes == {OT.LWord, 50, 49, 64, 65, 66}

ImmediateWidth(type) == CASE type \in OneByteTypes -> 8 [] type \in TwoByteTypes -> 16
                          [] type \in EightByteTypes -> 64 [] OTHER -> 32

\* The type of a number that has none is the parameter's.
NumberType(acc, type) == IF acc.dt = OT.Undef THEN type ELSE acc.dt

\* bool_value is set by TRUE and FALSE alone: a number for a Bool is 0.
BoolValue(acc) == IF acc.dt = OT.Bool THEN acc.value ELSE {}

\* Mutant: all ones are told by the width exactly, so not in a wider number.
ImmediateTypedExact(acc, type, mode) ==
    LET own == NumberType(acc, type)
        v   == IF own = OT.Bool THEN BoolValue(acc) ELSE acc.value
    IN  IF 0..(ImmediateWidth(own) - 1) = v /\ mode \notin {Mode.Id, Mode.Len}
        THEN <<3>> ELSE PositiveImmediate(v)

\* Mutant: all ones are 3 for a count and a label too.
ImmediateTypedShort(acc, type, mode) ==
    LET own == NumberType(acc, type)
        v   == IF own = OT.Bool THEN BoolValue(acc) ELSE acc.value
    IN  IF 0..(ImmediateWidth(own) - 1) \subseteq v THEN <<3>> ELSE PositiveImmediate(v)

ImmediateTyped(acc, type, mode) ==
    LET own == NumberType(acc, type)
        v   == IF own = OT.Bool THEN BoolValue(acc) ELSE acc.value
        all == 0..(ImmediateWidth(own) - 1) \subseteq v
    IN  IF all /\ mode \notin {Mode.Id, Mode.Len} THEN <<3>> ELSE PositiveImmediate(v)
----------------------------------------------------------------------------
\* mc7p_is_direct_bit_type, and the offset as it is written: {} when a byte
\* form cannot say it.
DirectBit(dt, offset) ==
    dt \in {OT.Bool, OT.Undef, OT.Void} /\ offset \cap 0..2 # {}

Written(dt, offset) ==
    IF DirectBit(dt, offset) THEN {offset}
    ELSE {ShiftRight(o, 3) : o \in {o \in {offset} : o \cap 0..2 = {}}}

DirectCode(area) ==
    LET areas == <<Area.Input, Area.Output, Area.Memory, Area.PInput,
                   Area.POutput, Area.Local, Area.TSLocal>>
    IN  {c \in DOMAIN areas : areas[c] = area}

\* mc7p_area_address_code, without the three areas the encoder refuses.
AddressCode(area) ==
    {c \in (0..255) \ {128, 132, 133} : AreaFromAddressByte(c) = {area}}

\* The address style has the area in a byte, the direct style in the header.
AddressForm(bit, off, c) ==
    <<Header(IF bit THEN 160 ELSE 164, ByteLength(off) - 1, 0), c>> \o WriteOffset(off)

DirectForm(bit, off, c) ==
    <<Header(IF bit THEN 96 ELSE 128, 4 * c, ByteLength(off) - 1)>> \o WriteOffset(off)

EncodeMemory(acc, forceAddress) ==
    LET bit == DirectBit(acc.dt, acc.offset)
    IN  IF forceAddress \/ DirectCode(acc.area) = {}
        THEN {AddressForm(bit, off, c) : off \in Written(acc.dt, acc.offset),
                                         c \in AddressCode(acc.area)}
        ELSE {DirectForm(bit, off, c) : off \in Written(acc.dt, acc.offset),
                                        c \in DirectCode(acc.area)}

\* mc7p_scope_code: {} where it returns -1.
ScopeCode(scope) == {c \in 0..3 : ScopeFromCode(c) = scope}

\* mc7p_location_code: {} where it returns -1.
LocationCode(acc) ==
    IF acc.kind = "ptr" \/ acc.range = SlotRange.Pointer THEN {6}
    ELSE {acc.range - SlotRange.SlotBit} \cap 0..5

SlotForm(loc, no) == <<Header(64, 4 * loc, Len(no) - 1)>> \o no

EncodeNative(acc) ==
    IF acc.kind = "ptr" /\ acc.scope = Scope.NativeSystem
    THEN {<<8 + c>> : c \in DirectCode(acc.area)}
    ELSE {SlotForm(loc, WriteSlotNo(acc.number, c)) :
              loc \in LocationCode(acc), c \in ScopeCode(acc.scope)}

\* No offset at all is a form of its own, \hA8.
DbForm(bit, no, off) ==
    IF off = {} /\ ~bit THEN <<Header(168, Len(no) - 1, 0)>> \o no
    ELSE <<Header(IF bit THEN 192 ELSE 208, 4 * (Len(no) - 1), ByteLength(off) - 1)>>
         \o no \o WriteOffset(off)

EncodeDb(acc) ==
    {DbForm(DirectBit(acc.dt, acc.offset), WriteSlotNo(acc.number, c), off) :
        off \in Written(acc.dt, acc.offset),
        c \in {c \in 0..2 : DbDirectRange(c) = {acc.range}}}

(* mc7p_encode_indirect: the offset is a slot, nothing, or a number; the   *)
(* lengths are masked here.                                                *)
EncodeIndirect(acc, type) ==
    LET base    == acc.sub[1]
        off     == acc.sub[2]
        bit     == DirectBit(type, off.value)
        head(form, l, m) == <<Header(form, 4 * (Len(l) - 1), (m - 1) % 4)>>
        withSlot(l, no)  == head(224, l, Len(no)) \o l \o no
        withNumber(l, o) == head(IF bit THEN 240 ELSE 248, l, ByteLength(o))
                            \o l \o WriteOffset(o)
    IN  UNION {CASE off.kind = "slot" ->
                        {withSlot(l, WriteSlotNo(off.number, c)) :
                             c \in ScopeCode(off.scope)}
                 [] off.kind = "imm" /\ off.value = {} -> {head(232, l, 1) \o l}
                 [] OTHER -> {withNumber(l, o) : o \in Written(type, off.value)} :
               l \in WritePtrNo(base.number,
                                IF base.scope = Scope.NativeBlock THEN 1 ELSE 0)}

\* Mutant: the -1 of a type that has no code is written.
TypeToWireUnchecked(ot) ==
    {IF \E w \in 0..41 : TypeFromByte(w) = {ot}
     THEN CHOOSE w \in 0..41 : TypeFromByte(w) = {ot} ELSE -1}

\* The codes of a type and of a condition: the first that stands for it.
TypeToWire(ot) == {w \in 0..41 : TypeFromByte(w) = {ot}
                                 /\ \A v \in 0..(w - 1) : TypeFromByte(v) # {ot}}
CondToWire(c)  == {w \in 0..31 : {BitsOf(d) : d \in CondFromByte(w)} = {c}}

(* mc7p_encode_operand; predef is the parameter's own type and type the    *)
(* one of the type operand it refers to.                                   *)
EncodeOperand(acc, predef, mode, type) ==
    CASE acc.kind = "imm"  -> {ImmediateTyped(acc, IF predef # OT.Undef THEN predef
                                                   ELSE type, mode)}
      [] acc.kind = "type" -> {<<w>> : w \in TypeToWire(acc.dt)}
      [] acc.kind = "cond" -> {<<w>> : w \in CondToWire(acc.value)}
      [] acc.kind \in {"slot", "ptr"} -> EncodeNative(acc)
      [] acc.kind = "mem"      -> EncodeMemory(acc, mode = Mode.Direct)
      [] acc.kind = "db"       -> EncodeDb(acc)
      [] acc.kind = "indirect" -> EncodeIndirect(acc, type)
=============================================================================
