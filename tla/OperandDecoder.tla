--------------------------- MODULE OperandDecoder ---------------------------
(***************************************************************************)
(* The operand decoders of mc7plus.c (decode_ident and the five decoders   *)
(* it dispatches to).  Each is an operator from the code bytes and the     *)
(* reader's position to a SET: empty when the C function returns NULL, and *)
(* the singleton {[end |-> position after the operand, acc |-> access]}    *)
(* when it returns an access.  A reader that fails leaves its position to  *)
(* a caller that abandons it, so only the position of a success matters.   *)
(*                                                                         *)
(* Positions are C offsets: the byte at offset pos is code[pos + 1].       *)
(***************************************************************************)
EXTENDS Words64, IsaCodes

\* rd_take and rd_peek: n bytes are there to take; the bytes themselves.
CanTake(code, pos, n) == pos + n <= Len(code)
Bytes(code, pos, n)   == SubSeq(code, pos + 1, pos + n)
Peek(code, pos)       == IF pos < Len(code) THEN code[pos + 1] ELSE -1

\* A decoder's result under a guard.
Got(guard, end, acc) == IF guard THEN {[end |-> end, acc |-> acc]} ELSE {}

(* acc_new: a zeroed access of a kind; the decoders assign fields to it.   *)
(* sub holds the base pointer and the offset of an indirect access.        *)
AccNew(kind, dt) ==
    [kind |-> kind, dt |-> dt, value |-> {}, real |-> FALSE, area |-> 0,
     offset |-> {}, number |-> {}, scope |-> 0, range |-> 0, text |-> <<>>,
     sub |-> <<>>]

\* Every access the decoders build: an indirect one has two parts, that have none.
AccessOf(kinds, subs) ==
    [kind : kinds, dt : Nat, value : Word, real : BOOLEAN, area : Nat,
     offset : Word, number : Word, scope : Nat, range : Nat,
     text : Seq(Byte), sub : subs]

Part   == AccessOf({"ptr", "slot", "imm"}, {<<>>})
Access == AccessOf({"imm", "mem", "slot", "ptr", "db", "type", "cond"}, {<<>>})
          \cup AccessOf({"indirect"}, Part \X Part)

Immediate(dt, value)  == [AccNew("imm", dt) EXCEPT !.value = value]
RealNumber(dt, bits)  == [Immediate(dt, bits) EXCEPT !.real = TRUE]
TextConstant(dt, text) == [AccNew("imm", dt) EXCEPT !.text = text]

(* dt_out of the decoders: a set, {} when the parameter gives no type.     *)
TypeOr(dts, default) == IF dts = {} THEN default ELSE CHOOSE dt \in dts : TRUE

\* `direct_bit ? Bool : dt_out[0]' and `direct_bit ? off : off * 8'.
BitOr(bit, dts)       == IF bit THEN OT.Bool ELSE TypeOr(dts, OT.Void)
BitOffset(bit, bytes) == IF bit THEN BigEndian(bytes)
                                ELSE ShiftLeft(BigEndian(bytes), 3)
----------------------------------------------------------------------------
(* Lookup tables: the sets are empty where C returns -1.                   *)
AreaFromAddressByte(b) ==
    CASE b \in 64..127  -> {Area.TSH0 + (b - 64)}
      [] b \in 192..255 -> {Area.H0 + (b - 192)}
      [] b \in 6..8     -> {Area.OB_N + (b - 6)}
      [] b \in 11..13   -> {Area.OB_C + (b - 11)}
      [] b = 128        -> {Area.PInput}
      [] b \in 129..133 -> {Area.Input + (b - 129)}
      [] b = 134        -> {Area.Local}
      [] b = 135        -> {Area.Father}
      [] b \in 138..139 -> {Area.DBRetain + (b - 138)}
      [] b \in 142..143 -> {Area.TSLocal + (b - 142)}
      [] OTHER          -> {}

AreaFromDirect(c) ==
    LET areas == <<Area.Input, Area.Output, Area.Memory, Area.PInput,
                   Area.POutput, Area.Local, Area.TSLocal>>
    IN {areas[i] : i \in {c} \cap DOMAIN areas}

ScopeFromCode(c) ==
    <<Scope.NativeGlobal, Scope.NativeLocal, Scope.NativeBlock,
      Scope.NativeCall>>[c + 1]

DbDirectRange(c) ==
    LET ranges == <<Area.Data, Area.DBRetain, Area.DBVolatile>>
    IN {ranges[i] : i \in {c + 1} \cap DOMAIN ranges}

DbExtRange(c) ==
    CASE c = 4       -> {Area.DBA}
      [] c \in 6..13 -> {Area.OB_N + (c - 6)}
      [] OTHER       -> {}
----------------------------------------------------------------------------
(* decode_immediate: a header, then up to ten payload bytes.               *)
\* Mutant: the header is peeked at and never taken.
TinyImmediatePeeked(code, pos, predef) ==
    Got(code[pos + 1] <= 2, pos, Immediate(predef, BitsOf(code[pos + 1])))

TinyImmediate(code, pos, predef) ==
    LET hdr == code[pos + 1]
        dt  == IF predef = OT.Undef THEN OT.DInt ELSE predef
    IN  Got(hdr <= 2, pos + 1, Immediate(dt, BitsOf(hdr)))
        \cup Got(hdr = 3, pos + 1, Immediate(predef, AllOnes))

AnyImmediate(code, pos) ==
    Got(code[pos + 1] = 4 /\ CanTake(code, pos + 1, 10), pos + 11,
        Immediate(OT.Any, {}))

(* Trailing zero bytes of a real are trimmed on the wire, so header \h30   *)
(* alone is 0.0 and is told from a one-byte payload by the byte after it.  *)
RealImmediate(code, pos, predef) ==
    LET L     == code[pos + 1] % 8
        plen  == IF L > 0 \/ Peek(code, pos + 1) > 0 THEN L + 1 ELSE 0
        long  == predef = OT.LReal \/ plen > 4
        width == IF long THEN 8 ELSE 4
        bits  == ShiftLeft(BigEndian(Bytes(code, pos + 1, plen)),
                           8 * (width - plen))
        dt    == IF long THEN OT.LReal ELSE OT.Real
    IN  Got(code[pos + 1] \in 48..55 /\ CanTake(code, pos + 1, plen),
            pos + 1 + plen, RealNumber(dt, bits))

(* \h20 is zero-extended, \h28 is sign-extended with ones.                 *)
IntImmediate(code, pos, predef) ==
    LET hdr  == code[pos + 1]
        plen == (hdr % 8) + 1
        v    == BigEndian(Bytes(code, pos + 1, plen))
        ext  == IF hdr >= 40 THEN SignExtend(v, 8 * plen) ELSE v
    IN  Got(hdr \in 32..47 /\ CanTake(code, pos + 1, plen), pos + 1 + plen,
            Immediate(predef, ext))

DecodeImmediate(code, pos, predef) ==
    TinyImmediate(code, pos, predef) \cup AnyImmediate(code, pos)
    \cup RealImmediate(code, pos, predef) \cup IntImmediate(code, pos, predef)
----------------------------------------------------------------------------
(* decode_immediate_long_ref: the text lies in the constants blob, from    *)
(* the offset to its end or to the length the blob gives, if that is less. *)
BlobFrom(consts, off) ==
    IF IntIsNegative(off) \/ IntValue(off) >= Len(consts) THEN <<>>
    ELSE SubSeq(consts, IntValue(off) + 1, Len(consts))

\* The length of a String counts its own byte; a WString has two-byte characters.
StringText(tail)  == SubSeq(tail, 2, Min({tail[1], Len(tail)}))
WStringText(tail) ==
    SubSeq(tail, 3, 2 + 2 * Min({tail[2], (Len(tail) - 2) \div 2}))

LongText(consts, off, dt) ==
    LET tail == BlobFrom(consts, off)
    IN  IF dt = OT.String /\ Len(tail) > 0 THEN StringText(tail)
        ELSE IF dt = OT.WString /\ Len(tail) > 1 THEN WStringText(tail)
        ELSE <<>>

DecodeImmediateLongRef(code, pos, consts, dt) ==
    LET L    == code[pos + 1] % 4
        plen == IF L = 0 THEN 0 ELSE L + 1
        off  == BigEndian(Bytes(code, pos + 2, plen))
    IN  Got(CanTake(code, pos + 1, 1 + plen), pos + 2 + plen,
            TextConstant(dt, LongText(consts, off, dt)))
----------------------------------------------------------------------------
(* decode_memory: address style \hA0..\hA7 has an area byte, the direct    *)
(* style \h60..\h9F has the area in the header.                            *)
Memory(dt, area, offset) ==
    [AccNew("mem", dt) EXCEPT !.area = area, !.offset = offset]

AddressMemory(code, pos, dts) ==
    LET hdr  == code[pos + 1]
        plen == (hdr % 4) + 1
        bit  == hdr % 8 < 4
    IN  UNION {Got(CanTake(code, pos + 1, 1 + plen), pos + 2 + plen,
                   Memory(BitOr(bit, dts), area,
                          BitOffset(bit, Bytes(code, pos + 2, plen)))) :
               area \in AreaFromAddressByte(Peek(code, pos + 1))}

DirectMemory(code, pos, dts) ==
    LET hdr  == code[pos + 1]
        plen == (hdr % 4) + 1
        bit  == hdr < 128
        \* a Bool access in the byte form loses its type
        dt   == IF ~bit /\ BitOr(bit, dts) = OT.Bool THEN OT.Void
                ELSE BitOr(bit, dts)
    IN  UNION {Got(CanTake(code, pos + 1, plen), pos + 1 + plen,
                   Memory(dt, area,
                          BitOffset(bit, Bytes(code, pos + 1, plen)))) :
               area \in AreaFromDirect((hdr \div 4) % 8)}

DecodeMemory(code, pos, dts) ==
    IF code[pos + 1] >= 160 THEN AddressMemory(code, pos, dts)
                            ELSE DirectMemory(code, pos, dts)
----------------------------------------------------------------------------
(* decode_native: one-byte system pointers \h08..\h0F, slots and pointers  *)
(* \h40..\h5F whose payload ends in two scope bits.                        *)
Pointer(scope, number) ==
    [AccNew("ptr", OT.Pointer) EXCEPT !.scope = scope, !.number = number]

AreaPointer(area) == [Pointer(Scope.NativeSystem, {}) EXCEPT !.area = area]

Slot(dt, scope, number, range) ==
    [AccNew("slot", dt) EXCEPT !.scope = scope, !.number = number,
                               !.range = range]

SystemPointer(code, pos) ==
    {[end |-> pos + 1, acc |-> AreaPointer(area)] :
     area \in AreaFromDirect(code[pos + 1] % 8)}

SlotOrPointer(code, pos) ==
    LET hdr    == code[pos + 1]
        loc    == (hdr \div 4) % 8
        plen   == (hdr % 4) + 1
        bytes  == Bytes(code, pos + 1, plen)
        scope  == ScopeFromCode(bytes[plen] % 4)
        number == ShiftRight(BigEndian(bytes), 2)
        dt     == <<OT.Bool, OT.Byte, OT.Word, OT.DWord, OT.LWord, OT.Real>>
    IN  Got(loc <= 5 /\ CanTake(code, pos + 1, plen), pos + 1 + plen,
            Slot(dt[loc + 1], scope, number, SlotRange.SlotBit + loc))
        \cup Got(loc = 6 /\ CanTake(code, pos + 1, plen), pos + 1 + plen,
                 Pointer(scope, number))

DecodeNative(code, pos) ==
    CASE code[pos + 1] \in 8..15  -> SystemPointer(code, pos)
      [] code[pos + 1] \in 64..95 -> SlotOrPointer(code, pos)
      [] OTHER                    -> {}
----------------------------------------------------------------------------
(* decode_db: \hA8 has no offset, \hC0 / \hD0 a data block and an offset,  *)
(* \hB0 / \hB8 a range byte, a number and an offset.  Headers \hC8..\hCF   *)
(* and \hD8..\hDF match no form.                                           *)
DbAccess(dt, number, range, offset) ==
    [AccNew("db", dt) EXCEPT !.number = LowBits(number, 32), !.range = range,
                             !.offset = offset]

DbNoOffset(code, pos, dts) ==
    LET plen  == (code[pos + 1] % 8) + 1
        bytes == Bytes(code, pos + 1, plen)
    IN  IF ~CanTake(code, pos + 1, plen) THEN {}
        ELSE {[end |-> pos + 1 + plen,
               acc |-> DbAccess(TypeOr(dts, OT.Void),
                                ShiftRight(BigEndian(bytes), 2), range, {})] :
              range \in DbDirectRange(bytes[plen] % 4)}

DbDirect(code, pos, dts) ==
    LET hdr   == code[pos + 1]
        plen  == ((hdr \div 4) % 4) + 1
        olen  == (hdr % 4) + 1
        bit   == hdr < 208
        bytes == Bytes(code, pos + 1, plen)
    IN  IF ~CanTake(code, pos + 1, plen + olen) THEN {}
        ELSE {[end |-> pos + 1 + plen + olen,
               acc |-> DbAccess(BitOr(bit, dts),
                                ShiftRight(BigEndian(bytes), 2), range,
                                BitOffset(bit, Bytes(code, pos + 1 + plen, olen)))] :
              range \in DbDirectRange(bytes[plen] % 4)}

DbExtended(code, pos, dts) ==
    LET hdr  == code[pos + 1]
        plen == ((hdr \div 4) % 4) + 1
        olen == (hdr % 4) + 1
        bit  == hdr < 184
    IN  UNION {Got(CanTake(code, pos + 1, 1 + plen + olen),
                   pos + 2 + plen + olen,
                   DbAccess(BitOr(bit, dts),
                            BigEndian(Bytes(code, pos + 2, plen)), range,
                            BitOffset(bit, Bytes(code, pos + 2 + plen, olen)))) :
               range \in DbExtRange(Peek(code, pos + 1))}

DecodeDb(code, pos, dts) ==
    CASE code[pos + 1] \in 168..175                -> DbNoOffset(code, pos, dts)
      [] code[pos + 1] \in 176..191                -> DbExtended(code, pos, dts)
      [] code[pos + 1] \in (192..199) \cup (208..215) -> DbDirect(code, pos, dts)
      [] OTHER                                     -> {}
----------------------------------------------------------------------------
(* decode_indirect: a pointer number with three access bits, then a slot   *)
(* (\hE0), nothing (\hE8), a bit offset (\hF0) or a byte offset (\hF8).    *)
Indirect(dt, base, offset) ==
    [AccNew("indirect", dt) EXCEPT !.sub = <<base, offset>>]

DecodeIndirect(code, pos, dts) ==
    LET hdr     == code[pos + 1]
        kind    == hdr - (hdr % 8)
        plen    == ((hdr \div 4) % 2) + 1
        olen    == IF kind = 232 THEN 0 ELSE (hdr % 4) + 1
        bytes   == Bytes(code, pos + 1, plen)
        access  == bytes[plen] % 8
        base    == Pointer(IF access % 2 = 1 THEN Scope.NativeBlock
                                             ELSE Scope.NativeLocal,
                           ShiftRight(BigEndian(bytes), 3))
        obytes  == Bytes(code, pos + 1 + plen, olen)
        offset  == IF kind = 224
                   THEN Slot(OT.DWord, ScopeFromCode(obytes[olen] % 4),
                             ShiftRight(BigEndian(obytes), 2),
                             SlotRange.Slot32)
                   ELSE Immediate(OT.DInt, BitOffset(kind = 240, obytes))
    IN  Got(CanTake(code, pos + 1, plen + olen), pos + 1 + plen + olen,
            Indirect(BitOr(kind = 240, dts), base, offset))
----------------------------------------------------------------------------
IsImmediateHeader(hdr) == hdr \in (0..4) \cup (32..55)

(* decode_ident: the header byte, the parameter's mode and the type it     *)
(* gets (dts) choose the decoder.  A pointer parameter reads any header    *)
(* below \h60 as a native form, and only \h08..\h0F is one beside          *)
(* \h40..\h5F.                                                             *)
DecodeIdent(code, pos, consts, mode, predef, dts) ==
    LET hdr     == Peek(code, pos)
        long    == hdr \in 164..167 /\ dts \cap {OT.String, OT.WString} # {}
        pointer == mode \in {Mode.Pointer, Mode.SysPtr}
    IN  CASE IsImmediateHeader(hdr) -> DecodeImmediate(code, pos, predef)
          [] long -> DecodeImmediateLongRef(code, pos, consts,
                                            TypeOr(dts, OT.Void))
          [] hdr \in 64..95 \/ (pointer /\ hdr \in 8..15) ->
                 DecodeNative(code, pos)
          [] hdr \in 96..167 /\ ~long -> DecodeMemory(code, pos, dts)
          [] hdr \in 168..223         -> DecodeDb(code, pos, dts)
          [] hdr \in 224..255         -> DecodeIndirect(code, pos, dts)
          [] OTHER                    -> {}
=============================================================================
