----------------------------- MODULE OperandText -----------------------------
(***************************************************************************)
(* One operand as text: what render_access of mc7plus.c prints for an      *)
(* access, and what mc7p_parse_operand of mc7plus_asm.c reads back.  A     *)
(* text is a record of what its characters say: its form, the name in it   *)
(* (of), the width letter (0 a bit, else bytes; a slot's range), the       *)
(* number and the place in bits.  "other" stands for the texts that print  *)
(* and that no branch of the parser accepts.                               *)
(***************************************************************************)
EXTENDS OperandDecoder

Text(form) == [form |-> form, of |-> 0, width |-> 0, number |-> {},
               place |-> {}, sub |-> <<>>]

TextOf(forms, subs) ==
    [form : forms, of : Nat, width : Nat, number : Word, place : Word, sub : subs]

PlainText == TextOf({"%", "DB", "@S", "@P", "@PSYS", ":", "=", "bool", "int", "other"},
                    {<<>>})
AnyText   == PlainText \cup TextOf({"["}, PlainText \X PlainText)

\* bits_width in whole bytes: what is not listed prints as one byte.
Bytes2 == {OT.Word, 5, 53, 61, 9, 12}
Bytes4 == {OT.DWord, OT.DInt, OT.UDInt, OT.Real, 11, 10}
Bytes8 == {OT.LWord, 50, 49, OT.LReal, 64, 65, 66, 67}

ShownWidth(dt) == CASE dt \in Bytes2 -> 2 [] dt \in Bytes4 -> 4
                    [] dt \in Bytes8 -> 8 [] OTHER -> 1

BitPart(place)  == place \cap 0..2
BytePart(place) == place \ (0..2)

\* An address with its bit, or with a width letter and without one.
Place(form, of, number, bitwise, acc) ==
    [Text(form) EXCEPT !.of = of, !.number = number,
        !.width = IF bitwise THEN 0 ELSE ShownWidth(acc.dt),
        !.place = IF bitwise THEN acc.offset ELSE BytePart(acc.offset)]

\* area_prefix: the areas whose name the parser knows.
NamedAreas == {Area.Input, Area.Output, Area.Memory, Area.Local, Area.PInput,
               Area.POutput}

\* Mutant: only an address without a type shows its bit.
PrintedMemoryUntyped(acc) ==
    LET bitwise == acc.dt \in {OT.Undef, OT.Void} /\ BitPart(acc.offset) # {}
    IN  IF acc.area \in NamedAreas THEN Place("%", acc.area, {}, bitwise, acc)
                                   ELSE Text("other")

PrintedMemory(acc) ==
    LET bitwise == acc.dt = OT.Bool
                   \/ (acc.dt \in {OT.Undef, OT.Void} /\ BitPart(acc.offset) # {})
    IN  IF acc.area \in NamedAreas THEN Place("%", acc.area, {}, bitwise, acc)
                                   ELSE Text("other")

\* Every range but retain and volatile prints as DB.
NamedRanges == {Area.Data, Area.DBRetain, Area.DBVolatile}

PrintedDb(acc) ==
    Place("DB", IF acc.range \in NamedRanges THEN acc.range ELSE Area.Data,
          acc.number, BitPart(acc.offset) # {} \/ acc.dt = OT.Bool, acc)

(* render_immediate: the types whose numbers carry a prefix, a quote or a  *)
(* fraction; UDInt prints 32 bits and the others a signed 64-bit number.   *)
PrefixedTypes == {50, 49, OT.DWord, OT.Word, 53, OT.Byte, 52, 40, 11, 12, 9, 10}

PrintedImmediate(acc) ==
    CASE acc.real \/ acc.dt \in PrefixedTypes \cup {OT.String, OT.WString} ->
             Text("other")
      [] ~acc.real /\ acc.dt = OT.Bool ->
             [Text("bool") EXCEPT !.of =
                  IF acc.value \in {BitsOf(1), BitsOf(2)} THEN 1 ELSE 0]
      [] OTHER ->
             [Text("int") EXCEPT !.number =
                  IF acc.dt = OT.UDInt THEN LowBits(acc.value, 32) ELSE acc.value]

PrintedPart(acc) ==
    CASE acc.kind = "mem"  -> PrintedMemory(acc)
      [] acc.kind = "db"   -> PrintedDb(acc)
      [] acc.kind = "imm"  -> PrintedImmediate(acc)
      [] acc.kind = "slot" -> [Text("@S") EXCEPT !.of = acc.scope,
                                  !.width = acc.range, !.number = Widened(acc.number)]
      [] acc.kind = "ptr"  -> IF acc.scope = Scope.NativeSystem
                              THEN [Text("@PSYS") EXCEPT !.of = acc.area]
                              ELSE [Text("@P") EXCEPT !.of = acc.scope,
                                                      !.number = Widened(acc.number)]
      [] acc.kind = "type" -> [Text(":") EXCEPT !.of = acc.dt]
      [] acc.kind = "cond" -> [Text("=") EXCEPT !.number = acc.value]

Printed(acc) ==
    IF acc.kind = "indirect"
    THEN [Text("[") EXCEPT !.sub = <<PrintedPart(acc.sub[1]),
                                     PrintedPart(acc.sub[2])>>]
    ELSE PrintedPart(acc)
----------------------------------------------------------------------------
(* mc7p_parse_operand: {} where it returns -1.                             *)
AccType(ot)  == [AccNew("type", ot) EXCEPT !.value = BitsOf(ot)]

\* mc7p_parse_width_type: no letter is a bit, the others B, W, D and L.
Widths == {0, 1, 2, 4, 8}

WidthType(width) == CASE width = 0 -> OT.Bool [] width = 1 -> OT.Byte
                      [] width = 2 -> OT.Word [] width = 4 -> OT.DWord
                      [] OTHER -> OT.LWord

ParsedMemory(text) ==
    {Memory(WidthType(w), area, text.place) :
        w \in {text.width} \cap Widths, area \in {text.of} \cap NamedAreas}

ParsedDb(text) ==
    {DbAccess(WidthType(w), n, range, text.place) :
        w \in {text.width} \cap Widths, range \in {text.of} \cap NamedRanges,
        n \in {m \in {text.number} : m \subseteq 0..30}}   \* INT_MAX

\* mc7p_slot_type_to_dt: a range is one of the names of mc7p_range_names.
SlotType(range) ==
    <<OT.Void, OT.Pointer, OT.Bool, OT.Byte, OT.Word, OT.DWord, OT.LWord,
      OT.Real>>[range + 1]

\* A slot or a pointer number is below 2^32; a scope is one of four letters.
NamedScopes == {Scope.NativeLocal, Scope.NativeGlobal, Scope.NativeCall,
                Scope.NativeBlock}

ParsedSlot(text) ==
    {Slot(SlotType(range), scope, n, range) :
        range \in {text.width} \cap 0..7, scope \in {text.of} \cap NamedScopes,
        n \in {m \in {text.number} : m \subseteq 0..31}}

ParsedPointer(text) ==
    {Pointer(scope, n) : scope \in {text.of} \cap NamedScopes,
                         n \in {m \in {text.number} : m \subseteq 0..31}}

ParsedPart(text) ==
    CASE text.form = "%"     -> ParsedMemory(text)
      [] text.form = "DB"    -> ParsedDb(text)
      [] text.form = "@S"    -> ParsedSlot(text)
      [] text.form = "@P"    -> ParsedPointer(text)
      [] text.form = "@PSYS" -> {AreaPointer(text.of)}
      [] text.form = ":"     -> {AccType(text.of)}
      [] text.form = "="     -> {[AccNew("cond", OT.Void) EXCEPT !.value = text.number]}
      [] text.form = "bool"  -> {Immediate(OT.Bool, BitsOf(b)) : b \in {text.of} \cap 0..1}
      [] text.form = "int"   -> {Immediate(OT.Undef, text.number)}
      [] OTHER               -> {}

\* A base that is a pointer, and an offset that is a slot or an immediate.
ParsedIndirect(text) ==
    {Indirect(OT.Void, base, offset) :
        base \in {b \in ParsedPart(text.sub[1]) : b.kind = "ptr"},
        offset \in {o \in ParsedPart(text.sub[2]) : o.kind \in {"imm", "slot"}}}

Parsed(text) == IF text.form = "[" THEN ParsedIndirect(text) ELSE ParsedPart(text)
=============================================================================
