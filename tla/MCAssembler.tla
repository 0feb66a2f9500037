----------------------------- MODULE MCAssembler -----------------------------
(* Model-checking instance of Assembler over rows of the real operator     *)
(* table: every parameter kind, the three families with encodings of their *)
(* own, the forced address form and every form of operand at the sizes     *)
(* where its header changes.                                               *)
EXTENDS Assembler, MCIsa

ADD    == Op("other", <<240, 32>>,
             <<FlagParam(Flag.Cond, 0, 0), FlagParam(Flag.ENO, 0, 1),
               FlagParam(Flag.STW, 0, 2), TypeParam, RefIdent(Mode.Dest),
               RefIdent(Mode.Src), RefIdent(Mode.Src)>>)
MOD    == [ADD EXCEPT !.code = <<240, 36>>]
LD_CMP == Op("other", <<248, 112>>,
             <<FlagParam(Flag.STW, 1, 0), CondParam, TypeParam,
               RefIdent(Mode.Src), RefIdent(Mode.Src)>>)
MREF   == Op("other", <<103>>, <<Ident(OT.Pointer, Mode.Dest), Ident(OT.Void, Mode.Direct)>>)

\* The code 0 of its second type stands for four of them.
STR_LEN ==
    Op("other", <<240, 26>>,
       <<FlagParam(Flag.Cond, 0, 0), FlagParam(Flag.ENO, 0, 1), TypeParam,
         RefIdent(Mode.Dest),
         CodingParam(0, 2, <<<<OT.String, 0>>, <<OT.WString, 1>>, <<3, 0>>, <<OT.Byte, 0>>>>),
         RefIdent(Mode.Src)>>)

AsmRows ==
    [n \in DOMAIN IsaRows \cup {168, 172, 221, 290, 439} |->
        CASE n = 168 -> ADD    [] n = 172 -> MOD
          [] n = 221 -> LD_CMP [] n = 290 -> STR_LEN [] n = 439 -> MREF
          [] OTHER -> IsaRows[n]]

IsaNames ==
    [n \in DOMAIN AsmRows |->
        CASE n = 1   -> "NOP"      [] n = 2   -> "LD_BOOL" [] n = 16  -> "ST_BLOCK"
          [] n = 44  -> "MOVE"     [] n = 47  -> "MOVE_N_BOOL"
          [] n = 54  -> "MUX"      [] n = 168 -> "ADD"     [] n = 172 -> "MOD"
          [] n = 221 -> "LD_CMP"   [] n = 254 -> "LABEL"   [] n = 255 -> "JMP"
          [] n = 256 -> "JMP_BOOL" [] n = 257 -> "JL"      [] n = 263 -> "JMP_STW"
          [] n = 266 -> "CALL"     [] n = 275 -> "RET"     [] n = 290 -> "STR_LEN"
          [] n = 439 -> "MREF"]

\* Offsets in bits: none, a bit, bytes, and where one byte more is needed.
Offsets == {{}, {0, 1}, {3}, {11}, {3, 4, 5, 6, 7, 8, 9, 10}, {0, 8}, {34}, {31, 0}}
Numbers == {{}, {0}, {5}, {6}, {13}, {29}}

PlaceText(form, of, number, width, offset) ==
    [Text(form) EXCEPT !.of = of, !.number = number, !.width = width,
        !.place = IF width = 0 THEN offset ELSE BytePart(offset)]
Ints == {[Text("int") EXCEPT !.number = n] :
            n \in {{}, {0}, {1}, {0, 1}, 0..7, 0..15, 0..31, {7, 20}, {31},
                   Bits64, Bits64 \ {2}, {63}}}
\* Labels and counts are 32-bit numbers.
Labels    == {t \in Ints : t.number \subseteq 0..31}
Bools     == {[Text("bool") EXCEPT !.of = b] : b \in 0..1}
Memories  == {PlaceText("%", a, {}, w, o) :
                 a \in {Area.Input, Area.Memory, Area.POutput},
                 w \in {0, 1, 8}, o \in Offsets}
Blocks    == {PlaceText("DB", a, n, w, o) : a \in {Area.Data, Area.DBVolatile},
                 n \in {{0}, {13}, {14}}, w \in {0, 2}, o \in Offsets}
Slots     == {[Text("@S") EXCEPT !.of = s, !.width = w, !.number = n] :
                 s \in {5, 8}, w \in {0, 1, 2, 5, 7}, n \in Numbers}
Pointers  == {[Text("@P") EXCEPT !.of = s, !.number = n] : s \in {5, 6, 8}, n \in Numbers}
System    == {[Text("@PSYS") EXCEPT !.of = a] : a \in {Area.Input, Area.TSLocal, Area.Data}}
Indirects == {[Text("[") EXCEPT !.sub = <<b, o>>] :
                 b \in {p \in Pointers : p.number \in {{0}, {5}, {13}}},
                 o \in {s \in Slots : s.width = 5 /\ s.number \in {{}, {13}}}
                       \cup {[Text("int") EXCEPT !.number = n] : n \in Offsets}}

Operands == Ints \cup Bools \cup Memories \cup Blocks \cup Slots \cup Pointers
            \cup System \cup Indirects
TypeText(ot) == [Text(":") EXCEPT !.of = ot]
CondText(c)  == [Text("=") EXCEPT !.number = BitsOf(c)]
IntText(n)     == [Text("int") EXCEPT !.number = n]
Here         == PlaceText("%", Area.Memory, {}, 1, {3})
\* Three addresses of different lengths.
Near         == {Here, PlaceText("%", Area.POutput, {}, 0, {0, 8}),
                 PlaceText("%", Area.Input, {}, 8, {34})}

L(name, flags, operands) == [name |-> name, flags |-> flags, operands |-> operands]

TypedLines ==
    {L("MOVE", {}, <<TypeText(t), Here, o>>) :
        t \in {OT.Bool, OT.Word, OT.LWord}, o \in Operands}
    \cup {L("MOVE", {}, <<TypeText(t), Here, o>>) :
            t \in {OT.Byte, OT.DInt, OT.Void}, o \in Ints \cup Bools \cup Indirects \cup Near}
    \cup {L("MOVE", {}, <<TypeText(OT.Word), TypeText(OT.Byte), o>>) :
            o \in Ints \cup Indirects \cup {TypeText(OT.Bool)}}
    \cup {L(n, f, <<TypeText(OT.Word), o, Here, Here>>) :
            n \in {"ADD", "MOD"}, o \in {Here, IntText({3})},
            f \in SUBSET {Flag.Cond, Flag.ENO, Flag.STW}}
    \cup {L("LD_CMP", f, <<CondText(c), TypeText(OT.Bool), o, Here>>) :
            f \in SUBSET {Flag.STW, Flag.Cond}, c \in {9, 14, 17, 32, 0}, o \in Bools}
    \cup {L("MREF", {}, <<o, p>>) : o \in Near, p \in Memories \cup Blocks \cup System}
    \cup {L("MREF", {}, <<o, p>>) : o \in Memories, p \in Near}
    \cup {L("LABEL", {}, <<o>>) : o \in Labels \cup Bools}
    \cup {L("JMP", f, <<o>>) : f \in SUBSET {Flag.Cond, Flag.Negated}, o \in Labels}
    \cup {L("RET", f, o) : f \in SUBSET {Flag.Cond}, o \in {<<>>, <<IntText({0})>>} \cup {<<b>> : b \in Bools}}
    \cup {L("JMP_BOOL", f, <<o, IntText({4})>>) : f \in SUBSET {Flag.Negated}, o \in Memories \cup Bools}
    \cup {L("MOVE_N_BOOL", {Flag.ENO}, <<TypeText(t), o, Here>>) :
            t \in {OT.Bool, 40, OT.Byte}, o \in Slots}
    \cup {L("JL", {}, <<TypeText(OT.Byte), Here, n, t>>) :
            n \in Labels, t \in {IntText({}), IntText(0..31)}}
    \cup {L("MUX", {}, <<TypeText(OT.Byte), Here, TypeText(t), Here, IntText({0}), o>>) :
            t \in {OT.Bool, OT.Word}, o \in Ints}
    \cup {L("ST_BLOCK", {Flag.NoInt}, <<Here, TypeText(t), o>>) : t \in {OT.Bool, OT.Byte}, o \in Bools \cup Indirects}
    \cup {L("STR_LEN", {}, <<TypeText(OT.Word), Here, TypeText(t), o>>) :
            t \in {OT.String, OT.WString, OT.Byte}, o \in Ints \cup {Here}}
    \cup {L("NOP", {}, <<>>)}

\* Statements of a program, one each: the forms the assembler never writes too.
Statements ==
    {<<224, t>> \o d \o s :
        t \in {0, 1, 2, 16, 26}, d \in {<<140, 1>>, <<108, 9>>},
        s \in {<<0>>, <<2>>, <<3>>, <<4, 0, 0, 0, 0, 0, 0, 0, 0, 0, 1>>, <<32, 0>>,
               <<40, 200>>, <<35, 255, 255, 255, 255>>, <<48, 65>>, <<48>>, <<164, 131, 4>>,
               <<161, 134, 1, 9>>, <<160, 70, 9>>, <<165, 131, 0, 4>>, <<157, 0, 1>>,
               <<141, 0, 0>>, <<92, 3>>, <<69, 0, 8>>, <<88, 6>>, <<168, 5>>, <<170, 0, 0, 6>>,
               <<176, 7, 3, 9>>, <<184, 4, 3, 9>>, <<192, 5, 9>>, <<208, 4, 0>>, <<208, 4, 1>>,
               <<224, 9, 5>>, <<232, 8>>, <<236, 0, 15>>, <<240, 8, 9>>, <<240, 8, 8>>,
               <<248, 8, 0>>, <<253, 1, 8, 0, 1>>}}
    \cup {<<20, n>> : n \in 0..1} \cup {<<104>> \o n : n \in {<<0>>, <<2>>, <<32, 7>>, <<35, 255, 255, 255, 255>>}}
    \cup {<<103, 9, 164, 131, 1>>, <<223, 0, 0, 2, 1, 2>>, <<223, 0, 0, 1, 1>>}

ShownCodes == {c \in Statements : \E r \in StatementAt(c, 0) : r.end = Len(c)}
=============================================================================
