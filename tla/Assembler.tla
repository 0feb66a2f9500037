------------------------------ MODULE Assembler ------------------------------
(***************************************************************************)
(* mc7p_assemble_one of mc7plus_asm.c beside the disassembler it inverts:  *)
(* a statement is shown as a line of text, a user types another line, the  *)
(* assembler turns it into bytes or refuses it, and the bytes are shown    *)
(* again.  A line is an operator's name, its flags and its operands' texts *)
(* (OperandText); splitting it at blanks, upper case and the size of the   *)
(* output buffer are left out, and so are the forms of the last resort     *)
(* that the table accepts already (LABEL, JMP, RET with an operand).       *)
(***************************************************************************)
EXTENDS StatementAt, OperandText, OperandEncoder, SequencesExt

CONSTANTS
    Names,     \* mc7p_ops[].name: op number -> name
    Typed,     \* the lines a user may type
    Codes      \* the statements a program may show

VARIABLES
    line,      \* the text
    bytes      \* the statement assembled from it or shown by it, <<>> if none

vars == <<line, bytes>>

Line == [name : {Names[n] : n \in DOMAIN Ops}, flags : SUBSET Nat,
         operands : Seq(AnyText)]

ASSUME AssemblerAssumption ==
    /\ DOMAIN Names = DOMAIN Ops
    /\ Typed \subseteq Line
    /\ Codes \subseteq Seq(Byte)

(* What the assembler takes for granted of the table.  Every row of        *)
(* mc7p_ops has it: a code of its own, found by its first byte; bits for   *)
(* its flags and its coded types that nothing else uses; a count that is a *)
(* UDInt; no string type where an address is forced.                       *)
FieldBits(p) ==
    CASE p.kind = "flag"   -> {p.bit}
      [] p.kind = "coding" -> {p.bit + k : k \in 0..(CodingWidth(p) - 1)}

FieldsApart(op) ==
    LET fields == {i \in DOMAIN op.params : op.params[i].kind \in {"flag", "coding"}}
        bits(i) == FieldBits(op.params[i])
    IN  /\ \A i \in fields : /\ bits(i) \subseteq 0..7
                             /\ bits(i) \cap BitsOf(op.code[op.params[i].byte + 1]) = {}
        /\ \A i, j \in fields : i # j /\ op.params[i].byte = op.params[j].byte
                                => bits(i) \cap bits(j) = {}
        /\ Cardinality({i \in fields : op.params[i].kind = "flag"}) <= MaxFlags

TypesCoded(p) ==
    p.kind = "coding" =>
        /\ \A k \in DOMAIN p.pairs : p.pairs[k][2] \in Byte
        /\ \A k \in DOMAIN p.pairs : \A b \in BitsOf(p.pairs[k][2]) :
               p.bit + b \in FieldBits(p)
        /\ \A k, m \in DOMAIN p.pairs : p.pairs[k][1] = p.pairs[m][1] => k = m

IdentPlain(p) ==
    p.kind = "ident" =>
        /\ p.mode = Mode.Len => p.predef = OT.UDInt /\ ~p.ref
        /\ p.mode = Mode.Direct => p.predef \notin {OT.String, OT.WString} /\ ~p.ref

ASSUME RowAssumption ==
    /\ RowsApart
    /\ \A n \in DOMAIN Ops :
           /\ Ops[n].code # <<>>
           /\ \A b \in Byte : ByteMatches(Ops[n], 0, b) => n \in FirstIndex(b)
           /\ Len(Ops[n].params) <= MaxOperands
           /\ FieldsApart(Ops[n])
           /\ \A i \in DOMAIN Ops[n].params :
                  TypesCoded(Ops[n].params[i]) /\ IdentPlain(Ops[n].params[i])
----------------------------------------------------------------------------
\* mc7p_disassemble_one and mc7p_render_statement.
Listing(code) ==
    {[name |-> Names[r.op], flags |-> r.flags,
      operands |-> [i \in DOMAIN r.operands |-> Printed(r.operands[i])]] :
        r \in StatementAt(code, 0)}

\* mc7p_name_to_op: the first operator of that name.
OpNamed(name) ==
    {n \in DOMAIN Ops : Names[n] = name /\ \A m \in DOMAIN Ops :
                                               Names[m] = name => n <= m}

\* The operands of a line: {} when the parser refuses one of them.
Only(set) == CHOOSE x \in set : TRUE

ParsedLine(operands) ==
    IF \E i \in DOMAIN operands : Parsed(operands[i]) = {} THEN {}
    ELSE {[i \in DOMAIN operands |-> Only(Parsed(operands[i]))]}

(* mc7p_operand_ref_type: a parameter refers to a type by its number among *)
(* the types of the row, the nearest before it in every row of the table,  *)
(* and gets the type operand of that number, wherever it is in the line.   *)
RefType(own, accs, i) ==
    LET ref   == Cardinality({j \in 1..(i - 1) : own[j].kind \in {"type", "coding"}})
        types == {j \in DOMAIN accs : accs[j].kind = "type"}
        named == {j \in types : Cardinality({k \in types : k <= j}) = ref}
    IN  IF own[i].ref /\ named # {} THEN accs[CHOOSE j \in named : TRUE].dt
                                   ELSE OT.Undef

\* What the operand of the i-th parameter adds behind the code.
EncodeParam(own, accs, i) ==
    LET p == own[i]
    IN  CASE p.kind = "coding" -> {<<>>}
          [] p.kind = "type"   -> IF accs[i].kind = "type"
                                  THEN EncodeOperand(accs[i], 0, 0, 0) ELSE {}
          [] p.kind = "cond"   -> IF accs[i].kind = "cond"
                                  THEN EncodeOperand(accs[i], 0, 0, 0) ELSE {}
          [] p.kind = "ident"  -> EncodeOperand(accs[i], p.predef, p.mode,
                                                RefType(own, accs, i))

\* The bits a coded type sets in the code; the first of equal types counts.
CodingBits(p, acc) ==
    LET hits == {k \in DOMAIN p.pairs : p.pairs[k][1] = acc.dt}
    IN  IF acc.kind # "type" \/ hits = {} THEN {}
        ELSE {ShiftLeft(BitsOf(p.pairs[Min(hits)][2]), p.bit)}

\* The operands' bytes one after another, {} when one of them has none.
Joined(parts) ==
    IF \E i \in DOMAIN parts : parts[i] = {} THEN {}
    ELSE {FlattenSeq([i \in DOMAIN parts |-> Only(parts[i])])}

(* mc7p_assemble_table: flags and coded types are ored into the code, and  *)
(* each operand meets one parameter.                                       *)
AssembleRow(op, flags, accs) ==
    LET own    == OwnParams(op)
        coded  == {i \in DOMAIN own : own[i].kind = "coding"}
        set(b) == {p.bit : p \in {q \in ParamsOf(op, "flag") :
                                      q.byte = b /\ q.flag \in flags}}
                  \cup UNION {Only(CodingBits(own[i], accs[i])) :
                                  i \in {j \in coded : own[j].byte = b}}
        code   == [b \in DOMAIN op.code |->
                      ByteAt(BitsOf(op.code[b]) \cup set(b - 1), 0)]
    IN  IF Len(accs) # Len(own) \/ \E i \in coded : CodingBits(own[i], accs[i]) = {}
        THEN {}
        ELSE {code \o operands : operands \in
                  Joined([i \in DOMAIN own |-> EncodeParam(own, accs, i)])}

AssembleTable(l) ==
    UNION {AssembleRow(Ops[n], l.flags, accs) :
           n \in OpNamed(l.name), accs \in ParsedLine(l.operands)}
----------------------------------------------------------------------------
(* mc7p_assemble_selected: MOVE, the arithmetic operators and LD_CMP have  *)
(* an encoding of their own, written beside the table's.                   *)
ArithmeticCodes ==
    [ADD |-> 32, SUB |-> 33, MUL |-> 34, DIV |-> 35, MOD |-> 36,
     AND |-> 40, OR |-> 41, XOR |-> 42]

Shortcut(code, flags, kinds, modes) ==
    [code |-> code, flags |-> flags, kinds |-> kinds, modes |-> modes]

ShortcutOf(name) ==
    CASE name = "MOVE" ->
             {Shortcut(<<224>>, {<<Flag.Cond, 1, 0>>, <<Flag.ENO, 1, 1>>},
                       <<"type">>, <<Mode.Dest, Mode.Src>>)}
      [] name \in DOMAIN ArithmeticCodes ->
             {Shortcut(<<240, ArithmeticCodes[name]>>,
                       {<<Flag.Cond, 1, 0>>, <<Flag.ENO, 1, 1>>, <<Flag.STW, 1, 2>>},
                       <<"type">>, <<Mode.Dest, Mode.Src, Mode.Src>>)}
      [] name = "LD_CMP" ->
             {Shortcut(<<248, 112>>, {<<Flag.STW, 2, 0>>}, <<"cond", "type">>,
                       <<Mode.Src, Mode.Src>>)}
      [] OTHER -> {}

(* The table has the rows of these operators as they are written here.     *)
IsRowOf(op, s) ==
    LET own == OwnParams(op)
        k   == Len(s.kinds)
    IN  /\ op.code = s.code
        /\ {<<p.flag, p.byte + 1, p.bit>> : p \in ParamsOf(op, "flag")} = s.flags
        /\ Len(own) = k + Len(s.modes)
        /\ \A i \in 1..k : own[i].kind = s.kinds[i]
        /\ \A i \in 1..Len(s.modes) :
               /\ own[k + i].kind = "ident" /\ own[k + i].ref
               /\ own[k + i].predef = OT.Undef /\ own[k + i].mode = s.modes[i]

ASSUME ShortcutAssumption ==
    \A n \in DOMAIN Ops : \A s \in ShortcutOf(Names[n]) : IsRowOf(Ops[n], s)

\* Mutant: LD_CMP sets its flag in the first byte, as ADD does.
ShortcutCodeFirstByte(s, flags) ==
    [b \in DOMAIN s.code |->
        ByteAt(BitsOf(s.code[b])
               \cup {f[3] : f \in {g \in s.flags : g[1] \in flags /\ b = 1}}, 0)]

\* The code of an operator with its flags: the byte and the bit of each.
ShortcutCode(s, flags) ==
    [b \in DOMAIN s.code |->
        ByteAt(BitsOf(s.code[b])
               \cup {f[3] : f \in {g \in s.flags : g[1] \in flags /\ g[2] = b}}, 0)]

AssembleShortcut(s, flags, accs) ==
    LET k    == Len(s.kinds)
        part(i) == IF i <= k THEN EncodeOperand(accs[i], 0, 0, 0)
                   ELSE EncodeOperand(accs[i], OT.Undef, s.modes[i - k], accs[k].dt)
    IN  IF Len(accs) # k + Len(s.modes) \/ \E i \in 1..k : accs[i].kind # s.kinds[i]
        THEN {}
        ELSE {ShortcutCode(s, flags) \o operands :
                  operands \in Joined([i \in DOMAIN accs |-> part(i)])}

AssembleSelected(l) ==
    UNION {AssembleShortcut(s, l.flags, accs) :
           s \in ShortcutOf(l.name), accs \in ParsedLine(l.operands)}

(* The forms of the last resort ignore what follows the name; of the rows  *)
(* of these operators only RET has operands.                               *)
ASSUME LastResortAssumption ==
    \A n \in DOMAIN Ops :
        /\ Names[n] \in {"NOP", "NOT", "SET_RLO", "STATION", "NOP_FF"}
           => OwnParams(Ops[n]) = <<>>
        /\ Names[n] = "RET" => OwnParams(Ops[n]) # <<>>

LastResort(l) ==
    LET plain == [NOP |-> <<0>>, NOT |-> <<1>>, SET_RLO |-> <<2>>,
                  STATION |-> <<5>>, NOP_FF |-> <<255, 255>>, RET |-> <<20, 1>>]
    IN  {plain[n] : n \in {m \in {l.name} \cap DOMAIN plain :
                               l.flags = {} /\ (m = "RET" => l.operands = <<>>)}}

\* mc7p_assemble_one
AssembleOne(l) ==
    LET first  == AssembleSelected(l)
        second == IF first = {} THEN AssembleTable(l) ELSE first
    IN  IF second = {} THEN LastResort(l) ELSE second
----------------------------------------------------------------------------
\* A program shows one of its statements, or a user types a line.
Init ==
    \/ bytes \in Codes /\ line \in Listing(bytes)
    \/ bytes = <<>> /\ line \in Typed

\* mc7p_assemble_one: a line it refuses (-1) stays as it is.
Assemble ==
    /\ bytes' \in AssembleOne(line)
    /\ UNCHANGED line

\* The bytes are shown.
Disassemble ==
    /\ bytes # <<>>
    /\ line' \in Listing(bytes)
    /\ UNCHANGED bytes

Next == Assemble \/ Disassemble

Spec == Init /\ [][Next]_vars
----------------------------------------------------------------------------
\* The state's types: lines and bytes.
TypeOK ==
    /\ line \in Line
    /\ bytes \in Seq(Byte)
----------------------------------------------------------------------------
(* What the assembler is for, and the lines that it is not: a number that  *)
(* needs more bytes than the header can count (mc7plus_asm.c:268), a data  *)
(* block above 16383 with an offset, whose header no decoder reads (:789), *)
(* an operand of another kind than its parameter (:879), a count that is   *)
(* not the number of targets (:980).                                       *)
FitsHeader(acc) ==
    LET fits(dt, offset) == \A o \in Written(dt, offset) : o \subseteq 0..31
        number(n) == n \subseteq 0..29
    IN  CASE acc.kind \in {"slot", "ptr"} -> number(acc.number)
          [] acc.kind = "mem" -> fits(acc.dt, acc.offset)
          [] acc.kind = "db"  -> /\ fits(acc.dt, acc.offset)
                                 /\ IF acc.offset = {} THEN number(acc.number)
                                    ELSE acc.number \subseteq 0..13
          [] acc.kind = "indirect" -> /\ number(acc.sub[2].number)
                                      /\ fits(OT.Void, acc.sub[2].value)
          [] OTHER -> TRUE

FitsParam(p, acc) ==
    LET system == acc.kind = "ptr" /\ acc.scope = Scope.NativeSystem
    IN  p.kind = "ident" =>
            /\ acc.kind \notin {"type", "cond"}
            /\ system => p.mode \in {Mode.Pointer, Mode.SysPtr}
            /\ p.mode = Mode.Len => acc.kind = "imm" /\ acc.value = {0}

Fits(op, accs) ==
    LET own == OwnParams(op)
    IN  /\ Len(own) = Len(accs)
        /\ \A i \in DOMAIN own : FitsParam(own[i], accs[i]) /\ FitsHeader(accs[i])

\* What mc7p_assemble_table reads from a line: the row and the operands.
ReadLine(l) ==
    {[op |-> Ops[n], accs |-> accs] :
        n \in OpNamed(l.name), accs \in ParsedLine(l.operands)}

Proper(l) == \E s \in ReadLine(l) : Fits(s.op, s.accs)

(* An assembled line is one statement of the line's operator, all of its   *)
(* bytes and with the flags the operator has: `d != n' of                  *)
(* test_mc7plus_asm_roundtrip.c, for each operand in each parameter.       *)
WholeStatement ==
    bytes \in AssembleOne(line) /\ Proper(line) =>
        \E r \in StatementAt(bytes, 0) :
            /\ r.end = Len(bytes)
            /\ Names[r.op] = line.name
            /\ r.flags = line.flags \cap {p.flag : p \in ParamsOf(Ops[r.op], "flag")}

(* The place or the number an operand stands for: a number counts as far   *)
(* as its type is wide, a count or a label in full; the width of a slot    *)
(* that is an offset is not coded, and a slot as wide as a pointer is the  *)
(* pointer of its number.                                                  *)
AsPointer(acc) ==
    IF acc.kind = "slot" /\ acc.range = SlotRange.Pointer
    THEN Pointer(acc.scope, acc.number) ELSE acc

Denotes(acc, width) ==
    [AsPointer(acc) EXCEPT !.dt = 0, !.value = LowBits(@, width), !.real = FALSE,
        !.sub = IF acc.kind # "indirect" THEN <<>>
                ELSE <<[@[1] EXCEPT !.dt = 0], [@[2] EXCEPT !.dt = 0, !.range = 0]>>]

\* The type a number takes from its parameter.
TypeFor(op, accs, i) ==
    LET own == OwnParams(op)
        p   == own[i]
    IN  IF p.kind # "ident" THEN OT.Void
        ELSE IF p.predef # OT.Undef THEN p.predef ELSE RefType(own, accs, i)

NumberWidth(op, accs, i) ==
    IF OwnParams(op)[i].mode \in {Mode.Id, Mode.Len} THEN 64
    ELSE ImmediateWidth(TypeFor(op, accs, i))

\* A number where the line's types ask for a Bool: it becomes 0 (:640).
NumberForBool(op, accs, i) ==
    accs[i].kind = "imm" /\ accs[i].dt = OT.Undef /\ TypeFor(op, accs, i) = OT.Bool

\* A coded type whose code stands for another type as well, as in STR_LEN.
SharedCode(op, accs, i) ==
    LET pairs == OwnParams(op)[i].pairs
    IN  /\ OwnParams(op)[i].kind = "coding"
        /\ \E k, m \in DOMAIN pairs : k # m /\ pairs[k][1] = accs[i].dt
                                      /\ pairs[k][2] = pairs[m][2]

\* An indirect operand has two kinds of pointer only (:826).
OtherBase(acc) ==
    acc.kind = "indirect"
    /\ acc.sub[1].scope \notin {Scope.NativeBlock, Scope.NativeLocal}

(* The operands of the assembled bytes stand for what the operands of the  *)
(* line do.  Not kept are a number for a Bool, a type that shares its code *)
(* with another and the base of an indirect operand that is global or the  *)
(* caller's.                                                               *)
MeaningKept ==
    bytes \in AssembleOne(line) /\ Proper(line) =>
        \A r \in StatementAt(bytes, 0), s \in ReadLine(line) :
            /\ DOMAIN r.operands = DOMAIN s.accs
            /\ \A i \in DOMAIN s.accs :
                   LET width == NumberWidth(s.op, s.accs, i)
                   IN  \/ Denotes(r.operands[i], width) = Denotes(s.accs[i], width)
                       \/ NumberForBool(s.op, s.accs, i)
                       \/ SharedCode(s.op, s.accs, i)
                       \/ OtherBase(s.accs[i])

(* What is shown reads back, if it does, as what the bytes stand for: a    *)
(* UDInt in the 32 bits that it prints, all else in full.  Not kept are    *)
(* the ranges of a data block that have no name (they print as DB,         *)
(* mc7plus.c:1545) and a Bool that is neither 0 nor 1 (:1425).             *)
ShownReadsBack ==
    bytes # <<>> /\ line \in Listing(bytes) =>
        \A r \in StatementAt(bytes, 0) : \A i \in DOMAIN r.operands :
            LET acc   == r.operands[i]
                width == IF acc.dt = OT.UDInt THEN 32 ELSE 64
            IN  \A read \in Parsed(line.operands[i]) :
                    \/ Denotes(read, width) = Denotes(acc, width)
                    \/ acc.kind = "db" /\ acc.range \notin NamedRanges
                    \/ acc.kind = "imm" /\ acc.dt = OT.Bool /\ acc.value \notin {{}, {0}}

\* A UDInt prints 32 bits; the assembler writes all 64 (:672).
LongCount(op, accs, i) ==
    /\ OwnParams(op)[i].kind = "ident" /\ OwnParams(op)[i].predef = OT.UDInt
    /\ accs[i].kind = "imm" /\ ~(accs[i].value \subseteq 0..31)

(* Assembling what the assembled bytes show gives the same bytes or is     *)
(* refused: patching a statement with its own text never changes it again. *)
(* A type that shares its code may come back as a type of another width.   *)
Settled ==
    bytes \in AssembleOne(line) /\ Proper(line) =>
        \A l \in Listing(bytes) :
            \/ AssembleOne(l) \subseteq {bytes}
            \/ \E s \in ReadLine(l) : \E i \in DOMAIN s.accs :
                   NumberForBool(s.op, s.accs, i)
            \/ \E s \in ReadLine(line) : \E i \in DOMAIN s.accs :
                   LongCount(s.op, s.accs, i) \/ SharedCode(s.op, s.accs, i)

(* The encodings of mc7p_assemble_selected are those of the table, for     *)
(* every line they accept.                                                 *)
ShortcutsAgree ==
    AssembleSelected(line) = {} \/ AssembleSelected(line) = AssembleTable(line)
=============================================================================
