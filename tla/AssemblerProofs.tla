--------------------------- MODULE AssemblerProofs ----------------------------
(***************************************************************************)
(* What the assembler does for every operator table and every line: what   *)
(* it writes are bytes and what it shows are lines; the operators that are *)
(* encoded beside the table are encoded as the table does it; the bytes    *)
(* are one statement that means what the line says, and what is shown of   *)
(* them reads back as the same.                                            *)
(***************************************************************************)
EXTENDS OperandReadBackProofs

(* The operands' bytes one after another.  Flat is the function that       *)
(* FlattenSeq computes: the first k sequences joined.                      *)
IsFlat(f, s, n) == f = [i \in 1..n |-> IF i = 1 THEN s[i] ELSE f[i-1] \o s[i]]
Flat(s, n) == CHOOSE f : IsFlat(f, s, n)

LEMMA FlatExists ==
  ASSUME NEW s, NEW n \in Nat
  PROVE  \E f : IsFlat(f, s, n)
  <1> DEFINE S == {m \in Nat : \E f : IsFlat(f, s, m)}
  <1>1. 0 \in S
    <2> DEFINE f == [i \in 1..0 |-> s]
    <2>1. f = [i \in 1..0 |-> IF i = 1 THEN s[i] ELSE f[i-1] \o s[i]]
      OBVIOUS
    <2> QED BY <2>1 DEF IsFlat
  <1>2. ASSUME NEW m \in Nat, m \in S
      PROVE  m + 1 \in S
    <2>1. PICK f : f = [i \in 1..m |-> IF i = 1 THEN s[i] ELSE f[i-1] \o s[i]]
      BY <1>2 DEF IsFlat
    <2> DEFINE g == [i \in 1..(m + 1) |->
              IF i <= m THEN f[i] ELSE IF i = 1 THEN s[i] ELSE f[m] \o s[i]]
    <2>2. ASSUME NEW i \in 1..(m + 1)
        PROVE  g[i] = IF i = 1 THEN s[i] ELSE g[i-1] \o s[i]
      <3>1. CASE i = 1
        BY <2>1, <3>1
      <3>2. CASE i \in 2..m
        <4>1. i \in 1..m /\ i - 1 \in 1..m /\ i - 1 \in 1..(m + 1) /\ i # 1
            /\ i <= m /\ i - 1 <= m
          BY <3>2
        <4>2. f[i] = f[i-1] \o s[i]
          BY <2>1, <4>1
        <4>3. g[i] = f[i] /\ g[i-1] = f[i-1]
          BY <4>1
        <4> HIDE DEF g
        <4> QED BY <4>1, <4>2, <4>3
      <3>3. CASE i = m + 1 /\ i # 1
        <4>1. i - 1 = m /\ m \in 1..(m + 1) /\ ~(i <= m) /\ m <= m
          BY <3>3
        <4>2. g[i] = f[m] \o s[i] /\ g[m] = f[m]
          BY <3>3, <4>1
        <4> HIDE DEF g
        <4> QED BY <3>3, <4>1, <4>2
      <3> QED BY <3>1, <3>2, <3>3
    <2>3. g = [i \in 1..(m + 1) |-> g[i]]
      OBVIOUS
    <2> HIDE DEF g
    <2>4. g = [i \in 1..(m + 1) |-> IF i = 1 THEN s[i] ELSE g[i-1] \o s[i]]
      BY <2>2, <2>3
    <2>5. IsFlat(g, s, m + 1)
      BY <2>4 DEF IsFlat
    <2> QED BY <2>5
  <1> HIDE DEF S
  <1>3. Nat \subseteq S
    BY <1>1, <1>2, Induction
  <1> QED BY <1>3 DEF S

LEMMA FlatUnfold ==
  ASSUME NEW s, NEW n \in Nat, NEW i \in 1..n
  PROVE  Flat(s, n)[i] = IF i = 1 THEN s[i] ELSE Flat(s, n)[i-1] \o s[i]
  <1>1. IsFlat(Flat(s, n), s, n)
    BY FlatExists DEF Flat
  <1> DEFINE f == Flat(s, n)
  <1>2. f = [k \in 1..n |-> IF k = 1 THEN s[k] ELSE f[k-1] \o s[k]]
    BY <1>1 DEF IsFlat
  <1> HIDE DEF f
  <1>3. f[i] = IF i = 1 THEN s[i] ELSE f[i-1] \o s[i]
    BY <1>2
  <1> QED BY <1>3 DEF f

LEMMA FlattenTyped ==
  ASSUME NEW s \in Seq(Seq(Byte))
  PROVE  FlattenSeq(s) \in Seq(Byte)
  <1> DEFINE n == Len(s)
             S == {k \in Nat : k \in 1..n => Flat(s, n)[k] \in Seq(Byte)}
  <1>1. n \in Nat /\ \A i \in 1..n : s[i] \in Seq(Byte)
    BY DEF Byte
  <1>2. CASE n = 0
    <2>1. s = <<>>
      BY <1>2
    <2> QED BY <1>2, <2>1 DEF FlattenSeq
  <1>3. CASE n # 0
    <2>1. FlattenSeq(s) = Flat(s, n)[n]
      BY <1>3 DEF FlattenSeq, Flat, IsFlat
    <2>2. 0 \in S
      OBVIOUS
    <2>3. ASSUME NEW k \in Nat, k \in S
          PROVE  k + 1 \in S
      <3> SUFFICES ASSUME k + 1 \in 1..n PROVE Flat(s, n)[k + 1] \in Seq(Byte)
        OBVIOUS
      <3> DEFINE m == k + 1
      <3>1. m \in 1..n /\ m - 1 = k /\ s[m] \in Seq(Byte)
        BY <1>1
      <3> HIDE DEF m, n
      <3>2. Flat(s, n)[m] = IF m = 1 THEN s[m] ELSE Flat(s, n)[m - 1] \o s[m]
        BY <1>1, <3>1, FlatUnfold
      <3>3. CASE m = 1
        BY <3>1, <3>2, <3>3 DEF m
      <3>4. CASE m # 1
        <4>1. k \in 1..n /\ Flat(s, n)[k] \in Seq(Byte)
          BY <1>1, <2>3, <3>1, <3>4
        <4> HIDE DEF Byte
        <4>2. Flat(s, n)[k] \o s[m] \in Seq(Byte)
          BY <3>1, <4>1
        <4> QED BY <3>1, <3>2, <3>4, <4>2 DEF m
      <3> QED BY <3>3, <3>4
    <2> HIDE DEF S
    <2>4. Nat \subseteq S
      BY <2>2, <2>3, Induction
    <2>5. n \in 1..n
      BY <1>1, <1>3
    <2> QED BY <1>1, <2>1, <2>4, <2>5 DEF S
  <1> QED BY <1>2, <1>3

LEMMA JoinedTyped ==
  ASSUME NEW n \in Nat, NEW parts, DOMAIN parts = 1..n,
         \A i \in 1..n : parts[i] \subseteq Seq(Byte)
  PROVE  Joined(parts) \subseteq Seq(Byte)
  <1> SUFFICES ASSUME ~ \E i \in DOMAIN parts : parts[i] = {}
               PROVE  FlattenSeq([i \in DOMAIN parts |-> Only(parts[i])]) \in Seq(Byte)
    BY DEF Joined
  <1> DEFINE s == [i \in 1..n |-> Only(parts[i])]
  <1>1. ASSUME NEW i \in 1..n
        PROVE  Only(parts[i]) \in Seq(Byte)
    <2>1. parts[i] # {}
      OBVIOUS
    <2> QED BY <2>1 DEF Only
  <1>2. s \in [1..n -> Seq(Byte)]
    BY <1>1
  <1> HIDE DEF s
  <1>3. s \in Seq(Seq(Byte))
    BY <1>2
  <1>4. FlattenSeq(s) \in Seq(Byte)
    BY <1>3, FlattenTyped
  <1> QED BY <1>4 DEF s
-----------------------------------------------------------------------------
(* What is assembled is a statement's code and its operands: bytes.        *)
LEMMA ParsedLineTyped ==
  ASSUME NEW operands \in Seq(AnyText), NEW accs \in ParsedLine(operands)
  PROVE  /\ DOMAIN accs = 1..Len(operands) /\ Len(accs) = Len(operands)
         /\ Len(operands) \in Nat
         /\ \A i \in 1..Len(operands) : Encodable(accs[i])
  <1> DEFINE n == Len(operands)
  <1>1. n \in Nat /\ DOMAIN operands = 1..n
    OBVIOUS
  <1>2. /\ accs = [i \in 1..n |-> Only(Parsed(operands[i]))]
        /\ \A i \in 1..n : Parsed(operands[i]) # {}
    BY <1>1 DEF ParsedLine
  <1>3. \A i \in 1..n : operands[i] \in AnyText
    <2> HIDE DEF AnyText
    <2> QED BY <1>1
  <1> HIDE DEF n
  <1>4. ASSUME NEW i \in 1..n
        PROVE  Encodable(accs[i])
    <2>1. accs[i] \in Parsed(operands[i])
      BY <1>2 DEF Only
    <2> QED BY <1>3, <2>1, OperandParsed
  <1>5. DOMAIN accs = 1..n /\ Len(accs) = n
    BY <1>1, <1>2
  <1> QED BY <1>1, <1>4, <1>5 DEF n

LEMMA ParamEncoded ==
  ASSUME NEW own, NEW accs, NEW i, Encodable(accs[i]),
         own[i].kind \in {"coding", "type", "cond", "ident"}
  PROVE  EncodeParam(own, accs, i) \subseteq Seq(Byte)
  <1>1. EncodeOperand(accs[i], 0, 0, 0) \subseteq Seq(Byte)
    BY OperandEncoded
  <1>2. EncodeOperand(accs[i], own[i].predef, own[i].mode, RefType(own, accs, i))
            \subseteq Seq(Byte)
    BY OperandEncoded
  <1>3. <<>> \in Seq(Byte)
    OBVIOUS
  <1> QED BY <1>1, <1>2, <1>3 DEF EncodeParam

\* The code with its bits set, before the operands.
LEMMA CodeAndOperands ==
  ASSUME NEW n \in Nat, NEW code, code \in [1..n -> Byte], NEW operands \in Seq(Byte)
  PROVE  code \o operands \in Seq(Byte)
  <1> HIDE DEF Byte
  <1>1. code \in Seq(Byte)
    OBVIOUS
  <1> QED BY <1>1

LEMMA RowAssembled ==
  ASSUME NEW n \in DOMAIN Ops, NEW flags, NEW operands \in Seq(AnyText),
         NEW accs \in ParsedLine(operands)
  PROVE  AssembleRow(Ops[n], flags, accs) \subseteq Seq(Byte)
  <1> DEFINE op    == Ops[n]
             own   == OwnParams(op)
             parts == [i \in DOMAIN own |-> EncodeParam(own, accs, i)]
             coded == {i \in DOMAIN own : own[i].kind = "coding"}
             set(b) == {p.bit : p \in {q \in ParamsOf(op, "flag") :
                                           q.byte = b /\ q.flag \in flags}}
                       \cup (UNION {Only(CodingBits(own[i], accs[i])) :
                                       i \in {j \in coded : own[j].byte = b}})
             code   == [b \in DOMAIN op.code |-> ByteAt(BitsOf(op.code[b]) \cup set(b - 1), 0)]
  <1> SUFFICES ASSUME NEW r \in AssembleRow(op, flags, accs)
               PROVE  r \in Seq(Byte)
    OBVIOUS
  <1>1. Len(accs) = Len(own) /\ \E o \in Joined(parts) : r = code \o o
    BY DEF AssembleRow
  <1>2. /\ own \in Seq(Param) /\ Len(own) \in Nat /\ DOMAIN own = 1..Len(own)
        /\ \A i \in DOMAIN own : own[i].kind \in {"coding", "type", "cond", "ident"}
    <2>1. /\ own \in Seq(Param)
          /\ \A i \in DOMAIN own : own[i].kind \in {"coding", "type", "cond", "ident"}
      BY OwnParamsTyped
    <2> HIDE DEF own, Param
    <2> QED BY <2>1
  <1>3. op.code \in Seq(Byte)
    BY TableAssumption
  <1>4. Len(op.code) \in Nat /\ DOMAIN op.code = 1..Len(op.code)
    BY <1>3
  <1> HIDE DEF own, set, op
  <1>5. code \in [1..Len(op.code) -> Byte]
    BY <1>4, ByteAtIsByte DEF Byte
  <1>6. Joined(parts) \subseteq Seq(Byte)
    <2>1. \A i \in 1..Len(own) : Encodable(accs[i])
      BY <1>1, ParsedLineTyped
    <2>2. \A i \in 1..Len(own) : EncodeParam(own, accs, i) \subseteq Seq(Byte)
      BY <1>2, <2>1, ParamEncoded
    <2>3. DOMAIN parts = 1..Len(own) /\ \A i \in 1..Len(own) : parts[i] \subseteq Seq(Byte)
      BY <1>2, <2>2
    <2> HIDE DEF parts
    <2> QED BY <1>2, <2>3, JoinedTyped
  <1> HIDE DEF code, parts
  <1> QED BY <1>1, <1>4, <1>5, <1>6, CodeAndOperands

LEMMA ShortcutTyped ==
  ASSUME NEW name, NEW s \in ShortcutOf(name)
  PROVE  /\ s.code \in Seq(Byte) /\ Len(s.code) \in 1..2 /\ DOMAIN s.code = 1..Len(s.code)
         /\ Len(s.kinds) \in 1..2 /\ Len(s.modes) \in 2..3
  <1>0. "MOVE" \notin DOMAIN ArithmeticCodes /\ "LD_CMP" \notin DOMAIN ArithmeticCodes
    BY DEF ArithmeticCodes
  <1>1. ASSUME NEW b \in Byte
        PROVE  <<b>> \in Seq(Byte) /\ \A c \in Byte : <<c, b>> \in Seq(Byte)
    OBVIOUS
  <1>2. 224 \in Byte /\ 240 \in Byte /\ 248 \in Byte /\ 112 \in Byte
    BY DEF Byte
  <1>3. \A n \in DOMAIN ArithmeticCodes : ArithmeticCodes[n] \in Byte
    BY DEF ArithmeticCodes, Byte
  <1>4. CASE name = "MOVE"
    <2>1. s.code = <<224>> /\ Len(s.kinds) = 1 /\ Len(s.modes) = 2
      <3>1. s = Shortcut(<<224>>, {<<Flag.Cond, 1, 0>>, <<Flag.ENO, 1, 1>>},
                         <<"type">>, <<Mode.Dest, Mode.Src>>)
        BY <1>0, <1>4 DEF ShortcutOf
      <3> QED BY <3>1 DEF Shortcut
    <2> QED BY <1>1, <1>2, <2>1
  <1>5. CASE name \in DOMAIN ArithmeticCodes /\ name # "MOVE"
    <2>1. /\ s.code = <<240, ArithmeticCodes[name]>>
          /\ Len(s.kinds) = 1 /\ Len(s.modes) = 3
      <3>1. s = Shortcut(<<240, ArithmeticCodes[name]>>,
                         {<<Flag.Cond, 1, 0>>, <<Flag.ENO, 1, 1>>, <<Flag.STW, 1, 2>>},
                         <<"type">>, <<Mode.Dest, Mode.Src, Mode.Src>>)
        BY <1>0, <1>5 DEF ShortcutOf
      <3> QED BY <3>1 DEF Shortcut
    <2>2. s.code \in Seq(Byte)
      BY <1>1, <1>2, <1>3, <1>5, <2>1
    <2> QED BY <2>1, <2>2
  <1>6. CASE name = "LD_CMP" /\ name \notin DOMAIN ArithmeticCodes
    <2>1. s.code = <<248, 112>> /\ Len(s.kinds) = 2 /\ Len(s.modes) = 2
      BY <1>6 DEF ShortcutOf, Shortcut
    <2> QED BY <1>1, <1>2, <2>1
  <1>7. CASE name # "LD_CMP" /\ name \notin DOMAIN ArithmeticCodes /\ name # "MOVE"
    BY <1>7 DEF ShortcutOf
  <1> QED BY <1>4, <1>5, <1>6, <1>7

LEMMA ShortcutAssembled ==
  ASSUME NEW name, NEW s \in ShortcutOf(name), NEW flags,
         NEW operands \in Seq(AnyText), NEW accs \in ParsedLine(operands)
  PROVE  AssembleShortcut(s, flags, accs) \subseteq Seq(Byte)
  <1> DEFINE k == Len(s.kinds)
             code == ShortcutCode(s, flags)
             part(i) == IF i <= k THEN EncodeOperand(accs[i], 0, 0, 0)
                   ELSE EncodeOperand(accs[i], OT.Undef, s.modes[i - k], accs[k].dt)
             parts == [i \in DOMAIN accs |-> part(i)]
             n == Len(operands)
  <1> SUFFICES ASSUME NEW r \in AssembleShortcut(s, flags, accs)
               PROVE  r \in Seq(Byte)
    OBVIOUS
  <1>1. \E o \in Joined(parts) : r = code \o o
    BY DEF AssembleShortcut
  <1>2. n \in Nat /\ DOMAIN accs = 1..n /\ \A i \in 1..n : Encodable(accs[i])
    BY ParsedLineTyped
  <1>3. \A i \in 1..n : part(i) \subseteq Seq(Byte)
    BY <1>2, OperandEncoded
  <1>4. DOMAIN parts = 1..n /\ \A i \in 1..n : parts[i] \subseteq Seq(Byte)
    <2> HIDE DEF part, n
    <2> QED BY <1>2, <1>3
  <1> HIDE DEF parts, n
  <1>5. Joined(parts) \subseteq Seq(Byte)
    BY <1>2, <1>4, JoinedTyped
  <1>6. code \in [1..Len(s.code) -> Byte] /\ Len(s.code) \in Nat
    BY ShortcutTyped, ByteAtIsByte DEF Byte, ShortcutCode
  <1> HIDE DEF code
  <1> QED BY <1>1, <1>5, <1>6, CodeAndOperands

LEMMA LastResortTyped ==
  ASSUME NEW l
  PROVE  LastResort(l) \subseteq Seq(Byte)
  <1>1. ASSUME NEW b \in Byte
        PROVE  <<b>> \in Seq(Byte) /\ \A c \in Byte : <<c, b>> \in Seq(Byte)
    OBVIOUS
  <1>2. 0 \in Byte /\ 1 \in Byte /\ 2 \in Byte /\ 5 \in Byte /\ 255 \in Byte /\ 20 \in Byte
    BY DEF Byte
  <1> HIDE DEF Byte
  <1> QED BY <1>1, <1>2 DEF LastResort

LEMMA AssembleOneTyped ==
  ASSUME NEW l \in Line
  PROVE  AssembleOne(l) \subseteq Seq(Byte)
  <1>1. l.operands \in Seq(AnyText)
    BY DEF Line
  <1>2. AssembleTable(l) \subseteq Seq(Byte)
    BY <1>1, RowAssembled DEF AssembleTable, OpNamed
  <1>3. AssembleSelected(l) \subseteq Seq(Byte)
    BY <1>1, ShortcutAssembled DEF AssembleSelected
  <1>4. LastResort(l) \subseteq Seq(Byte)
    BY LastResortTyped
  <1> QED BY <1>2, <1>3, <1>4 DEF AssembleOne

\* What is shown of a statement is a line that could be typed.
LEMMA ListingTyped ==
  ASSUME NEW code \in Seq(Byte)
  PROVE  Listing(code) \subseteq Line
  <1> SUFFICES ASSUME NEW r \in StatementAt(code, 0)
               PROVE  [name |-> Names[r.op], flags |-> r.flags,
                       operands |-> [i \in DOMAIN r.operands |-> Printed(r.operands[i])]] \in Line
    BY DEF Listing
  <1>1. r \in Reading
    BY StatementTyped
  <1>2. r.op \in DOMAIN Ops /\ r.flags \subseteq Nat /\ r.operands \in Seq(Access)
    BY <1>1 DEF Reading
  <1> DEFINE shown == [i \in DOMAIN r.operands |-> Printed(r.operands[i])]
  <1>3. shown \in Seq(AnyText)
    <2> DEFINE n == Len(r.operands)
    <2> HIDE DEF Access, AnyText
    <2>1. n \in Nat /\ DOMAIN r.operands = 1..n /\ \A i \in 1..n : r.operands[i] \in Access
      BY <1>2
    <2>2. \A i \in 1..n : Printed(r.operands[i]) \in AnyText
      BY <2>1, OperandPrinted
    <2>3. shown \in [1..n -> AnyText]
      BY <2>1, <2>2
    <2> HIDE DEF shown, n
    <2> QED BY <2>1, <2>3
  <1> HIDE DEF shown, AnyText
  <1>4. Names[r.op] \in {Names[n] : n \in DOMAIN Ops}
    BY <1>2
  <1> HIDE DEF shown
  <1>5. [name |-> Names[r.op], flags |-> r.flags, operands |-> shown] \in Line
    BY <1>2, <1>3, <1>4 DEF Line
  <1> QED BY <1>5 DEF shown

(* Whatever the table, the statements of the program and the lines typed:  *)
(* the text is a line of the table's operators and the bytes are bytes.    *)
(* No encoder reads an operand of another form than it was parsed to, no   *)
(* header is more than a byte, and whatever the decoder finds in a         *)
(* statement has a text (mc7p_assemble_one, mc7p_render_statement).        *)
THEOREM AssemblerTypeCorrect == Spec => []TypeOK
  <1>1. Init => TypeOK
    <2> SUFFICES ASSUME Init PROVE TypeOK
      OBVIOUS
    <2>1. CASE bytes \in Codes /\ line \in Listing(bytes)
      BY <2>1, AssemblerAssumption, ListingTyped DEF TypeOK
    <2>2. CASE bytes = <<>> /\ line \in Typed
      <3>1. bytes \in Seq(Byte)
        BY <2>2
      <3> QED BY <2>2, <3>1, AssemblerAssumption DEF TypeOK
    <2> QED BY <2>1, <2>2 DEF Init
  <1>2. TypeOK /\ [Next]_vars => TypeOK'
    <2> SUFFICES ASSUME TypeOK, [Next]_vars PROVE TypeOK'
      OBVIOUS
    <2>1. CASE Assemble
      BY <2>1, AssembleOneTyped DEF TypeOK, Assemble
    <2>2. CASE Disassemble
      BY <2>2, ListingTyped DEF TypeOK, Disassemble
    <2>3. CASE UNCHANGED vars
      BY <2>3 DEF TypeOK, vars
    <2> QED BY <2>1, <2>2, <2>3 DEF Next
  <1> QED BY <1>1, <1>2, PTL DEF Spec
-----------------------------------------------------------------------------
(* The operators that are encoded beside the table.  Their row has one     *)
(* type, at place k, and its idents all refer to it.                       *)
LEMMA ShortcutKinds ==
  ASSUME NEW name, NEW s \in ShortcutOf(name)
  PROVE  /\ Len(s.kinds) \in 1..2
         /\ s.kinds[Len(s.kinds)] = "type"
         /\ \A i \in 1..Len(s.kinds) : i # Len(s.kinds) => s.kinds[i] = "cond"
         /\ \A t \in ShortcutOf(name) : s = t
  <1>0. "MOVE" \notin DOMAIN ArithmeticCodes /\ "LD_CMP" \notin DOMAIN ArithmeticCodes
    BY DEF ArithmeticCodes
  <1>1. \E a, b, c : /\ ShortcutOf(name) = {Shortcut(a, b, <<"type">>, c)}
                     /\ s = Shortcut(a, b, <<"type">>, c)
        \/ /\ ShortcutOf(name) = {Shortcut(a, b, <<"cond", "type">>, c)}
           /\ s = Shortcut(a, b, <<"cond", "type">>, c)
    BY <1>0 DEF ShortcutOf
  <1>2. (s.kinds = <<"type">> \/ s.kinds = <<"cond", "type">>)
        /\ \A t \in ShortcutOf(name) : s = t
    BY <1>1 DEF Shortcut
  <1>3. 1 \in 1..2 /\ 2 \in 1..2 /\ <<"type">>[1] = "type" /\ <<"cond", "type">>[2] = "type"
        /\ <<"cond", "type">>[1] = "cond" /\ Len(<<"type">>) = 1 /\ Len(<<"cond", "type">>) = 2
    OBVIOUS
  <1>4. CASE s.kinds = <<"type">>
    BY <1>2, <1>3, <1>4
  <1>5. CASE s.kinds = <<"cond", "type">>
    BY <1>2, <1>3, <1>5
  <1> QED BY <1>2, <1>4, <1>5

\* A finite set that has k and something else has not one element.
LEMMA OnlyOne ==
  ASSUME NEW S, IsFiniteSet(S), NEW k \in S
  PROVE  Cardinality(S) = 1 <=> S = {k}
  BY FS_Singleton

TypedAt(own, accs, n, k) ==
  /\ DOMAIN accs = 1..n
  /\ own[k].kind = "type" /\ accs[k].kind = "type"
  /\ \A j \in 1..n : own[j].kind \in {"type", "coding"} => j = k
  /\ \A j \in 1..(k - 1) : accs[j].kind # "type"

LEMMA ShortcutRefType ==
  ASSUME NEW own, NEW accs, NEW n \in Nat, NEW k \in 1..n, TypedAt(own, accs, n, k),
         NEW i \in (k + 1)..n, own[i].ref
  PROVE  RefType(own, accs, i) = accs[k].dt
  <1> DEFINE before == {j \in 1..(i - 1) : own[j].kind \in {"type", "coding"}}
             types  == {j \in DOMAIN accs : accs[j].kind = "type"}
             upto(j) == {x \in types : x <= j}
             named  == {j \in types : Cardinality(upto(j)) = Cardinality(before)}
  <1> USE DEF TypedAt
  <1>1. before = {k} /\ Cardinality(before) = 1
    <2>1. before = {k}
      OBVIOUS
    <2> QED BY <2>1, FS_Singleton
  <1>2. \A j \in types : IsFiniteSet(upto(j)) /\ j \in upto(j)
    <2> SUFFICES ASSUME NEW j \in types PROVE IsFiniteSet(upto(j)) /\ j \in upto(j)
      OBVIOUS
    <2>1. upto(j) \subseteq 1..n /\ j \in upto(j)
      OBVIOUS
    <2>2. IsFiniteSet(1..n)
      BY FS_Interval
    <2> QED BY <2>1, <2>2, FS_Subset
  <1>3. k \in types /\ \A j \in types : j >= k /\ k \in upto(j)
    OBVIOUS
  <1>4. upto(k) = {k}
    BY <1>3
  <1>5. \A j \in types : j # k => upto(j) # {k}
    BY <1>2
  <1> HIDE DEF before, types, upto
  <1>6. \A j \in types : Cardinality(upto(j)) = 1 <=> j = k
    BY <1>2, <1>3, <1>4, <1>5, OnlyOne
  <1>7. named = {k}
    BY <1>1, <1>3, <1>6
  <1>8. RefType(own, accs, i) = accs[CHOOSE j \in named : TRUE].dt
    BY <1>7 DEF RefType, named, upto, types, before
  <1> HIDE DEF named
  <1> QED BY <1>7, <1>8

\* A condition or none, the type, and idents that refer to it.
ShortcutShape(own, accs, k, m, modes) ==
  /\ DOMAIN accs = 1..(k + m) /\ own[k].kind = "type" /\ accs[k].kind = "type"
  /\ \A j \in 1..(k - 1) : own[j].kind = "cond" /\ accs[j].kind = "cond"
  /\ \A j \in 1..m : /\ own[k + j].kind = "ident" /\ own[k + j].ref
                     /\ own[k + j].predef = OT.Undef /\ own[k + j].mode = modes[j]

LEMMA ShortcutParam ==
  ASSUME NEW own, NEW accs, NEW modes, NEW k \in 1..2, NEW m \in 2..3,
         ShortcutShape(own, accs, k, m, modes), NEW i \in 1..(k + m)
  PROVE  /\ own[i].kind # "coding"
         /\ EncodeParam(own, accs, i) =
                IF i <= k THEN EncodeOperand(accs[i], 0, 0, 0)
                ELSE EncodeOperand(accs[i], OT.Undef, modes[i - k], accs[k].dt)
  <1> USE DEF ShortcutShape
  <1>1. k \in Nat /\ m \in Nat /\ k + m \in Nat /\ k \in 1..(k + m)
    OBVIOUS
  <1>2. \A j \in 1..(k + m) : j < k \/ j = k \/ j > k
    OBVIOUS
  <1>3. \A j \in (k + 1)..(k + m) : /\ own[j].kind = "ident" /\ own[j].ref
                                    /\ own[j].predef = OT.Undef /\ own[j].mode = modes[j - k]
    <2> SUFFICES ASSUME NEW j \in (k + 1)..(k + m)
                 PROVE  /\ own[j].kind = "ident" /\ own[j].ref
                        /\ own[j].predef = OT.Undef /\ own[j].mode = modes[j - k]
      OBVIOUS
    <2>1. j - k \in 1..m /\ k + (j - k) = j
      OBVIOUS
    <2> QED BY <2>1
  <1>4. CASE i = k
    BY <1>1, <1>4 DEF EncodeParam
  <1>5. CASE i < k
    <2>1. own[i].kind = "cond" /\ accs[i].kind = "cond" /\ i <= k
      BY <1>5
    <2> QED BY <2>1 DEF EncodeParam
  <1>6. CASE i > k
    <2>1. \A j \in 1..(k + m) : own[j].kind \in {"type", "coding"} => j = k
      <3> SUFFICES ASSUME NEW j \in 1..(k + m), j # k PROVE own[j].kind \notin {"type", "coding"}
        OBVIOUS
      <3>1. CASE j \in 1..(k - 1)
        BY <3>1
      <3>2. CASE j \in (k + 1)..(k + m)
        BY <1>3, <3>2
      <3> QED BY <3>1, <3>2
    <2>2. i \in (k + 1)..(k + m) /\ ~(i <= k)
      BY <1>6
    <2>3. /\ own[i].kind = "ident" /\ own[i].ref
          /\ own[i].predef = OT.Undef /\ own[i].mode = modes[i - k]
      BY <1>3, <2>2
    <2>4. \A j \in 1..(k - 1) : accs[j].kind # "type"
      OBVIOUS
    <2>5. TypedAt(own, accs, k + m, k)
      BY <2>1, <2>4 DEF TypedAt
    <2>6. RefType(own, accs, i) = accs[k].dt
      <3> DEFINE n == k + m
      <3>1. n \in Nat /\ k \in 1..n /\ TypedAt(own, accs, n, k) /\ i \in (k + 1)..n
        BY <1>1, <2>2, <2>5
      <3> HIDE DEF n, ShortcutShape
      <3> QED BY <2>3, <3>1, ShortcutRefType
    <2> QED BY <2>2, <2>3, <2>6 DEF EncodeParam
  <1> QED BY <1>2, <1>4, <1>5, <1>6

LEMMA ShortcutIsRow ==
  ASSUME NEW row \in DOMAIN Ops, NEW s \in ShortcutOf(Names[row]), NEW flags,
         NEW operands \in Seq(AnyText), NEW accs \in ParsedLine(operands),
         AssembleShortcut(s, flags, accs) # {}
  PROVE  AssembleShortcut(s, flags, accs) = AssembleRow(Ops[row], flags, accs)
  <1> DEFINE op    == Ops[row]
             k     == Len(s.kinds)
             m     == Len(s.modes)
             own   == OwnParams(op)
             coded == {i \in DOMAIN own : own[i].kind = "coding"}
             set(b) == {p.bit : p \in {q \in ParamsOf(op, "flag") :
                                           q.byte = b /\ q.flag \in flags}}
                       \cup (UNION {Only(CodingBits(own[i], accs[i])) :
                                       i \in {j \in coded : own[j].byte = b}})
             code   == [b \in DOMAIN op.code |-> ByteAt(BitsOf(op.code[b]) \cup set(b - 1), 0)]
             part(i) == IF i <= k THEN EncodeOperand(accs[i], 0, 0, 0)
                        ELSE EncodeOperand(accs[i], OT.Undef, s.modes[i - k], accs[k].dt)
  <1>1. Len(accs) = k + m /\ \A j \in 1..k : accs[j].kind = s.kinds[j]
    BY DEF AssembleShortcut
  <1>2. /\ k \in 1..2 /\ m \in 2..3 /\ s.kinds[k] = "type"
        /\ \A j \in 1..k : j # k => s.kinds[j] = "cond"
    BY ShortcutKinds, ShortcutTyped
  <1>3. DOMAIN accs = 1..(k + m)
    BY <1>1, ParsedLineTyped
  <1>4. IsRowOf(op, s)
    BY ShortcutAssumption
  <1>5. DOMAIN own = 1..(k + m)
    <2>1. own \in Seq(Param)
      BY OwnParamsTyped
    <2>2. Len(own) = k + m
      BY <1>4 DEF IsRowOf
    <2> HIDE DEF own, Param
    <2> QED BY <2>1, <2>2
  <1>6. /\ \A j \in 1..k : own[j].kind = s.kinds[j]
        /\ \A j \in 1..m : /\ own[k + j].kind = "ident" /\ own[k + j].ref
                           /\ own[k + j].predef = OT.Undef /\ own[k + j].mode = s.modes[j]
    BY <1>4 DEF IsRowOf
  <1>7. op.code = s.code
        /\ s.flags = {<<p.flag, p.byte + 1, p.bit>> : p \in ParamsOf(op, "flag")}
    BY <1>4 DEF IsRowOf
  <1>8. AssembleShortcut(s, flags, accs)
            = {ShortcutCode(s, flags) \o o : o \in Joined([i \in DOMAIN accs |-> part(i)])}
    BY DEF AssembleShortcut
  <1>9. coded = {} => AssembleRow(op, flags, accs)
            = {code \o o : o \in Joined([i \in DOMAIN own |-> EncodeParam(own, accs, i)])}
    <2>1. Len(accs) = Len(own)
      BY <1>1, <1>4 DEF IsRowOf
    <2> QED BY <2>1 DEF AssembleRow
  <1> HIDE DEF own, k, m
  <1>10. /\ own[k].kind = "type" /\ accs[k].kind = "type"
         /\ \A j \in 1..(k - 1) : own[j].kind = "cond" /\ accs[j].kind = "cond"
    <2>1. k \in 1..k /\ \A j \in 1..(k - 1) : j \in 1..k /\ j # k
      BY <1>2
    <2> QED BY <1>1, <1>2, <1>6, <2>1
  <1>11. \A i \in 1..(k + m) : own[i].kind # "coding" /\ EncodeParam(own, accs, i) = part(i)
    <2>1. ShortcutShape(own, accs, k, m, s.modes)
      BY <1>3, <1>6, <1>10 DEF ShortcutShape
    <2> QED BY <1>2, <2>1, ShortcutParam
  <1> HIDE DEF part
  <1>12. [i \in DOMAIN own |-> EncodeParam(own, accs, i)] = [i \in DOMAIN accs |-> part(i)]
    BY <1>3, <1>5, <1>11
  <1>13. coded = {}
    BY <1>5, <1>11
  <1>14. code = ShortcutCode(s, flags)
    <2>1. ASSUME NEW b \in 1..Len(s.code)
          PROVE  set(b - 1) = {f[3] : f \in {g \in s.flags : g[1] \in flags /\ g[2] = b}}
      <3> DEFINE F == ParamsOf(op, "flag")
      <3>1. \A p \in F : p.byte \in 0..1
        <4>1. op.params \in Seq(Param)
          BY TableAssumption
        <4>2. \A j \in DOMAIN op.params : op.params[j].byte \in 0..1
          <5>1. \A j \in DOMAIN op.params : op.params[j] \in Param
            <6> HIDE DEF Param, op
            <6> QED BY <4>1
          <5> QED BY <5>1 DEF Param
        <4> QED BY <4>2 DEF ParamsOf
      <3>2. s.flags = {<<p.flag, p.byte + 1, p.bit>> : p \in F}
        BY <1>7
      <3> HIDE DEF F
      <3>3. ASSUME NEW x
            PROVE  x \in {f[3] : f \in {g \in s.flags : g[1] \in flags /\ g[2] = b}}
                       <=> \E p \in F : p.byte + 1 = b /\ p.flag \in flags /\ x = p.bit
        <4>1. x \in {f[3] : f \in {g \in s.flags : g[1] \in flags /\ g[2] = b}}
                  <=> \E f \in s.flags : f[1] \in flags /\ f[2] = b /\ x = f[3]
          OBVIOUS
        <4>2. \A p \in F : <<p.flag, p.byte + 1, p.bit>> \in s.flags
          BY <3>2
        <4>3. \A f \in s.flags : \E p \in F : f[1] = p.flag /\ f[2] = p.byte + 1 /\ f[3] = p.bit
          BY <3>2
        <4>4. ASSUME NEW p \in F, p.byte + 1 = b, p.flag \in flags, x = p.bit
              PROVE  \E f \in s.flags : f[1] \in flags /\ f[2] = b /\ x = f[3]
          <5> DEFINE f == <<p.flag, p.byte + 1, p.bit>>
          <5>1. f \in s.flags /\ f[1] = p.flag /\ f[2] = p.byte + 1 /\ f[3] = p.bit
            BY <4>2
          <5> HIDE DEF f
          <5> QED BY <4>4, <5>1
        <4> QED BY <4>1, <4>3, <4>4
      <3>4. \A p \in F : p.byte + 1 = b <=> p.byte = b - 1
        BY <3>1
      <3>5. set(b - 1) = {p.bit : p \in {q \in F : q.byte = b - 1 /\ q.flag \in flags}}
        BY <1>13 DEF F
      <3>6. ASSUME NEW x
            PROVE  x \in set(b - 1)
                       <=> \E p \in F : p.byte = b - 1 /\ p.flag \in flags /\ x = p.bit
        BY <3>5
      <3> HIDE DEF set
      <3> QED BY <3>3, <3>4, <3>6
    <2> HIDE DEF set
    <2> QED BY <1>7, <2>1, ShortcutTyped DEF ShortcutCode
  <1> HIDE DEF code, coded
  <1> QED BY <1>8, <1>9, <1>12, <1>13, <1>14

\* Every line has one operator: the first of its name.
LEMMA OpNamedIsOne ==
  ASSUME NEW l \in Line
  PROVE  \E n \in DOMAIN Ops : OpNamed(l.name) = {n} /\ Names[n] = l.name
  <1> DEFINE S == {n \in DOMAIN Ops : Names[n] = l.name}
  <1>1. S \subseteq Nat /\ S # {}
    BY TableAssumption DEF Line
  <1>2. PICK n \in S : \A m \in S : n <= m
    BY <1>1, LeastNat
  <1>3. \A m \in OpNamed(l.name) : m \in S /\ m <= n
    BY <1>2 DEF OpNamed
  <1>4. n \in OpNamed(l.name)
    BY <1>2 DEF OpNamed
  <1>5. \A m \in OpNamed(l.name) : m = n
    <2> SUFFICES ASSUME NEW m \in OpNamed(l.name) PROVE m = n
      OBVIOUS
    <2>1. m \in S /\ m <= n /\ n <= m /\ m \in Nat /\ n \in Nat
      BY <1>1, <1>2, <1>3
    <2> QED BY <2>1
  <1> QED BY <1>2, <1>4, <1>5

LEMMA ShortcutsAgreeOn ==
  ASSUME NEW l \in Line, AssembleSelected(l) # {}
  PROVE  AssembleSelected(l) = AssembleTable(l)
  <1>1. PICK s \in ShortcutOf(l.name), accs \in ParsedLine(l.operands) :
            AssembleShortcut(s, l.flags, accs) # {}
    BY DEF AssembleSelected
  <1>2. ShortcutOf(l.name) = {s}
    BY ShortcutKinds
  <1>3. ParsedLine(l.operands) = {accs}
    BY DEF ParsedLine
  <1>4. PICK n \in DOMAIN Ops : OpNamed(l.name) = {n} /\ Names[n] = l.name
    BY OpNamedIsOne
  <1>5. AssembleSelected(l) = AssembleShortcut(s, l.flags, accs)
    BY <1>2, <1>3 DEF AssembleSelected
  <1>6. AssembleTable(l) = AssembleRow(Ops[n], l.flags, accs)
    BY <1>3, <1>4 DEF AssembleTable
  <1>7. l.operands \in Seq(AnyText)
    BY DEF Line
  <1> QED BY <1>1, <1>4, <1>5, <1>6, <1>7, ShortcutIsRow

(* MOVE, the arithmetic operators and LD_CMP are assembled by hand before  *)
(* the table is asked (mc7p_assemble_selected): for every line that this   *)
(* accepts, whatever its operands, the table's bytes are the same.  The    *)
(* number of a type among the operands, by which the table finds the type  *)
(* of an ident, is the place at which the other encoder takes it.          *)
THEOREM ShortcutsAgreeHolds == Spec => []ShortcutsAgree
  <1>1. TypeOK => ShortcutsAgree
    BY ShortcutsAgreeOn DEF TypeOK, ShortcutsAgree
  <1> QED BY <1>1, AssemblerTypeCorrect, PTL
-----------------------------------------------------------------------------
(* From here on the bytes of a line are decoded: first the code with its   *)
(* flags and coded types.                                                  *)
\* What RowAssumption and the table's own assumptions say of one row.
RowFine(op) ==
    /\ op.code \in Seq(Byte) /\ op.code # <<>> /\ op.params \in Seq(Param)
    /\ FieldsApart(op)
    /\ \A i \in DOMAIN op.params :
           /\ TypesCoded(op.params[i]) /\ IdentPlain(op.params[i])
           /\ op.params[i].kind \in {"flag", "coding"} => op.params[i].byte < Len(op.code)
    /\ Len(op.params) <= MaxOperands

\* Every row of the table has what is assumed of it.
LEMMA RowsFine ==
  \A n \in DOMAIN Ops : RowFine(Ops[n])
  <1> TAKE n \in DOMAIN Ops
  <1>1. Ops[n].code \in Seq(Byte) /\ Ops[n].params \in Seq(Param)
    BY TableAssumption
  <1>2. /\ Ops[n].code # <<>> /\ FieldsApart(Ops[n]) /\ Len(Ops[n].params) <= MaxOperands
        /\ \A i \in DOMAIN Ops[n].params :
               TypesCoded(Ops[n].params[i]) /\ IdentPlain(Ops[n].params[i])
    BY RowAssumption
  <1>3. \A i \in DOMAIN Ops[n].params :
            Ops[n].params[i].kind \in {"flag", "coding"} =>
                Ops[n].params[i].byte < Len(Ops[n].code)
    BY CodeAssumption DEF ParamsOf
  <1> QED BY <1>1, <1>2, <1>3 DEF RowFine

SetBits(op, flags, accs, b) ==
    LET own   == OwnParams(op)
        coded == {i \in DOMAIN own : own[i].kind = "coding"}
    IN  {p.bit : p \in {q \in ParamsOf(op, "flag") : q.byte = b /\ q.flag \in flags}}
        \cup (UNION {Only(CodingBits(own[i], accs[i])) : i \in {j \in coded : own[j].byte = b}})

CodeOf(op, flags, accs) ==
    [b \in DOMAIN op.code |->
        ByteAt(BitsOf(op.code[b]) \cup SetBits(op, flags, accs, b - 1), 0)]

OperandParts(op, accs) ==
    [i \in DOMAIN OwnParams(op) |-> EncodeParam(OwnParams(op), accs, i)]

AllCoded(op, accs) ==
    \A i \in DOMAIN OwnParams(op) :
        OwnParams(op)[i].kind = "coding" => CodingBits(OwnParams(op)[i], accs[i]) # {}

\* mc7p_assemble_table for one row: the code and then the operands.
LEMMA AssembleRowIs ==
  ASSUME NEW op, NEW flags, NEW accs
  PROVE  AssembleRow(op, flags, accs) =
             IF Len(accs) = Len(OwnParams(op)) /\ AllCoded(op, accs)
             THEN {CodeOf(op, flags, accs) \o operands : operands \in Joined(OperandParts(op, accs))}
             ELSE {}
  <1>1. CASE Len(accs) = Len(OwnParams(op)) /\ AllCoded(op, accs)
    BY <1>1 DEF AssembleRow, AllCoded, CodeOf, SetBits, OperandParts
  <1>2. CASE ~(Len(accs) = Len(OwnParams(op)) /\ AllCoded(op, accs))
    BY <1>2 DEF AssembleRow, AllCoded
  <1> QED BY <1>1, <1>2

\* The bits that a coded type sets, by the number of its parameter.
SetOf(op, accs, j) == Only(CodingBits(op.params[j], accs[OperandOf(op, j)]))

IsField(op, j, kind, b) ==
    j \in DOMAIN op.params /\ op.params[j].kind = kind /\ op.params[j].byte = b

\* The bits a line sets in a byte are those of its flags and coded types.
LEMMA SetBitsAre ==
  ASSUME NEW n \in DOMAIN Ops, NEW flags, NEW accs, NEW b, NEW x
  PROVE  x \in SetBits(Ops[n], flags, accs, b) <=>
             \/ \E j : /\ IsField(Ops[n], j, "flag", b)
                       /\ Ops[n].params[j].flag \in flags /\ x = Ops[n].params[j].bit
             \/ \E j : IsField(Ops[n], j, "coding", b) /\ x \in SetOf(Ops[n], accs, j)
  <1> DEFINE op    == Ops[n]
             own   == OwnParams(op)
             F     == {p.bit : p \in {q \in ParamsOf(op, "flag") : q.byte = b /\ q.flag \in flags}}
             coded == {i \in DOMAIN own : own[i].kind = "coding"}
             C     == UNION {Only(CodingBits(own[i], accs[i])) :
                                i \in {j \in coded : own[j].byte = b}}
  <1>1. SetBits(op, flags, accs, b) = F \cup C
    BY DEF SetBits
  <1>2. x \in F <=> \E j : /\ IsField(op, j, "flag", b)
                           /\ op.params[j].flag \in flags /\ x = op.params[j].bit
    BY DEF ParamsOf, IsField
  <1>3. x \in C <=> \E j : IsField(op, j, "coding", b) /\ x \in SetOf(op, accs, j)
    <2>1. x \in C <=> \E i \in DOMAIN own : /\ own[i].kind = "coding" /\ own[i].byte = b
                                            /\ x \in Only(CodingBits(own[i], accs[i]))
      <3> HIDE DEF own
      <3> QED OBVIOUS
    <2>2. ASSUME NEW i \in DOMAIN own, own[i].kind = "coding", own[i].byte = b,
                 x \in Only(CodingBits(own[i], accs[i]))
          PROVE  \E j : IsField(op, j, "coding", b) /\ x \in SetOf(op, accs, j)
      <3>1. PICK j \in DOMAIN op.params : own[i] = op.params[j] /\ OperandOf(op, j) = i
        BY <2>2, OwnParamsTyped
      <3>2. IsField(op, j, "coding", b)
        BY <2>2, <3>1 DEF IsField
      <3>3. x \in SetOf(op, accs, j)
        <4>1. Only(CodingBits(own[i], accs[i])) = Only(CodingBits(op.params[j], accs[OperandOf(op, j)]))
          <5> HIDE DEF own, op
          <5> QED BY <3>1
        <4> QED BY <2>2, <4>1 DEF SetOf
      <3> QED BY <3>2, <3>3
    <2>3. ASSUME NEW j, IsField(op, j, "coding", b), x \in SetOf(op, accs, j)
          PROVE  \E i \in DOMAIN own : /\ own[i].kind = "coding" /\ own[i].byte = b
                                       /\ x \in Only(CodingBits(own[i], accs[i]))
      <3> DEFINE i == OperandOf(op, j)
      <3>1. i \in DOMAIN own /\ own[i] = op.params[j]
        <4>1. op.params \in Seq(Param) /\ j \in 1..Len(op.params) /\ op.params[j].kind # "flag"
          BY <2>3, RowTyped DEF IsField
        <4> QED BY <4>1, OwnParamIs
      <3>2. x \in Only(CodingBits(op.params[j], accs[i]))
        BY <2>3 DEF SetOf
      <3>3. own[i].kind = "coding" /\ own[i].byte = b
        BY <2>3, <3>1 DEF IsField
      <3> HIDE DEF i, own, op
      <3> QED BY <3>1, <3>2, <3>3
    <2> HIDE DEF C
    <2> QED BY <2>1, <2>2, <2>3
  <1> HIDE DEF F, C
  <1> QED BY <1>1, <1>2, <1>3

\* A bounded set of numbers that is not empty has a greatest.
LEMMA Greatest ==
  ASSUME NEW n \in Nat, NEW S, S \subseteq 0..n, S # {}
  PROVE  \E k \in S : \A m \in S : m <= k
  <1> DEFINE T == {n - k : k \in S}
  <1>1. T \subseteq Nat /\ T # {}
    <2>1. \A k \in S : n - k \in Nat
      OBVIOUS
    <2> QED BY <2>1
  <1>2. PICK t \in T : \A u \in T : t <= u
    <2> HIDE DEF T
    <2> QED BY <1>1, LeastNat
  <1>3. PICK k \in S : t = n - k
    BY <1>2
  <1>4. \A m \in S : n - m \in T
    OBVIOUS
  <1>5. \A m \in S : n - k <= n - m
    BY <1>2, <1>3, <1>4
  <1> QED BY <1>5

\* The bits of a coding: as wide as the largest of its codes.
LEMMA CodingWidthTyped ==
  ASSUME NEW p \in Param, \A k \in DOMAIN p.pairs : p.pairs[k][2] \in Byte
  PROVE  CodingWidth(p) \in 0..8
  <1> DEFINE S == {p.pairs[i][2] : i \in DOMAIN p.pairs} \cup {0}
             W == {w \in 0..8 : 2^w > Max(S)}
  <1>1. S \subseteq 0..255 /\ S # {}
    BY DEF Byte
  <1>2. Max(S) \in 0..255
    <2> HIDE DEF S
    <2>1. \E k \in S : \A m \in S : m <= k
      <3>1. 255 \in Nat /\ S \subseteq 0..255 /\ S # {}
        BY <1>1
      <3> QED BY ONLY <3>1, Greatest
    <2>2. \E k \in S : \A m \in S : k >= m
      BY <1>1, <2>1
    <2>3. Max(S) \in S
      BY <2>2 DEF Max
    <2> QED BY <1>1, <2>3
  <1>3. 8 \in W
    <2> HIDE DEF S
    <2>1. 2^8 = 256
      OBVIOUS
    <2> QED BY <1>2, <2>1
  <1>4. W \subseteq 0..8 /\ W \subseteq Nat
    OBVIOUS
  <1>5. CodingWidth(p) = Min(W)
    BY DEF CodingWidth
  <1> HIDE DEF W
  <1>6. \E w \in W : \A v \in W : w <= v
    BY <1>3, <1>4, LeastNat
  <1>7. Min(W) \in W
    BY <1>6 DEF Min
  <1> QED BY <1>4, <1>5, <1>7

CodedBits(p, m) == {p.bit + b : b \in BitsOf(p.pairs[m][2])}

\* A coded type that the operand of a line sets: one pair of the coding.
IsPair(p, acc, m) ==
    /\ m \in DOMAIN p.pairs /\ p.pairs[m][1] = acc.dt /\ p.pairs[m][2] \in Byte
    /\ acc.kind = "type" /\ Only(CodingBits(p, acc)) = CodedBits(p, m)
    /\ CodedBits(p, m) \subseteq FieldBits(p)

\* A coded type is set by one pair of its coding.
LEMMA CodingIs ==
  ASSUME NEW p \in Param, p.kind = "coding", TypesCoded(p), FieldBits(p) \subseteq 0..7,
         NEW acc, CodingBits(p, acc) # {}
  PROVE  \E m : IsPair(p, acc, m)
  <1> DEFINE hits == {k \in DOMAIN p.pairs : p.pairs[k][1] = acc.dt}
  <1>1. acc.kind = "type" /\ hits # {}
        /\ CodingBits(p, acc) = {ShiftLeft(BitsOf(p.pairs[Min(hits)][2]), p.bit)}
    BY DEF CodingBits
  <1>2. PICK m \in hits : TRUE
    BY <1>1
  <1>3. DOMAIN p.pairs \subseteq Int /\ p.bit \in 0..7
    BY DEF Param
  <1>4. hits = {m}
    BY <1>2 DEF TypesCoded
  <1>5. Min(hits) = m
    <2>1. Min({m}) = m
      BY <1>2, <1>3 DEF Min
    <2> QED BY <1>4, <2>1
  <1>6. m \in DOMAIN p.pairs /\ p.pairs[m][1] = acc.dt
    BY <1>2
  <1> HIDE DEF hits
  <1>7. p.pairs[m][2] \in Byte /\ CodedBits(p, m) \subseteq FieldBits(p)
    BY <1>6 DEF TypesCoded, CodedBits
  <1>8. ShiftLeft(BitsOf(p.pairs[m][2]), p.bit) = CodedBits(p, m)
    <2>1. ShiftLeft(BitsOf(p.pairs[m][2]), p.bit) = {b + p.bit : b \in BitsOf(p.pairs[m][2])} \cap 0..63
      BY DEF ShiftLeft, Bits64
    <2>2. \A b \in BitsOf(p.pairs[m][2]) : b \in Int /\ p.bit + b = b + p.bit
      BY <1>3 DEF BitsOf
    <2>3. {b + p.bit : b \in BitsOf(p.pairs[m][2])} = CodedBits(p, m)
      BY <2>2 DEF CodedBits
    <2>4. CodedBits(p, m) \subseteq 0..63
      BY <1>7
    <2> QED BY <2>1, <2>3, <2>4
  <1>9. Only(CodingBits(p, acc)) = CodedBits(p, m)
    BY <1>1, <1>5, <1>8 DEF Only
  <1> QED BY <1>1, <1>6, <1>7, <1>9 DEF IsPair

\* The code that is another type's too: it reads back as the last of them.
PairShared(p, acc) ==
    \E k, m \in DOMAIN p.pairs : k # m /\ p.pairs[k][1] = acc.dt /\ p.pairs[k][2] = p.pairs[m][2]

\* A coded type is read back from its bits, or one that shares them.
LEMMA CodedReads ==
  ASSUME NEW p \in Param, TypesCoded(p), p.kind = "coding", FieldBits(p) \subseteq 0..7,
         NEW acc, CodingBits(p, acc) # {}, NEW code, NEW pos,
         BitsOf(code[pos + p.byte + 1]) \cap FieldBits(p) = Only(CodingBits(p, acc))
  PROVE  \E ot \in CodedType(code, pos, p) : ot = acc.dt \/ PairShared(p, acc)
  <1> DEFINE B == BitsOf(code[pos + p.byte + 1])
             W == CodingWidth(p)
             bits == LowBits(ShiftRight(B, p.bit), W)
             hits == {i \in DOMAIN p.pairs : BitsOf(p.pairs[i][2]) = bits}
  <1>1. PICK m : IsPair(p, acc, m)
    BY CodingIs
  <1>2. W \in 0..8 /\ p.bit \in 0..7 /\ B \subseteq Int
        /\ FieldBits(p) = {p.bit + k : k \in 0..(W - 1)}
    <2>1. \A k \in DOMAIN p.pairs : p.pairs[k][2] \in Byte
      BY DEF TypesCoded
    <2>2. W \in 0..8
      BY <2>1, CodingWidthTyped
    <2>3. p.bit \in 0..7
      BY DEF Param
    <2>4. B \subseteq Int
      BY DEF BitsOf
    <2>5. FieldBits(p) = {p.bit + k : k \in 0..(W - 1)}
      BY DEF FieldBits
    <2> QED BY <2>2, <2>3, <2>4, <2>5
  <1>3. B \cap FieldBits(p) = CodedBits(p, m)
    BY <1>1 DEF IsPair
  <1>4. bits = BitsOf(p.pairs[m][2])
    <2>1. \A x : x \in bits <=> x \in 0..(W - 1) /\ p.bit + x \in B
      <3> HIDE DEF B, W
      <3> QED BY <1>2 DEF LowBits, ShiftRight
    <2>2. \A x \in Int : x \in 0..(W - 1) /\ p.bit + x \in B <=> p.bit + x \in B \cap FieldBits(p)
      <3> HIDE DEF B, W
      <3> QED BY <1>2
    <2>3. BitsOf(p.pairs[m][2]) \subseteq Int
      BY DEF BitsOf
    <2>4. \A x \in Int : p.bit + x \in CodedBits(p, m) <=> x \in BitsOf(p.pairs[m][2])
      BY <1>2, <2>3 DEF CodedBits
    <2>5. bits \subseteq Int
      <3> HIDE DEF bits, B, W
      <3> QED BY <1>2, <2>1
    <2>6. \A x \in Int : x \in bits <=> x \in BitsOf(p.pairs[m][2])
      <3> HIDE DEF bits, B, W
      <3> QED BY ONLY <1>3, <2>1, <2>2, <2>4
    <2> HIDE DEF bits, B, W
    <2> QED BY <2>3, <2>5, <2>6
  <1>5. hits \subseteq 0..Len(p.pairs) /\ Len(p.pairs) \in Nat /\ m \in hits
    BY <1>1, <1>4 DEF IsPair, Param
  <1>6. PICK j \in hits : \A k \in hits : k <= j
    <2> HIDE DEF hits
    <2> QED BY <1>5, Greatest
  <1>7. p.pairs[j][1] \in CodedType(code, pos, p)
    BY <1>6 DEF CodedType
  <1>8. CASE j = m
    BY <1>1, <1>7, <1>8 DEF IsPair
  <1>9. CASE j # m
    <2>1. BitsOf(p.pairs[j][2]) = BitsOf(p.pairs[m][2]) /\ j \in DOMAIN p.pairs
      BY <1>4, <1>6
    <2>2. p.pairs[j][2] \in 0..255 /\ p.pairs[m][2] \in 0..255
      BY <1>1, <2>1 DEF TypesCoded, IsPair, Byte
    <2>3. p.pairs[j][2] = p.pairs[m][2]
      <3>1. \A n \in 0..255 : ByteAt(BitsOf(n), 0) = n
        BY ByteOfBits
      <3>2. ByteAt(BitsOf(p.pairs[j][2]), 0) = p.pairs[j][2]
            /\ ByteAt(BitsOf(p.pairs[m][2]), 0) = p.pairs[m][2]
        BY <2>2, <3>1
      <3> QED BY <2>1, <3>2
    <2>4. PairShared(p, acc)
      BY <1>1, <1>9, <2>1, <2>3 DEF PairShared, IsPair
    <2> QED BY <1>7, <2>4
  <1> QED BY <1>8, <1>9

FieldAt(op, j, b) ==
    /\ j \in DOMAIN op.params /\ op.params[j].kind \in {"flag", "coding"}
    /\ op.params[j].byte = b

BitsApart(op, j, b) ==
    /\ b \in 0..(Len(op.code) - 1)
    /\ FieldBits(op.params[j]) \subseteq 0..7
    /\ FieldBits(op.params[j]) \cap BitsOf(op.code[b + 1]) = {}
    /\ \A i : FieldAt(op, i, b) /\ i # j =>
                  FieldBits(op.params[i]) \cap FieldBits(op.params[j]) = {}

\* No other field of a row touches the bits of a field.
LEMMA FieldIs ==
  ASSUME NEW n \in DOMAIN Ops, NEW j, NEW b, FieldAt(Ops[n], j, b)
  PROVE  BitsApart(Ops[n], j, b)
  <1> DEFINE op == Ops[n]
  <1>1. RowFine(op)
    BY RowsFine
  <1>2. j \in DOMAIN op.params /\ op.params[j].kind \in {"flag", "coding"}
        /\ op.params[j].byte = b
    BY DEF FieldAt
  <1>3. b \in 0..(Len(op.code) - 1)
    <2>1. op.params[j] \in Param /\ op.params[j].byte < Len(op.code) /\ Len(op.code) \in Nat
      BY <1>1, <1>2 DEF RowFine
    <2>2. op.params[j].byte \in 0..1
      BY <2>1 DEF Param
    <2> QED BY <1>2, <2>1, <2>2
  <1>4. FieldsApart(op)
    BY <1>1 DEF RowFine
  <1> HIDE DEF op
  <1>5. FieldBits(op.params[j]) \subseteq 0..7
        /\ FieldBits(op.params[j]) \cap BitsOf(op.code[b + 1]) = {}
    BY <1>2, <1>4 DEF FieldsApart
  <1>6. \A i : FieldAt(op, i, b) /\ i # j =>
                  FieldBits(op.params[i]) \cap FieldBits(op.params[j]) = {}
    BY <1>2, <1>4 DEF FieldsApart, FieldAt
  <1>7. BitsApart(op, j, b)
    BY <1>3, <1>5, <1>6 DEF BitsApart
  <1> QED BY <1>7 DEF op

\* The fields that a line sets in one byte of the code.
LEMMA SetInField ==
  ASSUME NEW n \in DOMAIN Ops, NEW accs, AllCoded(Ops[n], accs), NEW j, NEW b,
         IsField(Ops[n], j, "coding", b)
  PROVE  /\ \E m : IsPair(Ops[n].params[j], accs[OperandOf(Ops[n], j)], m)
         /\ SetOf(Ops[n], accs, j) \subseteq FieldBits(Ops[n].params[j])
         /\ CodingBits(Ops[n].params[j], accs[OperandOf(Ops[n], j)]) # {}
  <1> DEFINE op  == Ops[n]
             i   == OperandOf(op, j)
             acc == accs[i]
             p   == op.params[j]
  <1>1. j \in DOMAIN op.params /\ p.kind = "coding"
    BY DEF IsField
  <1>2. FieldBits(p) \subseteq 0..7
    <2>1. FieldAt(op, j, b)
      BY DEF IsField, FieldAt
    <2> QED BY <2>1, FieldIs DEF BitsApart
  <1>3. i \in DOMAIN OwnParams(op) /\ OwnParams(op)[i] = p
    <2>1. op.params \in Seq(Param) /\ j \in 1..Len(op.params) /\ op.params[j].kind # "flag"
      BY <1>1, RowTyped
    <2> QED BY <2>1, OwnParamIs
  <1>4. p \in Param /\ TypesCoded(p)
    BY <1>1, RowsFine DEF RowFine
  <1>5. CodingBits(p, acc) # {}
    <2>1. OwnParams(op)[i].kind = "coding"
      BY <1>1, <1>3
    <2>2. CodingBits(OwnParams(op)[i], accs[i]) # {}
      <3> HIDE DEF op, i
      <3> QED BY <1>3, <2>1 DEF AllCoded, op
    <2> QED BY <1>3, <2>2
  <1>6. PICK m : IsPair(p, acc, m)
    <2> HIDE DEF p, acc
    <2> QED BY <1>1, <1>2, <1>4, <1>5, CodingIs
  <1>7. SetOf(op, accs, j) \subseteq FieldBits(p)
    BY <1>6 DEF IsPair, SetOf
  <1> QED BY <1>5, <1>6, <1>7

\* One byte of the code with the fields that the line sets.
CodeByte(op, flags, accs, b) == CodeOf(op, flags, accs)[b + 1]

\* A bit that a line sets belongs to a field of the row.
LEMMA SetBitsIn ==
  ASSUME NEW n \in DOMAIN Ops, NEW accs, AllCoded(Ops[n], accs), NEW flags, NEW b,
         NEW x \in SetBits(Ops[n], flags, accs, b)
  PROVE  \E j : FieldAt(Ops[n], j, b) /\ x \in FieldBits(Ops[n].params[j])
  <1>1. CASE \E j : /\ IsField(Ops[n], j, "flag", b)
                    /\ Ops[n].params[j].flag \in flags /\ x = Ops[n].params[j].bit
    <2>1. PICK j : IsField(Ops[n], j, "flag", b) /\ x = Ops[n].params[j].bit
      BY <1>1
    <2>2. FieldAt(Ops[n], j, b) /\ x \in FieldBits(Ops[n].params[j])
      BY <2>1 DEF IsField, FieldAt, FieldBits
    <2> QED BY <2>2
  <1>2. CASE \E j : IsField(Ops[n], j, "coding", b) /\ x \in SetOf(Ops[n], accs, j)
    <2>1. PICK j : IsField(Ops[n], j, "coding", b) /\ x \in SetOf(Ops[n], accs, j)
      BY <1>2
    <2>2. FieldAt(Ops[n], j, b)
      BY <2>1 DEF IsField, FieldAt
    <2>3. x \in FieldBits(Ops[n].params[j])
      BY <2>1, SetInField
    <2> QED BY <2>2, <2>3
  <1> QED BY <1>1, <1>2, SetBitsAre

\* A byte of the code is the row's with the fields' bits.
LEMMA CodeByteIs ==
  ASSUME NEW n \in DOMAIN Ops, NEW accs, AllCoded(Ops[n], accs), NEW flags,
         NEW b \in 0..(Len(Ops[n].code) - 1)
  PROVE  /\ CodeByte(Ops[n], flags, accs, b) \in Byte
         /\ SetBits(Ops[n], flags, accs, b) \cap BitsOf(Ops[n].code[b + 1]) = {}
         /\ BitsOf(CodeByte(Ops[n], flags, accs, b)) =
                BitsOf(Ops[n].code[b + 1]) \cup SetBits(Ops[n], flags, accs, b)
  <1> DEFINE S == SetBits(Ops[n], flags, accs, b)
             C == BitsOf(Ops[n].code[b + 1])
  <1>1. Ops[n].code \in Seq(Byte) /\ b + 1 \in DOMAIN Ops[n].code /\ Ops[n].code[b + 1] \in 0..255
    <2>1. Ops[n].code \in Seq(Byte) /\ Len(Ops[n].code) \in Nat
      BY RowTyped
    <2>2. b + 1 \in 1..Len(Ops[n].code)
      BY <2>1
    <2>3. Ops[n].code[b + 1] \in Byte
      BY <2>1, <2>2
    <2>4. b + 1 \in DOMAIN Ops[n].code
      BY <2>1, <2>2
    <2> QED BY ONLY <2>1, <2>3, <2>4 DEF Byte
  <1>2. C \subseteq 0..7
    BY <1>1, ByteOfBits
  <1>3. \A x \in S : x \in 0..7 /\ x \notin C
    <2> TAKE x \in S
    <2>1. PICK j : FieldAt(Ops[n], j, b) /\ x \in FieldBits(Ops[n].params[j])
      BY SetBitsIn
    <2>2. BitsApart(Ops[n], j, b)
      BY <2>1, FieldIs
    <2> QED BY <2>1, <2>2 DEF BitsApart
  <1>4. CodeByte(Ops[n], flags, accs, b) = ByteAt(C \cup S, 0)
    <2>1. \A d \in DOMAIN Ops[n].code : CodeOf(Ops[n], flags, accs)[d] =
              ByteAt(BitsOf(Ops[n].code[d]) \cup SetBits(Ops[n], flags, accs, d - 1), 0)
      BY Zenon DEF CodeOf
    <2>2. PICK d \in DOMAIN Ops[n].code : d = b + 1
      BY <1>1
    <2>3. d - 1 = b
      BY <2>2
    <2>4. CodeOf(Ops[n], flags, accs)[d] =
              ByteAt(BitsOf(Ops[n].code[d]) \cup SetBits(Ops[n], flags, accs, b), 0)
      BY <2>1, <2>3, Zenon
    <2> QED BY <2>2, <2>4, Zenon DEF CodeByte
  <1> HIDE DEF S, C
  <1>5. C \cup S \in SUBSET (0..7) /\ S \cap C = {}
    BY <1>2, <1>3
  <1>6. BitsOf(ByteAt(C \cup S, 0)) = C \cup S
    BY <1>5, BitsKnown
  <1>7. ByteAt(C \cup S, 0) \in 0..255
    BY ByteAtIsByte
  <1> QED BY <1>4, <1>5, <1>6, <1>7 DEF S, C, Byte

FlagMasked(op, b, x)   == \E j : IsField(op, j, "flag", b) /\ x = op.params[j].bit
CodingMasked(op, b, x) == \E j : IsField(op, j, "coding", b) /\ x \in FieldBits(op.params[j])

\* The masks under which the decoder compares a code byte.
LEMMA MasksAre ==
  ASSUME NEW op, NEW b, NEW x
  PROVE  /\ x \in FlagMask(op, b) <=> FlagMasked(op, b, x)
         /\ x \in CodingMask(op, b) <=> CodingMasked(op, b, x)
  <1>1. x \in FlagMask(op, b) <=> FlagMasked(op, b, x)
    BY DEF FlagMask, ParamsOf, FlagMasked, IsField
  <1>2. x \in CodingMask(op, b) <=>
            \E q \in ParamsOf(op, "coding") :
                q.byte = b /\ x \in {q.bit + k : k \in 0..(CodingWidth(q) - 1)}
    BY DEF CodingMask
  <1>3. x \in CodingMask(op, b) <=>
            \E j \in DOMAIN op.params :
                /\ op.params[j].kind = "coding" /\ op.params[j].byte = b
                /\ x \in {op.params[j].bit + k : k \in 0..(CodingWidth(op.params[j]) - 1)}
    BY <1>2 DEF ParamsOf
  <1>4. \A j : op.params[j].kind = "coding" =>
            FieldBits(op.params[j]) =
                {op.params[j].bit + k : k \in 0..(CodingWidth(op.params[j]) - 1)}
    BY DEF FieldBits
  <1>5. x \in CodingMask(op, b) <=> CodingMasked(op, b, x)
    BY <1>3, <1>4 DEF CodingMasked, IsField
  <1> QED BY <1>1, <1>5

\* What is read of the code: the row's bits, its flags and its coded types.
LEMMA CodeRead ==
  ASSUME NEW n \in DOMAIN Ops, NEW accs, AllCoded(Ops[n], accs), NEW flags,
         NEW b \in 0..(Len(Ops[n].code) - 1)
  PROVE  LET B == BitsOf(CodeByte(Ops[n], flags, accs, b))
         IN  /\ ByteMatches(Ops[n], b, CodeByte(Ops[n], flags, accs, b))
             /\ \A j : IsField(Ops[n], j, "flag", b) =>
                    (Ops[n].params[j].bit \in B <=> Ops[n].params[j].flag \in flags)
             /\ \A j : IsField(Ops[n], j, "coding", b) =>
                    B \cap FieldBits(Ops[n].params[j]) = SetOf(Ops[n], accs, j)
  <1> DEFINE op == Ops[n]
             B == BitsOf(CodeByte(op, flags, accs, b))
             S == SetBits(op, flags, accs, b)
             C == BitsOf(op.code[b + 1])
  <1>1. B = C \cup S /\ S \cap C = {}
    BY CodeByteIs
  <1>2. \A j : FieldAt(op, j, b) => BitsApart(op, j, b)
    BY FieldIs
  <1>3. \A j : IsField(op, j, "flag", b) => FieldAt(op, j, b) /\ FieldBits(op.params[j]) = {op.params[j].bit}
    BY DEF IsField, FieldAt, FieldBits
  <1>4. \A j : IsField(op, j, "coding", b) =>
            FieldAt(op, j, b) /\ SetOf(op, accs, j) \subseteq FieldBits(op.params[j])
    <2>1. \A j : IsField(op, j, "coding", b) => SetOf(op, accs, j) \subseteq FieldBits(op.params[j])
      BY SetInField
    <2> QED BY <2>1 DEF IsField, FieldAt
  <1>5. \A i, j : IsField(op, i, "flag", b) /\ IsField(op, j, "coding", b) => i # j
    BY DEF IsField
  <1>6. \A i, j : FieldAt(op, i, b) /\ FieldAt(op, j, b) /\ i # j =>
            FieldBits(op.params[i]) \cap FieldBits(op.params[j]) = {}
    BY <1>2 DEF BitsApart
  <1>7. \A j : FieldAt(op, j, b) => FieldBits(op.params[j]) \cap C = {}
    BY <1>2 DEF BitsApart
  <1>8. \A x : x \in S <=>
             \/ \E j : /\ IsField(op, j, "flag", b)
                       /\ op.params[j].flag \in flags /\ x = op.params[j].bit
             \/ \E j : IsField(op, j, "coding", b) /\ x \in SetOf(op, accs, j)
    BY SetBitsAre
  <1>9. ByteMatches(op, b, CodeByte(op, flags, accs, b))
    <2>1. \A x \in S : x \in FlagMask(op, b) \cup CodingMask(op, b)
      <3> TAKE x \in S
      <3>1. FlagMasked(op, b, x) \/ CodingMasked(op, b, x)
        <4> HIDE DEF op, S
        <4> QED BY <1>4, <1>8 DEF FlagMasked, CodingMasked
      <3> QED BY <3>1, MasksAre
    <2>2. \A x \in C : x \notin FlagMask(op, b) \cup CodingMask(op, b)
      <3> TAKE x \in C
      <3>1. ~(FlagMasked(op, b, x) \/ CodingMasked(op, b, x))
        <4> HIDE DEF op, C
        <4> QED BY <1>3, <1>4, <1>7 DEF FlagMasked, CodingMasked
      <3> QED BY <3>1, MasksAre
    <2>3. B \ (FlagMask(op, b) \cup CodingMask(op, b)) = C
      <3> HIDE DEF B, S, C, op
      <3> QED BY <1>1, <2>1, <2>2
    <2> QED BY <2>3 DEF ByteMatches
  <1> HIDE DEF op, B, S, C
  <1>10. ASSUME NEW j, IsField(op, j, "flag", b)
         PROVE  op.params[j].bit \in B <=> op.params[j].flag \in flags
    <2>1. op.params[j].bit \notin C
      BY <1>3, <1>7, <1>10
    <2>2. op.params[j].flag \in flags => op.params[j].bit \in S
      BY <1>8, <1>10
    <2>3. ASSUME op.params[j].bit \in S PROVE op.params[j].flag \in flags
      <3>1. ASSUME NEW i, IsField(op, i, "coding", b) PROVE op.params[j].bit \notin SetOf(op, accs, i)
        <4>1. i # j /\ FieldAt(op, i, b) /\ FieldAt(op, j, b)
          BY <1>3, <1>4, <1>5, <1>10, <3>1
        <4>2. FieldBits(op.params[i]) \cap FieldBits(op.params[j]) = {}
          BY <1>6, <4>1
        <4>3. op.params[j].bit \in FieldBits(op.params[j])
          BY <1>3, <1>10
        <4>4. SetOf(op, accs, i) \subseteq FieldBits(op.params[i])
          BY <1>4, <3>1
        <4> QED BY <4>2, <4>3, <4>4
      <3>2. ASSUME NEW i, IsField(op, i, "flag", b), op.params[j].bit = op.params[i].bit
            PROVE  i = j
        <4>1. op.params[i].bit \in FieldBits(op.params[i]) /\ FieldAt(op, i, b)
          BY <1>3, <3>2
        <4>2. op.params[j].bit \in FieldBits(op.params[j]) /\ FieldAt(op, j, b)
          BY <1>3, <1>10
        <4> QED BY <1>6, <3>2, <4>1, <4>2
      <3> QED BY <1>8, <2>3, <3>1, <3>2
    <2> QED BY <1>1, <2>1, <2>2, <2>3
  <1>11. ASSUME NEW j, IsField(op, j, "coding", b)
         PROVE  B \cap FieldBits(op.params[j]) = SetOf(op, accs, j)
    <2>1. FieldBits(op.params[j]) \cap C = {} /\ SetOf(op, accs, j) \subseteq FieldBits(op.params[j])
      BY <1>4, <1>7, <1>11
    <2>2. SetOf(op, accs, j) \subseteq S
      BY <1>8, <1>11
    <2>3. ASSUME NEW x \in S, x \in FieldBits(op.params[j]) PROVE x \in SetOf(op, accs, j)
      <3>1. \A i : IsField(op, i, "flag", b) => x # op.params[i].bit
        BY <1>3, <1>4, <1>5, <1>6, <1>11, <2>3
      <3>2. \A i : IsField(op, i, "coding", b) /\ x \in SetOf(op, accs, i) => i = j
        BY <1>4, <1>6, <1>11, <2>3
      <3> QED BY <1>8, <3>1, <3>2
    <2> QED BY <1>1, <2>1, <2>2, <2>3
  <1> QED BY <1>9, <1>10, <1>11 DEF op, B

\* A buffer that starts with the code of a line.
HasCode(code, op, flags, accs) ==
    /\ code \in Seq(Byte) /\ Len(op.code) <= Len(code)
    /\ \A b \in 0..(Len(op.code) - 1) : code[b + 1] = CodeByte(op, flags, accs, b)

FlagNumbers(op) == {i \in DOMAIN op.params : op.params[i].kind = "flag"}

\* A row has no more flags than a statement can keep.
LEMMA FlagsFew ==
  ASSUME NEW n \in DOMAIN Ops
  PROVE  IsFiniteSet(FlagNumbers(Ops[n])) /\ Cardinality(FlagNumbers(Ops[n])) <= MaxFlags
  <1> DEFINE op == Ops[n]
  <1>1. DOMAIN op.params = 1..Len(op.params) /\ Len(op.params) \in Nat
    BY RowTyped
  <1>2. IsFiniteSet(1..Len(op.params))
    BY <1>1, FS_Interval
  <1>3. FlagNumbers(op) \subseteq 1..Len(op.params)
    BY <1>1 DEF FlagNumbers
  <1>4. IsFiniteSet(FlagNumbers(op))
    BY <1>2, <1>3, FS_Subset
  <1>5. FieldsApart(op)
    BY RowsFine DEF RowFine
  <1> HIDE DEF op
  <1>6. Cardinality({i \in {k \in DOMAIN op.params : op.params[k].kind \in {"flag", "coding"}} :
                         op.params[i].kind = "flag"}) <= MaxFlags
    BY <1>5, Zenon DEF FieldsApart
  <1>7. {i \in {k \in DOMAIN op.params : op.params[k].kind \in {"flag", "coding"}} :
             op.params[i].kind = "flag"} = FlagNumbers(op)
    BY DEF FlagNumbers
  <1> QED BY <1>4, <1>6, <1>7 DEF op

\* The flags read back are those of the line that the row has.
LEMMA FlagsKept ==
  ASSUME NEW n \in DOMAIN Ops, NEW accs, AllCoded(Ops[n], accs), NEW flags, NEW code,
         HasCode(code, Ops[n], flags, accs)
  PROVE  RestoreFlags(code, 0, Ops[n]) = flags \cap {p.flag : p \in ParamsOf(Ops[n], "flag")}
  <1> DEFINE op == Ops[n]
             on == FlagsOn(code, 0, op)
             set == FlagNumbers(op)
  <1>1. ASSUME NEW i \in set
        PROVE  op.params[i].bit \in BitsOf(code[0 + op.params[i].byte + 1])
               <=> op.params[i].flag \in flags
    <2> DEFINE b == op.params[i].byte
    <2>1. IsField(op, i, "flag", b)
      BY <1>1 DEF FlagNumbers, IsField
    <2>2. b \in 0..(Len(op.code) - 1)
      <3>1. FieldAt(op, i, b)
        BY <2>1 DEF IsField, FieldAt
      <3>2. BitsApart(op, i, b)
        BY <3>1, FieldIs
      <3> QED BY <3>2 DEF BitsApart
    <2>3. code[b + 1] = CodeByte(op, flags, accs, b)
      BY <2>2 DEF HasCode
    <2>4. op.params[i].bit \in BitsOf(CodeByte(op, flags, accs, b)) <=> op.params[i].flag \in flags
      <3> HIDE DEF b
      <3> QED BY <2>1, <2>2, CodeRead
    <2>5. 0 + b + 1 = b + 1
      BY <2>2
    <2> QED BY <2>3, <2>4, <2>5
  <1>2. on = {i \in set : op.params[i].flag \in flags}
    <2>1. on = {i \in set : op.params[i].bit \in BitsOf(code[0 + op.params[i].byte + 1])}
      BY DEF FlagsOn, FlagNumbers
    <2> QED BY <1>1, <2>1
  <1>3. \A j \in on : Cardinality({k \in on : k < j}) < MaxFlags
    <2> TAKE j \in on
    <2>1. IsFiniteSet(set) /\ Cardinality(set) <= MaxFlags
      BY FlagsFew
    <2>2. {k \in on : k < j} \subseteq set /\ j \in set /\ j \notin {k \in on : k < j}
      <3>1. set \subseteq Int
        <4>1. op.params \in Seq(Param) /\ Len(op.params) \in Nat
          BY RowTyped
        <4>2. DOMAIN op.params = 1..Len(op.params)
          BY <4>1
        <4>3. set \subseteq DOMAIN op.params
          BY DEF FlagNumbers
        <4> HIDE DEF set, op
        <4> QED BY <4>2, <4>3
      <3>2. on \subseteq set
        BY <1>2
      <3> HIDE DEF on, set
      <3>3. j \in set /\ j \in Int
        BY <3>1, <3>2
      <3>4. ~(j < j)
        BY <3>3
      <3> QED BY ONLY <3>2, <3>3, <3>4
    <2>3. Cardinality({k \in on : k < j}) < Cardinality(set) /\ Cardinality(set) \in Nat
          /\ Cardinality({k \in on : k < j}) \in Nat
      <3> HIDE DEF on, set
      <3>1. {k \in on : k < j} # set
        BY <2>2
      <3>2. \A S : S \subseteq set /\ S # set => Cardinality(S) < Cardinality(set) /\ IsFiniteSet(S)
        <4> TAKE S
        <4> HAVE S \subseteq set /\ S # set
        <4>1. IsFiniteSet(S) /\ Cardinality(S) <= Cardinality(set)
              /\ (Cardinality(set) = Cardinality(S) => set = S)
          BY <2>1, FS_Subset
        <4>2. Cardinality(S) \in Nat /\ Cardinality(set) \in Nat
          BY <2>1, <4>1, FS_CardinalityType
        <4> QED BY <4>1, <4>2
      <3>3. IsFiniteSet({k \in on : k < j}) /\ Cardinality({k \in on : k < j}) < Cardinality(set)
        BY <2>2, <3>1, <3>2
      <3> QED BY <2>1, <3>3, FS_CardinalityType
    <2> QED BY <2>1, <2>3 DEF MaxFlags
  <1>4. {i \in on : Cardinality({k \in on : k < i}) < MaxFlags} = on
    BY <1>3
  <1>5. RestoreFlags(code, 0, op) = {op.params[i].flag : i \in on}
    BY <1>4 DEF RestoreFlags
  <1>6. {p.flag : p \in ParamsOf(op, "flag")} = {op.params[i].flag : i \in set}
    BY DEF ParamsOf, FlagNumbers
  <1> HIDE DEF on, set, op
  <1>7. {op.params[i].flag : i \in on} = flags \cap {op.params[i].flag : i \in set}
    BY <1>2
  <1> QED BY <1>5, <1>6, <1>7 DEF op

\* The coded type of a line is read back, or another with the same code.
LEMMA CodedKept ==
  ASSUME NEW n \in DOMAIN Ops, NEW accs, AllCoded(Ops[n], accs), NEW flags, NEW code,
         HasCode(code, Ops[n], flags, accs),
         NEW j \in DOMAIN Ops[n].params, Ops[n].params[j].kind = "coding"
  PROVE  LET acc == accs[OperandOf(Ops[n], j)]
         IN  /\ acc.kind = "type"
             /\ \E ot \in CodedType(code, 0, Ops[n].params[j]) :
                    ot = acc.dt \/ PairShared(Ops[n].params[j], acc)
  <1> DEFINE op  == Ops[n]
             p   == op.params[j]
             acc == accs[OperandOf(op, j)]
             b   == p.byte
  <1>1. IsField(op, j, "coding", b) /\ FieldAt(op, j, b)
    BY DEF IsField, FieldAt
  <1>2. BitsApart(op, j, b)
    BY <1>1, FieldIs
  <1>3. b \in 0..(Len(op.code) - 1) /\ FieldBits(p) \subseteq 0..7
    BY <1>2 DEF BitsApart
  <1>4. p \in Param /\ TypesCoded(p)
    BY RowsFine DEF RowFine
  <1>5. CodingBits(p, acc) # {} /\ acc.kind = "type"
    <2>1. CodingBits(p, acc) # {} /\ \E m : IsPair(p, acc, m)
      BY <1>1, SetInField
    <2> QED BY <2>1 DEF IsPair
  <1>6. BitsOf(code[0 + p.byte + 1]) \cap FieldBits(p) = Only(CodingBits(p, acc))
    <2>1. code[b + 1] = CodeByte(op, flags, accs, b)
      BY <1>3 DEF HasCode
    <2>2. BitsOf(CodeByte(op, flags, accs, b)) \cap FieldBits(p) = SetOf(op, accs, j)
      <3> HIDE DEF b
      <3> QED BY <1>1, <1>3, CodeRead
    <2>3. 0 + b + 1 = b + 1
      BY <1>3
    <2> QED BY <2>1, <2>2, <2>3 DEF SetOf
  <1> HIDE DEF p, acc
  <1>7. p.kind = "coding"
    BY DEF p
  <1>8. \E ot \in CodedType(code, 0, p) : ot = acc.dt \/ PairShared(p, acc)
    BY <1>3, <1>4, <1>5, <1>6, <1>7, CodedReads
  <1> QED BY <1>5, <1>8 DEF p, acc
-----------------------------------------------------------------------------
(* Then the operands: the decoder walks along the parameters and finds one *)
(* operand of the line behind the other.                                   *)
\* An operand that is read back for the i-th operand of a line.
OperandMeant(op, accs, i, d) ==
    LET width == NumberWidth(op, accs, i)
    IN  \/ Denotes(d, width) = Denotes(accs[i], width)
        \/ NumberForBool(op, accs, i)
        \/ SharedCode(op, accs, i)
        \/ OtherBase(accs[i])

(* The operand as the assembler will meet it again: what is not a number    *)
(* stands for the same, with the base that the header knows.               *)
OperandSame(op, accs, i, d) ==
    LET p == OwnParams(op)[i]
    IN  /\ p.kind # "ident" => d = accs[i] \/ SharedCode(op, accs, i)
        /\ p.kind = "ident" /\ accs[i].kind = "imm" =>
               NumberGot(accs[i], TypeFor(op, accs, i), p.mode, p.predef, d)
        /\ p.kind = "ident" /\ accs[i].kind # "imm" =>
               Denotes(d, NumberWidth(op, accs, i))
                   = Denotes(AsRead(accs[i]), NumberWidth(op, accs, i))

OperandKept(op, accs, i, d) == OperandMeant(op, accs, i, d) /\ OperandSame(op, accs, i, d)

IsCount(p) == p.kind = "ident" /\ p.mode = Mode.Len

ParamGot(op, accs, i, p, code, pos, pending, enc) ==
    \E d : /\ [end |-> pos + Len(enc), acc |-> d] \in ParamOperand(code, 0, p, pos, pending)
           /\ OperandKept(op, accs, i, d)
           /\ IsCount(p) => d.kind = "imm" /\ d.value = {0}

\* An operand of a line that a row takes and that its parameter and header hold.
LineOperand(own, accs, i) ==
    /\ TextPart(accs[i]) \/ TextIndirect(accs[i])
    /\ FitsParam(own[i], accs[i]) /\ FitsHeader(accs[i])

\* A type operand is read back.
LEMMA TypeRead ==
  ASSUME NEW code, NEW pos, NEW p, p.kind = "type", NEW pending, NEW acc, TextPart(acc),
         acc.kind = "type", NEW enc \in EncodeOperand(acc, 0, 0, 0), At(code, pos, enc)
  PROVE  [end |-> pos + Len(enc), acc |-> acc] \in ParamOperand(code, 0, p, pos, pending)
  <1>1. PICK t \in Nat : acc = AccType(t)
    BY KindsApart
  <1>2. acc.dt = t
    BY <1>1 DEF AccType, AccNew
  <1>3. PICK w \in TypeToWire(acc.dt) : enc = <<w>>
    BY DEF EncodeOperand
  <1>4. w \in 0..41 /\ TypeFromByte(w) = {acc.dt}
    BY <1>3 DEF TypeToWire
  <1>5. At(code, pos, <<w>>) /\ w \in Byte
    BY <1>3, <1>4 DEF Byte
  <1>6. Peek(code, pos) = w /\ CanTake(code, pos, 1) /\ Len(<<w>>) = 1
    BY <1>5, AtOne
  <1>7. acc = TypeAccess(t)
    BY <1>1 DEF AccType, TypeAccess
  <1>8. ParamOperand(code, 0, p, pos, pending) =
            {[end |-> pos + 1, acc |-> TypeAccess(ot)] : ot \in {acc.dt}}
    BY <1>4, <1>6 DEF ParamOperand
  <1> QED BY <1>2, <1>3, <1>6, <1>7, <1>8

\* A condition is read back.
LEMMA CondRead ==
  ASSUME NEW code, NEW pos, NEW p, p.kind = "cond", NEW pending, NEW acc, TextPart(acc),
         acc.kind = "cond", NEW enc \in EncodeOperand(acc, 0, 0, 0), At(code, pos, enc)
  PROVE  [end |-> pos + Len(enc), acc |-> acc] \in ParamOperand(code, 0, p, pos, pending)
  <1>1. PICK v \in Word : acc = AccCond(v)
    BY KindsApart
  <1>2. acc.value = v
    BY <1>1 DEF AccCond, AccNew
  <1>3. PICK w \in CondToWire(v) : enc = <<w>>
    BY <1>2 DEF EncodeOperand
  <1>4. w \in 0..31 /\ {BitsOf(d) : d \in CondFromByte(w)} = {v}
    BY <1>3 DEF CondToWire
  <1>5. At(code, pos, <<w>>) /\ w \in Byte
    BY <1>3, <1>4 DEF Byte
  <1>6. Peek(code, pos) = w /\ CanTake(code, pos, 1) /\ Len(<<w>>) = 1
    BY <1>5, AtOne
  <1>7. PICK c \in CondFromByte(w) : BitsOf(c) = v
    BY <1>4
  <1>8. acc = CondAccess(c)
    BY <1>1, <1>7 DEF AccCond, CondAccess
  <1>9. [end |-> pos + 1, acc |-> CondAccess(c)] \in ParamOperand(code, 0, p, pos, pending)
    BY <1>6, <1>7 DEF ParamOperand
  <1> QED BY <1>3, <1>6, <1>8, <1>9

\* A count is read as it was written.
LEMMA CountRead ==
  ASSUME NEW d \in Access, Denotes(d, 64) = Immediate(0, {0})
  PROVE  d.kind = "imm" /\ d.value = {0}
  <1>1. DOMAIN d = {"kind", "dt", "value", "real", "area", "offset", "number", "scope",
                    "range", "text", "sub"} /\ d.value \in Word
    BY DEF Access, AccessOf
  <1>2. d.kind = "imm"
    <2>1. CASE d.kind = "slot" /\ d.range = SlotRange.Pointer
      <3>1. AsPointer(d) = Pointer(d.scope, d.number)
        BY <2>1 DEF AsPointer
      <3>2. Denotes(d, 64).kind = "ptr"
        BY <3>1 DEF Denotes, Pointer, AccNew
      <3> QED BY <3>2 DEF Immediate, AccNew
    <2>2. CASE ~(d.kind = "slot" /\ d.range = SlotRange.Pointer)
      <3>1. AsPointer(d) = d
        BY <2>2, Zenon DEF AsPointer
      <3>2. Denotes(d, 64).kind = d.kind
        BY <1>1, <3>1 DEF Denotes
      <3> QED BY <3>2 DEF Immediate, AccNew
    <2> QED BY <2>1, <2>2
  <1>3. AsPointer(d) = d
    BY <1>2 DEF AsPointer
  <1>4. Denotes(d, 64).value = LowBits(d.value, 64)
    BY <1>1, <1>3 DEF Denotes
  <1>5. LowBits(d.value, 64) = d.value
    BY <1>1, LowBitsIs
  <1>6. Immediate(0, {0}).value = {0}
    BY DEF Immediate, AccNew
  <1> QED BY <1>2, <1>4, <1>5, <1>6

\* The same operand, or a coded one that shares its code.
LEMMA SameKept ==
  ASSUME NEW op, NEW accs, NEW i, OwnParams(op)[i].kind # "ident"
  PROVE  OperandKept(op, accs, i, accs[i])
  BY DEF OperandKept, OperandMeant, OperandSame

\* A coded type of a line is read by its parameter.
LEMMA CodingGot ==
  ASSUME NEW n \in DOMAIN Ops, NEW accs, AllCoded(Ops[n], accs), NEW flags, NEW code,
         HasCode(code, Ops[n], flags, accs), NEW j \in DOMAIN Ops[n].params,
         Ops[n].params[j].kind = "coding", NEW i, i = OperandOf(Ops[n], j),
         OwnParams(Ops[n])[i] = Ops[n].params[j],
         TextPart(accs[i]) \/ TextIndirect(accs[i]), NEW pos, NEW pending,
         NEW enc \in EncodeParam(OwnParams(Ops[n]), accs, i), At(code, pos, enc)
  PROVE  ParamGot(Ops[n], accs, i, Ops[n].params[j], code, pos, pending, enc)
  <1> DEFINE op  == Ops[n]
             p   == op.params[j]
             acc == accs[i]
  <1>1. enc = <<>> /\ Len(enc) = 0
    BY DEF EncodeParam
  <1>2. pos + Len(enc) = pos
    BY <1>1 DEF At
  <1>3. acc.kind = "type" /\ \E ot \in CodedType(code, 0, p) : ot = acc.dt \/ PairShared(p, acc)
    BY CodedKept
  <1>4. PICK ot \in CodedType(code, 0, p) : ot = acc.dt \/ PairShared(p, acc)
    BY <1>3
  <1>5. [end |-> pos + Len(enc), acc |-> TypeAccess(ot)] \in ParamOperand(code, 0, p, pos, pending)
    BY <1>2, <1>4 DEF ParamOperand
  <1>6. OperandKept(op, accs, i, TypeAccess(ot))
    <2>1. CASE ot = acc.dt
      <3>1. acc.kind # "indirect"
        BY <1>3
      <3>2. TextPart(acc)
        <4>1. TextIndirect(acc) => acc.kind = "indirect"
          BY ConstructorFields DEF TextIndirect, Fields
        <4> QED BY <3>1, <4>1
      <3>3. PICK t \in Nat : acc = AccType(t)
        <4> HIDE DEF acc
        <4> QED BY <1>3, <3>2, KindsApart
      <3>4. acc = TypeAccess(ot)
        <4>1. acc.dt = t
          BY <3>3 DEF AccType, AccNew
        <4> QED BY <2>1, <3>3, <4>1 DEF AccType, TypeAccess
      <3>5. OwnParams(op)[i].kind # "ident"
        OBVIOUS
      <3> QED BY <3>4, <3>5, SameKept
    <2>2. CASE PairShared(p, acc)
      <3>1. SharedCode(op, accs, i)
        BY <2>2 DEF PairShared, SharedCode
      <3>2. OwnParams(op)[i].kind # "ident"
        OBVIOUS
      <3> QED BY <3>1, <3>2 DEF OperandKept, OperandMeant, OperandSame
    <2> QED BY <1>4, <2>1, <2>2
  <1>7. ~IsCount(p)
    BY DEF IsCount
  <1> HIDE DEF p, op
  <1>8. ParamGot(op, accs, i, p, code, pos, pending, enc)
    BY <1>5, <1>6, <1>7 DEF ParamGot
  <1> QED BY <1>8 DEF p, op

\* An operand of a line is read by its ident parameter.
LEMMA IdentParamGot ==
  ASSUME NEW n \in DOMAIN Ops, NEW accs, NEW code \in Seq(Byte), NEW j \in DOMAIN Ops[n].params,
         Ops[n].params[j].kind = "ident", NEW i,
         OwnParams(Ops[n])[i] = Ops[n].params[j], LineOperand(OwnParams(Ops[n]), accs, i),
         NEW pos, NEW pending,
         NEW enc \in EncodeParam(OwnParams(Ops[n]), accs, i), At(code, pos, enc)
  PROVE  ParamGot(Ops[n], accs, i, Ops[n].params[j], code, pos, pending, enc)
  <1> DEFINE op    == Ops[n]
             own   == OwnParams(op)
             p     == op.params[j]
             acc   == accs[i]
             as    == AsRead(acc)
             type  == RefType(own, accs, i)
             num   == IF p.predef # OT.Undef THEN p.predef ELSE type
             width == IF p.mode \in {Mode.Id, Mode.Len} THEN 64 ELSE ImmediateWidth(num)
             dts   == IF p.ref THEN pending ELSE {p.predef}
  <1>1. TypeFor(op, accs, i) = num /\ NumberWidth(op, accs, i) = width
    BY DEF TypeFor, NumberWidth
  <1>2. IdentPlain(p) /\ p \in Param
    BY RowsFine DEF RowFine
  <1>3. IdentOperand(acc, p.mode, dts)
    <2>1. FitsParam(p, acc) /\ FitsHeader(acc) /\ (TextPart(acc) \/ TextIndirect(acc))
      BY DEF LineOperand
    <2>2. acc.kind \notin {"type", "cond"}
          /\ (acc.kind = "ptr" /\ acc.scope = Scope.NativeSystem => p.mode \in {Mode.Pointer, Mode.SysPtr})
      BY <2>1 DEF FitsParam
    <2>3. p.mode = Mode.Direct => dts \cap {OT.String, OT.WString} = {}
      BY <1>2 DEF IdentPlain
    <2> HIDE DEF acc, p, dts
    <2> QED BY <2>1, <2>2, <2>3 DEF IdentOperand
  <1>4. enc \in EncodeOperand(acc, p.predef, p.mode, type)
    BY DEF EncodeParam
  <1>5. IdentGot(code, pos, p.mode, p.predef, dts, enc, as, width, num)
        /\ ~OtherBase(as) /\ as.kind = acc.kind
    <2> DEFINE mode == p.mode
               predef == p.predef
    <2>1. num = IF predef # OT.Undef THEN predef ELSE type
      OBVIOUS
    <2>2. width = IF mode \in {Mode.Id, Mode.Len} THEN 64 ELSE ImmediateWidth(num)
      OBVIOUS
    <2>3. IdentOperand(acc, mode, dts) /\ enc \in EncodeOperand(acc, predef, mode, type)
      BY <1>3, <1>4
    <2> HIDE DEF acc, mode, predef, type, num, width, dts
    <2>4. /\ IdentOperand(as, mode, dts) /\ ~OtherBase(as) /\ as.kind = acc.kind
          /\ enc \in EncodeOperand(as, predef, mode, type)
      BY <2>3, AsReadOperand
    <2> HIDE DEF as
    <2>5. IdentGot(code, pos, mode, predef, dts, enc, as, width, num)
      BY <2>1, <2>2, <2>4, IdentKept
    <2> QED BY <2>4, <2>5 DEF mode, predef
  <1>a. OtherBase(acc) \/ as = acc
    BY DEF AsRead
  <1>b. OtherBase(acc) => acc.kind # "imm"
    BY DEF OtherBase
  <1>6. PICK d : /\ [end |-> pos + Len(enc), acc |-> d]
                        \in DecodeIdent(code, pos, ReaderConstants, p.mode, p.predef, dts)
                 /\ \/ Denotes(d, width) = Denotes(as, width)
                    \/ as.kind = "imm" /\ as.dt = OT.Undef /\ num = OT.Bool
                 /\ as.kind = "imm" => NumberGot(as, num, p.mode, p.predef, d)
    <2> HIDE DEF acc, num, width, dts, as
    <2> QED BY <1>5 DEF IdentGot
  <1>c. acc.kind = "imm" => as = acc
    BY <1>a, <1>b
  <1>7. [end |-> pos + Len(enc), acc |-> d] \in ParamOperand(code, 0, p, pos, pending)
    BY <1>6 DEF ParamOperand
  <1>8. OperandKept(op, accs, i, d)
    <2>1. acc.kind = "imm" /\ acc.dt = OT.Undef /\ num = OT.Bool => NumberForBool(op, accs, i)
      BY <1>1 DEF NumberForBool
    <2>2. OwnParams(op)[i] = p /\ accs[i] = acc
      OBVIOUS
    <2> HIDE DEF num, width, as, acc, p, op
    <2>3. OperandMeant(op, accs, i, d)
      <3>1. CASE OtherBase(acc)
        BY <2>2, <3>1 DEF OperandMeant
      <3>2. CASE as = acc
        BY <1>1, <1>6, <2>1, <2>2, <3>2 DEF OperandMeant
      <3> QED BY <1>a, <3>1, <3>2
    <2>4. OperandSame(op, accs, i, d)
      <3>1. acc.kind = "imm" => NumberGot(acc, num, p.mode, p.predef, d)
        BY <1>5, <1>6, <1>c
      <3>2. acc.kind # "imm" => Denotes(d, width) = Denotes(as, width)
        BY <1>5, <1>6
      <3>3. OwnParams(op)[i].kind = "ident"
        BY <2>2 DEF p, op
      <3> QED BY <1>1, <2>2, <3>1, <3>2, <3>3 DEF OperandSame, as
    <2> QED BY <2>3, <2>4 DEF OperandKept
  <1>9. ASSUME IsCount(p) PROVE d.kind = "imm" /\ d.value = {0}
    <2>1. p.mode = Mode.Len /\ p.predef = OT.UDInt
      BY <1>2, <1>9 DEF IsCount, IdentPlain
    <2>2. acc.kind = "imm" /\ acc.value = {0}
      BY <2>1 DEF LineOperand, FitsParam
    <2>3. PICK dt, v : acc = Immediate(dt, v)
      <3>1. TextIndirect(acc) => acc.kind = "indirect"
        BY ConstructorFields DEF TextIndirect, Fields
      <3>2. TextPart(acc)
        BY <2>2, <3>1 DEF LineOperand
      <3> HIDE DEF acc
      <3> QED BY <2>2, <3>2, KindsApart DEF TextImm
    <2>4. v = {0}
      BY <2>2, <2>3 DEF Immediate, AccNew
    <2>5. width = 64 /\ num # OT.Bool
      BY <2>1 DEF Mode, OT
    <2>6. as = acc
      BY <1>c, <2>2
    <2>7. Denotes(d, 64) = Denotes(Immediate(dt, {0}), 64)
      <3> HIDE DEF acc, num, width, as
      <3> QED BY <1>6, <2>3, <2>4, <2>5, <2>6
    <2>8. Denotes(d, 64) = Immediate(0, {0})
      <3>1. LowBits({0}, 64) = {0}
        BY DEF LowBits
      <3>2. Denotes(Immediate(dt, {0}), 64) = Immediate(0, LowBits({0}, 64))
        BY DenotesForms
      <3> QED BY <2>7, <3>1, <3>2
    <2>9. d \in Access
      <3>1. pos \in 0..Len(code)
        BY DEF At
      <3>2. [end |-> pos + Len(enc), acc |-> d] \in DecodeIdent(code, pos, ReaderConstants, p.mode, p.predef, dts)
        BY <1>6
      <3>3. ~p.ref
        BY <1>2, <2>1 DEF IdentPlain
      <3>4. [end |-> pos + Len(enc), acc |-> d] \in ParamOperand(code, 0, p, pos, {})
        BY <3>2, <3>3 DEF ParamOperand
      <3>5. p.kind # "flag" /\ {} \in SUBSET Nat
        OBVIOUS
      <3> HIDE DEF p
      <3>6. [end |-> pos + Len(enc), acc |-> d].acc \in Access
        BY <1>2, <3>1, <3>4, <3>5, ParamOperandTyped
      <3> QED BY <3>6
    <2> QED BY <2>8, <2>9, CountRead
  <1> HIDE DEF p, op
  <1>10. ParamGot(op, accs, i, p, code, pos, pending, enc)
    BY <1>7, <1>8, <1>9 DEF ParamGot
  <1> QED BY <1>10 DEF p, op

\* Every operand of a line is read by its parameter, of whatever kind.
LEMMA ParamKept ==
  ASSUME NEW n \in DOMAIN Ops, NEW accs, AllCoded(Ops[n], accs), NEW flags, NEW code,
         HasCode(code, Ops[n], flags, accs), NEW j \in DOMAIN Ops[n].params,
         Ops[n].params[j].kind # "flag", NEW i, i = OperandOf(Ops[n], j),
         OwnParams(Ops[n])[i] = Ops[n].params[j], LineOperand(OwnParams(Ops[n]), accs, i),
         NEW pos, NEW pending,
         NEW enc \in EncodeParam(OwnParams(Ops[n]), accs, i), At(code, pos, enc)
  PROVE  ParamGot(Ops[n], accs, i, Ops[n].params[j], code, pos, pending, enc)
  <1> DEFINE op  == Ops[n]
             p   == op.params[j]
             acc == accs[i]
  <1>1. p.kind \in {"coding", "type", "cond", "ident"}
    <2>1. p \in Param /\ p.kind # "flag"
      BY RowTyped
    <2> HIDE DEF p
    <2> QED BY <2>1 DEF Param
  <1>2. TextPart(acc) \/ TextIndirect(acc)
    BY DEF LineOperand
  <1>3. CASE p.kind = "coding"
    BY <1>2, <1>3, CodingGot
  <1>4. CASE p.kind = "ident"
    <2>1. code \in Seq(Byte)
      BY DEF HasCode
    <2> QED BY <1>4, <2>1, IdentParamGot
  <1>5. TextIndirect(acc) => acc.kind = "indirect"
    BY ConstructorFields DEF TextIndirect, Fields
  <1>6. ASSUME p.kind \in {"type", "cond"},
               [end |-> pos + Len(enc), acc |-> acc] \in ParamOperand(code, 0, p, pos, pending)
        PROVE  ParamGot(op, accs, i, p, code, pos, pending, enc)
    <2>1. ~IsCount(p)
      BY <1>6 DEF IsCount
    <2>2. OperandKept(op, accs, i, acc)
      <3>1. OwnParams(op)[i].kind # "ident"
        BY <1>6
      <3> QED BY <3>1, SameKept
    <2> HIDE DEF p, op
    <2> QED BY <1>6, <2>1, <2>2 DEF ParamGot
  <1>7. CASE p.kind = "type"
    <2>1. acc.kind = "type" /\ enc \in EncodeOperand(acc, 0, 0, 0)
      BY <1>7 DEF EncodeParam
    <2>2. TextPart(acc)
      BY <1>2, <1>5, <2>1
    <2>3. [end |-> pos + Len(enc), acc |-> acc] \in ParamOperand(code, 0, p, pos, pending)
      <3> HIDE DEF p, acc
      <3> QED BY <1>7, <2>1, <2>2, TypeRead
    <2> QED BY <1>6, <1>7, <2>3
  <1>8. CASE p.kind = "cond"
    <2>1. acc.kind = "cond" /\ enc \in EncodeOperand(acc, 0, 0, 0)
      BY <1>8 DEF EncodeParam
    <2>2. TextPart(acc)
      BY <1>2, <1>5, <2>1
    <2>3. [end |-> pos + Len(enc), acc |-> acc] \in ParamOperand(code, 0, p, pos, pending)
      <3> HIDE DEF p, acc
      <3> QED BY <1>8, <2>1, <2>2, CondRead
    <2> QED BY <1>6, <1>8, <2>3
  <1> QED BY <1>1, <1>3, <1>4, <1>7, <1>8

(* Where the operands of an assembled statement lie: one after another     *)
(* behind the code.                                                        *)
Parts(op, accs) == [i \in DOMAIN OwnParams(op) |-> Only(OperandParts(op, accs)[i])]

EndOfPart(op, accs, k) ==
    IF k = 0 THEN Len(op.code) ELSE Len(op.code) + Len(Flat(Parts(op, accs), Len(OwnParams(op)))[k])

\* Sequences of bytes one after another are a sequence of bytes.
LEMMA FlatTyped ==
  ASSUME NEW n \in Nat, NEW s \in Seq(Seq(Byte)), Len(s) = n
  PROVE  \A k \in 1..n : Flat(s, n)[k] \in Seq(Byte)
  <1> DEFINE S == {k \in Nat : k \in 1..n => Flat(s, n)[k] \in Seq(Byte)}
  <1>1. 0 \in S
    OBVIOUS
  <1>2. ASSUME NEW k \in Nat, k \in S PROVE k + 1 \in S
    <2> SUFFICES ASSUME k + 1 \in 1..n PROVE Flat(s, n)[k + 1] \in Seq(Byte)
      OBVIOUS
    <2>1. s[k + 1] \in Seq(Byte)
      OBVIOUS
    <2>2. Flat(s, n)[k + 1] = IF k + 1 = 1 THEN s[k + 1] ELSE Flat(s, n)[k + 1 - 1] \o s[k + 1]
      BY FlatUnfold
    <2>3. CASE k = 0
      BY <2>1, <2>2, <2>3
    <2>4. CASE k # 0
      <3>1. Flat(s, n)[k] \in Seq(Byte)
        BY <1>2, <2>4
      <3>2. Flat(s, n)[k + 1] = Flat(s, n)[k] \o s[k + 1]
        <4>1. k + 1 - 1 = k /\ k + 1 # 1
          BY <2>4
        <4> QED BY <2>2, <4>1
      <3> QED BY <2>1, <3>1, <3>2, ConcatTyped
    <2> QED BY <2>3, <2>4
  <1> HIDE DEF S
  <1>3. Nat \subseteq S
    BY <1>1, <1>2, Induction
  <1> QED BY <1>3 DEF S

\* A sequence that holds others one after another holds each at its place.
LEMMA FlatAt ==
  ASSUME NEW n \in Nat \ {0}, NEW s \in Seq(Seq(Byte)), Len(s) = n, NEW code, NEW pos,
         At(code, pos, Flat(s, n)[n])
  PROVE  \A k \in 1..n :
             LET from == IF k = 1 THEN 0 ELSE Len(Flat(s, n)[k - 1])
             IN  /\ At(code, pos + from, s[k])
                 /\ Len(Flat(s, n)[k]) = from + Len(s[k])
                 /\ from \in Nat
  <1> DEFINE f == Flat(s, n)
             S == {k \in Nat : k < n => At(code, pos, f[n - k])}
  <1>1. \A k \in 1..n : f[k] \in Seq(Byte) /\ s[k] \in Seq(Byte)
    BY FlatTyped
  <1>2. \A k \in 1..n : f[k] = IF k = 1 THEN s[k] ELSE f[k - 1] \o s[k]
    BY FlatUnfold
  <1>3. ASSUME NEW k \in 2..n, At(code, pos, f[k])
        PROVE  At(code, pos, f[k - 1]) /\ At(code, pos + Len(f[k - 1]), s[k])
               /\ Len(f[k]) = Len(f[k - 1]) + Len(s[k])
    <2>1. f[k] = f[k - 1] \o s[k]
      <3>1. k \in 1..n /\ k # 1
        OBVIOUS
      <3> HIDE DEF f
      <3> QED BY <1>2, <3>1
    <2>2. f[k - 1] \in Seq(Byte) /\ s[k] \in Seq(Byte)
      BY <1>1
    <2> HIDE DEF f
    <2> QED BY <1>3, <2>1, <2>2, AtSplit
  <1>4. 0 \in S
    OBVIOUS
  <1>5. ASSUME NEW k \in Nat, k \in S PROVE k + 1 \in S
    <2> SUFFICES ASSUME k + 1 < n PROVE At(code, pos, f[n - (k + 1)])
      OBVIOUS
    <2>1. PICK m \in 2..n : m = n - k /\ m - 1 = n - (k + 1)
      <3>1. n - k \in 2..n /\ (n - k) - 1 = n - (k + 1)
        BY ONLY n \in Nat \ {0}, k \in Nat, k + 1 < n
      <3> QED BY ONLY <3>1
    <2>2. At(code, pos, f[m])
      BY <1>5, <2>1
    <2> HIDE DEF f
    <2>3. At(code, pos, f[m - 1])
      BY <1>3, <2>2
    <2> QED BY <2>1, <2>3
  <1>6. Nat \subseteq S
    <2> HIDE DEF S
    <2> QED BY <1>4, <1>5, Induction
  <1>7. \A k \in 1..n : At(code, pos, f[k])
    <2> TAKE k \in 1..n
    <2>1. PICK m \in Nat : m < n /\ n - m = k
      <3>1. n - k \in Nat /\ n - k < n /\ n - (n - k) = k
        OBVIOUS
      <3> QED BY <3>1
    <2>2. m \in S
      <3> HIDE DEF S
      <3> QED BY <1>6
    <2>3. At(code, pos, f[n - m])
      BY <2>1, <2>2
    <2> QED BY <2>1, <2>3
  <1> HIDE DEF f, S
  <1> TAKE k \in 1..n
  <1>8. CASE k = 1
    <2>1. f[1] = s[1]
      BY <1>2
    <2>2. At(code, pos, s[1]) /\ pos + 0 = pos /\ Len(s[1]) = 0 + Len(s[1])
      BY <1>1, <1>7, <2>1 DEF At
    <2> QED BY <1>8, <2>1, <2>2 DEF f
  <1>9. CASE k # 1
    <2>1. k \in 2..n /\ At(code, pos, f[k])
      BY <1>7, <1>9
    <2>2. At(code, pos + Len(f[k - 1]), s[k]) /\ Len(f[k]) = Len(f[k - 1]) + Len(s[k])
      BY <1>3, <2>1
    <2>3. Len(f[k - 1]) \in Nat
      BY <1>1, <2>1
    <2> QED BY <1>9, <2>2, <2>3 DEF f
  <1> QED BY <1>8, <1>9

\* The count that a line may give is one.
LEMMA OneIs ==
  ~IntIsNegative({0}) /\ IntValue({0}) = 1
  <1>1. ByteAt({0}, 0) = 1
    BY ByteAtZero
  <1>2. \A k \in {8, 16, 24} : ByteAt({0}, k) = 0
    BY DEF ByteAt
  <1>3. {0} \ {31} = {0}
    OBVIOUS
  <1>4. IntValue({0}) = 1
    BY <1>1, <1>2, <1>3 DEF IntValue
  <1> QED BY <1>4 DEF IntIsNegative

Counted(s) == s.multiple \in {-1, 1}

\* A parameter is read once as long as the count is one or there is none.
\* Parameter i of op is read at state s to the operand d that ends at e, a count as one zero.
ReadsAs(code, op, i, s, e, d) ==
    /\ i \in 1..Len(op.params) /\ op.params[i].kind # "flag"
    /\ Counted(s) /\ Len(s.operands) < MaxOperands
    /\ [end |-> e, acc |-> d] \in ParamOperand(code, 0, op.params[i], s.rpos, s.pending)
    /\ IsCount(op.params[i]) => d.kind = "imm" /\ d.value = {0}

\* ReadParam keeps a state that has read d as its next operand, up to e.
ReadTo(code, op, i, s, e, d) ==
    \E t \in ReadParam(code, 0, op, i, s) :
        t.rpos = e /\ Counted(t) /\ t.operands = Append(s.operands, d)

\* A parameter that is read once adds one operand.
LEMMA ReadOnce ==
  ASSUME NEW code \in Seq(Byte), NEW op, op.params \in Seq(Param), NEW i,
         NEW from \in Nat, NEW s \in ReaderState(code, from),
         NEW e, NEW d, ReadsAs(code, op, i, s, e, d)
  PROVE  ReadTo(code, op, i, s, e, d)
  <1> USE DEF ReadsAs, ReadTo
  <1> DEFINE p == op.params[i]
             t == [s EXCEPT !.rpos = e, !.operands = Append(@, d)]
  <1>1. s.multiple \in Nat \cup {-1} /\ s.operands \in Seq(Access) /\ Len(code) \in Nat
        /\ DOMAIN s = {"rpos", "pending", "multiple", "operands"}
    BY DEF ReaderState
  <1>2. RepeatsOf(op, i, s) = 1 /\ TimesOf(code, op, i, s) = 1
    <2>1. RepeatsOf(op, i, s) = 1
      BY DEF RepeatsOf, TimesRead, Counted
    <2> QED BY <1>1, <2>1 DEF TimesOf, Bounded
  <1>3. ReadParam(code, 0, op, i, s) = DoneFrom(p, Reads(code, 0, p, 1, s)[1])
    <2>1. RepeatsOf(op, i, s) # 0
      BY <1>2
    <2>2. ReadParam(code, 0, op, i, s) =
              DoneFrom(p, Reads(code, 0, p, TimesOf(code, op, i, s), s)[TimesOf(code, op, i, s)])
      BY <1>1, <2>1, ReadParamIsReads
    <2> QED BY <1>2, <2>2
  <1>4. Reads(code, 0, p, 1, s)[1] = ReadOne(code, 0, p, s)
    <2> DEFINE read == Reads(code, 0, p, 1, s)
    <2>1. 1 \in Nat /\ 0 \in 0..(1 - 1) /\ 0 + 1 = 1
      OBVIOUS
    <2>2. read[0] = {s} /\ \A k \in 0..(1 - 1) : read[k + 1] = UNION {ReadOne(code, 0, p, u) : u \in read[k]}
      BY <2>1, ReadsUnfold
    <2>3. read[1] = UNION {ReadOne(code, 0, p, u) : u \in {s}}
      BY <2>1, <2>2, Zenon
    <2> HIDE DEF read
    <2>4. UNION {ReadOne(code, 0, p, u) : u \in {s}} = ReadOne(code, 0, p, s)
      OBVIOUS
    <2> QED BY <2>3, <2>4 DEF read
  <1>5. t \in ReadOne(code, 0, p, s)
    <2>1. [s EXCEPT !.rpos = [end |-> e, acc |-> d].end,
                    !.operands = Append(@, [end |-> e, acc |-> d].acc)] \in ReadOne(code, 0, p, s)
      BY DEF ReadOne
    <2> QED BY <2>1
  <1>6. t.operands = Append(s.operands, d) /\ t.rpos = e /\ t.multiple = s.multiple
        /\ t.pending = s.pending
        /\ DOMAIN t = {"rpos", "pending", "multiple", "operands"}
    BY <1>1
  <1>7. Append(s.operands, d)[Len(Append(s.operands, d))] = d
    BY <1>1
  <1>8. DoneWith(p, t) \in ReadParam(code, 0, op, i, s)
    BY <1>3, <1>4, <1>5, Zenon DEF DoneFrom
  <1> HIDE DEF t, p
  <1>9. DoneWith(p, t) = [t EXCEPT !.pending = PendingAfter(p, d, @), !.multiple = CountAfter(p, d, @)]
    BY <1>6, <1>7, Zenon DEF DoneWith
  <1>10. DoneWith(p, t).rpos = e /\ DoneWith(p, t).operands = Append(s.operands, d)
         /\ DoneWith(p, t).multiple = CountAfter(p, d, s.multiple)
    BY <1>6, <1>9
  <1>11. CountAfter(p, d, s.multiple) \in {-1, 1}
    <2>1. CASE IsCount(p)
      <3>1. d.kind = "imm" /\ d.value = {0}
        BY <2>1 DEF p
      <3> QED BY <2>1, <3>1, OneIs DEF CountAfter, IsCount
    <2>2. CASE ~IsCount(p)
      BY <2>2 DEF CountAfter, IsCount, Counted
    <2> QED BY <2>1, <2>2
  <1> QED BY <1>8, <1>10, <1>11 DEF Counted

\* There are no more operands than parameters.
LEMMA OperandsFew ==
  ASSUME NEW op, NEW m \in Nat
  PROVE  OperandOf(op, m) \in 0..m
  <1>1. IsFiniteSet(1..m) /\ Cardinality(1..m) = m
    BY FS_Interval
  <1>2. {j \in 1..m : op.params[j].kind # "flag"} \in SUBSET (1..m)
    OBVIOUS
  <1>3. Cardinality({j \in 1..m : op.params[j].kind # "flag"}) <= m
        /\ IsFiniteSet({j \in 1..m : op.params[j].kind # "flag"})
    BY <1>1, <1>2, FS_Subset
  <1> QED BY <1>3, FS_CardinalityType DEF OperandOf

\* The bytes that a row gives a line whose operands it takes.
Assembled(n, flags, accs, code) ==
    LET op  == Ops[n]
        own == OwnParams(op)
    IN  /\ n \in DOMAIN Ops /\ DOMAIN accs = DOMAIN own
        /\ AllCoded(op, accs)
        /\ \A i \in DOMAIN own : LineOperand(own, accs, i) /\ Encodable(accs[i])
        /\ \A i \in DOMAIN own : OperandParts(op, accs)[i] # {}
        /\ code = CodeOf(op, flags, accs) \o FlattenSeq(Parts(op, accs))

PlacedAt(op, accs, code, i) ==
    /\ EndOfPart(op, accs, i - 1) \in Nat
    /\ Parts(op, accs)[i] \in EncodeParam(OwnParams(op), accs, i)
    /\ At(code, EndOfPart(op, accs, i - 1), Parts(op, accs)[i])
    /\ EndOfPart(op, accs, i) = EndOfPart(op, accs, i - 1) + Len(Parts(op, accs)[i])

\* The bytes of each operand of an assembled line.
LEMMA PartsTyped ==
  ASSUME NEW n, NEW flags, NEW accs, NEW code, Assembled(n, flags, accs, code)
  PROVE  /\ Parts(Ops[n], accs) \in Seq(Seq(Byte))
         /\ Len(Parts(Ops[n], accs)) = Len(OwnParams(Ops[n]))
         /\ Len(OwnParams(Ops[n])) \in Nat
         /\ \A i \in DOMAIN OwnParams(Ops[n]) :
                Parts(Ops[n], accs)[i] \in EncodeParam(OwnParams(Ops[n]), accs, i)
  <1> DEFINE op  == Ops[n]
             own == OwnParams(op)
             k   == Len(own)
  <1>1. n \in DOMAIN Ops
    BY DEF Assembled
  <1>2. own \in Seq(Param) /\ k \in Nat /\ DOMAIN own = 1..k
        /\ \A i \in DOMAIN own : own[i].kind \in {"coding", "type", "cond", "ident"}
    BY <1>1, OwnParamsTyped
  <1>3. \A i \in DOMAIN own : Encodable(accs[i]) /\ OperandParts(op, accs)[i] # {}
    BY DEF Assembled
  <1>4. \A i \in DOMAIN own : OperandParts(op, accs)[i] = EncodeParam(own, accs, i)
    BY DEF OperandParts
  <1>5. ASSUME NEW i \in DOMAIN own
        PROVE  Parts(op, accs)[i] \in EncodeParam(own, accs, i) /\ Parts(op, accs)[i] \in Seq(Byte)
    <2>1. Parts(op, accs)[i] = Only(EncodeParam(own, accs, i)) /\ EncodeParam(own, accs, i) # {}
      BY <1>3, <1>4 DEF Parts
    <2>2. Only(EncodeParam(own, accs, i)) \in EncodeParam(own, accs, i)
      BY <2>1 DEF Only
    <2>3. EncodeParam(own, accs, i) \subseteq Seq(Byte)
      <3> HIDE DEF own, op
      <3> QED BY <1>2, <1>3, ParamEncoded
    <2> QED BY <2>1, <2>2, <2>3
  <1>6. DOMAIN Parts(op, accs) = 1..k
    BY <1>2 DEF Parts
  <1>7. Parts(op, accs) \in [1..k -> Seq(Byte)]
    <2>1. Parts(op, accs) = [i \in 1..k |-> Parts(op, accs)[i]]
      BY <1>2 DEF Parts
    <2> HIDE DEF op, own, k
    <2> QED BY <1>2, <1>5, <2>1
  <1> HIDE DEF op, own, k
  <1>8. Parts(op, accs) \in Seq(Seq(Byte)) /\ Len(Parts(op, accs)) = k
    BY <1>2, <1>6, <1>7
  <1> QED BY <1>2, <1>5, <1>8 DEF op, own, k

\* The code of a line is as long as the row's.
LEMMA CodeTyped ==
  ASSUME NEW n \in DOMAIN Ops, NEW accs, AllCoded(Ops[n], accs), NEW flags
  PROVE  /\ CodeOf(Ops[n], flags, accs) \in Seq(Byte)
         /\ Len(CodeOf(Ops[n], flags, accs)) = Len(Ops[n].code)
  <1> DEFINE op == Ops[n]
             k  == Len(op.code)
             c  == CodeOf(op, flags, accs)
  <1>1. k \in Nat /\ DOMAIN op.code = 1..k
    BY RowTyped
  <1>2. DOMAIN c = 1..k /\ c = [d \in 1..k |-> c[d]]
    BY <1>1 DEF CodeOf
  <1>3. \A d \in 1..k : c[d] \in Byte
    <2> TAKE d \in 1..k
    <2>1. PICK b \in 0..(k - 1) : b + 1 = d
      <3>1. d - 1 \in 0..(k - 1) /\ d - 1 + 1 = d
        BY <1>1
      <3> QED BY <3>1
    <2>2. CodeByte(op, flags, accs, b) \in Byte
      BY CodeByteIs
    <2> QED BY <2>1, <2>2 DEF CodeByte
  <1> HIDE DEF c, k, op
  <1>4. c \in [1..k -> Byte]
    BY <1>2, <1>3
  <1> QED BY <1>1, <1>2, <1>4 DEF c, k, op

\* An assembled statement holds the code and each operand at its place.
LEMMA Placed ==
  ASSUME NEW n, NEW flags, NEW accs, NEW code, Assembled(n, flags, accs, code)
  PROVE  /\ HasCode(code, Ops[n], flags, accs)
         /\ \A i \in DOMAIN OwnParams(Ops[n]) : PlacedAt(Ops[n], accs, code, i)
         /\ EndOfPart(Ops[n], accs, Len(OwnParams(Ops[n]))) = Len(code)
         /\ EndOfPart(Ops[n], accs, 0) = Len(Ops[n].code)
  <1> DEFINE op   == Ops[n]
             own  == OwnParams(op)
             k    == Len(own)
             s    == Parts(op, accs)
             c    == CodeOf(op, flags, accs)
             rest == FlattenSeq(s)
  <1>1. n \in DOMAIN Ops /\ AllCoded(op, accs) /\ code = c \o rest
    BY DEF Assembled
  <1>2. s \in Seq(Seq(Byte)) /\ Len(s) = k /\ k \in Nat
        /\ \A i \in DOMAIN own : s[i] \in EncodeParam(own, accs, i)
    BY PartsTyped
  <1>3. DOMAIN own = 1..k
    BY <1>1, OwnParamsTyped
  <1>4. c \in Seq(Byte) /\ Len(c) = Len(op.code) /\ Len(c) \in Nat
    BY <1>1, CodeTyped
  <1>5. rest \in Seq(Byte)
    BY <1>2, FlattenTyped
  <1>6. code \in Seq(Byte) /\ Len(code) = Len(c) + Len(rest)
    BY <1>1, <1>4, <1>5
  <1> HIDE DEF c, s, rest, k, own, op
  <1>7. \A b \in 0..(Len(op.code) - 1) : code[b + 1] = c[b + 1]
    BY <1>1, <1>4, <1>5
  <1>8. HasCode(code, op, flags, accs)
    <2>1. \A b \in 0..(Len(op.code) - 1) : code[b + 1] = CodeByte(op, flags, accs, b)
      BY <1>7 DEF CodeByte, c
    <2>2. Len(op.code) <= Len(code)
      BY <1>4, <1>5, <1>6
    <2> QED BY <1>6, <2>1, <2>2 DEF HasCode
  <1>9. At(code, Len(c), rest)
    <2>1. At(code, 0, c \o rest)
      BY <1>1, <1>6 DEF At
    <2>2. At(code, 0 + Len(c), rest)
      BY <1>4, <1>5, <2>1, AtSplit
    <2> QED BY <1>4, <2>2
  <1>10. CASE k = 0
    <2>1. rest = <<>>
      BY <1>2, <1>10 DEF rest, FlattenSeq
    <2>2. EndOfPart(op, accs, 0) = Len(op.code) /\ Len(op.code) = Len(code)
      BY <1>4, <1>6, <2>1 DEF EndOfPart
    <2> QED BY <1>3, <1>8, <1>10, <2>2 DEF op, own, k
  <1>11. CASE k # 0
    <2>1. rest = Flat(s, k)[k]
      BY <1>2, <1>11 DEF rest, FlattenSeq, Flat, IsFlat
    <2>2. \A i \in 1..k :
             LET from == IF i = 1 THEN 0 ELSE Len(Flat(s, k)[i - 1])
             IN  /\ At(code, Len(c) + from, s[i])
                 /\ Len(Flat(s, k)[i]) = from + Len(s[i])
                 /\ from \in Nat
      BY <1>2, <1>9, <1>11, <2>1, FlatAt
    <2>3. \A i : EndOfPart(op, accs, i) = IF i = 0 THEN Len(c) ELSE Len(c) + Len(Flat(s, k)[i])
      BY <1>4 DEF EndOfPart, s, k, own
    <2>4. \A i \in 1..k : PlacedAt(op, accs, code, i)
      <3> TAKE i \in 1..k
      <3> DEFINE from == IF i = 1 THEN 0 ELSE Len(Flat(s, k)[i - 1])
      <3>1. At(code, Len(c) + from, s[i]) /\ Len(Flat(s, k)[i]) = from + Len(s[i]) /\ from \in Nat
        BY <2>2
      <3>2. EndOfPart(op, accs, i - 1) = Len(c) + from
        <4>1. CASE i = 1
          <5>1. i - 1 = 0 /\ from = 0 /\ Len(c) + 0 = Len(c)
            BY <1>4, <4>1
          <5>2. EndOfPart(op, accs, 0) = Len(c)
            BY <2>3
          <5> HIDE DEF from
          <5> QED BY <5>1, <5>2
        <4>2. CASE i # 1
          <5>1. i - 1 # 0 /\ from = Len(Flat(s, k)[i - 1])
            BY <4>2
          <5>2. EndOfPart(op, accs, i - 1) = Len(c) + Len(Flat(s, k)[i - 1])
            BY <2>3, <5>1
          <5> HIDE DEF from
          <5> QED BY <5>1, <5>2
        <4> QED BY <4>1, <4>2
      <3>3. EndOfPart(op, accs, i) = Len(c) + Len(Flat(s, k)[i])
        BY <2>3
      <3>4. Len(s[i]) \in Nat
        BY <1>2
      <3> HIDE DEF from
      <3>5. \A x, y, z \in Nat : x + (y + z) = (x + y) + z /\ x + y \in Nat
        OBVIOUS
      <3>6. EndOfPart(op, accs, i) = Len(c) + (from + Len(s[i]))
        BY <3>1, <3>3, Zenon
      <3>7. Len(c) \in Nat /\ from \in Nat
        BY <1>4, <3>1
      <3>8. EndOfPart(op, accs, i) = EndOfPart(op, accs, i - 1) + Len(s[i])
        <4>1. Len(c) + (from + Len(s[i])) = (Len(c) + from) + Len(s[i])
          BY <3>4, <3>5, <3>7, Zenon
        <4> QED BY <3>2, <3>6, <4>1, Zenon
      <3>9. EndOfPart(op, accs, i - 1) \in Nat
        BY <3>2, <3>5, <3>7, Zenon
      <3>10. At(code, EndOfPart(op, accs, i - 1), s[i]) /\ s[i] \in EncodeParam(own, accs, i)
        BY <1>2, <1>3, <3>1, <3>2, Zenon
      <3> QED BY <3>8, <3>9, <3>10, Zenon DEF PlacedAt, s, own
    <2>5. EndOfPart(op, accs, k) = Len(code)
      BY <1>6, <1>11, <2>1, <2>3
    <2>6. EndOfPart(op, accs, 0) = Len(op.code)
      BY <1>4, <2>3
    <2> QED BY <1>3, <1>8, <2>4, <2>5, <2>6 DEF op, own, k
  <1> QED BY <1>10, <1>11

\* The reader after the first m parameters of an assembled statement.
Walked(op, accs, m, s) ==
    /\ s.rpos = EndOfPart(op, accs, OperandOf(op, m)) /\ Counted(s)
    /\ Len(s.operands) = OperandOf(op, m)
    /\ \A i \in 1..OperandOf(op, m) : OperandKept(op, accs, i, s.operands[i])

\* The decoder's next parameter reads the line's next operand.
LEMMA WalkOne ==
  ASSUME NEW n, NEW flags, NEW accs, NEW code, Assembled(n, flags, accs, code),
         NEW m \in Nat, m < Len(Ops[n].params), NEW from \in Nat, NEW s \in ReaderState(code, from),
         Walked(Ops[n], accs, m, s)
  PROVE  \E t \in ReadParam(code, 0, Ops[n], m + 1, s) : Walked(Ops[n], accs, m + 1, t)
  <1> DEFINE op == Ops[n]
             j  == m + 1
             p  == op.params[j]
             i  == OperandOf(op, m)
  <1>1. n \in DOMAIN Ops /\ AllCoded(op, accs)
    BY DEF Assembled
  <1>2. op.params \in Seq(Param) /\ Len(op.params) \in Nat /\ j \in 1..Len(op.params)
    BY <1>1, RowTyped
  <1>3. i \in Nat /\ OperandOf(op, j) = i + IF p.kind # "flag" THEN 1 ELSE 0
    <2>1. j \in Nat /\ j # 0 /\ j - 1 = m
      OBVIOUS
    <2>2. OperandOf(op, j) = OperandOf(op, j - 1) + IF op.params[j].kind # "flag" THEN 1 ELSE 0
      BY <2>1, OperandOfNext
    <2>3. OperandOf(op, m) \in Nat
      BY OperandOfNext
    <2> QED BY <2>1, <2>2, <2>3
  <1>4. CASE p.kind = "flag"
    <2>1. ReadParam(code, 0, op, j, s) = {s}
      BY <1>4, ReadParamReadsNone
    <2>2. OperandOf(op, j) = i
      BY <1>3, <1>4
    <2>3. Walked(op, accs, j, s)
      <3> HIDE DEF op, j
      <3> QED BY <2>2, Zenon DEF Walked, op
    <2> QED BY <2>1, <2>3
  <1>5. CASE p.kind # "flag"
    <2> DEFINE k   == i + 1
               own == OwnParams(op)
               enc == Parts(op, accs)[k]
    <2>1. OperandOf(op, j) = k
      BY <1>3, <1>5
    <2>2. k \in DOMAIN own /\ own[k] = p
      <3>1. OperandOf(op, j) \in DOMAIN OwnParams(op) /\ OwnParams(op)[OperandOf(op, j)] = op.params[j]
        BY <1>2, <1>5, OwnParamIs
      <3> HIDE DEF op, j, k
      <3> QED BY <2>1, <3>1
    <2>3. PlacedAt(op, accs, code, k) /\ HasCode(code, op, flags, accs)
      BY <2>2, Placed
    <2>4. LineOperand(own, accs, k)
      BY <2>2 DEF Assembled
    <2>5. k - 1 = i /\ s.rpos = EndOfPart(op, accs, i) /\ Counted(s) /\ Len(s.operands) = i
      BY <1>3 DEF Walked
    <2>6. enc \in EncodeParam(own, accs, k) /\ At(code, s.rpos, enc)
          /\ EndOfPart(op, accs, k) = s.rpos + Len(enc)
      <3> HIDE DEF k, i
      <3> QED BY <2>3, <2>5 DEF PlacedAt
    <2>7. ParamGot(op, accs, k, p, code, s.rpos, s.pending, enc)
      <3> DEFINE pos     == s.rpos
                 pending == s.pending
      <3>1. j \in DOMAIN op.params
        BY <1>2
      <3> HIDE DEF enc, k, j, pos, pending
      <3>2. At(code, pos, enc)
        BY <2>6 DEF pos
      <3>3. ParamGot(op, accs, k, p, code, pos, pending, enc)
        BY <1>1, <1>5, <2>1, <2>2, <2>3, <2>4, <2>6, <3>1, <3>2, ParamKept
      <3> QED BY <3>3 DEF pos, pending
    <2>8. PICK d : /\ [end |-> EndOfPart(op, accs, k), acc |-> d]
                          \in ParamOperand(code, 0, p, s.rpos, s.pending)
                   /\ OperandKept(op, accs, k, d)
                   /\ IsCount(p) => d.kind = "imm" /\ d.value = {0}
      BY <2>6, <2>7, Zenon DEF ParamGot
    <2>9. Len(s.operands) < MaxOperands
      <3>1. Len(op.params) <= MaxOperands
        BY <1>1, RowsFine DEF RowFine
      <3>2. OperandOf(op, j) \in 0..j
        BY OperandsFew
      <3>3. i + 1 <= j /\ j <= Len(op.params) /\ i = Len(s.operands)
        BY <1>2, <1>3, <2>1, <2>5, <3>2
      <3> QED BY <1>2, <1>3, <3>1, <3>3, TableAssumption
    <2>10. PICK t \in ReadParam(code, 0, op, j, s) :
               /\ t.rpos = EndOfPart(op, accs, k) /\ Counted(t)
               /\ t.operands = Append(s.operands, d)
      <3> DEFINE e == EndOfPart(op, accs, k)
      <3>1. code \in Seq(Byte)
        BY <2>3 DEF HasCode
      <3>2. [end |-> e, acc |-> d] \in ParamOperand(code, 0, op.params[j], s.rpos, s.pending)
        BY <2>8
      <3> HIDE DEF e, j, op
      <3>3. \E t \in ReadParam(code, 0, op, j, s) :
                t.rpos = e /\ Counted(t) /\ t.operands = Append(s.operands, d)
        <4>1. op.params \in Seq(Param) /\ ReadsAs(code, op, j, s, e, d)
          BY <1>2, <1>5, <2>5, <2>8, <2>9, <3>2 DEF ReadsAs
        <4>2. from \in Nat /\ s \in ReaderState(code, from)
          OBVIOUS
        <4>3. ReadTo(code, op, j, s, e, d)
          BY ONLY <3>1, <4>1, <4>2, ReadOnce
        <4> QED BY <4>3 DEF ReadTo
      <3> QED BY <3>3 DEF e
    <2>11. s.operands \in Seq(Access)
      BY DEF ReaderState
    <2>12. Len(t.operands) = k /\ t.operands[k] = d
           /\ \A q \in 1..i : t.operands[q] = s.operands[q]
      BY <1>3, <2>5, <2>10, <2>11
    <2>13. \A q \in 1..k : OperandKept(op, accs, q, t.operands[q])
      <3>1. \A q \in 1..i : OperandKept(op, accs, q, s.operands[q])
        BY DEF Walked
      <3>2. \A q \in 1..k : q \in 1..i \/ q = k
        BY <1>3
      <3> HIDE DEF i, k, op
      <3> QED BY <2>8, <2>12, <3>1, <3>2
    <2>14. Walked(op, accs, j, t)
      <3> HIDE DEF op, j, k
      <3> QED BY <2>1, <2>10, <2>12, <2>13, Zenon DEF Walked
    <2> QED BY <2>10, <2>14
  <1> QED BY <1>4, <1>5

\* The state in which all parameters of op have been read.
ReadWhole(op, accs, code, s) ==
    /\ s.rpos = Len(code) /\ Len(s.operands) = Len(OwnParams(op))
    /\ \A i \in DOMAIN OwnParams(op) : OperandKept(op, accs, i, s.operands[i])

\* The decoder reads an assembled statement to its end.
LEMMA WalkAll ==
  ASSUME NEW n, NEW flags, NEW accs, NEW code, Assembled(n, flags, accs, code)
  PROVE  \E s \in ReadParams(code, 0, Ops[n]) : ReadWhole(Ops[n], accs, code, s)
  <1> DEFINE op   == Ops[n]
             read == Steps(code, 0, op)
             last == Len(op.params)
             S    == {m \in Nat : m <= last => \E s \in read[m] : Walked(op, accs, m, s)}
  <1>1. n \in DOMAIN Ops
    BY DEF Assembled
  <1>2. op.code \in Seq(Byte) /\ op.params \in Seq(Param) /\ last \in Nat /\ Len(op.code) \in Nat
    BY <1>1, RowTyped
  <1>3. HasCode(code, op, flags, accs) /\ EndOfPart(op, accs, 0) = Len(op.code)
    BY Placed
  <1>4. code \in Seq(Byte) /\ 0 + Len(op.code) <= Len(code)
    BY <1>2, <1>3 DEF HasCode
  <1>5. ReadParams(code, 0, op) = read[last] /\ read[0] = {Start(0, op)}
    BY <1>2, StepsUnfold
  <1>6. 0 \in S
    <2>1. OperandOf(op, 0) = 0
      BY OperandOfNext
    <2>2. Start(0, op).rpos = Len(op.code) /\ Counted(Start(0, op)) /\ Len(Start(0, op).operands) = 0
      BY <1>2 DEF Start, Counted
    <2>3. Walked(op, accs, 0, Start(0, op))
      <3>1. \A i \in 1..0 : FALSE
        OBVIOUS
      <3> HIDE DEF op
      <3> QED BY <1>3, <2>1, <2>2, <3>1 DEF Walked
    <2> QED BY <1>5, <2>3
  <1>7. ASSUME NEW m \in Nat, m \in S PROVE m + 1 \in S
    <2> SUFFICES ASSUME m + 1 <= last PROVE \E t \in read[m + 1] : Walked(op, accs, m + 1, t)
      OBVIOUS
    <2>1. PICK s \in read[m] : Walked(op, accs, m, s)
      BY <1>2, <1>7
    <2>2. m + 1 \in 1..Len(op.params) /\ (m + 1) - 1 = m /\ m < Len(op.params)
      BY <1>2
    <2>3. s \in ReaderState(code, 0 + Len(op.code)) /\ read[m + 1] = ReadParam(code, 0, op, m + 1, s)
      <3> DEFINE i == m + 1
      <3>1. s \in Steps(code, 0, op)[i - 1] /\ i \in 1..Len(op.params)
        BY <2>1, <2>2
      <3> HIDE DEF i, op
      <3>2. s \in ReaderState(code, 0 + Len(op.code)) /\ Steps(code, 0, op)[i] = ReadParam(code, 0, op, i, s)
        BY <1>2, <1>4, <3>1, StepsNext
      <3> QED BY <3>2 DEF i
    <2>4. 0 + Len(op.code) \in Nat
      BY <1>2
    <2>5. \E t \in ReadParam(code, 0, op, m + 1, s) : Walked(op, accs, m + 1, t)
      <3> DEFINE from == 0 + Len(op.code)
      <3> HIDE DEF from, op, read
      <3>1. from \in Nat /\ s \in ReaderState(code, from)
        BY <2>3, <2>4 DEF from
      <3>2. Walked(Ops[n], accs, m, s) /\ m < Len(Ops[n].params)
        BY <2>1, <2>2 DEF op
      <3>3. \E t \in ReadParam(code, 0, Ops[n], m + 1, s) : Walked(Ops[n], accs, m + 1, t)
        BY <3>1, <3>2, WalkOne
      <3> QED BY <3>3 DEF op
    <2> QED BY <2>3, <2>5
  <1>8. Nat \subseteq S
    <2> HIDE DEF S
    <2> QED BY <1>6, <1>7, Induction
  <1>9. PICK s \in read[last] : Walked(op, accs, last, s)
    BY <1>2, <1>8
  <1>10. OperandOf(op, last) = Len(OwnParams(op)) /\ Len(OwnParams(op)) \in Nat
         /\ DOMAIN OwnParams(op) = 1..Len(OwnParams(op))
    <2>1. OwnParams(op) \in Seq(Param)
      BY <1>1, OwnParamsTyped
    <2>2. OperandOf(op, last) \in Nat /\ DOMAIN OwnParams(op) = 1..OperandOf(op, last)
      BY <1>2, OperandOfNext DEF OwnParams
    <2> HIDE DEF op, last
    <2> QED BY <2>1, <2>2
  <1>11. EndOfPart(op, accs, Len(OwnParams(op))) = Len(code)
    BY Placed
  <1> HIDE DEF op, read, last
  <1>12. ReadWhole(op, accs, code, s)
    BY <1>9, <1>10, <1>11 DEF Walked, ReadWhole
  <1> QED BY <1>5, <1>9, <1>12 DEF op
-----------------------------------------------------------------------------
(* The row of the line is the only one that can be read.                   *)
\* RowsApart at work: one row at most can be read where a statement starts.
LEMMA OfferedOnce ==
  ASSUME NEW code \in Seq(Byte)
  PROVE  \A m, n \in Offered(code, 0) : m = n
  <1> SUFFICES ASSUME NEW m \in Offered(code, 0), NEW n \in Offered(code, 0), m # n
               PROVE  FALSE
    OBVIOUS
  <1>1. /\ m \in DOMAIN Ops /\ Len(Ops[m].code) \in Nat /\ 0 + Len(Ops[m].code) <= Len(code)
        /\ n \in DOMAIN Ops /\ Ops[m].code # <<>> /\ Ops[n].code # <<>>
    BY OfferedFits, RowAssumption
  <1>2. PICK i \in (0..(Len(Ops[m].code) - 1)) \cap (0..(Len(Ops[n].code) - 1)) :
            \A b \in Byte : ~(ByteMatches(Ops[m], i, b) /\ ByteMatches(Ops[n], i, b))
    BY <1>1, RowAssumption DEF RowsApart
  <1>3. ByteMatches(Ops[m], i, code[0 + i + 1]) /\ ByteMatches(Ops[n], i, code[0 + i + 1])
    BY <1>2 DEF Offered, CodeMatches
  <1>4. code[0 + i + 1] \in Byte
    BY <1>1, <1>2
  <1> QED BY <1>2, <1>3, <1>4

\* At the start of an assembled statement the index offers its row and no other.
LEMMA OfferedIs ==
  ASSUME NEW n, NEW flags, NEW accs, NEW code, Assembled(n, flags, accs, code)
  PROVE  /\ code \in Seq(Byte) /\ 0 < Len(code)
         /\ n \in DOMAIN Ops /\ Offered(code, 0) = {n}
  <1> DEFINE op == Ops[n]
  <1>1. n \in DOMAIN Ops /\ AllCoded(op, accs)
    BY DEF Assembled
  <1>2. HasCode(code, op, flags, accs)
    BY Placed
  <1>3. op.code \in Seq(Byte) /\ op.code # <<>> /\ Len(op.code) \in Nat /\ Len(op.code) > 0
    <2>1. op.code \in Seq(Byte) /\ op.code # <<>>
      BY <1>1, RowTyped, RowAssumption
    <2> HIDE DEF op
    <2> QED BY <2>1
  <1>4. code \in Seq(Byte) /\ Len(op.code) <= Len(code) /\ 0 < Len(code) /\ Len(code) \in Nat
    BY <1>2, <1>3 DEF HasCode
  <1>5. \A b \in 0..(Len(op.code) - 1) : ByteMatches(op, b, code[0 + b + 1])
    <2> TAKE b \in 0..(Len(op.code) - 1)
    <2>1. code[b + 1] = CodeByte(op, flags, accs, b) /\ 0 + b + 1 = b + 1
      BY <1>2, <1>3 DEF HasCode
    <2>2. ByteMatches(op, b, CodeByte(op, flags, accs, b))
      BY <1>1, CodeRead
    <2> HIDE DEF op
    <2> QED BY <2>1, <2>2
  <1>6. n \in FirstIndex(code[1])
    <2>1. ByteMatches(op, 0, code[1]) /\ code[1] \in Byte
      <3>1. 0 \in 0..(Len(op.code) - 1) /\ 0 + 0 + 1 = 1
        BY <1>3
      <3>2. ByteMatches(op, 0, code[0 + 0 + 1])
        BY <1>5, <3>1
      <3> HIDE DEF op
      <3> QED BY <1>4, <3>1, <3>2
    <2> QED BY <1>1, <2>1, RowAssumption
  <1>7. n \in Offered(code, 0)
    <2>1. CanTake(code, 0, Len(op.code))
      BY <1>3, <1>4 DEF CanTake
    <2>2. CodeMatches(code, 0, op)
      BY <1>5, <2>1 DEF CodeMatches
    <2> QED BY <1>6, <2>2 DEF Offered
  <1>8. \A m, k \in Offered(code, 0) : m = k
    BY <1>4, OfferedOnce
  <1> HIDE DEF op
  <1> QED BY <1>1, <1>4, <1>7, <1>8

\* What the assembled bytes are read as.
ReadBackAs(n, flags, accs, code, r) ==
    /\ r.op = n /\ r.end = Len(code)
    /\ r.flags = flags \cap {p.flag : p \in ParamsOf(Ops[n], "flag")}
    /\ DOMAIN r.operands = DOMAIN accs
    /\ \A i \in DOMAIN accs : OperandKept(Ops[n], accs, i, r.operands[i])

\* An assembled line is one statement, and its operands are the line's.
LEMMA ReadBack ==
  ASSUME NEW n, NEW flags, NEW accs, NEW code, Assembled(n, flags, accs, code)
  PROVE  \E r : StatementAt(code, 0) = {r} /\ ReadBackAs(n, flags, accs, code, r)
  <1>1. code \in Seq(Byte) /\ 0 < Len(code) /\ n \in DOMAIN Ops /\ Offered(code, 0) = {n}
    BY OfferedIs
  <1>2. PICK s \in ReadParams(code, 0, Ops[n]) : ReadWhole(Ops[n], accs, code, s)
    BY WalkAll
  <1> DEFINE r == ReadingOf(code, 0, n, s)
  <1>3. r \in Readings(code, 0) /\ r \in Reading
    <2>1. r \in Readings(code, 0)
      <3>1. \E m \in Offered(code, 0) : \E t \in ReadParams(code, 0, Ops[m]) :
                r = ReadingOf(code, 0, m, t)
        BY <1>1, <1>2
      <3> HIDE DEF r
      <3> QED BY <1>1, <3>1, ReadingsTyped
    <2> HIDE DEF r
    <2> QED BY <1>1, <2>1, ReadingsTyped
  <1>4. /\ r.op = n /\ r.end = Len(code) /\ r.operands = s.operands
        /\ r.flags = RestoreFlags(code, 0, Ops[n])
    BY <1>2 DEF ReadingOf, ReadWhole
  <1> HIDE DEF r
  <1>5. Readings(code, 0) = {r}
    <2> SUFFICES ASSUME NEW q \in Readings(code, 0) PROVE q = r
      BY <1>3
    <2>1. q.op \in Offered(code, 0)
      BY <1>1, ReadingsTyped
    <2>2. q.op = r.op
      BY <1>1, <1>4, <2>1
    <2> QED BY <1>1, <1>3, <2>2, ReadingsTyped
  <1>6. StatementAt(code, 0) = {r}
    <2>1. \A q : q \in StatementAt(code, 0) <=>
                    q \in Readings(code, 0) /\ \A t \in Readings(code, 0) \ {q} : Preferred(q, t)
      BY <1>1, StatementAtIs
    <2> QED BY <1>5, <2>1
  <1>7. ReadBackAs(n, flags, accs, code, r)
    <2>1. r.flags = flags \cap {p.flag : p \in ParamsOf(Ops[n], "flag")}
      <3>1. AllCoded(Ops[n], accs) /\ HasCode(code, Ops[n], flags, accs)
        BY Placed DEF Assembled
      <3> QED BY <1>1, <1>4, <3>1, FlagsKept
    <2>2. DOMAIN accs = DOMAIN OwnParams(Ops[n])
      BY DEF Assembled
    <2>3. DOMAIN r.operands = DOMAIN OwnParams(Ops[n])
      <3>1. OwnParams(Ops[n]) \in Seq(Param)
        BY <1>1, OwnParamsTyped
      <3>2. r.operands \in Seq(Access)
        BY <1>3 DEF Reading
      <3>3. Len(r.operands) = Len(OwnParams(Ops[n]))
        BY <1>2, <1>4 DEF ReadWhole
      <3> QED BY <3>1, <3>2, <3>3
    <2> QED BY <1>2, <1>4, <2>1, <2>2, <2>3 DEF ReadBackAs, ReadWhole
  <1> QED BY <1>6, <1>7

\* A line's operands are parsed in one way.
LEMMA ParsedLineIs ==
  ASSUME NEW operands \in Seq(AnyText), NEW accs \in ParsedLine(operands)
  PROVE  /\ ParsedLine(operands) = {accs} /\ DOMAIN accs = DOMAIN operands
         /\ \A i \in DOMAIN accs :
                /\ accs[i] \in Parsed(operands[i]) /\ Encodable(accs[i])
                /\ TextPart(accs[i]) \/ TextIndirect(accs[i])
  <1>1. /\ ParsedLine(operands) = {accs}
        /\ \A i \in DOMAIN operands : Parsed(operands[i]) # {}
        /\ accs = [i \in DOMAIN operands |-> Only(Parsed(operands[i]))]
    BY DEF ParsedLine
  <1>2. ASSUME NEW i \in DOMAIN operands
        PROVE  /\ accs[i] \in Parsed(operands[i]) /\ Encodable(accs[i])
               /\ TextPart(accs[i]) \/ TextIndirect(accs[i])
    <2>1. accs[i] = Only(Parsed(operands[i])) /\ Parsed(operands[i]) # {}
      BY <1>1
    <2>2. accs[i] \in Parsed(operands[i])
      BY <2>1, Zenon DEF Only
    <2>3. operands[i] \in AnyText
      OBVIOUS
    <2> QED BY <2>2, <2>3, TextIs, OperandParsed
  <1> QED BY <1>1, <1>2

\* What mc7p_assemble_table makes of a line that fits a row.
LEMMA RowIsAssembled ==
  ASSUME NEW n \in DOMAIN Ops, NEW flags, NEW operands \in Seq(AnyText),
         NEW accs \in ParsedLine(operands), Fits(Ops[n], accs),
         NEW code \in AssembleRow(Ops[n], flags, accs)
  PROVE  Assembled(n, flags, accs, code)
  <1> DEFINE op    == Ops[n]
             own   == OwnParams(op)
             parts == OperandParts(op, accs)
  <1>1. Len(accs) = Len(own) /\ AllCoded(op, accs)
        /\ code \in {CodeOf(op, flags, accs) \o t : t \in Joined(parts)}
    BY AssembleRowIs
  <1>2. DOMAIN parts = DOMAIN own
    BY DEF OperandParts
  <1>3. DOMAIN accs = DOMAIN own
    <2>1. own \in Seq(Param)
      BY OwnParamsTyped
    <2>2. DOMAIN own = 1..Len(own)
      BY <2>1
    <2>3. DOMAIN accs = 1..Len(operands) /\ Len(accs) = Len(operands)
      BY ParsedLineTyped
    <2> HIDE DEF own
    <2> QED BY ONLY <1>1, <2>2, <2>3, Zenon
  <1>4. (\A i \in DOMAIN own : parts[i] # {}) /\ code = CodeOf(op, flags, accs) \o FlattenSeq(Parts(op, accs))
    <2>1. PICK t \in Joined(parts) : code = CodeOf(op, flags, accs) \o t
      BY <1>1
    <2>2. /\ \A i \in DOMAIN parts : parts[i] # {}
          /\ t = FlattenSeq([i \in DOMAIN parts |-> Only(parts[i])])
      <3> HIDE DEF parts
      <3> QED BY <2>1 DEF Joined
    <2>3. [i \in DOMAIN parts |-> Only(parts[i])] = Parts(op, accs)
      BY <1>2 DEF Parts
    <2> HIDE DEF parts, own, op
    <2> QED BY <1>2, <2>1, <2>2, <2>3
  <1>5. \A i \in DOMAIN own : LineOperand(own, accs, i) /\ Encodable(accs[i])
    <2>1. \A i \in DOMAIN own : FitsParam(own[i], accs[i]) /\ FitsHeader(accs[i])
      BY DEF Fits
    <2> HIDE DEF own
    <2> QED BY <1>3, <2>1, ParsedLineIs DEF LineOperand
  <1> QED BY <1>1, <1>3, <1>4, <1>5 DEF Assembled

\* A line with as many operands as its row is assembled as the table has it.
LEMMA TableOnly ==
  ASSUME NEW l \in Line, NEW n \in DOMAIN Ops, OpNamed(l.name) = {n}, Names[n] = l.name,
         Len(l.operands) = Len(OwnParams(Ops[n]))
  PROVE  AssembleOne(l) \subseteq AssembleTable(l)
  <1>1. l.operands \in Seq(AnyText) /\ OwnParams(Ops[n]) \in Seq(Param)
    BY OwnParamsTyped DEF Line
  <1>2. AssembleTable(l) = {} => LastResort(l) = {}
    <2> SUFFICES ASSUME AssembleTable(l) = {}, LastResort(l) # {} PROVE FALSE
      OBVIOUS
    <2>1. /\ l.name \in {"NOP", "NOT", "SET_RLO", "STATION", "NOP_FF", "RET"}
          /\ l.name = "RET" => l.operands = <<>>
      BY DEF LastResort
    <2>2. OwnParams(Ops[n]) = <<>> /\ Len(OwnParams(Ops[n])) = 0
      <3>1. l.name = "RET" => FALSE
        <4>1. l.operands = <<>> => Len(OwnParams(Ops[n])) = 0
          OBVIOUS
        <4>2. Len(OwnParams(Ops[n])) = 0 => OwnParams(Ops[n]) = <<>>
          BY <1>1
        <4> QED BY <2>1, <4>1, <4>2, LastResortAssumption
      <3>2. OwnParams(Ops[n]) = <<>>
        BY <2>1, <3>1, LastResortAssumption
      <3> QED BY <3>2
    <2>3. DOMAIN l.operands = {}
      BY <1>1, <2>2
    <2>4. PICK accs : accs \in ParsedLine(l.operands)
      BY <2>3 DEF ParsedLine
    <2>5. Len(accs) = Len(OwnParams(Ops[n]))
      BY <1>1, <2>4, ParsedLineTyped
    <2>6. AllCoded(Ops[n], accs) /\ Joined(OperandParts(Ops[n], accs)) # {}
      <3>1. DOMAIN OwnParams(Ops[n]) = {}
        BY <2>2
      <3>2. \A i \in DOMAIN OperandParts(Ops[n], accs) : FALSE
        BY <3>1 DEF OperandParts
      <3> QED BY <3>1, <3>2 DEF AllCoded, Joined
    <2>7. AssembleRow(Ops[n], l.flags, accs)
              = {CodeOf(Ops[n], l.flags, accs) \o t : t \in Joined(OperandParts(Ops[n], accs))}
      BY <2>5, <2>6, AssembleRowIs
    <2>8. AssembleRow(Ops[n], l.flags, accs) \subseteq AssembleTable(l)
      BY <2>4 DEF AssembleTable
    <2> QED BY <2>6, <2>7, <2>8
  <1>3. CASE AssembleSelected(l) # {}
    BY <1>3, ShortcutsAgreeOn DEF AssembleOne
  <1>4. CASE AssembleSelected(l) = {}
    BY <1>2, <1>4 DEF AssembleOne
  <1> QED BY <1>3, <1>4

\* A line that fits its row is assembled as the table has it.
LEMMA ProperLine ==
  ASSUME NEW l \in Line, NEW code \in AssembleOne(l), Proper(l)
  PROVE  \E n \in DOMAIN Ops : \E accs :
             /\ OpNamed(l.name) = {n} /\ Names[n] = l.name
             /\ ReadLine(l) = {[op |-> Ops[n], accs |-> accs]}
             /\ Assembled(n, l.flags, accs, code)
  <1>1. PICK n \in DOMAIN Ops : OpNamed(l.name) = {n} /\ Names[n] = l.name
    BY OpNamedIsOne
  <1>2. l.operands \in Seq(AnyText)
    BY DEF Line
  <1>3. PICK accs \in ParsedLine(l.operands) : Fits(Ops[n], accs)
    <2>1. PICK s \in ReadLine(l) : Fits(s.op, s.accs)
      BY DEF Proper
    <2>2. PICK m \in OpNamed(l.name), accs \in ParsedLine(l.operands) :
              s = [op |-> Ops[m], accs |-> accs]
      BY <2>1 DEF ReadLine
    <2> QED BY <1>1, <2>1, <2>2
  <1>4. ParsedLine(l.operands) = {accs}
    BY <1>2, ParsedLineIs
  <1>5. ReadLine(l) = {[op |-> Ops[n], accs |-> accs]}
    BY <1>1, <1>4 DEF ReadLine
  <1>6. AssembleTable(l) = AssembleRow(Ops[n], l.flags, accs)
    BY <1>1, <1>4 DEF AssembleTable
  <1>7. Len(l.operands) = Len(OwnParams(Ops[n]))
    BY <1>2, <1>3, ParsedLineTyped DEF Fits
  <1>8. code \in AssembleRow(Ops[n], l.flags, accs)
    BY <1>1, <1>6, <1>7, TableOnly
  <1>9. Assembled(n, l.flags, accs, code)
    BY <1>2, <1>3, <1>8, RowIsAssembled
  <1> QED BY <1>1, <1>5, <1>9

\* One step on the theorems' way: what a proper line's bytes are read as.
LEMMA ProperLineRead ==
  ASSUME NEW l \in Line, NEW code \in AssembleOne(l), Proper(l)
  PROVE  \E n \in DOMAIN Ops : \E accs, r :
             /\ Names[n] = l.name /\ ReadLine(l) = {[op |-> Ops[n], accs |-> accs]}
             /\ StatementAt(code, 0) = {r} /\ ReadBackAs(n, l.flags, accs, code, r)
  <1>1. PICK n, accs :
            /\ n \in DOMAIN Ops /\ Names[n] = l.name /\ ReadLine(l) = {[op |-> Ops[n], accs |-> accs]}
            /\ Assembled(n, l.flags, accs, code)
    BY ProperLine
  <1>2. \E r : StatementAt(code, 0) = {r} /\ ReadBackAs(n, l.flags, accs, code, r)
    BY <1>1, ReadBack
  <1> QED BY <1>1, <1>2

(* mc7p_assemble_one and mc7p_disassemble_one agree on where a statement   *)
(* ends: an assembled line that fits its row is one statement of the       *)
(* line's operator, all of its bytes, with the flags that the row has,     *)
(* whatever the table and the line.                                        *)
THEOREM WholeStatementHolds == Spec => []WholeStatement
  <1>1. TypeOK => WholeStatement
    <2> SUFFICES ASSUME line \in Line, bytes \in AssembleOne(line), Proper(line)
                 PROVE  \E r \in StatementAt(bytes, 0) :
                            /\ r.end = Len(bytes) /\ Names[r.op] = line.name
                            /\ r.flags = line.flags
                                   \cap {p.flag : p \in ParamsOf(Ops[r.op], "flag")}
      BY DEF TypeOK, WholeStatement
    <2>1. PICK n, accs, r :
              /\ n \in DOMAIN Ops /\ Names[n] = line.name /\ ReadLine(line) = {[op |-> Ops[n], accs |-> accs]}
              /\ StatementAt(bytes, 0) = {r} /\ ReadBackAs(n, line.flags, accs, bytes, r)
      BY ProperLineRead
    <2> QED BY <2>1 DEF ReadBackAs
  <1> QED BY <1>1, AssemblerTypeCorrect, PTL

(* An assembled line means what it said: each operand that the decoder     *)
(* reads from the bytes is the place or the number of the line's operand,  *)
(* but for the three cases that MeaningKept names.                         *)
THEOREM MeaningKeptHolds == Spec => []MeaningKept
  <1>1. TypeOK => MeaningKept
    <2> SUFFICES ASSUME line \in Line, bytes \in AssembleOne(line), Proper(line),
                        NEW r \in StatementAt(bytes, 0), NEW s \in ReadLine(line)
                 PROVE  /\ DOMAIN r.operands = DOMAIN s.accs
                        /\ \A i \in DOMAIN s.accs :
                               OperandMeant(s.op, s.accs, i, r.operands[i])
      BY DEF TypeOK, MeaningKept, OperandMeant
    <2>1. PICK n, accs, t :
              /\ n \in DOMAIN Ops /\ Names[n] = line.name /\ ReadLine(line) = {[op |-> Ops[n], accs |-> accs]}
              /\ StatementAt(bytes, 0) = {t} /\ ReadBackAs(n, line.flags, accs, bytes, t)
      BY ProperLineRead
    <2>2. s.op = Ops[n] /\ s.accs = accs /\ r = t
      BY <2>1
    <2> QED BY <2>1, <2>2 DEF ReadBackAs, OperandKept
  <1> QED BY <1>1, AssemblerTypeCorrect, PTL
-----------------------------------------------------------------------------
(* The operands of every statement are what the operand decoders make, so  *)
(* that their texts read back.                                             *)
\* The text of a part is no text in brackets.
LEMMA PartIsPlain ==
  ASSUME NEW d \in Access, d.kind # "indirect"
  PROVE  Printed(d) = PrintedPart(d) /\ Parsed(Printed(d)) = ParsedPart(PrintedPart(d))
  <1>1. d \in AccessOf({"imm", "mem", "slot", "ptr", "db", "type", "cond"}, {<<>>})
    BY DEF Access, AccessOf
  <1>2. /\ d.kind \in PartKinds /\ d.dt \in Nat /\ d.area \in Nat
        /\ d.scope \in Nat /\ d.range \in Nat /\ d.number \in Word /\ Numbered(d)
    BY <1>1 DEF AccessOf, PartKinds, Numbered
  <1>3. PrintedPart(d) \in PlainText
    BY <1>2, PartPrinted
  <1>4. PrintedPart(d).form # "["
    BY <1>3 DEF PlainText, TextOf
  <1> QED BY <1>4 DEF Printed, Parsed

\* The parts are not indirect.
LEMMA DecodedPartKind ==
  ASSUME NEW d, DecodedPart(d)
  PROVE  d.kind # "indirect"
  <1>1. \A dt, v : RealNumber(dt, v).kind = "imm" /\ AccType(dt).kind = "type"
                   /\ AccCond(v).kind = "cond"
    BY DEF RealNumber, Immediate, AccType, AccCond, AccNew
  <1>2. CASE DecodedMemory(d) \/ DecodedDb(d) \/ DecodedSlot(d) \/ DecodedBase(d)
             \/ \E a : d = AreaPointer(a)
    BY <1>2, ConstructorFields DEF DecodedMemory, DecodedDb, DecodedSlot, DecodedBase, Fields
  <1>3. CASE DecodedNumber(d)
    BY <1>1, <1>3, ConstructorFields DEF DecodedNumber, Fields
  <1> QED BY <1>1, <1>2, <1>3 DEF DecodedPart

\* ShownAs for every operand that a decoder makes.
LEMMA ShownOne ==
  ASSUME NEW d \in Access, Decoded(d), NEW read \in Parsed(Printed(d))
  PROVE  ShownAs(d, read)
  <1>1. CASE DecodedPart(d)
    <2>1. read \in ParsedPart(PrintedPart(d))
      BY <1>1, DecodedPartKind, PartIsPlain
    <2> QED BY <1>1, <2>1, ShownPart
  <1>2. CASE DecodedIndirect(d)
    <2>1. PICK dt, b, o : d = Indirect(dt, b, o) /\ DecodedBase(b) /\ DecodedOffset(o)
      BY <1>2 DEF DecodedIndirect
    <2>2. \A w : Denotes(read, w) = Denotes(d, w)
      BY <2>1, ShownIndirect
    <2> QED BY <2>2 DEF ShownAs
  <1> QED BY <1>1, <1>2 DEF Decoded
-----------------------------------------------------------------------------
\* All the operands of a reader's state are decoded.
AllMade(ops) == \A i \in DOMAIN ops : Decoded(ops[i])

\* One operand more.
LEMMA AppendMade ==
  ASSUME NEW ops \in Seq(Access), AllMade(ops), NEW acc \in Access, Decoded(acc)
  PROVE  AllMade(Append(ops, acc))
  BY DEF AllMade

\* One reading of a parameter.
LEMMA ReadOneMade ==
  ASSUME NEW code \in Seq(Byte), NEW pos, NEW p \in Param, p.kind # "flag",
         NEW from \in Nat, NEW s \in ReaderState(code, from), AllMade(s.operands),
         NEW t \in ReadOne(code, pos, p, s)
  PROVE  AllMade(t.operands)
  <1>1. /\ s.rpos \in 0..Len(code) /\ s.pending \in SUBSET Nat /\ s.operands \in Seq(Access)
    BY DEF ReaderState
  <1>2. PICK got \in ParamOperand(code, pos, p, s.rpos, s.pending) :
          t = [s EXCEPT !.rpos = got.end, !.operands = Append(@, got.acc)]
    BY DEF ReadOne
  <1>3. got.acc \in Access
    BY <1>1, ParamOperandTyped
  <1>4. Decoded(got.acc)
    BY <1>1, ParamDecoded
  <1>5. t.operands = Append(s.operands, got.acc)
    BY <1>2 DEF ReaderState
  <1> QED BY <1>1, <1>3, <1>4, <1>5, AppendMade

\* A parameter that is read several times.
LEMMA ReadsMade ==
  ASSUME NEW code \in Seq(Byte), NEW pos, NEW p \in Param, p.kind # "flag",
         NEW from \in Nat, NEW state \in ReaderState(code, from), AllMade(state.operands),
         NEW times \in Nat
  PROVE  \A k \in 0..times : \A t \in Reads(code, pos, p, times, state)[k] :
             AllMade(t.operands)
  <1> DEFINE read == Reads(code, pos, p, times, state)
             S == {k \in Nat : k <= times => \A t \in read[k] : AllMade(t.operands)}
  <1>1. /\ read[0] = {state}
        /\ \A k \in 0..(times - 1) :
               read[k + 1] = UNION {ReadOne(code, pos, p, s) : s \in read[k]}
    BY ReadsUnfold
  <1>2. \A k \in 0..times : \A s \in read[k] : s \in ReaderState(code, from)
    BY ReadsTyped
  <1> HIDE DEF read
  <1>3. 0 \in S
    BY <1>1
  <1>4. ASSUME NEW k \in Nat, k \in S
        PROVE  k + 1 \in S
    <2> SUFFICES ASSUME k + 1 <= times, NEW t \in read[k + 1] PROVE AllMade(t.operands)
      OBVIOUS
    <2>1. k \in 0..(times - 1) /\ k \in 0..times /\ k <= times
      OBVIOUS
    <2>2. PICK s \in read[k] : t \in ReadOne(code, pos, p, s)
      BY <1>1, <2>1
    <2>3. s \in ReaderState(code, from) /\ AllMade(s.operands)
      BY <1>2, <1>4, <2>1
    <2> QED BY <2>2, <2>3, ReadOneMade
  <1> HIDE DEF S
  <1>5. Nat \subseteq S
    BY <1>3, <1>4, Induction
  <1> QED BY <1>5 DEF S, read

\* A parameter with its repetitions.
LEMMA ReadParamMade ==
  ASSUME NEW code \in Seq(Byte), NEW pos, NEW op, op.params \in Seq(Param),
         NEW i \in 1..Len(op.params), NEW from \in Nat,
         NEW state \in ReaderState(code, from), AllMade(state.operands),
         NEW t \in ReadParam(code, pos, op, i, state)
  PROVE  AllMade(t.operands)
  <1> DEFINE p == op.params[i]
             times == TimesOf(code, op, i, state)
             now == Reads(code, pos, p, times, state)[times]
  <1>1. p \in Param /\ state.multiple \in Nat \cup {-1}
    BY DEF ReaderState
  <1>2. CASE p.kind = "flag"
    <2>1. ReadParam(code, pos, op, i, state) = {state}
      BY <1>2, ReadParamReadsNone
    <2> QED BY <2>1
  <1>3. CASE p.kind # "flag" /\ RepeatsOf(op, i, state) = 0
    <2>1. ReadParam(code, pos, op, i, state) = Unread(state)
      BY <1>3, ReadParamReadsNone
    <2>2. t.operands = state.operands
      BY <2>1 DEF Unread, ReaderState
    <2> QED BY <2>2
  <1>4. CASE p.kind # "flag" /\ RepeatsOf(op, i, state) # 0
    <2>1. ReadParam(code, pos, op, i, state) = DoneFrom(p, now)
      BY <1>1, <1>4, ReadParamIsReads, Zenon
    <2>2. PICK u \in now : t = DoneWith(p, u)
      BY <2>1 DEF DoneFrom
    <2>3. times \in Nat /\ times \in 0..times
      <3>1. times \in Nat
        BY <1>1, TimesOfTyped
      <3> HIDE DEF times
      <3> QED BY <3>1
    <2> HIDE DEF p, times
    <2>4. \A k \in 0..times : \A v \in Reads(code, pos, p, times, state)[k] :
              v \in ReaderState(code, from)
      BY <1>1, <1>4, <2>3, ReadsTyped
    <2>5. AllMade(u.operands)
      BY <1>1, <1>4, <2>2, <2>3, ReadsMade
    <2>6. u \in ReaderState(code, from)
      BY <2>2, <2>3, <2>4
    <2>7. t.operands = u.operands
      BY <2>2, <2>6 DEF DoneWith, ReaderState
    <2> QED BY <2>5, <2>7
  <1> QED BY <1>2, <1>3, <1>4

\* The parameters of an operator, one after another.
LEMMA StepsMade ==
  ASSUME NEW code \in Seq(Byte), NEW pos \in Nat, NEW op,
         op.code \in Seq(Byte), op.params \in Seq(Param),
         pos + Len(op.code) <= Len(code)
  PROVE  \A i \in 0..Len(op.params) : \A t \in Steps(code, pos, op)[i] : AllMade(t.operands)
  <1> DEFINE read == Steps(code, pos, op)
             n == Len(op.params)
             from == pos + Len(op.code)
             S == {i \in Nat : i <= n => \A t \in read[i] : AllMade(t.operands)}
  <1>1. n \in Nat /\ from \in Nat
    OBVIOUS
  <1>2. /\ read[0] = {Start(pos, op)}
        /\ \A i \in 1..n : read[i] = UNION {ReadParam(code, pos, op, i, s) : s \in read[i - 1]}
    BY <1>1, StepsUnfold
  <1>3. \A i \in 0..n : \A s \in read[i] : s \in ReaderState(code, from)
    BY StepsTyped
  <1> HIDE DEF read
  <1>4. 0 \in S
    BY <1>2 DEF Start, AllMade
  <1>5. ASSUME NEW i \in Nat, i \in S
        PROVE  i + 1 \in S
    <2> SUFFICES ASSUME i + 1 <= n, NEW t \in read[i + 1] PROVE AllMade(t.operands)
      OBVIOUS
    <2> HIDE DEF n, from
    <2>1. i <= n /\ i \in 0..n /\ i + 1 \in 1..n /\ (i + 1) - 1 = i
      BY <1>1
    <2>2. PICK s \in read[i] : t \in ReadParam(code, pos, op, i + 1, s)
      BY <1>2, <2>1
    <2>3. s \in ReaderState(code, from) /\ AllMade(s.operands) /\ i + 1 \in 1..Len(op.params)
      BY <1>3, <1>5, <2>1 DEF n
    <2> QED BY <1>1, <2>2, <2>3, ReadParamMade
  <1> HIDE DEF S
  <1>6. Nat \subseteq S
    BY <1>4, <1>5, Induction
  <1> QED BY <1>1, <1>6 DEF S, read

\* The operands of a statement are what the decoders make.
LEMMA StatementMade ==
  ASSUME NEW code \in Seq(Byte), NEW pos \in Nat, NEW r \in StatementAt(code, pos)
  PROVE  AllMade(r.operands)
  <1>1. r \in Readings(code, pos)
    BY StatementAtIs DEF StatementAt
  <1>2. PICK n \in Offered(code, pos) : \E s \in ReadParams(code, pos, Ops[n]) :
            r = ReadingOf(code, pos, n, s)
    BY <1>1, ReadingsTyped
  <1>3. PICK s \in ReadParams(code, pos, Ops[n]) : r = ReadingOf(code, pos, n, s)
    BY <1>2
  <1>4. /\ Ops[n].code \in Seq(Byte) /\ Ops[n].params \in Seq(Param)
        /\ Len(Ops[n].params) \in Nat /\ pos + Len(Ops[n].code) <= Len(code)
    BY OfferedFits
  <1>5. ReadParams(code, pos, Ops[n]) = Steps(code, pos, Ops[n])[Len(Ops[n].params)]
    BY <1>4, StepsUnfold
  <1>6. Len(Ops[n].params) \in 0..Len(Ops[n].params)
    BY <1>4
  <1>7. AllMade(s.operands)
    BY <1>3, <1>4, <1>5, <1>6, StepsMade
  <1> QED BY <1>3, <1>7 DEF ReadingOf

(* What render_access prints of a decoded operand mc7p_parse_operand reads *)
(* as the same place or number, for every row and every blob.              *)
THEOREM ShownReadsBackHolds == Spec => []ShownReadsBack
  <1>1. TypeOK => ShownReadsBack
    <2> SUFFICES ASSUME bytes \in Seq(Byte), line \in Listing(bytes),
                        NEW r \in StatementAt(bytes, 0), NEW i \in DOMAIN r.operands,
                        NEW read \in Parsed(line.operands[i])
                 PROVE  ShownAs(r.operands[i], read)
      BY DEF TypeOK, ShownReadsBack, ShownAs, ShownBits
    <2>1. AtMostOne(StatementAt(bytes, 0)) /\ r \in Reading
      BY StatementTyped
    <2>2. line.operands[i] = Printed(r.operands[i])
      <3>1. PICK q \in StatementAt(bytes, 0) :
                line = [name |-> Names[q.op], flags |-> q.flags,
                        operands |-> [j \in DOMAIN q.operands |-> Printed(q.operands[j])]]
        BY DEF Listing
      <3>2. q = r
        BY <2>1 DEF AtMostOne
      <3> QED BY <3>1, <3>2
    <2>3. r.operands[i] \in Access
      BY <2>1 DEF Reading
    <2>4. Decoded(r.operands[i])
      BY StatementMade DEF AllMade
    <2> QED BY <2>2, <2>3, <2>4, ShownOne
  <1> QED BY <1>1, AssemblerTypeCorrect, PTL
-----------------------------------------------------------------------------
(* What is shown of a line's bytes is typed again.  The encoder looks at   *)
(* no more of a place than what it stands for, and at its type only to say *)
(* whether the bits of its offset are written.                             *)
\* Operands whose texts are neither a number nor a type nor a condition.
IsPlace(acc) == acc.kind \notin {"imm", "type", "cond"}

\* A place has no number that a width could cut.
LEMMA PlaceAnyWidth ==
  ASSUME NEW d, d.value = {}, NEW v, NEW w
  PROVE  Denotes(d, v) = Denotes(d, w)
  <1> DEFINE x == AsPointer(d)
  <1>1. x.value = {}
    BY ConstructorFields DEF AsPointer, Fields
  <1>2. LowBits(x.value, v) = LowBits(x.value, w)
    BY <1>1 DEF LowBits
  <1>3. \A u : Denotes(d, u) =
            [x EXCEPT !.dt = 0, !.value = LowBits(x.value, u), !.real = FALSE,
                !.sub = IF d.kind # "indirect" THEN <<>>
                        ELSE <<[x.sub[1] EXCEPT !.dt = 0], [x.sub[2] EXCEPT !.dt = 0, !.range = 0]>>]
    BY DEF Denotes
  <1> HIDE DEF x
  <1> QED BY <1>2, <1>3, Zenon

\* A place that was decoded has no number either.
LEMMA DecodedPlace ==
  ASSUME NEW d, Decoded(d), IsPlace(d)
  PROVE  d.value = {}
  <1>1. \A dt, v : RealNumber(dt, v).kind = "imm" /\ AccType(dt).kind = "type"
                   /\ AccCond(v).kind = "cond" /\ Immediate(dt, v).kind = "imm"
    BY DEF RealNumber, Immediate, AccType, AccCond, AccNew
  <1>2. ~DecodedNumber(d) /\ (\A t : d # AccType(t)) /\ (\A v : d # AccCond(v))
    BY <1>1 DEF DecodedNumber, IsPlace
  <1>3. \/ DecodedMemory(d) \/ DecodedDb(d) \/ DecodedSlot(d) \/ DecodedBase(d)
        \/ (\E a : d = AreaPointer(a)) \/ DecodedIndirect(d)
    BY <1>2 DEF Decoded, DecodedPart
  <1>4. DecodedMemory(d) => d.value = {}
    BY ConstructorFields DEF DecodedMemory, Fields
  <1>5. DecodedDb(d) => d.value = {}
    BY ConstructorFields DEF DecodedDb, Fields
  <1>6. DecodedSlot(d) => d.value = {}
    BY ConstructorFields DEF DecodedSlot, Fields
  <1>7. DecodedBase(d) => d.value = {}
    BY ConstructorFields DEF DecodedBase, Fields
  <1>8. DecodedIndirect(d) => d.value = {}
    BY ConstructorFields DEF DecodedIndirect, Fields
  <1>9. (\E a : d = AreaPointer(a)) => d.value = {}
    BY ConstructorFields DEF Fields
  <1> QED BY <1>3, <1>4, <1>5, <1>6, <1>7, <1>8, <1>9

\* An operand with all of its fields.
Whole(d) == DOMAIN d = {"kind", "dt", "value", "real", "area", "offset", "number", "scope",
                        "range", "text", "sub"}

\* Every operand of a line or of a statement is whole.
LEMMA WholeIs ==
  /\ \A d \in Access : Whole(d)
  /\ \A d : TextPart(d) \/ TextIndirect(d) => Whole(d)
  <1>1. \A d \in Access : Whole(d)
    BY DEF Access, AccessOf, Whole
  <1>2. \A k, t, v, a, o, n, s, r, u : Whole(Fields(k, t, v, a, o, n, s, r, u))
    BY DEF Fields, Whole
  <1>3. \A d : TextIndirect(d) => Whole(d)
    BY <1>2, ConstructorFields DEF TextIndirect
  <1>4. \A d : TextMemory(d) \/ TextDb(d) => Whole(d)
    BY <1>2, ConstructorFields DEF TextMemory, TextDb
  <1>5. \A d : TextSlot(d) \/ ScopedPointer(d) \/ TextImm(d) => Whole(d)
    BY <1>2, ConstructorFields DEF TextSlot, ScopedPointer, TextImm
  <1>6. \A t, v : Whole(AccType(t)) /\ Whole(AccCond(v))
    BY DEF AccType, AccCond, AccNew, Whole
  <1>7. \A d : TextPart(d) => Whole(d)
    BY <1>4, <1>5, <1>6 DEF TextPart
  <1> QED BY <1>1, <1>3, <1>7

\* What an operand stands for is of its kind, or a pointer.
LEMMA DenotedKind ==
  ASSUME NEW d, Whole(d), NEW w
  PROVE  \/ /\ Denotes(d, w).kind = d.kind
            /\ Denotes(d, w).range = d.range
         \/ d.kind = "slot" /\ Denotes(d, w).kind = "ptr"
  <1>2. CASE d.kind = "slot" /\ d.range = SlotRange.Pointer
    <2>1. AsPointer(d) = Pointer(d.scope, d.number)
      BY <1>2 DEF AsPointer
    <2>2. Denotes(d, w).kind = "ptr"
      BY <2>1 DEF Denotes, Pointer, AccNew
    <2> QED BY <1>2, <2>2
  <1>3. CASE ~(d.kind = "slot" /\ d.range = SlotRange.Pointer)
    <2>1. AsPointer(d) = d
      BY <1>3, Zenon DEF AsPointer
    <2> QED BY <2>1 DEF Denotes, Whole
  <1> QED BY <1>2, <1>3

\* The fields of a place that the encoder looks at.
PlaceOf(a, p) ==
    /\ p.kind = IF a.kind = "slot" /\ a.range = 1 THEN "ptr" ELSE a.kind
    /\ a.kind \in {"mem", "db"} => p.area = a.area /\ p.offset = a.offset
    /\ a.kind = "db" => p.number = a.number /\ p.range = a.range
    /\ a.kind \in {"slot", "ptr"} => p.scope = a.scope /\ p.number = a.number /\ p.area = a.area
    /\ a.kind = "slot" /\ a.range # 1 => p.range = a.range
    /\ a.kind = "slot" => a.scope # Scope.NativeSystem
    /\ a.kind = "indirect" =>
           /\ p.sub[1].number = a.sub[1].number /\ p.sub[1].scope = a.sub[1].scope
           /\ p.sub[2].kind = a.sub[2].kind /\ p.sub[2].number = a.sub[2].number
           /\ p.sub[2].scope = a.sub[2].scope /\ p.sub[2].value = a.sub[2].value

\* What a place of a line stands for shows all that the encoder looks at.
LEMMA PlaceIs ==
  ASSUME NEW a, TextPart(a) \/ TextIndirect(a), IsPlace(a), NEW w
  PROVE  /\ a.kind \in {"mem", "db", "slot", "ptr", "indirect"}
         /\ PlaceOf(a, Denotes(a, w))
  <1>1. \/ TextMemory(a) \/ TextDb(a) \/ TextSlot(a) \/ ScopedPointer(a) \/ TextIndirect(a)
    BY KindsApart DEF IsPlace
  <1>2. CASE TextMemory(a)
    <2>1. PICK dt : \E area \in NamedAreas, o \in Word : a = Memory(dt, area, o)
      BY <1>2 DEF TextMemory
    <2>2. PICK area \in NamedAreas, o \in Word : a = Memory(dt, area, o)
      BY <2>1
    <2>3. Denotes(a, w) = Memory(0, area, o)
      BY <2>2, DenotesForms
    <2>4. /\ a.kind = "mem" /\ a.area = area /\ a.offset = o
          /\ Memory(0, area, o).kind = "mem" /\ Memory(0, area, o).area = area
          /\ Memory(0, area, o).offset = o
      BY <2>2, ConstructorFields DEF Fields
    <2> QED BY <2>3, <2>4 DEF PlaceOf
  <1>3. CASE TextDb(a)
    <2>1. PICK dt : \E n \in SUBSET (0..30), range \in NamedRanges, o \in Word :
                        a = DbAccess(dt, n, range, o)
      BY <1>3 DEF TextDb
    <2>2. PICK n \in SUBSET (0..30), range \in NamedRanges, o \in Word :
                   a = DbAccess(dt, n, range, o)
      BY <2>1
    <2>3. Denotes(a, w) = DbAccess(0, n, range, o)
      BY <2>2, DenotesForms
    <2>4. \A t : LET x == DbAccess(t, n, range, o)
                 IN  /\ x.kind = "db" /\ x.area = 0 /\ x.offset = o /\ x.range = range
                     /\ x.number = LowBits(n, 32)
      BY ConstructorFields DEF Fields
    <2> QED BY <2>2, <2>3, <2>4 DEF PlaceOf
  <1>p. \A s, n : LET x == Denotes(Pointer(s, n), w)
                  IN  /\ x.kind = "ptr" /\ x.area = 0 /\ x.scope = s /\ x.number = n
                      /\ Pointer(s, n).kind = "ptr" /\ Pointer(s, n).area = 0
                      /\ Pointer(s, n).scope = s /\ Pointer(s, n).number = n
    <2>1. \A s, n : Denotes(Pointer(s, n), w) = Fields("ptr", 0, {}, 0, {}, n, s, 0, <<>>)
      BY DenotesForms
    <2> QED BY <2>1, ConstructorFields DEF Fields
  <1>4. CASE TextSlot(a)
    <2>1. PICK dt : \E s \in NamedScopes, n \in SUBSET (0..31), range \in 0..7 :
                        a = Slot(dt, s, n, range)
      BY <1>4 DEF TextSlot
    <2>2. PICK s \in NamedScopes, n \in SUBSET (0..31), range \in 0..7 :
                   a = Slot(dt, s, n, range)
      BY <2>1
    <2>3. \A t, r : LET x == Slot(t, s, n, r)
                    IN  /\ x.kind = "slot" /\ x.area = 0 /\ x.scope = s /\ x.range = r
                        /\ x.number = n
      BY ConstructorFields DEF Fields
    <2>4. s # Scope.NativeSystem
      BY DEF NamedScopes, Scope
    <2>5. CASE range = 1
      <3>1. Denotes(a, w) = Denotes(Pointer(s, n), w)
        <4>1. Denotes(Slot(dt, s, n, 1), w) = Denotes(Pointer(s, n), w)
          BY DenotesForms
        <4> QED BY <2>2, <2>5, <4>1
      <3>2. a.kind = "slot" /\ a.area = 0 /\ a.scope = s /\ a.range = 1 /\ a.number = n
        BY <2>2, <2>3, <2>5
      <3>3. Denotes(a, w).kind = "ptr" /\ Denotes(a, w).area = 0 /\ Denotes(a, w).scope = s
            /\ Denotes(a, w).number = n
        BY <1>p, <3>1
      <3> QED BY <2>4, <3>2, <3>3 DEF PlaceOf
    <2>6. CASE range # 1
      <3>1. Denotes(a, w) = Slot(0, s, n, range)
        BY <2>2, <2>6, DenotesForms
      <3>2. a.kind = "slot" /\ a.area = 0 /\ a.scope = s /\ a.range = range /\ a.number = n
        BY <2>2, <2>3
      <3>3. Denotes(a, w).kind = "slot" /\ Denotes(a, w).area = 0 /\ Denotes(a, w).scope = s
            /\ Denotes(a, w).number = n /\ Denotes(a, w).range = range
        BY <2>3, <3>1
      <3> QED BY <2>4, <2>6, <3>2, <3>3 DEF PlaceOf
    <2> QED BY <2>5, <2>6
  <1>5. CASE ScopedPointer(a)
    <2>1. CASE \E s \in NamedScopes, n \in SUBSET (0..31) : a = Pointer(s, n)
      <3>1. PICK s \in NamedScopes, n \in SUBSET (0..31) : a = Pointer(s, n)
        BY <2>1
      <3> QED BY <1>p, <3>1 DEF PlaceOf
    <2>2. CASE \E area : a = AreaPointer(area)
      <3>1. PICK area : a = AreaPointer(area)
        BY <2>2
      <3>2. Denotes(a, w) = Fields("ptr", 0, {}, area, {}, {}, Scope.NativeSystem, 0, <<>>)
        BY <3>1, DenotesForms
      <3>3. /\ a.kind = "ptr" /\ a.area = area /\ a.scope = Scope.NativeSystem /\ a.number = {}
        BY <3>1, ConstructorFields DEF Fields
      <3>4. /\ Denotes(a, w).kind = "ptr" /\ Denotes(a, w).area = area
            /\ Denotes(a, w).scope = Scope.NativeSystem /\ Denotes(a, w).number = {}
        BY <3>2 DEF Fields
      <3> QED BY <3>3, <3>4 DEF PlaceOf
    <2> QED BY <1>5, <2>1, <2>2 DEF ScopedPointer
  <1>6. CASE TextIndirect(a)
    <2>1. PICK base, off : /\ a = Indirect(OT.Void, base, off)
                           /\ ScopedPointer(base) /\ TextOffset(off)
      BY <1>6 DEF TextIndirect
    <2>2. Denotes(a, w) = Indirect(0, BasePlace(base), OffsetPlace(off))
      BY <2>1, DenotesForms
    <2>3. \A t, b, o : Indirect(t, b, o).kind = "indirect" /\ Indirect(t, b, o).sub = <<b, o>>
      BY ConstructorFields DEF Fields
    <2>4. BasePlace(base).number = base.number /\ BasePlace(base).scope = base.scope
      <3>1. \/ \E s, n : base = Fields("ptr", OT.Pointer, {}, 0, {}, n, s, 0, <<>>)
            \/ \E x : base = Fields("ptr", OT.Pointer, {}, x, {}, {}, Scope.NativeSystem, 0, <<>>)
        BY <2>1, ConstructorFields DEF ScopedPointer
      <3> QED BY <3>1 DEF BasePlace, Fields
    <2>5. /\ OffsetPlace(off).kind = off.kind /\ OffsetPlace(off).number = off.number
          /\ OffsetPlace(off).scope = off.scope /\ OffsetPlace(off).value = off.value
      <3>1. \/ \E t, v : off = Fields("imm", t, v, 0, {}, {}, 0, 0, <<>>)
            \/ \E t, s, n, r : off = Fields("slot", t, {}, 0, {}, n, s, r, <<>>)
        BY <2>1, ConstructorFields DEF TextOffset
      <3> QED BY <3>1 DEF OffsetPlace, Fields
    <2>6. /\ a.kind = "indirect" /\ a.sub[1] = base /\ a.sub[2] = off
      BY <2>1, <2>3
    <2>7. /\ Denotes(a, w).kind = "indirect" /\ Denotes(a, w).sub[1] = BasePlace(base)
          /\ Denotes(a, w).sub[2] = OffsetPlace(off)
      BY <2>2, <2>3
    <2> QED BY <2>4, <2>5, <2>6, <2>7 DEF PlaceOf
  <1> QED BY <1>1, <1>2, <1>3, <1>4, <1>5, <1>6
-----------------------------------------------------------------------------
(* The same place is encoded alike, or as nothing: its type decides only   *)
(* whether the bits of its offset are written.                             *)
LEMMA WrittenAgain ==
  ASSUME NEW dt, NEW t, NEW o, Written(dt, o) # {}
  PROVE  \/ Written(t, o) = {}
         \/ Written(t, o) = Written(dt, o) /\ DirectBit(t, o) = DirectBit(dt, o)
  <1>1. CASE o \cap 0..2 = {}
    <2>1. \A x : ~DirectBit(x, o)
      BY <1>1 DEF DirectBit
    <2>2. \A x : DirectBit(x, o) = FALSE
      BY <2>1 DEF DirectBit
    <2> QED BY <2>1, <2>2 DEF Written
  <1>2. CASE o \cap 0..2 # {}
    <2>1. DirectBit(dt, o)
      BY <1>2 DEF Written
    <2>2. CASE DirectBit(t, o)
      <3>1. DirectBit(t, o) = TRUE /\ DirectBit(dt, o) = TRUE
        BY <2>1, <2>2 DEF DirectBit
      <3> QED BY <2>1, <2>2, <3>1 DEF Written
    <2>3. CASE ~DirectBit(t, o)
      BY <1>2, <2>3 DEF Written
    <2> QED BY <2>2, <2>3
  <1> QED BY <1>1, <1>2

\* The bytes of an address and of a place in a data block by what they depend on.
MemoryBytes(bit, offs, area, force) ==
    IF force \/ DirectCode(area) = {}
    THEN {AddressForm(bit, off, c) : off \in offs, c \in AddressCode(area)}
    ELSE {DirectForm(bit, off, c) : off \in offs, c \in DirectCode(area)}

DbBytes(bit, offs, number, range) ==
    {DbForm(bit, WriteSlotNo(number, c), off) :
        off \in offs, c \in {x \in 0..2 : DbDirectRange(x) = {range}}}

\* An address is encoded alike or not at all.
LEMMA MemoryAlike ==
  ASSUME NEW q, NEW a, q.area = a.area, q.offset = a.offset, NEW force,
         EncodeMemory(a, force) # {}
  PROVE  EncodeMemory(q, force) = {} \/ EncodeMemory(q, force) = EncodeMemory(a, force)
  <1>1. \A x : EncodeMemory(x, force) = MemoryBytes(DirectBit(x.dt, x.offset),
                                            Written(x.dt, x.offset), x.area, force)
    BY DEF EncodeMemory, MemoryBytes
  <1>2. \A bit, area : MemoryBytes(bit, {}, area, force) = {}
    BY DEF MemoryBytes
  <1>3. EncodeMemory(a, force) = MemoryBytes(DirectBit(a.dt, a.offset),
                                     Written(a.dt, a.offset), a.area, force)
    BY <1>1
  <1>4. EncodeMemory(q, force) = MemoryBytes(DirectBit(q.dt, a.offset),
                                     Written(q.dt, a.offset), a.area, force)
    BY <1>1, Zenon
  <1>5. Written(a.dt, a.offset) # {}
    BY <1>2, <1>3
  <1>6. \/ Written(q.dt, a.offset) = {}
        \/ Written(q.dt, a.offset) = Written(a.dt, a.offset)
           /\ DirectBit(q.dt, a.offset) = DirectBit(a.dt, a.offset)
    BY <1>5, WrittenAgain
  <1> QED BY <1>2, <1>3, <1>4, <1>6, Zenon

\* A place in a data block is encoded alike or not at all.
LEMMA DbAlike ==
  ASSUME NEW q, NEW a, q.number = a.number, q.range = a.range, q.offset = a.offset,
         EncodeDb(a) # {}
  PROVE  EncodeDb(q) = {} \/ EncodeDb(q) = EncodeDb(a)
  <1>1. \A x : EncodeDb(x) = DbBytes(DirectBit(x.dt, x.offset), Written(x.dt, x.offset),
                                     x.number, x.range)
    BY DEF EncodeDb, DbBytes
  <1>2. \A bit, n, range : DbBytes(bit, {}, n, range) = {}
    BY DEF DbBytes
  <1>3. EncodeDb(a) = DbBytes(DirectBit(a.dt, a.offset), Written(a.dt, a.offset),
                              a.number, a.range)
    BY <1>1
  <1>4. EncodeDb(q) = DbBytes(DirectBit(q.dt, a.offset), Written(q.dt, a.offset),
                              a.number, a.range)
    BY <1>1, Zenon
  <1>5. Written(a.dt, a.offset) # {}
    BY <1>2, <1>3
  <1>6. \/ Written(q.dt, a.offset) = {}
        \/ Written(q.dt, a.offset) = Written(a.dt, a.offset)
           /\ DirectBit(q.dt, a.offset) = DirectBit(a.dt, a.offset)
    BY <1>5, WrittenAgain
  <1> QED BY <1>2, <1>3, <1>4, <1>6, Zenon

\* The bytes of a system area, and of a slot or a pointer with a number.
SystemBytes(area) == {<<8 + c>> : c \in DirectCode(area)}
NumberedBytes(locs, number, codes) ==
    {SlotForm(loc, WriteSlotNo(number, c)) : loc \in locs, c \in codes}

\* A slot or a pointer is encoded alike.
LEMMA NativeAlike ==
  ASSUME NEW p, NEW q, NEW a, PlaceOf(q, p), PlaceOf(a, p),
         q.kind \in {"slot", "ptr"}, a.kind \in {"slot", "ptr"}
  PROVE  EncodeNative(q) = EncodeNative(a)
  <1> DEFINE System(x) == x.kind = "ptr" /\ x.scope = Scope.NativeSystem
  <1>1. \A x : /\ System(x) => EncodeNative(x) = SystemBytes(x.area)
               /\ ~System(x) => EncodeNative(x) =
                      NumberedBytes(LocationCode(x), x.number, ScopeCode(x.scope))
    BY DEF EncodeNative, SystemBytes, NumberedBytes
  <1>2. q.area = a.area /\ q.number = a.number /\ q.scope = a.scope
    BY DEF PlaceOf
  <1>3. System(q) <=> System(a)
    BY <1>2 DEF PlaceOf
  <1>4. LocationCode(q) = LocationCode(a)
    <2>1. \A x : x.kind = "ptr" \/ x.range = 1 => LocationCode(x) = {6}
      BY DEF LocationCode, SlotRange
    <2>2. CASE p.kind = "ptr"
      <3>1. \A x : PlaceOf(x, p) /\ x.kind \in {"slot", "ptr"} => x.kind = "ptr" \/ x.range = 1
        BY <2>2 DEF PlaceOf
      <3> QED BY <2>1, <3>1
    <2>3. CASE p.kind # "ptr"
      <3>1. \A x : PlaceOf(x, p) /\ x.kind \in {"slot", "ptr"} =>
                       x.kind = "slot" /\ x.range = p.range
        BY <2>3 DEF PlaceOf
      <3>2. q.kind = "slot" /\ a.kind = "slot" /\ q.range = a.range
        BY <3>1
      <3> QED BY <3>2 DEF LocationCode
    <2> QED BY <2>2, <2>3
  <1>5. CASE System(a)
    <2>1. EncodeNative(a) = SystemBytes(a.area) /\ EncodeNative(q) = SystemBytes(q.area)
      BY <1>1, <1>3, <1>5
    <2> QED BY <1>2, <2>1
  <1>6. CASE ~System(a)
    <2>1. /\ EncodeNative(a) = NumberedBytes(LocationCode(a), a.number, ScopeCode(a.scope))
          /\ EncodeNative(q) = NumberedBytes(LocationCode(q), q.number, ScopeCode(q.scope))
      BY <1>1, <1>3, <1>6
    <2> QED BY <1>2, <1>4, <2>1, Zenon
  <1> QED BY <1>5, <1>6

\* An indirect operand is encoded alike.
LEMMA IndirectAlike ==
  ASSUME NEW p, NEW q, NEW a, PlaceOf(q, p), PlaceOf(a, p),
         q.kind = "indirect", a.kind = "indirect", NEW type
  PROVE  EncodeIndirect(q, type) = EncodeIndirect(a, type)
  <1>1. /\ q.sub[1].number = a.sub[1].number /\ q.sub[1].scope = a.sub[1].scope
        /\ q.sub[2].kind = a.sub[2].kind /\ q.sub[2].number = a.sub[2].number
        /\ q.sub[2].scope = a.sub[2].scope /\ q.sub[2].value = a.sub[2].value
    BY DEF PlaceOf
  <1>2. BaseAccess(q.sub[1]) = BaseAccess(a.sub[1])
    BY <1>1 DEF BaseAccess
  <1>3. \A x : EncodeIndirect(x, type) =
             IndirectBytes(WritePtrNo(x.sub[1].number, BaseAccess(x.sub[1])),
                           x.sub[2].kind, x.sub[2].number, x.sub[2].scope,
                           x.sub[2].value, type)
    BY IndirectBytesAre
  <1> QED BY <1>1, <1>2, <1>3, Zenon

\* Two texts of one place.
SamePlace(q, a, v, w) ==
    /\ TextPart(q) \/ TextIndirect(q)
    /\ TextPart(a) \/ TextIndirect(a)
    /\ IsPlace(a)
    /\ Denotes(q, v) = Denotes(a, w)

\* A place of a line is encoded alike or not at all.
LEMMA EncodedAlike ==
  ASSUME NEW q, NEW a, NEW v, NEW w, SamePlace(q, a, v, w),
         NEW predef, NEW mode, NEW type, EncodeOperand(a, predef, mode, type) # {}
  PROVE  /\ IsPlace(q)
         /\ \/ EncodeOperand(q, predef, mode, type) = {}
            \/ EncodeOperand(q, predef, mode, type) = EncodeOperand(a, predef, mode, type)
  <1> DEFINE p == Denotes(a, w)
  <1>1. /\ TextPart(q) \/ TextIndirect(q)
        /\ TextPart(a) \/ TextIndirect(a)
        /\ IsPlace(a) /\ Denotes(q, v) = p
    BY DEF SamePlace
  <1>2. a.kind \in {"mem", "db", "slot", "ptr", "indirect"} /\ PlaceOf(a, p)
    BY <1>1, PlaceIs
  <1>3. p.kind \in {"mem", "db", "slot", "ptr", "indirect"}
    BY <1>2 DEF PlaceOf
  <1>4. IsPlace(q)
    <2>1. Whole(q)
      BY <1>1, WholeIs
    <2>2. Denotes(q, v).kind = q.kind \/ q.kind = "slot"
      BY <2>1, DenotedKind
    <2>3. p.kind = q.kind \/ q.kind = "slot"
      BY <1>1, <2>2
    <2> HIDE DEF p
    <2> QED BY <1>3, <2>3 DEF IsPlace
  <1>5. q.kind \in {"mem", "db", "slot", "ptr", "indirect"} /\ PlaceOf(q, Denotes(q, v))
    BY <1>1, <1>4, PlaceIs
  <1>6. PlaceOf(q, p)
    BY <1>1, <1>5
  <1> HIDE DEF p
  <1> DEFINE Enc(x) == EncodeOperand(x, predef, mode, type)
  <1>7. /\ q.kind = a.kind \/ (q.kind \in {"slot", "ptr"} /\ a.kind \in {"slot", "ptr"})
    BY <1>2, <1>5, <1>6 DEF PlaceOf
  <1>8. CASE a.kind = "mem"
    <2>1. q.kind = "mem" /\ q.area = a.area /\ q.offset = a.offset
      BY <1>2, <1>6, <1>7, <1>8 DEF PlaceOf
    <2>2. \A x : x.kind = "mem" => Enc(x) = EncodeMemory(x, mode = Mode.Direct)
      BY DEF EncodeOperand
    <2> DEFINE force == mode = Mode.Direct
    <2>3. Enc(a) = EncodeMemory(a, force) /\ Enc(q) = EncodeMemory(q, force)
      BY <1>8, <2>1, <2>2
    <2> HIDE DEF force
    <2> QED BY <1>4, <2>1, <2>3, MemoryAlike
  <1>9. CASE a.kind = "db"
    <2>1. q.kind = "db" /\ q.number = a.number /\ q.range = a.range /\ q.offset = a.offset
      BY <1>2, <1>6, <1>7, <1>9 DEF PlaceOf
    <2>2. \A x : x.kind = "db" => Enc(x) = EncodeDb(x)
      BY DEF EncodeOperand
    <2>3. Enc(a) = EncodeDb(a) /\ Enc(q) = EncodeDb(q)
      BY <1>9, <2>1, <2>2
    <2> QED BY <1>4, <2>1, <2>3, DbAlike
  <1>10. CASE a.kind \in {"slot", "ptr"}
    <2>1. q.kind \in {"slot", "ptr"}
      BY <1>7, <1>10
    <2>2. \A x : x.kind \in {"slot", "ptr"} => Enc(x) = EncodeNative(x)
      BY DEF EncodeOperand
    <2>3. Enc(a) = EncodeNative(a) /\ Enc(q) = EncodeNative(q)
      BY <1>10, <2>1, <2>2
    <2>4. EncodeNative(q) = EncodeNative(a)
      BY <1>2, <1>6, <1>10, <2>1, NativeAlike
    <2> QED BY <1>4, <2>3, <2>4
  <1>11. CASE a.kind = "indirect"
    <2>1. q.kind = "indirect"
      BY <1>7, <1>11
    <2>2. \A x : x.kind = "indirect" => Enc(x) = EncodeIndirect(x, type)
      BY DEF EncodeOperand
    <2>3. Enc(a) = EncodeIndirect(a, type) /\ Enc(q) = EncodeIndirect(q, type)
      BY <1>11, <2>1, <2>2
    <2>4. EncodeIndirect(q, type) = EncodeIndirect(a, type)
      BY <1>2, <1>6, <1>11, <2>1, IndirectAlike
    <2> QED BY <1>4, <2>3, <2>4
  <1> QED BY <1>2, <1>8, <1>9, <1>10, <1>11
-----------------------------------------------------------------------------
(* A number that was read, shown and read again: all ones of a type stay   *)
(* all ones, and what is not keeps its bits.                               *)

\* What is written of a number, by its type and its bits.
LEMMA TypedIs ==
  ASSUME NEW dt, NEW v, NEW num, NEW mode
  PROVE  LET acc == Immediate(dt, v)
             own == IF dt = OT.Undef THEN num ELSE dt
             sent == IF own = OT.Bool THEN (IF dt = OT.Bool THEN v ELSE {}) ELSE v
         IN  /\ NumberSent(acc, num) = sent
             /\ NumberOnes(acc, num, mode) <=> /\ 0..(ImmediateWidth(own) - 1) \subseteq sent
                                               /\ mode \notin {Mode.Id, Mode.Len}
  <1> DEFINE acc == Immediate(dt, v)
  <1>1. acc.dt = dt /\ acc.value = v
    BY ConstructorFields DEF Fields
  <1> HIDE DEF acc
  <1>2. NumberType(acc, num) = IF dt = OT.Undef THEN num ELSE dt
    BY <1>1 DEF NumberType
  <1>3. BoolValue(acc) = IF dt = OT.Bool THEN v ELSE {}
    BY <1>1 DEF BoolValue
  <1>4. NumberSent(acc, num) = IF NumberType(acc, num) = OT.Bool THEN BoolValue(acc) ELSE v
    BY <1>1 DEF NumberSent
  <1> QED BY <1>2, <1>3, <1>4 DEF NumberOnes, acc

\* The bytes of mc7p_encode_immediate_typed by what is written.
LEMMA TypedBytes ==
  ASSUME NEW acc, NEW num, NEW mode
  PROVE  ImmediateTyped(acc, num, mode) =
             IF NumberOnes(acc, num, mode) THEN <<3>> ELSE PositiveImmediate(NumberSent(acc, num))
  BY DEF ImmediateTyped, NumberOnes, NumberSent

\* A word with at most its lowest bit is not all ones of any type.
LEMMA FewBits ==
  ASSUME NEW t, NEW v, v \in {{}, {0}}
  PROVE  ~(0..(ImmediateWidth(t) - 1) \subseteq v)
  <1>1. 1 \in 0..(ImmediateWidth(t) - 1)
    BY WidthsAre
  <1> QED BY <1>1

\* The low 32 bits of what is no longer.
LEMMA ShortBits ==
  ASSUME NEW v, v \subseteq 0..31
  PROVE  LowBits(v, 32) = v
  <1>1. \A b \in v : b < 32
    OBVIOUS
  <1>2. LowBits(v, 32) \subseteq v /\ v \subseteq LowBits(v, 32)
    BY <1>1 DEF LowBits
  <1> QED BY <1>2

\* Two numbers that are all ones both, or have the same bits.
SentAlike(dt, v, u, w, num, mode) ==
    /\ NumberOnes(Immediate(dt, v), num, mode) <=> NumberOnes(Immediate(u, w), num, mode)
    /\ ~NumberOnes(Immediate(u, w), num, mode) =>
           NumberSent(Immediate(dt, v), num) = NumberSent(Immediate(u, w), num)

\* What is alike is encoded to the same bytes.
LEMMA SentBytes ==
  ASSUME NEW dt, NEW v, NEW u, NEW w, NEW num, NEW mode, SentAlike(dt, v, u, w, num, mode)
  PROVE  ImmediateTyped(Immediate(dt, v), num, mode) = ImmediateTyped(Immediate(u, w), num, mode)
  BY TypedBytes DEF SentAlike

\* The number that was read, its type and its bits.
GotBits(dt, v, num, mode, predef, t, x) ==
    /\ ReadType(predef, t)
    /\ \/ NumberOnes(Immediate(dt, v), num, mode) /\ x = AllOnes
       \/ ~NumberOnes(Immediate(dt, v), num, mode) /\ x = NumberSent(Immediate(dt, v), num)

\* The number that is read of its text: encoded alike, or asked to be a Bool.
Reread(dt, v, num, mode, q) ==
    \/ \E u, w : q = Immediate(u, w) /\ SentAlike(u, w, dt, v, num, mode)
    \/ q.kind = "imm" /\ q.dt = OT.Undef /\ num = OT.Bool

\* TRUE and FALSE are shown as themselves, or as 1 and 0.
LEMMA BoolAlike ==
  ASSUME NEW v \in {{}, {0}}, NEW num, NEW mode, NEW predef,
         predef # OT.Undef => num = predef, NEW t, NEW x,
         GotBits(OT.Bool, v, num, mode, predef, t, x), NEW q, ShownNumber(t, x, q)
  PROVE  Reread(OT.Bool, v, num, mode, q)
  <1>1. OT.Bool # OT.Undef /\ OT.Bool # OT.UDInt
    BY DEF OT
  <1>2. NumberSent(Immediate(OT.Bool, v), num) = v /\ ~NumberOnes(Immediate(OT.Bool, v), num, mode)
    BY <1>1, TypedIs, FewBits
  <1>3. x = v
    BY <1>2 DEF GotBits
  <1>4. LowBits(v, 32) = v
    <2>1. v \subseteq 0..31
      OBVIOUS
    <2> QED BY <2>1, ShortBits
  <1>5. q = Immediate(OT.Bool, v) \/ q = Immediate(OT.Undef, v)
    BY <1>3, <1>4 DEF ShownNumber
  <1>6. CASE q = Immediate(OT.Bool, v)
    <2>1. SentAlike(OT.Bool, v, OT.Bool, v, num, mode)
      BY DEF SentAlike
    <2> QED BY <1>6, <2>1 DEF Reread
  <1>7. CASE q = Immediate(OT.Undef, v) /\ num = OT.Bool
    <2>1. q.kind = "imm" /\ q.dt = OT.Undef
      BY <1>7, ConstructorFields DEF Fields
    <2> QED BY <1>7, <2>1 DEF Reread
  <1>8. CASE q = Immediate(OT.Undef, v) /\ num # OT.Bool
    <2>1. NumberSent(Immediate(OT.Undef, v), num) = v
      BY <1>8, TypedIs
    <2>2. ~NumberOnes(Immediate(OT.Undef, v), num, mode)
      <3>1. NumberOnes(Immediate(OT.Undef, v), num, mode) => 0..(ImmediateWidth(num) - 1) \subseteq v
        BY <1>8, TypedIs
      <3> QED BY <3>1, FewBits
    <2>3. SentAlike(OT.Undef, v, OT.Bool, v, num, mode)
      BY <1>2, <2>1, <2>2 DEF SentAlike
    <2> QED BY <1>8, <2>3 DEF Reread
  <1> QED BY <1>5, <1>6, <1>7, <1>8

\* A number without a type is shown as its bits, or as all ones of 64 bits.
LEMMA PlainAlike ==
  ASSUME NEW v \in Word, NEW num, NEW mode, NEW predef,
         predef # OT.Undef => num = predef, predef = OT.UDInt => v \subseteq 0..31,
         NEW t, NEW x, GotBits(OT.Undef, v, num, mode, predef, t, x),
         NEW q, ShownNumber(t, x, q)
  PROVE  Reread(OT.Undef, v, num, mode, q)
  <1>1. OT.Bool # OT.Undef /\ OT.Bool # OT.UDInt /\ OT.Bool # OT.DInt /\ OT.DInt # OT.UDInt
        /\ OT.UDInt # OT.Undef
    BY DEF OT
  <1> DEFINE acc == Immediate(OT.Undef, v)
             ones == NumberOnes(acc, num, mode)
  <1>2. CASE num = OT.Bool
    <2>1. NumberSent(acc, num) = {} /\ ~ones
      BY <1>1, <1>2, TypedIs, FewBits
    <2>2. x = {}
      BY <2>1 DEF GotBits
    <2>3. LowBits({}, 32) = {}
      BY DEF LowBits
    <2>4. q = Immediate(OT.Bool, {}) \/ q = Immediate(OT.Undef, {})
      BY <2>2, <2>3 DEF ShownNumber
    <2>5. CASE q = Immediate(OT.Bool, {})
      <3>1. NumberSent(q, num) = {} /\ ~NumberOnes(q, num, mode)
        BY <1>1, <1>2, <2>5, TypedIs, FewBits
      <3>2. SentAlike(OT.Bool, {}, OT.Undef, v, num, mode)
        BY <2>1, <2>5, <3>1 DEF SentAlike
      <3> QED BY <2>5, <3>2 DEF Reread
    <2>6. CASE q = Immediate(OT.Undef, {})
      <3>1. q.kind = "imm" /\ q.dt = OT.Undef
        BY <2>6, ConstructorFields DEF Fields
      <3> QED BY <1>2, <3>1 DEF Reread
    <2> QED BY <2>4, <2>5, <2>6
  <1>3. CASE num # OT.Bool
    <2> DEFINE width == ImmediateWidth(num)
    <2>1. \A w : /\ NumberSent(Immediate(OT.Undef, w), num) = w
                 /\ NumberOnes(Immediate(OT.Undef, w), num, mode) <=>
                        0..(width - 1) \subseteq w /\ mode \notin {Mode.Id, Mode.Len}
      BY <1>3, TypedIs
    <2>2. width \in {8, 16, 32, 64}
      BY WidthsAre
    <2>3. t # OT.Bool
      BY <1>1, <1>3 DEF GotBits, ReadType
    <2>4. t = OT.UDInt => predef = OT.UDInt /\ num = OT.UDInt
      BY <1>1 DEF GotBits, ReadType
    <2>5. q = Immediate(OT.Undef, IF t = OT.UDInt THEN LowBits(x, 32) ELSE x)
      BY <2>3 DEF ShownNumber
    <2> DEFINE w == IF t = OT.UDInt THEN LowBits(x, 32) ELSE x
    <2>6. CASE ones
      <3>1. x = AllOnes /\ mode \notin {Mode.Id, Mode.Len}
        BY <1>3, <2>1, <2>6 DEF GotBits
      <3>2. 0..(width - 1) \subseteq w
        <4>1. CASE t # OT.UDInt
          <5>1. AllOnes = 0..63
            BY DEF AllOnes, Bits64
          <5>2. w = 0..63
            BY <3>1, <4>1, <5>1
          <5> HIDE DEF w, width
          <5> QED BY <2>2, <5>2
        <4>2. CASE t = OT.UDInt
          <5>1. width = 32
            BY <2>4, <4>2 DEF ImmediateWidth, OneByteTypes, TwoByteTypes, EightByteTypes, OT
          <5>2. LowBits(x, 32) = 0..31
            BY <3>1 DEF AllOnes, Bits64, LowBits
          <5> QED BY <4>2, <5>1, <5>2
        <4> QED BY <4>1, <4>2
      <3> HIDE DEF w
      <3>3. NumberOnes(Immediate(OT.Undef, w), num, mode)
        BY <2>1, <3>1, <3>2
      <3>4. SentAlike(OT.Undef, w, OT.Undef, v, num, mode)
        BY <2>6, <3>3 DEF SentAlike
      <3> QED BY <2>5, <3>4 DEF Reread, w
    <2>7. CASE ~ones
      <3>1. x = v
        BY <2>1, <2>7 DEF GotBits
      <3>2. w = v
        <4>1. t = OT.UDInt => v \subseteq 0..31
          BY <2>4
        <4>2. v \subseteq 0..31 => LowBits(v, 32) = v
          BY ShortBits
        <4> QED BY <3>1, <4>1, <4>2
      <3>3. SentAlike(OT.Undef, v, OT.Undef, v, num, mode)
        BY DEF SentAlike
      <3> QED BY <2>5, <3>2, <3>3 DEF Reread
    <2> QED BY <2>6, <2>7
  <1> QED BY <1>2, <1>3

\* A number that is read back is encoded to the same bytes, but for a Bool.
NumberParam(acc, num, predef) ==
    /\ TextImm(acc)
    /\ predef # OT.Undef => num = predef
    /\ predef = OT.UDInt => acc.value \subseteq 0..31

LEMMA NumberAlike ==
  ASSUME NEW acc, NEW num, NEW mode, NEW predef, NumberParam(acc, num, predef),
         NEW d, NumberGot(acc, num, mode, predef, d), NEW q \in ParsedPart(PrintedPart(d))
  PROVE  /\ q.kind = "imm"
         /\ \/ ImmediateTyped(q, num, mode) = ImmediateTyped(acc, num, mode)
            \/ q.dt = OT.Undef /\ num = OT.Bool
  <1>1. PICK dt, v : acc = Immediate(dt, v) /\ TextNumber(dt, v)
    BY DEF NumberParam, TextImm
  <1>2. acc.value = v
    BY <1>1, ConstructorFields DEF Fields
  <1>3. PICK t, x : d = Immediate(t, x) /\ GotBits(dt, v, num, mode, predef, t, x)
    BY <1>1 DEF NumberGot, GotBits
  <1>4. ShownNumber(t, x, q)
    BY <1>3, ShownImmediate
  <1>5. Reread(dt, v, num, mode, q)
    <2>1. predef # OT.Undef => num = predef
      BY DEF NumberParam
    <2>2. predef = OT.UDInt => v \subseteq 0..31
      BY <1>2 DEF NumberParam
    <2>3. CASE dt = OT.Undef
      <3>1. v \in Word /\ GotBits(OT.Undef, v, num, mode, predef, t, x)
        BY <1>1, <1>3, <2>3 DEF TextNumber
      <3>2. Reread(OT.Undef, v, num, mode, q)
        BY <1>4, <2>1, <2>2, <3>1, PlainAlike
      <3> QED BY <2>3, <3>2
    <2>4. CASE dt = OT.Bool /\ v \in {{}, {0}}
      <3>1. GotBits(OT.Bool, v, num, mode, predef, t, x)
        BY <1>3, <2>4
      <3>2. Reread(OT.Bool, v, num, mode, q)
        BY <1>4, <2>1, <2>4, <3>1, BoolAlike
      <3> QED BY <2>4, <3>2
    <2> QED BY <1>1, <2>3, <2>4 DEF TextNumber
  <1>6. CASE \E u, w : q = Immediate(u, w) /\ SentAlike(u, w, dt, v, num, mode)
    <2>1. PICK u, w : q = Immediate(u, w) /\ SentAlike(u, w, dt, v, num, mode)
      BY <1>6
    <2>2. q.kind = "imm"
      BY <2>1, ConstructorFields DEF Fields
    <2>3. ImmediateTyped(Immediate(u, w), num, mode) = ImmediateTyped(Immediate(dt, v), num, mode)
      BY <2>1, SentBytes
    <2> QED BY <1>1, <2>1, <2>2, <2>3
  <1> QED BY <1>5, <1>6 DEF Reread
-----------------------------------------------------------------------------
(* Operand by operand, and then the line.                                  *)
\* The operand that is read of what is shown for the i-th operand of a line.
Again(op, accs, i, q) ==
    LET p        == OwnParams(op)[i]
        enc(acc) == EncodeOperand(acc, p.predef, p.mode, RefType(OwnParams(op), accs, i))
    IN  /\ p.kind # "ident" => q = accs[i]
        /\ p.kind = "ident" =>
               /\ q.kind # "type"
               /\ \/ enc(q) = {} \/ enc(q) = enc(accs[i])
                  \/ q.kind = "imm" /\ q.dt = OT.Undef /\ TypeFor(op, accs, i) = OT.Bool

(* An operand of a line, what it was read back as and one reading of the   *)
(* text of that.                                                           *)
ShownOperand(op, accs, i, d, q) ==
    /\ LineOperand(OwnParams(op), accs, i)
    /\ EncodeParam(OwnParams(op), accs, i) # {}
    /\ OperandSame(op, accs, i, d)
    /\ d \in Access /\ Decoded(d)
    /\ q \in Parsed(Printed(d))
    /\ ~LongCount(op, accs, i) /\ ~SharedCode(op, accs, i)

\* Types and conditions are read of their texts as they are.
LEMMA TypeAgain ==
  ASSUME NEW acc, TextPart(acc), acc.kind \in {"type", "cond"},
         acc \in Access, NEW q \in Parsed(Printed(acc))
  PROVE  q = acc
  <1>1. Parsed(Printed(acc)) = ParsedPart(PrintedPart(acc))
    BY PartIsPlain
  <1>2. (\E t : acc = AccType(t)) \/ (\E v : acc = AccCond(v))
    BY KindsApart
  <1>3. ParsedPart(PrintedPart(acc)) = {acc}
    BY <1>2, ShownOthers
  <1> QED BY <1>1, <1>3

\* A place that was read back is shown and read as the same place.
LEMMA PlaceAgain ==
  ASSUME NEW a, TextPart(a) \/ TextIndirect(a), IsPlace(a), NEW d \in Access, Decoded(d), NEW w,
         Denotes(d, w) = Denotes(a, w), NEW q \in Parsed(Printed(d))
  PROVE  \E v : SamePlace(q, a, v, w)
  <1> DEFINE p == Denotes(a, w)
             v == ShownBits(d)
  <1>1. a.kind \in {"mem", "db", "slot", "ptr", "indirect"} /\ PlaceOf(a, p)
    BY PlaceIs
  <1>2. /\ p.kind \in {"mem", "db", "slot", "ptr", "indirect"}
        /\ p.kind = "db" => a.kind = "db" /\ p.range = a.range
    BY <1>1 DEF PlaceOf
  <1>3. /\ p.kind = d.kind \/ d.kind = "slot"
        /\ d.kind = "db" => p.kind = "db" /\ p.range = d.range
    <2>1. Whole(d)
      BY WholeIs
    <2>2. \/ /\ Denotes(d, w).kind = d.kind
             /\ Denotes(d, w).range = d.range
          \/ d.kind = "slot" /\ Denotes(d, w).kind = "ptr"
      BY <2>1, DenotedKind
    <2>3. Denotes(d, w) = p
      OBVIOUS
    <2> HIDE DEF p
    <2> QED BY <2>2, <2>3
  <1> HIDE DEF p
  <1>4. IsPlace(d) /\ d.kind # "imm"
    BY <1>2, <1>3 DEF IsPlace
  <1>5. d.kind = "db" => d.range \in NamedRanges
    <2>1. SUFFICES ASSUME d.kind = "db" PROVE d.range \in NamedRanges
      OBVIOUS
    <2>2. a.kind = "db" /\ d.range = a.range
      BY <1>2, <1>3, <2>1
    <2>3. TextDb(a)
      <3>1. TextIndirect(a) => a.kind = "indirect"
        BY ConstructorFields DEF TextIndirect, Fields
      <3> QED BY <2>2, <3>1, KindsApart
    <2>4. a.range \in NamedRanges
      BY <2>3, ConstructorFields DEF TextDb, Fields
    <2> QED BY <2>2, <2>4
  <1>6. ShownAs(d, q)
    BY ShownOne
  <1>7. Denotes(q, v) = Denotes(d, v)
    BY <1>4, <1>5, <1>6 DEF ShownAs
  <1>8. Denotes(d, v) = Denotes(d, w)
    <2>1. d.value = {}
      BY <1>4, DecodedPlace
    <2> HIDE DEF v
    <2> QED BY <2>1, PlaceAnyWidth
  <1>9. TextPart(q) \/ TextIndirect(q)
    BY OperandPrinted, TextIs
  <1>10. SamePlace(q, a, v, w)
    BY <1>7, <1>8, <1>9 DEF SamePlace, p
  <1> QED BY <1>10

\* A place of a line, read back and shown, is encoded alike or not at all.
LEMMA PlaceEncoded ==
  ASSUME NEW acc, NEW mode, IdentOperand(acc, mode, {}), acc.kind # "imm", NEW d \in Access,
         Decoded(d), NEW w, Denotes(d, w) = Denotes(AsRead(acc), w),
         NEW q \in Parsed(Printed(d)), NEW predef, NEW type,
         EncodeOperand(acc, predef, mode, type) # {}
  PROVE  /\ IsPlace(q)
         /\ \/ EncodeOperand(q, predef, mode, type) = {}
            \/ EncodeOperand(q, predef, mode, type) = EncodeOperand(acc, predef, mode, type)
  <1>1. PICK a : /\ a = AsRead(acc) /\ IdentOperand(a, mode, {}) /\ a.kind = acc.kind
                 /\ EncodeOperand(a, predef, mode, type) = EncodeOperand(acc, predef, mode, type)
    BY AsReadOperand
  <1>2. (TextPart(a) \/ TextIndirect(a)) /\ IsPlace(a)
    BY <1>1 DEF IdentOperand, IsPlace
  <1>3. Denotes(d, w) = Denotes(a, w)
    BY <1>1
  <1>4. PICK v : SamePlace(q, a, v, w)
    BY <1>2, <1>3, PlaceAgain
  <1>5. EncodeOperand(a, predef, mode, type) # {}
    BY <1>1
  <1>6. IsPlace(q)
    BY <1>4, <1>5, EncodedAlike
  <1>7. \/ EncodeOperand(q, predef, mode, type) = {}
        \/ EncodeOperand(q, predef, mode, type) = EncodeOperand(a, predef, mode, type)
    BY <1>4, <1>5, EncodedAlike
  <1> QED BY <1>1, <1>6, <1>7

\* Every operand of an ident parameter, read back and shown, is encoded alike.
LEMMA IdentAgain ==
  ASSUME NEW op, NEW accs, NEW i, NEW d, NEW q, ShownOperand(op, accs, i, d, q),
         OwnParams(op)[i].kind = "ident"
  PROVE  Again(op, accs, i, q)
  <1> DEFINE p    == OwnParams(op)[i]
             acc  == accs[i]
             mode == p.mode
             predef == p.predef
             type == RefType(OwnParams(op), accs, i)
             num  == TypeFor(op, accs, i)
             w    == NumberWidth(op, accs, i)
             enc(x) == EncodeOperand(x, predef, mode, type)
  <1>1. num = IF predef # OT.Undef THEN predef ELSE type
    BY DEF TypeFor
  <1>2. /\ TextPart(acc) \/ TextIndirect(acc)
        /\ FitsParam(p, acc) /\ FitsHeader(acc)
    BY DEF ShownOperand, LineOperand
  <1>3. IdentOperand(acc, mode, {})
    <2>1. acc.kind \notin {"type", "cond"}
          /\ (acc.kind = "ptr" /\ acc.scope = Scope.NativeSystem => mode \in {Mode.Pointer, Mode.SysPtr})
      BY <1>2 DEF FitsParam
    <2> HIDE DEF acc, p, mode
    <2> QED BY <1>2, <2>1 DEF IdentOperand
  <1>4. enc(acc) # {}
    BY DEF ShownOperand, EncodeParam
  <1>5. /\ acc.kind = "imm" => NumberGot(acc, num, mode, predef, d)
        /\ acc.kind # "imm" => Denotes(d, w) = Denotes(AsRead(acc), w)
    BY DEF ShownOperand, OperandSame
  <1>6. d \in Access /\ Decoded(d) /\ q \in Parsed(Printed(d))
    BY DEF ShownOperand
  <1>7. CASE acc.kind = "imm"
    <2>1. TextImm(acc)
      <3>1. TextIndirect(acc) => acc.kind = "indirect"
        BY ConstructorFields DEF TextIndirect, Fields
      <3> HIDE DEF acc
      <3> QED BY <1>2, <1>7, <3>1, KindsApart
    <2>2. predef = OT.UDInt => acc.value \subseteq 0..31
      BY <1>7 DEF ShownOperand, LongCount
    <2>3. NumberParam(acc, num, predef)
      BY <1>1, <2>1, <2>2 DEF NumberParam
    <2>4. q \in ParsedPart(PrintedPart(d))
      <3>1. d.kind = "imm"
        <4>1. \A t, v : Immediate(t, v).kind = "imm"
          BY ConstructorFields DEF Fields
        <4> HIDE DEF acc, num, mode, predef
        <4> QED BY <1>5, <1>7, <4>1 DEF NumberGot
      <3> QED BY <1>6, <3>1, PartIsPlain
    <2>5. /\ q.kind = "imm"
          /\ \/ ImmediateTyped(q, num, mode) = ImmediateTyped(acc, num, mode)
             \/ q.dt = OT.Undef /\ num = OT.Bool
      <3> HIDE DEF acc, num, mode, predef
      <3> QED BY <1>5, <1>7, <2>3, <2>4, NumberAlike
    <2>6. \A x : x.kind = "imm" => enc(x) = {ImmediateTyped(x, num, mode)}
      <3>1. \A x : x.kind = "imm" => enc(x) = {ImmediateTyped(x, IF predef # OT.Undef THEN predef
                                                                 ELSE type, mode)}
        BY DEF EncodeOperand
      <3> HIDE DEF num, predef, mode, type, enc
      <3> QED BY <1>1, <3>1, Zenon
    <2>7. enc(q) = enc(acc) \/ (q.dt = OT.Undef /\ num = OT.Bool)
      <3>1. enc(q) = {ImmediateTyped(q, num, mode)} /\ enc(acc) = {ImmediateTyped(acc, num, mode)}
        BY <1>7, <2>5, <2>6
      <3> HIDE DEF enc, num, mode, acc
      <3> QED BY <2>5, <3>1
    <2> QED BY <2>5, <2>7 DEF Again
  <1>8. CASE acc.kind # "imm"
    <2>1. Denotes(d, w) = Denotes(AsRead(acc), w)
      BY <1>5, <1>8
    <2>2. EncodeOperand(acc, predef, mode, type) # {}
      BY <1>4
    <2>3. /\ IsPlace(q)
          /\ \/ EncodeOperand(q, predef, mode, type) = {}
             \/ EncodeOperand(q, predef, mode, type) = EncodeOperand(acc, predef, mode, type)
      <3> HIDE DEF acc, w, mode, predef, type
      <3> QED BY <1>3, <1>6, <1>8, <2>1, <2>2, PlaceEncoded
    <2> QED BY <2>3 DEF Again, IsPlace
  <1> QED BY <1>7, <1>8

\* So is the operand of every other parameter.
LEMMA OperandAgain ==
  ASSUME NEW op, NEW accs, NEW i, NEW d, NEW q, ShownOperand(op, accs, i, d, q),
         OwnParams(op)[i].kind \in {"coding", "type", "cond", "ident"},
         OwnParams(op)[i].kind = "coding" => accs[i].kind = "type"
  PROVE  Again(op, accs, i, q)
  <1>1. CASE OwnParams(op)[i].kind = "ident"
    BY <1>1, IdentAgain
  <1>2. CASE OwnParams(op)[i].kind # "ident"
    <2>1. d = accs[i]
      BY <1>2 DEF ShownOperand, OperandSame
    <2>2. accs[i].kind \in {"type", "cond"}
      BY <1>2 DEF ShownOperand, EncodeParam
    <2>3. TextPart(accs[i])
      <3>1. TextIndirect(accs[i]) => accs[i].kind = "indirect"
        BY ConstructorFields DEF TextIndirect, Fields
      <3> QED BY <2>2, <3>1 DEF ShownOperand, LineOperand
    <2>4. d \in Access /\ q \in Parsed(Printed(d))
      BY DEF ShownOperand
    <2>5. q = accs[i]
      <3> DEFINE acc == accs[i]
      <3>1. acc \in Access /\ q \in Parsed(Printed(acc)) /\ TextPart(acc)
            /\ acc.kind \in {"type", "cond"}
        BY <2>1, <2>2, <2>3, <2>4
      <3> HIDE DEF acc
      <3>2. q = acc
        BY <3>1, TypeAgain
      <3> QED BY <3>2 DEF acc
    <2> QED BY <1>2, <2>5 DEF Again
  <1> QED BY <1>1, <1>2
-----------------------------------------------------------------------------
\* The operands of a line and of the line that its bytes show.
AllAgain(op, accs, qs) ==
    LET own == OwnParams(op)
    IN  /\ DOMAIN accs = DOMAIN own /\ DOMAIN qs = DOMAIN own
        /\ \A i \in DOMAIN own : Again(op, accs, i, qs[i])
        /\ \A i \in DOMAIN own : own[i].kind = "ident" => accs[i].kind # "type"

\* The types that parameters refer to stay.
LEMMA RefTypeAgain ==
  ASSUME NEW op, NEW accs, NEW qs, AllAgain(op, accs, qs), NEW i
  PROVE  RefType(OwnParams(op), qs, i) = RefType(OwnParams(op), accs, i)
  <1> DEFINE own == OwnParams(op)
             T(x)    == {j \in DOMAIN x : x[j].kind = "type"}
             ref     == Cardinality({j \in 1..(i - 1) : own[j].kind \in {"type", "coding"}})
             N(S)    == {j \in S : Cardinality({k \in S : k <= j}) = ref}
             R(x)    == IF own[i].ref /\ N(T(x)) # {} THEN x[CHOOSE j \in N(T(x)) : TRUE].dt
                        ELSE OT.Undef
  <1>1. RefType(own, accs, i) = R(accs) /\ RefType(own, qs, i) = R(qs)
    BY DEF RefType
  <1>2. \A j \in DOMAIN own : \/ accs[j] = qs[j]
                              \/ accs[j].kind # "type" /\ qs[j].kind # "type"
    BY DEF AllAgain, Again
  <1>3. T(accs) = T(qs)
    <2>1. DOMAIN accs = DOMAIN own /\ DOMAIN qs = DOMAIN own
      BY DEF AllAgain
    <2> HIDE DEF own
    <2> QED BY <1>2, <2>1
  <1>4. \A j \in T(accs) : accs[j] = qs[j]
    <2>1. DOMAIN accs = DOMAIN own
      BY DEF AllAgain
    <2> HIDE DEF own
    <2> QED BY <1>2, <2>1
  <1>5. N(T(accs)) \subseteq T(accs)
    OBVIOUS
  <1> HIDE DEF T, N
  <1>6. CASE N(T(accs)) = {}
    BY <1>1, <1>3, <1>6
  <1>7. CASE N(T(accs)) # {}
    <2> DEFINE c == CHOOSE j \in N(T(accs)) : TRUE
    <2>1. c \in N(T(accs))
      BY <1>7
    <2>2. accs[c] = qs[c]
      BY <1>4, <1>5, <2>1
    <2>3. c = CHOOSE j \in N(T(qs)) : TRUE
      BY <1>3
    <2>4. R(accs) = IF own[i].ref THEN accs[c].dt ELSE OT.Undef
      BY <1>7
    <2>5. R(qs) = IF own[i].ref THEN qs[c].dt ELSE OT.Undef
      BY <1>3, <1>7, <2>3
    <2> HIDE DEF c, R, own
    <2> QED BY <1>1, <2>2, <2>4, <2>5, Zenon DEF own
  <1> QED BY <1>6, <1>7

\* The bytes of one parameter stay, or the operand is refused.
LEMMA ParamAgain ==
  ASSUME NEW op, NEW accs, NEW qs, AllAgain(op, accs, qs), NEW i \in DOMAIN OwnParams(op),
         OwnParams(op)[i].kind \in {"coding", "type", "cond", "ident"}
  PROVE  \/ EncodeParam(OwnParams(op), qs, i) = {}
         \/ EncodeParam(OwnParams(op), qs, i) = EncodeParam(OwnParams(op), accs, i)
         \/ NumberForBool(op, qs, i)
  <1> DEFINE own  == OwnParams(op)
             p    == own[i]
             type == RefType(own, accs, i)
  <1>1. RefType(own, qs, i) = type
    BY RefTypeAgain
  <1>2. Again(op, accs, i, qs[i])
    BY DEF AllAgain
  <1>3. CASE p.kind = "ident"
    <2>1. /\ EncodeParam(own, accs, i) = EncodeOperand(accs[i], p.predef, p.mode, type)
          /\ EncodeParam(own, qs, i) = EncodeOperand(qs[i], p.predef, p.mode, type)
      <3>1. \A x : EncodeParam(own, x, i) = EncodeOperand(x[i], p.predef, p.mode, RefType(own, x, i))
        BY <1>3 DEF EncodeParam
      <3> HIDE DEF own, p
      <3> QED BY <1>1, <3>1
    <2>2. TypeFor(op, qs, i) = TypeFor(op, accs, i)
      <3>1. \A x : TypeFor(op, x, i) = IF p.predef # OT.Undef THEN p.predef ELSE RefType(own, x, i)
        BY <1>3 DEF TypeFor
      <3> HIDE DEF own, p
      <3> QED BY <1>1, <3>1
    <2>3. \/ EncodeOperand(qs[i], p.predef, p.mode, type) = {}
          \/ EncodeOperand(qs[i], p.predef, p.mode, type)
                 = EncodeOperand(accs[i], p.predef, p.mode, type)
          \/ qs[i].kind = "imm" /\ qs[i].dt = OT.Undef /\ TypeFor(op, accs, i) = OT.Bool
      BY <1>2, <1>3 DEF Again
    <2> HIDE DEF own, p, type
    <2>4. (qs[i].kind = "imm" /\ qs[i].dt = OT.Undef /\ TypeFor(op, accs, i) = OT.Bool)
              => NumberForBool(op, qs, i)
      BY <2>2 DEF NumberForBool
    <2> QED BY <2>1, <2>3, <2>4 DEF own
  <1>4. CASE p.kind # "ident"
    <2>1. qs[i] = accs[i]
      BY <1>2, <1>4 DEF Again
    <2>2. EncodeParam(own, qs, i) = EncodeParam(own, accs, i)
      BY <1>4, <2>1 DEF EncodeParam
    <2> QED BY <2>2
  <1> QED BY <1>3, <1>4

\* The flags of a line that its operator has.
ShownFlags(op, flags) == flags \cap {p.flag : p \in ParamsOf(op, "flag")}

\* The code with its flags and coded types stays.
LEMMA CodeAgain ==
  ASSUME NEW op, NEW accs, NEW qs, AllAgain(op, accs, qs), NEW flags, NEW shown,
         shown = ShownFlags(op, flags)
  PROVE  CodeOf(op, shown, qs) = CodeOf(op, flags, accs)
  <1> DEFINE own   == OwnParams(op)
             coded == {i \in DOMAIN own : own[i].kind = "coding"}
             F(S, b) == {p.bit : p \in {q \in ParamsOf(op, "flag") : q.byte = b /\ q.flag \in S}}
             C(x, b) == {Only(CodingBits(own[i], x[i])) : i \in {j \in coded : own[j].byte = b}}
  <1>1. \A b : /\ SetBits(op, flags, accs, b) = F(flags, b) \cup UNION C(accs, b)
               /\ SetBits(op, shown, qs, b) = F(shown, b) \cup UNION C(qs, b)
    BY DEF SetBits
  <1>2. \A b : F(shown, b) = F(flags, b)
    <2>1. \A q \in ParamsOf(op, "flag") : q.flag \in shown <=> q.flag \in flags
      BY DEF ShownFlags
    <2>2. \A b : {q \in ParamsOf(op, "flag") : q.byte = b /\ q.flag \in shown}
                 = {q \in ParamsOf(op, "flag") : q.byte = b /\ q.flag \in flags}
      BY <2>1
    <2> QED BY <2>2, Zenon
  <1>3. \A i \in coded : qs[i] = accs[i]
    BY DEF AllAgain, Again
  <1>4. \A b : C(qs, b) = C(accs, b)
    <2> HIDE DEF coded, own
    <2> QED BY <1>3
  <1> HIDE DEF F, C
  <1>5. \A b : SetBits(op, shown, qs, b) = SetBits(op, flags, accs, b)
    BY <1>1, <1>2, <1>4
  <1> DEFINE B(S, x, b) == ByteAt(BitsOf(op.code[b]) \cup SetBits(op, S, x, b - 1), 0)
  <1>6. \A b : B(shown, qs, b) = B(flags, accs, b)
    BY <1>5
  <1>7. CodeOf(op, shown, qs) = [b \in DOMAIN op.code |-> B(shown, qs, b)]
    BY DEF CodeOf
  <1>8. CodeOf(op, flags, accs) = [b \in DOMAIN op.code |-> B(flags, accs, b)]
    BY DEF CodeOf
  <1> HIDE DEF B
  <1> QED BY <1>6, <1>7, <1>8

\* No number where a Bool is asked for.
NoNumberForBool(op, qs) == \A i \in DOMAIN qs : ~NumberForBool(op, qs, i)

\* The bytes of the row stay, or the line is refused.
LEMMA RowAgain ==
  ASSUME NEW n, NEW flags, NEW accs, NEW code, Assembled(n, flags, accs, code),
         NEW qs, AllAgain(Ops[n], accs, qs), NEW shown, shown = ShownFlags(Ops[n], flags),
         NoNumberForBool(Ops[n], qs)
  PROVE  AssembleRow(Ops[n], shown, qs) \subseteq {code}
  <1> DEFINE op  == Ops[n]
             own == OwnParams(op)
  <1>1. SUFFICES ASSUME NEW c \in AssembleRow(op, shown, qs) PROVE c = code
    OBVIOUS
  <1>2. PICK t \in Joined(OperandParts(op, qs)) : c = CodeOf(op, shown, qs) \o t
    BY AssembleRowIs
  <1>3. DOMAIN OperandParts(op, qs) = DOMAIN own
    BY DEF OperandParts
  <1>4. /\ \A i \in DOMAIN own : OperandParts(op, qs)[i] # {}
        /\ t = FlattenSeq([i \in DOMAIN own |-> Only(OperandParts(op, qs)[i])])
    <2> DEFINE parts == OperandParts(op, qs)
    <2>1. t \in Joined(parts) /\ DOMAIN parts = DOMAIN own
      BY <1>3
    <2> HIDE DEF parts, own, op
    <2>2. /\ \A i \in DOMAIN parts : parts[i] # {}
          /\ t = FlattenSeq([i \in DOMAIN parts |-> Only(parts[i])])
      BY <2>1 DEF Joined
    <2>3. [i \in DOMAIN parts |-> Only(parts[i])] = [i \in DOMAIN own |-> Only(parts[i])]
      BY <2>1
    <2> QED BY <2>1, <2>2, <2>3 DEF parts
  <1>5. \A i \in DOMAIN own : OperandParts(op, qs)[i] = OperandParts(op, accs)[i]
    <2> SUFFICES ASSUME NEW i \in DOMAIN own
                 PROVE  OperandParts(op, qs)[i] = OperandParts(op, accs)[i]
      OBVIOUS
    <2>1. OperandParts(op, qs)[i] = EncodeParam(own, qs, i)
          /\ OperandParts(op, accs)[i] = EncodeParam(own, accs, i)
      BY DEF OperandParts
    <2>2. own[i].kind \in {"coding", "type", "cond", "ident"}
      BY OwnParamsTyped DEF Assembled
    <2>3. ~NumberForBool(op, qs, i)
      BY DEF AllAgain, NoNumberForBool
    <2>4. EncodeParam(own, qs, i) # {}
      BY <1>4, <2>1
    <2> HIDE DEF op
    <2> QED BY <2>1, <2>2, <2>3, <2>4, ParamAgain DEF op
  <1>6. [i \in DOMAIN own |-> Only(OperandParts(op, qs)[i])] = Parts(op, accs)
    <2> HIDE DEF own
    <2>1. Parts(op, accs) = [i \in DOMAIN own |-> Only(OperandParts(op, accs)[i])]
      BY DEF Parts, own
    <2> QED BY <1>5, <2>1
  <1>7. CodeOf(op, shown, qs) = CodeOf(op, flags, accs)
    BY CodeAgain
  <1>8. code = CodeOf(op, flags, accs) \o FlattenSeq(Parts(op, accs))
    BY DEF Assembled
  <1> HIDE DEF op, own
  <1> QED BY <1>2, <1>4, <1>6, <1>7, <1>8

\* The line that is shown of the bytes of a line.
LEMMA ShownLine ==
  ASSUME NEW n, NEW flags, NEW accs, NEW code, Assembled(n, flags, accs, code),
         NEW r, StatementAt(code, 0) = {r}, ReadBackAs(n, flags, accs, code, r),
         NEW operands, NEW qs, DOMAIN operands = DOMAIN r.operands,
         \A i \in DOMAIN operands : operands[i] = Printed(r.operands[i]),
         DOMAIN qs = DOMAIN operands, \A i \in DOMAIN qs : qs[i] \in Parsed(operands[i]),
         \A i \in DOMAIN accs : ~LongCount(Ops[n], accs, i) /\ ~SharedCode(Ops[n], accs, i)
  PROVE  AllAgain(Ops[n], accs, qs)
  <1> DEFINE op  == Ops[n]
             own == OwnParams(op)
  <1>1. /\ DOMAIN accs = DOMAIN own /\ DOMAIN qs = DOMAIN own /\ DOMAIN r.operands = DOMAIN own
        /\ code \in Seq(Byte) /\ n \in DOMAIN Ops
    BY OfferedIs DEF Assembled, ReadBackAs
  <1>2. AllMade(r.operands) /\ r \in Reading
    <2>1. r \in StatementAt(code, 0)
      OBVIOUS
    <2> QED BY <1>1, <2>1, StatementMade, StatementTyped
  <1>3. ASSUME NEW i \in DOMAIN own
        PROVE  /\ Again(op, accs, i, qs[i])
               /\ own[i].kind = "ident" => accs[i].kind # "type"
    <2>1. r.operands[i] \in Access /\ Decoded(r.operands[i])
      BY <1>1, <1>2 DEF AllMade, Reading
    <2>2. LineOperand(own, accs, i) /\ EncodeParam(own, accs, i) # {}
      BY DEF Assembled, OperandParts
    <2>3. OperandSame(op, accs, i, r.operands[i])
      BY <1>1 DEF ReadBackAs, OperandKept
    <2>4. qs[i] \in Parsed(Printed(r.operands[i]))
      BY <1>1
    <2>5. ShownOperand(op, accs, i, r.operands[i], qs[i])
      BY <1>1, <2>1, <2>2, <2>3, <2>4 DEF ShownOperand
    <2>6. own[i].kind \in {"coding", "type", "cond", "ident"}
      BY <1>1, OwnParamsTyped
    <2>7. own[i].kind = "coding" => accs[i].kind = "type"
      BY DEF Assembled, AllCoded, CodingBits
    <2>8. own[i].kind = "ident" => accs[i].kind # "type"
      BY <2>2 DEF LineOperand, FitsParam
    <2> HIDE DEF op
    <2> QED BY <2>5, <2>6, <2>7, <2>8, OperandAgain DEF own
  <1> QED BY <1>1, <1>3 DEF AllAgain

(* mc7p_assemble_one of what mc7p_render_statement shows of assembled      *)
(* bytes gives these bytes or refuses: a statement that was patched once   *)
(* does not drift when its own text is typed again, whatever the table and *)
(* the line, but for the three cases that Settled names.                   *)
THEOREM SettledHolds == Spec => []Settled
  <1>1. TypeOK => Settled
    <2> SUFFICES ASSUME line \in Line, bytes \in AssembleOne(line), Proper(line),
                        NEW l \in Listing(bytes),
                        \A s \in ReadLine(l) : \A i \in DOMAIN s.accs :
                            ~NumberForBool(s.op, s.accs, i),
                        \A s \in ReadLine(line) : \A i \in DOMAIN s.accs :
                            ~LongCount(s.op, s.accs, i) /\ ~SharedCode(s.op, s.accs, i)
                 PROVE  AssembleOne(l) \subseteq {bytes}
      BY DEF TypeOK, Settled
    <2>1. PICK n, accs :
              /\ n \in DOMAIN Ops /\ OpNamed(line.name) = {n} /\ Names[n] = line.name
              /\ ReadLine(line) = {[op |-> Ops[n], accs |-> accs]}
              /\ Assembled(n, line.flags, accs, bytes)
      BY ProperLine
    <2>2. PICK r : StatementAt(bytes, 0) = {r} /\ ReadBackAs(n, line.flags, accs, bytes, r)
      BY <2>1, ReadBack
    <2>3. bytes \in Seq(Byte)
      BY <2>1, OfferedIs
    <2>4. l \in Line
      BY <2>3, ListingTyped
    <2>5. l = [name |-> Names[r.op], flags |-> r.flags,
               operands |-> [i \in DOMAIN r.operands |-> Printed(r.operands[i])]]
      BY <2>2 DEF Listing
    <2>6. /\ l.name = Names[n]
          /\ l.flags = line.flags \cap {p.flag : p \in ParamsOf(Ops[n], "flag")}
          /\ DOMAIN l.operands = DOMAIN r.operands
          /\ \A i \in DOMAIN l.operands : l.operands[i] = Printed(r.operands[i])
      BY <2>2, <2>5 DEF ReadBackAs
    <2>7. OpNamed(l.name) = {n}
      BY <2>1, <2>6
    <2>8. Len(l.operands) = Len(OwnParams(Ops[n]))
      <3>1. OwnParams(Ops[n]) \in Seq(Param) /\ l.operands \in Seq(AnyText)
        BY <2>1, <2>4, OwnParamsTyped DEF Line
      <3>2. DOMAIN l.operands = DOMAIN OwnParams(Ops[n])
        BY <2>1, <2>2, <2>6 DEF ReadBackAs, Assembled
      <3> QED BY <3>1, <3>2
    <2>9. SUFFICES ASSUME NEW c \in AssembleOne(l) PROVE c = bytes
      OBVIOUS
    <2>10. c \in AssembleTable(l)
      BY <2>1, <2>4, <2>6, <2>7, <2>8, TableOnly
    <2>11. PICK qs \in ParsedLine(l.operands) : c \in AssembleRow(Ops[n], l.flags, qs)
      BY <2>7, <2>10 DEF AssembleTable
    <2>12. [op |-> Ops[n], accs |-> qs] \in ReadLine(l)
      BY <2>7, <2>11 DEF ReadLine
    <2>13. /\ DOMAIN qs = DOMAIN l.operands
           /\ \A i \in DOMAIN qs : qs[i] \in Parsed(l.operands[i])
      <3>1. l.operands \in Seq(AnyText)
        BY <2>4 DEF Line
      <3> QED BY <2>11, <3>1, ParsedLineIs
    <2>14. \A i \in DOMAIN accs : ~LongCount(Ops[n], accs, i) /\ ~SharedCode(Ops[n], accs, i)
      BY <2>1
    <2>15. NoNumberForBool(Ops[n], qs)
      BY <2>12 DEF NoNumberForBool
    <2>16. AllAgain(Ops[n], accs, qs)
      <3> DEFINE operands == l.operands
                 flags    == line.flags
      <3>1. /\ DOMAIN operands = DOMAIN r.operands /\ DOMAIN qs = DOMAIN operands
            /\ \A i \in DOMAIN operands : operands[i] = Printed(r.operands[i])
            /\ \A i \in DOMAIN qs : qs[i] \in Parsed(operands[i])
            /\ Assembled(n, flags, accs, bytes) /\ ReadBackAs(n, flags, accs, bytes, r)
        BY <2>1, <2>2, <2>6, <2>13
      <3> HIDE DEF operands, flags
      <3> QED BY <2>2, <2>14, <3>1, ShownLine
    <2>17. AssembleRow(Ops[n], l.flags, qs) \subseteq {bytes}
      <3> DEFINE flags == line.flags
      <3>1. Assembled(n, flags, accs, bytes) /\ l.flags = ShownFlags(Ops[n], flags)
        BY <2>1, <2>6 DEF ShownFlags
      <3> HIDE DEF flags
      <3> QED BY <2>15, <2>16, <3>1, RowAgain
    <2> QED BY <2>11, <2>17
  <1> QED BY <1>1, AssemblerTypeCorrect, PTL
=============================================================================
