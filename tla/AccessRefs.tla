----------------------------- MODULE AccessRefs -----------------------------
(***************************************************************************)
(* What the analysis plugin tells rizin of the operands of a statement: a  *)
(* made-up reference address for each variable, whether the statement      *)
(* reads or writes it, and the name of the flag put there.  The addresses  *)
(* are 64-bit words; NoRef, UT64_MAX, is "no address".                     *)
(***************************************************************************)
EXTENDS StatementAt

NoRef == AllOnes

\* mc7p_type_bytes: the bytes of a type, 1 when it is not known.
WordTypes  == {4, 5, 9, 12, 53, 61}
DWordTypes == {6, 7, 8, 10, 11, 54}
LWordTypes == {48, 49, 50, 51, 64, 65, 66, 67}

TypeBytes(t) == CASE t \in WordTypes  -> 2
                  [] t \in DWordTypes -> 4
                  [] t \in LWordTypes -> 8
                  [] OTHER            -> 1
----------------------------------------------------------------------------
(* mc7p_ref_addr.  MC7P_REF_BASE is \h6d63377000000000; the classes and    *)
(* the fields are or-ed into it.                                           *)
RefBase  == ShiftLeft(BitsOf(28003), 48) \cup ShiftLeft(BitsOf(14192), 32)
RefClass == [db |-> 1, mem |-> 2, slot |-> 3, indirect |-> 4]

Tagged(kind, fields) == RefBase \cup ShiftLeft(BitsOf(RefClass[kind]), 48) \cup fields

\* (ut64)(n & 0xff) << k.
ByteField(n, k) == ShiftLeft(BitsOf(n % 256), k)

PlainRef(a) ==
    CASE a.kind = "db" ->
             Tagged("db", ByteField(a.range, 40)
                          \cup ShiftLeft(LowBits(a.number, 20), 20)
                          \cup LowBits(a.offset, 20))
      [] a.kind = "mem" ->
             Tagged("mem", ByteField(a.area, 40) \cup LowBits(a.offset, 40))
      [] a.kind = "slot" ->
             Tagged("slot", ByteField(a.scope, 40) \cup ByteField(a.range, 32)
                            \cup LowBits(a.number, 32))
      [] OTHER -> NoRef

\* An indirect access keeps bits 32..47 of its pointer's address and the low
\* half of its offset's; neither a pointer nor an immediate has one.
RefAddr(a) ==
    IF a.kind # "indirect" THEN PlainRef(a)
    ELSE Tagged("indirect", {b \in PlainRef(a.sub[1]) : b \in 32..47}
                            \cup LowBits(PlainRef(a.sub[2]), 32))
----------------------------------------------------------------------------
(* mc7p_access_name: the flag's name, as the parts the text is made of.    *)
(* type is {} or the type in effect.  Every range but the retain and the   *)
(* volatile one has the prefix DB.                                         *)
NamedType(a, type) == TypeOr(type, a.dt)

\* The letter of the width: 0 for X, the number of bytes for B, W, D and L.
WidthName(a, type) ==
    IF LowBits(a.offset, 3) # {} \/ NamedType(a, type) = OT.Bool THEN 0
    ELSE TypeBytes(NamedType(a, type))

DbPrefix(range) == IF range \in {Area.DBRetain, Area.DBVolatile} THEN range ELSE 0

AccessName(a, type) ==
    CASE a.kind = "db" ->
             <<"db", DbPrefix(a.range), a.number, WidthName(a, type), a.offset>>
      [] a.kind = "mem"  -> <<"mem", a.area, WidthName(a, type), a.offset>>
      [] a.kind = "slot" -> <<"slot", a.scope, a.range, a.number>>
      [] OTHER           -> <<"indirect", RefAddr(a)>>
----------------------------------------------------------------------------
(* mc7p_op_add_value: the parts of an indirect access are read, then the   *)
(* access itself is read ("r") or written ("w").  acc is what was          *)
(* reported on, for the properties.                                        *)
Value(a, mode, type) ==
    IF RefAddr(a) = NoRef THEN <<>>
    ELSE <<[acc |-> a, base |-> RefAddr(a), access |-> mode,
            name |-> AccessName(a, type)]>>

Values(a, mode, type) ==
    (IF a.kind = "indirect"
     THEN Value(a.sub[1], "r", {}) \o Value(a.sub[2], "r", {}) ELSE <<>>)
    \o Value(a, mode, type)

\* mc7p_mode_access: {} for RZ_ANALYSIS_ACC_UNKNOWN.
ModeAccess(mode) ==
    CASE mode = Mode.Dest -> {"w"}
      [] mode \in {Mode.Src, Mode.Pointer, Mode.Direct, Mode.SysPtr,
                   Mode.Block, Mode.Array, Mode.Local, Mode.Local32} -> {"r"}
      [] OTHER -> {}

IsRef(a) == a.kind \in {"db", "mem", "slot", "indirect"}

\* Mutant: a TYPE parameter's operand is not stepped over.
ParamAccessTypeStays(op, operands, i, s) ==
    LET p == op.params[i]
        a == operands[s.oi + 1]
        known == p.kind = "ident" /\ IsRef(a) /\ ModeAccess(p.mode) # {}
    IN  IF s.oi >= Len(operands) \/ p.kind \in {"flag", "coding", "type"} THEN s
        ELSE [oi     |-> s.oi + 1,
              type   |-> s.type,
              values |-> IF known
                         THEN s.values \o
                              Values(a, IF p.mode = Mode.Dest THEN "w" ELSE "r", s.type)
                         ELSE s.values]

(* mc7p_fill_access_from_params: each parameter but flags and CODINGs has  *)
(* the next operand.  A CODING has an operand too, which is not skipped.   *)
ParamAccess(op, operands, i, s) ==
    LET p == op.params[i]
        a == operands[s.oi + 1]
        known == p.kind = "ident" /\ IsRef(a) /\ ModeAccess(p.mode) # {}
    IN  IF s.oi >= Len(operands) \/ p.kind \in {"flag", "coding"} THEN s
        ELSE [oi     |-> s.oi + 1,
              type   |-> IF p.kind = "type" /\ a.kind = "type" THEN {a.dt} ELSE s.type,
              values |-> IF known
                         THEN s.values \o
                              Values(a, IF p.mode = Mode.Dest THEN "w" ELSE "r", s.type)
                         ELSE s.values]

AccessFromParams(op, operands) ==
    LET s[i \in 0..Len(op.params)] ==
            IF i = 0 THEN [oi |-> 0, type |-> {}, values |-> <<>>]
            ELSE ParamAccess(op, operands, i, s[i - 1])
    IN  s[Len(op.params)].values

(* mc7p_fill_access_fallback: the first operand that refers is written by  *)
(* a MOVE or an arithmetic operator, the others are read.                  *)
AccessFallback(op, operands) ==
    LET types == {i \in DOMAIN operands : operands[i].kind = "type"}
        type  == {operands[i].dt : i \in {j \in types : \A k \in types : j <= k}}
        first == {i \in DOMAIN operands :
                      IsRef(operands[i]) /\ \A j \in 1..(i - 1) : ~IsRef(operands[j])}
        mode(i) == IF i \in first /\ op.class \in {"MOVE", "ARITH"} THEN "w" ELSE "r"
        s[i \in 0..Len(operands)] ==
            IF i = 0 THEN <<>>
            ELSE s[i - 1] \o (IF IsRef(operands[i])
                              THEN Values(operands[i], mode(i), type) ELSE <<>>)
    IN  s[Len(operands)]

\* mc7p_fill_analysis_access.
AnalysisAccess(op, operands) ==
    IF AccessFromParams(op, operands) # <<>>
    THEN AccessFromParams(op, operands) ELSE AccessFallback(op, operands)
=============================================================================
