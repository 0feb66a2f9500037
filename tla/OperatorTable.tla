---------------------------- MODULE OperatorTable ----------------------------
(***************************************************************************)
(* The operator table (mc7p_ops, mc7p_params, mc7p_type_codings) and what  *)
(* the decoder reads off one row of it: which bits of a statement are the  *)
(* operator's code, which carry flags or a coded type, and the operand     *)
(* that one parameter reads.  A statement starts at offset pos of code.    *)
(***************************************************************************)
EXTENDS OperandDecoder

CONSTANTS
    Ops,               \* mc7p_ops: op number -> [code, multi, class, params]
    MaxOperands,       \* MC7P_MAX_OPERANDS
    FirstCap           \* entries of one g_first slot

Param == [kind : {"flag", "coding", "type", "cond", "ident"},
          byte : 0..1, bit : 0..7, flag : Nat, pairs : Seq(Nat \X Nat),
          ref : BOOLEAN, predef : Nat, mode : Nat]

ASSUME TableAssumption ==
    /\ DOMAIN Ops \subseteq Nat
    /\ \A n \in DOMAIN Ops :
           /\ Ops[n].code \in Seq(Byte)
           /\ Ops[n].params \in Seq(Param)
           /\ Ops[n].multi \in BOOLEAN
    /\ MaxOperands \in Nat /\ FirstCap \in Nat
----------------------------------------------------------------------------
(* The code bits of an operator.  A byte of a statement carries the code,  *)
(* flag bits and coded types; the masks say which bits are not the code.   *)
ParamsOf(op, kind) ==
    {op.params[i] : i \in {j \in DOMAIN op.params : op.params[j].kind = kind}}

\* How many operands the first i parameters read, each read once.
OperandOf(op, i) == Cardinality({j \in 1..i : op.params[j].kind # "flag"})

\* The parameters that operands come from, in their order.
OwnParams(op) ==
    [i \in 1..OperandOf(op, Len(op.params)) |->
        op.params[CHOOSE j \in DOMAIN op.params :
                      op.params[j].kind # "flag" /\ OperandOf(op, j) = i]]

\* The parameter that gives the count of a repeated one.
LenParams(op) ==
    {i \in DOMAIN op.params : op.params[i].kind = "ident" /\ op.params[i].mode = Mode.Len}

(* HasMultipleParameter: JL, MUX and MUX_2 repeat an operand that comes    *)
(* last, and one parameter at most says how often.                         *)
ASSUME MultiAssumption ==
    \A n \in DOMAIN Ops :
        Ops[n].multi =>
            LET params == Ops[n].params
            IN  /\ params # <<>> /\ params[Len(params)].kind = "ident"
                /\ \A i, j \in LenParams(Ops[n]) : i = j

\* The flag bits and the coded types lie in the bytes of the operator's code.
ASSUME CodeAssumption ==
    \A n \in DOMAIN Ops :
        \A p \in ParamsOf(Ops[n], "flag") \cup ParamsOf(Ops[n], "coding") :
            p.byte < Len(Ops[n].code)

FlagMask(op, i) == {p.bit : p \in {q \in ParamsOf(op, "flag") : q.byte = i}}

\* bit_length of the largest code of a CODING parameter.
CodingWidth(p) ==
    LET largest == Max({p.pairs[i][2] : i \in DOMAIN p.pairs} \cup {0})
    IN  Min({w \in 0..8 : 2^w > largest})

CodingMask(op, i) ==
    UNION {{p.bit + k : k \in 0..(CodingWidth(p) - 1)} :
           p \in {q \in ParamsOf(op, "coding") : q.byte = i}}

ByteMatches(op, i, b) ==
    BitsOf(b) \ (FlagMask(op, i) \cup CodingMask(op, i)) = BitsOf(op.code[i + 1])

(* The rows with a code are apart: two of them differ in a byte both have, *)
(* whatever its flag bits and coded types.                                 *)
RowsApart ==
    LET coded == {n \in DOMAIN Ops : Ops[n].code # <<>>}
    IN  \A m, n \in coded : m # n =>
            \E i \in (0..(Len(Ops[m].code) - 1)) \cap (0..(Len(Ops[n].code) - 1)) :
                \A b \in Byte : ~(ByteMatches(Ops[m], i, b) /\ ByteMatches(Ops[n], i, b))

(* build_first_index: the operators byte b may start, ascending, at most   *)
(* FirstCap of them.                                                       *)
FirstIndex(b) ==
    LET all == {n \in DOMAIN Ops : Ops[n].code # <<>> /\ ByteMatches(Ops[n], 0, b)}
    IN  {n \in all : Cardinality({m \in all : m < n}) < FirstCap}

CodeMatches(code, pos, op) ==
    /\ CanTake(code, pos, Len(op.code))
    /\ \A i \in 0..(Len(op.code) - 1) : ByteMatches(op, i, code[pos + i + 1])

\* The flag parameters whose bit is set in the statement: their number is the
\* candidate's score, and restore_flags keeps the flags of the first eight.
MaxFlags == 8

FlagsOn(code, pos, op) ==
    {i \in DOMAIN op.params :
        op.params[i].kind = "flag"
        /\ op.params[i].bit \in BitsOf(code[pos + op.params[i].byte + 1])}

RestoreFlags(code, pos, op) ==
    LET on == FlagsOn(code, pos, op)
    IN  {op.params[i].flag :
            i \in {j \in on : Cardinality({k \in on : k < j}) < MaxFlags}}

\* Mutant: the last of equal candidates wins, as with >=.
BeatsLast(end, score, best) == end >= best.end

\* `end > best_end || (end == best_end && score > best_score)'.
Beats(end, score, best) ==
    end > best.end \/ (end = best.end /\ score > best.score)
----------------------------------------------------------------------------
\* The type a CODING's bits stand for; the last of equal codes wins.
CodedType(code, pos, p) ==
    LET bits == LowBits(ShiftRight(BitsOf(code[pos + p.byte + 1]), p.bit), CodingWidth(p))
        hits == {i \in DOMAIN p.pairs : BitsOf(p.pairs[i][2]) = bits}
    IN  {p.pairs[i][1] : i \in {j \in hits : \A k \in hits : k <= j}}

TypeAccess(ot) == [AccNew("type", ot) EXCEPT !.value = BitsOf(ot)]
CondAccess(c)  == [AccNew("cond", OT.Void) EXCEPT !.value = BitsOf(c)]

\* The reader carries no constants: decode_best_at zeroes it and never sets them.
ReaderConstants == <<>>

(* The operand parameter p reads at rpos, {} when it reads none; pending   *)
(* is {} or the type that the last CODING gave.                            *)
ParamOperand(code, pos, p, rpos, pending) ==
    CASE p.kind = "coding" ->
             {[end |-> rpos, acc |-> TypeAccess(ot)] :
                  ot \in CodedType(code, pos, p)}
      [] p.kind = "type" ->
             {[end |-> rpos + 1, acc |-> TypeAccess(ot)] :
                  ot \in IF CanTake(code, rpos, 1)
                         THEN TypeFromByte(Peek(code, rpos)) ELSE {}}
      [] p.kind = "cond" ->
             {[end |-> rpos + 1, acc |-> CondAccess(c)] :
                  c \in IF CanTake(code, rpos, 1)
                        THEN CondFromByte(Peek(code, rpos)) ELSE {}}
      [] p.kind = "ident" ->
             DecodeIdent(code, rpos, ReaderConstants, p.mode, p.predef,
                         IF p.ref THEN pending ELSE {p.predef})

\* What an operand that p read leaves pending, once its repetitions are done.
PendingAfter(p, acc, pending) ==
    CASE p.kind = "coding" -> {acc.dt}
      [] p.kind = "cond"   -> pending
      [] OTHER             -> {}

\* Mutant: a count of zero is taken for no count.
TimesReadAtLeastOnce(op, i, multiple) ==
    IF op.params[i].kind = "ident" /\ op.multi /\ i = Len(op.params)
       /\ multiple > 0
    THEN multiple ELSE 1

\* How often parameter i is read; multiple is the count so far, -1 for none.
TimesRead(op, i, multiple) ==
    IF op.params[i].kind = "ident" /\ op.multi /\ i = Len(op.params)
       /\ multiple >= 0
    THEN multiple ELSE 1

(* An immediate that a LEN parameter read is the count, as an int: every   *)
(* negative value is -1.                                                   *)
CountAfter(p, acc, multiple) ==
    IF p.kind = "ident" /\ p.mode = Mode.Len /\ acc.kind = "imm"
    THEN IF IntIsNegative(acc.value) THEN -1 ELSE IntValue(acc.value)
    ELSE multiple
=============================================================================
