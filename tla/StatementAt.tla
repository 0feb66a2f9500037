----------------------------- MODULE StatementAt -----------------------------
(***************************************************************************)
(* The statement at one offset of a buffer, as decode_best_at finds it for *)
(* its other callers: mc7p_disassemble_one, mc7p_decode_one_statement and  *)
(* mc7p_flow_one, and what mc7p_flow_one makes of it.  StatementDecoder    *)
(* takes the same decision one loop iteration at a time.                   *)
(*                                                                         *)
(* A reading is a set: {} when decode_params gave up, else the singleton   *)
(* of the reader's position, the pending type, the count and the operands. *)
(***************************************************************************)
EXTENDS OperatorTable

Start(pos, op) == [rpos |-> pos + Len(op.code), pending |-> {},
                   multiple |-> -1, operands |-> <<>>]

\* One operand of parameter p more.
ReadOne(code, pos, p, state) ==
    {[state EXCEPT !.rpos = got.end, !.operands = Append(@, got.acc)] :
        got \in IF Len(state.operands) < MaxOperands
                THEN ParamOperand(code, pos, p, state.rpos, state.pending)
                ELSE {}}

(* Parameter p read n times.  Every operand that is read more than once    *)
(* takes a byte, so a count above the buffer's length fails as the         *)
(* length plus one does.                                                   *)
ReadTimes(code, pos, p, n, state) ==
    LET times == Min({n, Len(code) + 1})
        read[k \in 0..times] ==
            IF k = 0 THEN {state}
            ELSE UNION {ReadOne(code, pos, p, s) : s \in read[k - 1]}
    IN  read[times]

\* decode_params: the parameters of op, from the first to the last.
ReadParam(code, pos, op, i, state) ==
    LET p    == op.params[i]
        done(s) ==
            LET last == s.operands[Len(s.operands)]
            IN  [s EXCEPT !.pending = PendingAfter(p, last, @),
                          !.multiple = CountAfter(p, last, @)]
        times == TimesRead(op, i, state.multiple)
    IN  CASE p.kind = "flag" -> {state}
          [] p.kind # "flag" /\ times = 0 -> {[state EXCEPT !.pending = {}]}
          [] OTHER -> {done(s) : s \in ReadTimes(code, pos, p, times, state)}

ReadParams(code, pos, op) ==
    LET read[i \in 0..Len(op.params)] ==
            IF i = 0 THEN {Start(pos, op)}
            ELSE UNION {ReadParam(code, pos, op, i, s) : s \in read[i - 1]}
    IN  read[Len(op.params)]

\* decode_best_at: the longest reading, then the most flags, then the first.
Readings(code, pos) ==
    UNION {{[op |-> n, end |-> s.rpos, operands |-> s.operands,
             score |-> Cardinality(FlagsOn(code, pos, Ops[n])),
             flags |-> RestoreFlags(code, pos, Ops[n])] :
                s \in ReadParams(code, pos, Ops[n])} :
           n \in {m \in FirstIndex(code[pos + 1]) : CodeMatches(code, pos, Ops[m])}}

StatementAt(code, pos) ==
    IF pos >= Len(code) THEN {}
    ELSE UNION {{r \in all : \A q \in all \ {r} :
                     Beats(r.end, r.score, q)
                     \/ (r.op < q.op /\ ~Beats(q.end, q.score, r))} :
                all \in {Readings(code, pos)}}
----------------------------------------------------------------------------
(* mc7p_flow_one: the kind of a statement in the control flow and the      *)
(* label it names.  A label id is a long; AllOnes stands for -1.           *)
NoLabel == AllOnes

LabelOf(acc) == IF acc.kind = "imm" /\ ~acc.real THEN acc.value ELSE NoLabel

IsNegativeLong(id) == 63 \in id

FlowOf(r) ==
    LET class == Ops[r.op].class
        acc   == r.operands
        flow(kind, id) == [kind |-> kind, id |-> id]
        conditional == class # "JMP"
                       \/ r.flags \cap {Flag.Cond, Flag.Negated} # {}
    IN  CASE class = "LABEL" ->
                 IF acc # <<>> /\ acc[1].kind = "imm" /\ ~acc[1].real
                 THEN flow("LABEL", acc[1].value) ELSE flow("NONE", NoLabel)
          [] class \in {"JMP", "JMP_"} ->
                 flow(IF conditional THEN "CJMP" ELSE "JMP",
                      IF acc = <<>> THEN NoLabel ELSE LabelOf(acc[Len(acc)]))
          [] class = "CALL" ->
                 flow("CALL", IF acc = <<>> THEN NoLabel ELSE LabelOf(acc[1]))
          [] class = "RET" -> flow("RET", NoLabel)
          [] OTHER         -> flow("NONE", NoLabel)
=============================================================================
