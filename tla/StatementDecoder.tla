-------------------------- MODULE StatementDecoder --------------------------
(***************************************************************************)
(* mc7p_decode_code and the functions under it (decode_best_at,            *)
(* decode_params, opl_push, restore_flags), with the caller's              *)
(* mc7p_free_list.  The decoder is sequential; what a model can reach and  *)
(* a test hardly does is the product of input bytes, candidate operators,  *)
(* repeated operands and allocations that fail at any point.               *)
(*                                                                         *)
(* One step is one iteration of one of the three nested loops: the next    *)
(* candidate whose code bits match (PickCandidate), the next parameter or  *)
(* repetition of a parameter (SkipFlag, TakeOperand, SkipRepeated,         *)
(* RejectCandidate, FinishCandidate), the next statement (Commit, Fail,    *)
(* Finish).                                                                *)
(***************************************************************************)
EXTENDS StatementAt

CONSTANTS
    Codes,             \* the blobs that may be decoded
    MaxAllocFailures   \* bound: allocations that may fail in one run

ASSUME DecoderAssumption ==
    Codes \subseteq Seq(Byte) /\ MaxAllocFailures \in Nat

VARIABLES
    code,              \* the blob
    pos,               \* start of the statement being decoded
    stmts,             \* `list': the statements decoded so far
    num,               \* candidate last tried at pos, -1 before the first
    pidx,              \* its parameter being read
    rep,               \* repetitions of that parameter already read
    rpos,              \* the reader's position
    pending,           \* {} or the type the last CODING gave
    multiple,          \* multiple_count; every negative value is -1
    operands,          \* opl: the candidate's operands so far
    best,              \* the best candidate at pos
    tried,             \* history: the candidates at pos that decoded
    heap,              \* the arena holds malloc'ed blocks
    out,               \* *out, the caller's list
    result,            \* the value returned
    errPos,            \* *err_pos
    faults,            \* allocations that failed
    pc                 \* "pick", "params", "returned" or "freed"

candidate == <<pidx, rep, rpos, pending, multiple, operands>>
outcome   == <<out, result, errPos>>
vars == <<code, pos, stmts, num, candidate, best, tried, heap, outcome,
          faults, pc>>
----------------------------------------------------------------------------
\* Mutant: a candidate that was dropped is tried again.
CandidatesRetried ==
    {n \in FirstIndex(code[pos + 1]) : n >= num /\ CodeMatches(code, pos, Ops[n])}

\* The candidates decode_best_at has still to try at pos.
Candidates ==
    {n \in FirstIndex(code[pos + 1]) : n > num /\ CodeMatches(code, pos, Ops[n])}
----------------------------------------------------------------------------
(* decode_params, one parameter at a time.                                 *)
Current == Ops[num].params[pidx]

Operand == ParamOperand(code, pos, Current, rpos, pending)

\* Mutant: the count that was read is not used.
RepeatOnce == TimesRead(Ops[num], pidx, -1)

Repeat == TimesRead(Ops[num], pidx, multiple)

ReadingParam == pc = "params" /\ pidx <= Len(Ops[num].params)

\* An operand is due: the parameter is no flag and has repetitions left.
OperandDue == ReadingParam /\ Current.kind # "flag" /\ rep < Repeat

SkipFlag ==
    /\ ReadingParam /\ Current.kind = "flag"
    /\ pidx' = pidx + 1
    /\ UNCHANGED <<code, pos, stmts, num, rep, rpos, pending, multiple,
                   operands, best, tried, heap, outcome, faults, pc>>

TakeOperand ==
    /\ OperandDue /\ Len(operands) < MaxOperands
    /\ \E got \in Operand :
           LET last == rep + 1 = Repeat
           IN  /\ operands' = Append(operands, got.acc)
               /\ rpos' = got.end
               /\ pidx' = IF last THEN pidx + 1 ELSE pidx
               /\ rep' = IF last THEN 0 ELSE rep + 1
               /\ pending' = IF last THEN PendingAfter(Current, got.acc, pending)
                                   ELSE pending
               /\ multiple' = IF last THEN CountAfter(Current, got.acc, multiple)
                                    ELSE multiple
    /\ heap' = TRUE
    /\ UNCHANGED <<code, pos, stmts, num, best, tried, outcome, faults, pc>>

\* A count of zero: the repeated parameter is read no time.
SkipRepeated ==
    /\ ReadingParam /\ Current.kind = "ident" /\ Repeat = 0
    /\ pidx' = pidx + 1
    /\ pending' = {}
    /\ UNCHANGED <<code, pos, stmts, num, rep, rpos, multiple, operands, best,
                   tried, heap, outcome, faults, pc>>

(* The operand cannot be read, or the operand list is full: the candidate  *)
(* is dropped.  A decoder may have allocated before it gave up.            *)
RejectCandidate ==
    /\ OperandDue
    /\ Operand = {} \/ Len(operands) >= MaxOperands
    /\ pc' = "pick"
    /\ heap' \in {heap, TRUE}
    /\ UNCHANGED <<code, pos, stmts, num, candidate, best, tried, outcome,
                   faults>>

\* An allocation for the operand fails: the candidate is dropped as well.
OperandAllocFails ==
    /\ OperandDue /\ faults < MaxAllocFailures
    /\ pc' = "pick"
    /\ heap' \in {heap, TRUE}
    /\ faults' = faults + 1
    /\ UNCHANGED <<code, pos, stmts, num, candidate, best, tried, outcome>>
----------------------------------------------------------------------------
(* decode_best_at.                                                         *)
PickCandidate ==
    /\ pc = "pick" /\ pos < Len(code)
    /\ \E n \in Candidates : (\A m \in Candidates : n <= m) /\ num' = n
    /\ pidx' = 1 /\ rep' = 0 /\ rpos' = pos + Len(Ops[num'].code)
    /\ pending' = {} /\ multiple' = -1 /\ operands' = <<>>
    /\ pc' = "params"
    /\ UNCHANGED <<code, pos, stmts, best, tried, heap, outcome, faults>>

NoBest == [op |-> -1, end |-> -1, score |-> -1, flags |-> {}, operands |-> <<>>]

\* Mutant: the candidate that decoded last wins.
FinishCandidateLatest ==
    /\ pc = "params" /\ pidx > Len(Ops[num].params)
    /\ LET score == Cardinality(FlagsOn(code, pos, Ops[num]))
       IN  /\ tried' = tried \cup {[op |-> num, end |-> rpos, score |-> score]}
           /\ best' = [op |-> num, end |-> rpos, score |-> score,
                       flags |-> RestoreFlags(code, pos, Ops[num]),
                       operands |-> operands]
    /\ pc' = "pick"
    /\ UNCHANGED <<code, pos, stmts, num, candidate, heap, outcome, faults>>

FinishCandidate ==
    /\ pc = "params" /\ pidx > Len(Ops[num].params)
    /\ LET score == Cardinality(FlagsOn(code, pos, Ops[num]))
       IN  /\ tried' = tried \cup {[op |-> num, end |-> rpos, score |-> score]}
           /\ best' = IF Beats(rpos, score, best)
                      THEN [op |-> num, end |-> rpos, score |-> score,
                            flags |-> RestoreFlags(code, pos, Ops[num]),
                            operands |-> operands]
                      ELSE best
    /\ pc' = "pick"
    /\ UNCHANGED <<code, pos, stmts, num, candidate, heap, outcome, faults>>
----------------------------------------------------------------------------
(* mc7p_decode_code.                                                       *)
Exhausted == pc = "pick" /\ pos < Len(code) /\ Candidates = {}

Return(list, owned, value) ==
    /\ out' = [set |-> TRUE, stmts |-> list, arena |-> owned]
    /\ result' = value
    /\ pc' = "returned"

\* Mutant: the end offset is stored for the length.
StatementEnd == [op |-> best.op, sac |-> pos, len |-> best.end,
                 operands |-> best.operands, flags |-> best.flags]

Statement == [op |-> best.op, sac |-> pos, len |-> best.end - pos,
              operands |-> best.operands, flags |-> best.flags]

Commit ==
    /\ Exhausted /\ tried # {}
    /\ stmts' = Append(stmts, Statement)
    /\ num' = -1 /\ best' = NoBest /\ tried' = {}
    /\ IF best.end <= pos
       THEN \* "cannot make progress": *out is left alone
            /\ errPos' = best.end /\ result' = -1 /\ heap' = FALSE
            /\ pc' = "returned"
            /\ UNCHANGED <<pos, out>>
       ELSE /\ pos' = best.end
            /\ heap' = TRUE
            /\ UNCHANGED <<outcome, pc>>
    /\ UNCHANGED <<code, candidate, faults>>

\* Mutant: the statement is counted before the memory for it is there.
CommitAllocFailsCounted ==
    /\ Exhausted /\ tried # {} /\ faults < MaxAllocFailures
    /\ faults' = faults + 1
    /\ stmts' = Append(stmts, Statement)
    /\ heap' = TRUE /\ Return(stmts', TRUE, 0)
    /\ UNCHANGED <<code, pos, num, candidate, best, tried, errPos>>

\* No memory for the statement or the longer list: `break' out of the loop.
CommitAllocFails ==
    /\ Exhausted /\ tried # {} /\ faults < MaxAllocFailures
    /\ faults' = faults + 1
    /\ \E held \in {heap, TRUE} : heap' = held /\ Return(stmts, held, 0)
    /\ UNCHANGED <<code, pos, stmts, num, candidate, best, tried, errPos>>

\* Mutant: the error position is not set.
FailNowhere ==
    /\ Exhausted /\ tried = {}
    /\ heap' = FALSE
    /\ Return(stmts, FALSE, -1)
    /\ UNCHANGED <<code, pos, stmts, num, candidate, best, tried, errPos,
                   faults>>

\* Mutant: the arena is not freed.
FailLeaks ==
    /\ Exhausted /\ tried = {}
    /\ errPos' = pos
    /\ Return(stmts, FALSE, -1)
    /\ UNCHANGED <<code, pos, stmts, num, candidate, best, tried, heap, faults>>

(* No candidate decodes: the arena is freed, and the statements already    *)
(* decoded are handed out all the same.                                    *)
Fail ==
    /\ Exhausted /\ tried = {}
    /\ errPos' = pos
    /\ heap' = FALSE
    /\ Return(stmts, FALSE, -1)
    /\ UNCHANGED <<code, pos, stmts, num, candidate, best, tried, faults>>

Finish ==
    /\ pc = "pick" /\ pos >= Len(code)
    /\ Return(stmts, heap, 0)
    /\ UNCHANGED <<code, pos, stmts, num, candidate, best, tried, heap, errPos,
                   faults>>

\* The caller's mc7p_free_list(out): nothing happens without an arena.
FreeList ==
    /\ pc = "returned"
    /\ IF out.set /\ out.arena
       THEN /\ out' = [set |-> TRUE, stmts |-> <<>>, arena |-> FALSE]
            /\ heap' = FALSE
       ELSE UNCHANGED <<out, heap>>
    /\ pc' = "freed"
    /\ UNCHANGED <<code, pos, stmts, num, candidate, best, tried, result,
                   errPos, faults>>
----------------------------------------------------------------------------
Init ==
    /\ code \in Codes
    /\ pos = 0 /\ stmts = <<>> /\ num = -1
    /\ pidx = 1 /\ rep = 0 /\ rpos = 0
    /\ pending = {} /\ multiple = -1 /\ operands = <<>>
    /\ best = NoBest /\ tried = {}
    /\ heap = FALSE
    /\ out = [set |-> FALSE, stmts |-> <<>>, arena |-> FALSE]
    /\ result = 0 /\ errPos = 0 /\ faults = 0
    /\ pc = "pick"

DecodeParams == \/ SkipFlag \/ TakeOperand \/ SkipRepeated \/ RejectCandidate
                \/ OperandAllocFails

DecodeBestAt == PickCandidate \/ DecodeParams \/ FinishCandidate

DecodeCode == DecodeBestAt \/ Commit \/ CommitAllocFails \/ Fail \/ Finish

Next == DecodeCode \/ FreeList

Spec == Init /\ [][Next]_vars

\* The decoder is a loop on its own thread: it keeps running.
FairSpec == Spec /\ WF_vars(DecodeCode)
----------------------------------------------------------------------------
(* Properties.                                                             *)

Best == [op : DOMAIN Ops \cup {-1}, end : Nat \cup {-1}, score : Nat \cup {-1},
         flags : SUBSET Nat, operands : Seq(Access)]

StatementRecord == [op : DOMAIN Ops, sac : Nat, len : Int,
                    operands : Seq(Access), flags : SUBSET Nat]

List == [set : BOOLEAN, stmts : Seq(StatementRecord), arena : BOOLEAN]

(* Type invariant: the decoder's variables keep their types, and the       *)
(* candidate in hand is one of the operator table.                         *)
TypeOK ==
    /\ code \in Codes /\ pos \in 0..Len(code)
    /\ stmts \in Seq(StatementRecord)
    /\ num \in DOMAIN Ops \cup {-1} /\ (pc = "params" => num \in DOMAIN Ops)
    /\ pidx \in Nat \ {0} /\ rep \in Nat /\ rpos \in 0..Len(code)
    /\ pending \in SUBSET Nat /\ multiple \in Nat \cup {-1}
    /\ operands \in Seq(Access)
    /\ best \in Best
    /\ tried \in SUBSET [op : DOMAIN Ops, end : Nat, score : Nat]
    /\ heap \in BOOLEAN /\ out \in List
    /\ result \in {0, -1} /\ errPos \in Nat /\ faults \in 0..MaxAllocFailures
    /\ pc \in {"pick", "params", "returned", "freed"}

CutsOf(s) == [i \in DOMAIN s |-> [sac |-> s[i].sac, len |-> s[i].len]]

Stream == INSTANCE StatementStream
    WITH Lengths <- {Len(c) : c \in Codes},
         length  <- Len(code),
         cuts    <- CutsOf(stmts),
         status  <- IF pc \in {"pick", "params"} THEN "cutting"
                    ELSE IF result = -1 THEN "failed"
                    ELSE IF pos = Len(code) THEN "whole" ELSE "truncated"

(* The decoder does nothing but cut the blob into adjacent statements and  *)
(* stop: mc7p_decode_code implements StatementStream.                      *)
ImplementsStream == Stream!Spec

\* The offset at which statement i of s ends; statement 0 is the start of the blob.
EndOf(s, i) == IF i = 0 THEN 0 ELSE s[i].sac + s[i].len

(* The statements handed to the renderer and the plugin partition what has *)
(* been decoded: each starts where the one before ended, is at least as    *)
(* long as its operator's code, and none reaches past the blob, whatever   *)
(* the repeat counts in the operands say.                                  *)
StatementsTile ==
    /\ \A i \in DOMAIN stmts :
           /\ stmts[i].sac = EndOf(stmts, i - 1)
           /\ stmts[i].len >= Len(Ops[stmts[i].op].code)
    /\ pos = EndOf(stmts, Len(stmts))

(* A repeat count comes from the blob and may be anything up to 2^31 - 1;  *)
(* the loop it drives is bounded because every operand but a coded type    *)
(* took at least one byte of the blob.                                     *)
OperandsPaidFor ==
    pc = "params" =>
        LET coded == {i \in 1..(pidx - 1) : Ops[num].params[i].kind = "coding"}
        IN  Len(operands) - Cardinality(coded) <= rpos - pos - Len(Ops[num].code)

(* JL and MUX: a committed statement has as many targets as its LEN        *)
(* operand says; one when that is negative as an int or is no immediate.   *)
TargetsExpected(op, accs) ==
    LET len == LenParams(op) \ {Len(op.params)}
        acc == accs[OperandOf(op, Max(len))]
    IN  IF len # {} /\ acc.kind = "imm" /\ ~IntIsNegative(acc.value)
        THEN IntValue(acc.value) ELSE 1

MultiCountHonoured ==
    \A i \in DOMAIN stmts :
        LET op   == Ops[stmts[i].op]
            accs == stmts[i].operands
        IN  op.multi =>
                Len(accs) = OperandOf(op, Len(op.params) - 1) + TargetsExpected(op, accs)

(* decode_best_at: among the candidates that decode, the longest wins,     *)
(* then the one with most flags set, then the lowest operator number.      *)
SelectionOptimal ==
    tried # {} =>
        /\ [op |-> best.op, end |-> best.end, score |-> best.score] \in tried
        /\ \A t \in tried :
               \/ t.end < best.end
               \/ t.end = best.end /\ t.score < best.score
               \/ t.end = best.end /\ t.score = best.score /\ best.op <= t.op

(* What the caller may conclude from the result: on success, with no       *)
(* allocation failed, the list is the whole blob; on failure the list ends *)
(* at *err_pos, inside the blob, and no operator decodes there.            *)
OutcomeExact ==
    pc = "returned" =>
        /\ out.set /\ out.stmts = stmts
        /\ result = 0 /\ faults = 0 => pos = Len(code)
        /\ result = -1 => errPos = pos /\ pos < Len(code) /\ tried = {}

(* Blocks outlive mc7p_decode_code only in a list that owns them, so that  *)
(* mc7p_free_list releases them, once.                                     *)
BlocksAccountedFor ==
    /\ pc \in {"returned", "freed"} => (heap <=> out.arena)
    /\ pc = "freed" => ~heap

(* mc7p_disassemble_one, mc7p_flow_one and mc7p_decode_one_statement look  *)
(* at one statement, mc7p_decode_code at all of them: while no allocation  *)
(* fails, the listing, the flow and the accesses are of the same statement.*)
OneAtATime ==
    faults = 0 =>
        /\ stmts # <<>> =>
               LET st == stmts[Len(stmts)]
               IN  \E r \in StatementAt(code, st.sac) :
                       st = [op |-> r.op, sac |-> st.sac, len |-> r.end - st.sac,
                             operands |-> r.operands, flags |-> r.flags]
        /\ pc = "returned" /\ result = -1 => StatementAt(code, pos) = {}

(* The header says the operands are "owned by the list": a list that shows *)
(* statements holds the blocks they lie in.                                *)
ListedStatementsOwned == out.stmts # <<>> => heap

(* Every call returns, however the input repeats operands.                 *)
Terminates == <>(pc \in {"returned", "freed"})
=============================================================================
