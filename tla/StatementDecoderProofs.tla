----------------------- MODULE StatementDecoderProofs -----------------------
(***************************************************************************)
(* What holds of mc7p_decode_code for every operator table, every blob,    *)
(* every limit and every number of allocations that fail.                  *)
(***************************************************************************)
EXTENDS StatementDecoder, StatementAtProofs

(* The invariant that is inductive.  What the properties lack is Progress: *)
(* a candidate has read at least its own code bytes, so that whatever was  *)
(* tried at pos ends beyond pos and inside the blob, and candidates are    *)
(* tried in ascending order.                                               *)
Progress ==
    /\ pc = "params" =>
           Len(Ops[num].code) >= 1 /\ rpos >= pos + Len(Ops[num].code)
    /\ \A t \in tried :
           /\ Len(Ops[t.op].code) >= 1
           /\ t.end >= pos + Len(Ops[t.op].code) /\ t.end <= Len(code)
           /\ t.op <= num /\ (pc = "params" => t.op < num)
    /\ tried = {} => best = NoBest

Inv == TypeOK /\ Progress /\ SelectionOptimal /\ StatementsTile

\* The blob being decoded is one of Codes, a sequence of bytes.
LEMMA BlobTyped ==
  ASSUME TypeOK
  PROVE  code \in Seq(Byte) /\ Len(code) \in Nat /\ pos \in Nat /\ pos <= Len(code)
  <1>1. code \in Seq(Byte)
    BY DecoderAssumption DEF TypeOK
  <1> QED BY <1>1 DEF TypeOK

\* A candidate the index offers has a code, and the blob has room for it.
LEMMA CandidateFits ==
  ASSUME TypeOK, pos < Len(code), NEW n \in Candidates
  PROVE  /\ n \in DOMAIN Ops /\ n > num
         /\ Len(Ops[n].code) >= 1 /\ pos + Len(Ops[n].code) <= Len(code)
  <1>1. n \in DOMAIN Ops /\ Ops[n].code # <<>> /\ n > num
    BY DEF Candidates, FirstIndex
  <1>2. pos + Len(Ops[n].code) <= Len(code)
    BY DEF Candidates, CodeMatches, CanTake
  <1>3. Ops[n].code \in Seq(Byte)
    BY <1>1, RowTyped
  <1>4. Len(Ops[n].code) >= 1
    BY <1>1, <1>3
  <1> QED BY <1>1, <1>2, <1>4

\* The parameter being read is one of the operator's.
LEMMA CurrentTyped ==
  ASSUME TypeOK, ReadingParam
  PROVE  Current \in Param
  <1>1. num \in DOMAIN Ops /\ pidx \in Nat \ {0} /\ pidx <= Len(Ops[num].params)
    BY DEF TypeOK, ReadingParam
  <1>2. Ops[num].params \in Seq(Param)
    BY <1>1, RowTyped
  <1>3. pidx \in 1..Len(Ops[num].params)
    BY <1>1, <1>2
  <1> QED BY <1>2, <1>3 DEF Current

\* Whatever the parameter: the operand it reads is an access and ends in the blob.
LEMMA OperandTyped ==
  ASSUME TypeOK, ReadingParam, Current.kind # "flag",
         NEW got \in Operand
  PROVE  /\ got.acc \in Access /\ got.end \in Nat
         /\ got.end >= rpos /\ got.end <= Len(code)
         /\ Current.kind # "coding" => got.end >= rpos + 1
  <1>1. Current \in Param
    BY CurrentTyped
  <1>2. code \in Seq(Byte) /\ rpos \in 0..Len(code) /\ pending \in SUBSET Nat
    BY BlobTyped DEF TypeOK
  <1>3. got \in ParamOperand(code, pos, Current, rpos, pending)
    BY DEF Operand
  <1> QED BY <1>1, <1>2, <1>3, ParamOperandTyped
----------------------------------------------------------------------------
\* What the invariant says of the best candidate at pos.
LEMMA BestTyped ==
  ASSUME Inv, tried # {}
  PROVE  /\ best.op \in DOMAIN Ops /\ best.end \in Nat /\ best.score \in Nat
         /\ best.end > pos /\ best.end <= Len(code)
         /\ best.end - pos >= Len(Ops[best.op].code)
         /\ best.flags \in SUBSET Nat /\ best.operands \in Seq(Access)
  <1>1. PICK t \in tried : t = [op |-> best.op, end |-> best.end,
                              score |-> best.score]
    BY DEF Inv, SelectionOptimal
  <1>2. t \in [op : DOMAIN Ops, end : Nat, score : Nat]
    BY DEF Inv, TypeOK
  <1>3. best.op \in DOMAIN Ops /\ best.end \in Nat /\ best.score \in Nat
    BY <1>1, <1>2
  <1>4. /\ Len(Ops[best.op].code) >= 1
        /\ best.end >= pos + Len(Ops[best.op].code) /\ best.end <= Len(code)
    BY <1>1 DEF Inv, Progress
  <1>5. Len(Ops[best.op].code) \in Nat /\ pos \in Nat
    BY <1>3, RowTyped, BlobTyped DEF Inv
  <1>6. best.flags \in SUBSET Nat /\ best.operands \in Seq(Access)
    BY DEF Inv, TypeOK, Best
  <1> QED BY <1>3, <1>4, <1>5, <1>6

\* A decoder that has just been called satisfies the invariant.
LEMMA InitInv == Init => Inv
  <1> SUFFICES ASSUME Init PROVE Inv
    OBVIOUS
  <1>1. code \in Seq(Byte) /\ Len(code) \in Nat
    BY DecoderAssumption DEF Init
  <1>2. NoBest \in Best
    BY DEF NoBest, Best
  <1>3. TypeOK
    <2>1. 0 \in 0..MaxAllocFailures /\ 0 \in 0..Len(code)
      BY <1>1, DecoderAssumption
    <2>2. code \in Codes /\ pos \in 0..Len(code) /\ rpos \in 0..Len(code)
      BY <2>1 DEF Init
    <2>3. stmts \in Seq(StatementRecord) /\ operands \in Seq(Access)
      BY DEF Init
    <2>4. /\ num \in DOMAIN Ops \cup {-1} /\ (pc = "params" => num \in DOMAIN Ops)
          /\ pidx \in Nat \ {0} /\ rep \in Nat
          /\ pending \in SUBSET Nat /\ multiple \in Nat \cup {-1}
      BY DEF Init
    <2>5. best \in Best /\ tried \in SUBSET [op : DOMAIN Ops, end : Nat, score : Nat]
      BY <1>2 DEF Init
    <2>6. <<>> \in Seq(StatementRecord)
      OBVIOUS
    <2>7. /\ heap \in BOOLEAN /\ out \in List
          /\ result \in {0, -1} /\ errPos \in Nat
          /\ faults \in 0..MaxAllocFailures
          /\ pc \in {"pick", "params", "returned", "freed"}
      BY <2>1, <2>6 DEF Init, List
    <2> QED BY <2>2, <2>3, <2>4, <2>5, <2>7 DEF TypeOK
  <1>4. Progress
    BY DEF Init, Progress
  <1>5. SelectionOptimal
    BY DEF Init, SelectionOptimal
  <1>6. StatementsTile
    BY DEF Init, StatementsTile, EndOf
  <1> QED BY <1>3, <1>4, <1>5, <1>6 DEF Inv

\* Nothing in the tiling depends on the candidate in hand.
LEMMA TileKept ==
  ASSUME StatementsTile, UNCHANGED <<stmts, pos>>
  PROVE  StatementsTile'
  BY DEF StatementsTile, EndOf

\* Nor does the selection while the tried candidates stay the same.
LEMMA SelectionKept ==
  ASSUME SelectionOptimal, UNCHANGED <<tried, best>>
  PROVE  SelectionOptimal'
  BY DEF SelectionOptimal

\* A new candidate starts behind its code, with nothing pending.
LEMMA PickCandidateInv ==
  ASSUME Inv, PickCandidate
  PROVE  Inv'
  <1>1. PICK n \in Candidates : num' = n
    BY DEF PickCandidate
  <1>2. TypeOK /\ pos < Len(code)
    BY DEF Inv, PickCandidate
  <1>3. /\ n \in DOMAIN Ops /\ n > num
        /\ Len(Ops[n].code) >= 1 /\ pos + Len(Ops[n].code) <= Len(code)
    BY <1>1, <1>2, CandidateFits
  <1>4. Len(Ops[n].code) \in Nat /\ n \in Int /\ Len(code) \in Nat /\ pos \in Nat
    BY <1>2, <1>3, RowTyped, BlobTyped
  <1>5. TypeOK'
    <2>1. rpos' \in 0..Len(code)
      BY <1>1, <1>3, <1>4 DEF PickCandidate
    <2> QED BY <1>1, <1>2, <1>3, <2>1 DEF TypeOK, PickCandidate, outcome
  <1>6. Progress'
    <2>1. \A t \in tried : t.op \in Int
      BY <1>2, TableAssumption DEF TypeOK
    <2>2. num \in Int
      BY <1>2, TableAssumption DEF TypeOK
    <2>3. \A t \in tried : t.op < n
      BY <1>3, <1>4, <2>1, <2>2 DEF Inv, Progress
    <2> QED BY <1>1, <1>3, <1>4, <2>1, <2>3 DEF Inv, Progress, PickCandidate
  <1>7. SelectionOptimal' /\ StatementsTile'
    BY TileKept, SelectionKept DEF Inv, PickCandidate
  <1> QED BY <1>5, <1>6, <1>7 DEF Inv

\* The steps that leave the statements, the score board and the result alone:
\* it is enough that they keep the candidate's own variables typed, and that the
\* reader does not move back.
LEMMA ParamStepInv ==
  ASSUME Inv,
         UNCHANGED <<code, pos, stmts, num, best, tried, outcome>>,
         pidx' \in Nat \ {0}, rep' \in Nat, rpos' \in 0..Len(code),
         rpos' >= rpos, pending' \in SUBSET Nat, multiple' \in Nat \cup {-1},
         operands' \in Seq(Access), heap' \in BOOLEAN,
         faults' \in 0..MaxAllocFailures,
         pc = "params", pc' \in {"pick", "params"}
  PROVE  Inv'
  <1>1. TypeOK'
    BY DEF Inv, TypeOK, outcome
  <1>2. Progress'
    <2>1. /\ rpos \in Int /\ rpos' \in Int /\ pos \in Int
          /\ num \in DOMAIN Ops /\ Len(Ops[num].code) \in Nat
      BY BlobTyped, RowTyped DEF Inv, TypeOK
    <2>2. rpos >= pos + Len(Ops[num].code)
      BY DEF Inv, Progress
    <2>3. rpos' >= pos + Len(Ops[num].code)
      BY <2>1, <2>2
    <2> QED BY <2>3 DEF Inv, Progress
  <1>3. SelectionOptimal' /\ StatementsTile'
    BY TileKept, SelectionKept DEF Inv
  <1> QED BY <1>1, <1>2, <1>3 DEF Inv

\* decode_params: each way a parameter is read, skipped or given up.
LEMMA DecodeParamsInv ==
  ASSUME Inv, DecodeParams
  PROVE  Inv'
  <1>1. /\ TypeOK /\ rpos >= rpos /\ pidx + 1 \in Nat \ {0} /\ rep + 1 \in Nat
        /\ 0 \in Nat /\ faults \in 0..MaxAllocFailures
        /\ rpos \in 0..Len(code) /\ Len(code) \in Nat
    BY BlobTyped DEF Inv, TypeOK
  <1> USE DEF candidate
  <1>2. CASE SkipFlag
    <2>1. pc = "params" /\ pc' = "params"
      BY <1>2 DEF SkipFlag, ReadingParam
    <2> QED BY <1>1, <1>2, <2>1, ParamStepInv DEF SkipFlag, TypeOK
  <1>3. CASE SkipRepeated
    <2>1. pc = "params" /\ pc' = "params"
      BY <1>3 DEF SkipRepeated, ReadingParam
    <2> QED BY <1>1, <1>3, <2>1, ParamStepInv DEF SkipRepeated, TypeOK
  <1>4. CASE RejectCandidate
    <2>1. pc = "params" /\ pc' = "pick" /\ heap' \in BOOLEAN
      BY <1>1, <1>4 DEF RejectCandidate, OperandDue, ReadingParam, TypeOK
    <2> QED BY <1>1, <1>4, <2>1, ParamStepInv DEF RejectCandidate, TypeOK
  <1>5. CASE OperandAllocFails
    <2>1. pc = "params" /\ pc' = "pick" /\ heap' \in BOOLEAN
      BY <1>1, <1>5 DEF OperandAllocFails, OperandDue, ReadingParam, TypeOK
    <2>2. faults' \in 0..MaxAllocFailures
      BY <1>1, <1>5, DecoderAssumption DEF OperandAllocFails
    <2> QED BY <1>1, <1>5, <2>1, <2>2, ParamStepInv
            DEF OperandAllocFails, TypeOK
  <1>6. CASE TakeOperand
    <2>1. /\ pc = "params" /\ pc' = "params" /\ ReadingParam
          /\ Current.kind # "flag" /\ heap' \in BOOLEAN
      BY <1>6 DEF TakeOperand, OperandDue, ReadingParam
    <2>2. PICK got \in Operand :
            LET last == rep + 1 = Repeat
            IN  /\ operands' = Append(operands, got.acc)
                /\ rpos' = got.end
                /\ pidx' = IF last THEN pidx + 1 ELSE pidx
                /\ rep' = IF last THEN 0 ELSE rep + 1
                /\ pending' = IF last THEN PendingAfter(Current, got.acc, pending)
                                     ELSE pending
                /\ multiple' = IF last THEN CountAfter(Current, got.acc, multiple)
                                      ELSE multiple
      BY <1>6 DEF TakeOperand
    <2>3. /\ got.acc \in Access /\ got.end \in Nat
          /\ got.end >= rpos /\ got.end <= Len(code)
      BY <1>1, <2>1, OperandTyped
    <2>4. operands' \in Seq(Access)
      BY <1>1, <2>2, <2>3 DEF TypeOK
    <2>5. rpos' \in 0..Len(code) /\ rpos' >= rpos
      BY <1>1, <2>2, <2>3
    <2>6. pidx' \in Nat \ {0} /\ rep' \in Nat
      BY <1>1, <2>2 DEF TypeOK
    <2>7. pending' \in SUBSET Nat
      <3>1. got.acc.dt \in Nat
        BY <2>3 DEF Access, AccessOf
      <3>2. PendingAfter(Current, got.acc, pending) \in SUBSET Nat
        BY <1>1, <3>1 DEF PendingAfter, TypeOK
      <3> QED BY <1>1, <2>2, <3>2 DEF TypeOK
    <2>8. multiple' \in Nat \cup {-1}
      <3>1. CountAfter(Current, got.acc, multiple) \in Nat \cup {-1}
        BY <1>1, IntValueIsNat DEF CountAfter, TypeOK
      <3> QED BY <1>1, <2>2, <3>1 DEF TypeOK
    <2>9. UNCHANGED <<code, pos, stmts, num, best, tried, outcome, faults>>
      BY <1>6 DEF TakeOperand
    <2> QED BY <1>1, <2>1, <2>4, <2>5, <2>6, <2>7, <2>8, <2>9, ParamStepInv
            DEF TypeOK
  <1> QED BY <1>2, <1>3, <1>4, <1>5, <1>6 DEF DecodeParams

\* A finished candidate joins the tried ones, and the best stays the best.
LEMMA FinishCandidateInv ==
  ASSUME Inv, FinishCandidate
  PROVE  Inv'
  <1> DEFINE score == Cardinality(FlagsOn(code, pos, Ops[num]))
             entry == [op |-> num, end |-> rpos, score |-> score]
             mine  == [op |-> num, end |-> rpos, score |-> score,
                       flags |-> RestoreFlags(code, pos, Ops[num]), operands |-> operands]
  <1>1. /\ TypeOK /\ pc = "params" /\ pc' = "pick" /\ num \in DOMAIN Ops
        /\ tried' = tried \cup {entry}
        /\ best' = IF Beats(rpos, score, best) THEN mine ELSE best
        /\ UNCHANGED <<code, pos, stmts, num, candidate, heap, outcome, faults>>
    BY DEF Inv, FinishCandidate, TypeOK
  <1>2. /\ rpos \in Nat /\ rpos <= Len(code) /\ pos \in Nat /\ num \in Int
        /\ score \in Nat /\ RestoreFlags(code, pos, Ops[num]) \in SUBSET Nat
        /\ operands \in Seq(Access) /\ Len(Ops[num].code) \in Nat
    BY <1>1, ScoreTyped, BlobTyped, RowTyped DEF TypeOK
  <1> HIDE DEF score
  <1>3. /\ best.end \in Int /\ best.score \in Int /\ best.op \in Int
        /\ \A t \in tried : t.end \in Int /\ t.score \in Int /\ t.op \in Int
    BY <1>1, TableAssumption DEF TypeOK, Best
  <1>4. TypeOK'
    <2>1. mine \in Best
      BY <1>1, <1>2 DEF Best
    <2>2. best' \in Best
      BY <1>1, <2>1 DEF TypeOK
    <2>3. tried' \in SUBSET [op : DOMAIN Ops, end : Nat, score : Nat]
      BY <1>1, <1>2 DEF TypeOK
    <2> QED BY <1>1, <2>2, <2>3 DEF TypeOK, candidate, outcome
  <1>5. Progress'
    <2>1. rpos >= pos + Len(Ops[num].code) /\ Len(Ops[num].code) >= 1
      BY <1>1 DEF Inv, Progress
    <2>2. /\ entry.end >= pos + Len(Ops[entry.op].code)
          /\ Len(Ops[entry.op].code) >= 1
          /\ entry.end <= Len(code) /\ entry.op <= num
      BY <1>2, <2>1
    <2>3. \A t \in tried :
              /\ Len(Ops[t.op].code) >= 1
              /\ t.end >= pos + Len(Ops[t.op].code) /\ t.end <= Len(code)
              /\ t.op <= num
      BY <1>1 DEF Inv, Progress
    <2>4. tried' # {}
      BY <1>1
    <2>5. pc' # "params"
      BY <1>1
    <2> HIDE DEF entry
    <2>6. \A t \in tried' :
              /\ Len(Ops[t.op].code) >= 1
              /\ t.end >= pos + Len(Ops[t.op].code) /\ t.end <= Len(code)
              /\ t.op <= num
      BY <1>1, <2>2, <2>3
    <2> QED BY <1>1, <2>4, <2>5, <2>6 DEF Progress
  <1>6. SelectionOptimal'
    <2>1. CASE tried = {}
      <3>1. best = NoBest
        BY <2>1 DEF Inv, Progress
      <3>2. Beats(rpos, score, best)
        BY <1>2, <3>1 DEF Beats, NoBest
      <3>3. best' = mine /\ tried' = {entry}
        BY <1>1, <2>1, <3>2
      <3> QED BY <1>2, <3>3 DEF SelectionOptimal
    <2>2. CASE tried # {} /\ Beats(rpos, score, best)
      <3>1. best' = mine
        BY <1>1, <2>2
      <3>2. \A t \in tried : t.end < best.end \/ (t.end = best.end /\ t.score <= best.score)
        BY <1>3, <2>2 DEF Inv, SelectionOptimal
      <3>3. \A t \in tried : t.end < rpos \/ (t.end = rpos /\ t.score < score)
        BY <1>2, <1>3, <2>2, <3>2 DEF Beats
      <3> QED BY <1>1, <1>2, <3>1, <3>3 DEF SelectionOptimal
    <2>3. CASE tried # {} /\ ~Beats(rpos, score, best)
      <3>1. best' = best
        BY <1>1, <2>3
      <3>2. \/ rpos < best.end
            \/ rpos = best.end /\ score < best.score
            \/ rpos = best.end /\ score = best.score
        BY <1>2, <1>3, <2>3 DEF Beats
      <3>3. best.op <= num
        <4>1. \E t \in tried : t.op = best.op
          BY <2>3 DEF Inv, SelectionOptimal
        <4> QED BY <4>1 DEF Inv, Progress
      <3>4. [op |-> best.op, end |-> best.end, score |-> best.score] \in tried
        BY <2>3 DEF Inv, SelectionOptimal
      <3>5. \A t \in tried' :
               \/ t.end < best.end
               \/ t.end = best.end /\ t.score < best.score
               \/ t.end = best.end /\ t.score = best.score /\ best.op <= t.op
        BY <1>1, <2>3, <3>2, <3>3 DEF Inv, SelectionOptimal
      <3> QED BY <1>1, <3>1, <3>4, <3>5 DEF SelectionOptimal
    <2> QED BY <2>1, <2>2, <2>3
  <1>7. StatementsTile'
    BY <1>1, TileKept DEF Inv
  <1> QED BY <1>4, <1>5, <1>6, <1>7 DEF Inv

\* A committed statement starts where the one before ended, is no shorter than
\* its code, and the next one starts where it ends, inside the blob.
LEMMA CommitInv ==
  ASSUME Inv, Commit
  PROVE  Inv'
  <1>1. /\ TypeOK /\ tried # {} /\ pc = "pick"
        /\ stmts' = Append(stmts, Statement)
        /\ num' = -1 /\ best' = NoBest /\ tried' = {}
        /\ UNCHANGED <<code, candidate, faults>>
    BY DEF Inv, Commit, Exhausted
  <1>2. /\ best.op \in DOMAIN Ops /\ best.end \in Nat
        /\ best.end > pos /\ best.end <= Len(code)
        /\ best.end - pos >= Len(Ops[best.op].code)
        /\ best.flags \in SUBSET Nat /\ best.operands \in Seq(Access)
    BY <1>1, BestTyped
  <1>3. pos \in Nat /\ Len(code) \in Nat /\ stmts \in Seq(StatementRecord)
    BY <1>1, BlobTyped DEF TypeOK, StatementRecord
  <1>4. pos' = best.end /\ heap' = TRUE /\ UNCHANGED <<outcome, pc>>
    BY <1>2, <1>3 DEF Commit
  <1>5. Statement \in StatementRecord
    BY <1>2, <1>3 DEF Statement, StatementRecord
  <1>6. /\ stmts' \in Seq(StatementRecord)
        /\ Len(stmts') = Len(stmts) + 1 /\ Len(stmts) \in Nat
        /\ stmts'[Len(stmts) + 1] = Statement
        /\ \A i \in DOMAIN stmts : stmts'[i] = stmts[i]
        /\ DOMAIN stmts' = 1..(Len(stmts) + 1) /\ DOMAIN stmts = 1..Len(stmts)
    BY <1>1, <1>3, <1>5
  <1>7. TypeOK'
    <2>1. NoBest \in Best
      BY DEF NoBest, Best
    <2>2. pos' \in 0..Len(code)
      BY <1>2, <1>3, <1>4
    <2> QED BY <1>1, <1>4, <1>6, <2>1, <2>2
            DEF TypeOK, StatementRecord, candidate, outcome
  <1>8. Progress'
    BY <1>1, <1>4 DEF Progress
  <1>9. SelectionOptimal'
    BY <1>1 DEF SelectionOptimal
  <1>10. StatementsTile'
    <2>1. /\ \A i \in DOMAIN stmts :
                 /\ stmts[i].sac = EndOf(stmts, i - 1)
                 /\ stmts[i].len >= Len(Ops[stmts[i].op].code)
          /\ pos = EndOf(stmts, Len(stmts))
      BY DEF Inv, StatementsTile
    <2>2. \A i \in 0..Len(stmts) : EndOf(stmts', i) = EndOf(stmts, i)
      BY <1>6 DEF EndOf
    <2>3. \A i \in DOMAIN stmts :
              /\ stmts'[i].sac = EndOf(stmts', i - 1)
              /\ stmts'[i].len >= Len(Ops[stmts'[i].op].code)
      <3>1. \A i \in DOMAIN stmts : i - 1 \in 0..Len(stmts)
        BY <1>6
      <3> QED BY <1>6, <2>1, <2>2, <3>1
    <2>4. EndOf(stmts', Len(stmts) + 1) = Statement.sac + Statement.len
      BY <1>6 DEF EndOf
    <2>5. pos' = EndOf(stmts', Len(stmts'))
      BY <1>2, <1>3, <1>4, <1>6, <2>4 DEF Statement, EndOf
    <2>6. Statement.sac = EndOf(stmts', Len(stmts))
      BY <1>6, <2>1, <2>2 DEF Statement
    <2>7. Statement.len >= Len(Ops[Statement.op].code)
      BY <1>2 DEF Statement
    <2>8. \A i \in DOMAIN stmts' :
              /\ stmts'[i].sac = EndOf(stmts', i - 1)
              /\ stmts'[i].len >= Len(Ops[stmts'[i].op].code)
      <3>1. SUFFICES ASSUME NEW i \in 1..(Len(stmts) + 1)
                     PROVE  /\ stmts'[i].sac = EndOf(stmts', i - 1)
                            /\ stmts'[i].len >= Len(Ops[stmts'[i].op].code)
        BY <1>6
      <3>2. CASE i \in DOMAIN stmts
        BY <2>3, <3>2
      <3>3. CASE i = Len(stmts) + 1
        <4>1. i - 1 = Len(stmts)
          BY <1>6, <3>3
        <4> QED BY <1>6, <2>6, <2>7, <3>3, <4>1
      <3> QED BY <1>6, <3>2, <3>3
    <2> QED BY <2>5, <2>8 DEF StatementsTile
  <1> QED BY <1>7, <1>8, <1>9, <1>10 DEF Inv

\* The steps that leave the loop, and the caller's release of the list, touch
\* nothing the invariant speaks of but the result's types.
LEMMA ReturnInv ==
  ASSUME Inv,
         UNCHANGED <<code, pos, stmts, num, candidate, best, tried>>,
         heap' \in BOOLEAN, out' \in List,
         result' \in {0, -1}, errPos' \in Nat, faults' \in 0..MaxAllocFailures,
         pc' \in {"returned", "freed"}
  PROVE  Inv'
  <1>1. TypeOK'
    BY DEF Inv, TypeOK, candidate
  <1>2. Progress'
    BY DEF Inv, Progress, candidate
  <1>3. SelectionOptimal' /\ StatementsTile'
    BY TileKept, SelectionKept DEF Inv
  <1> QED BY <1>1, <1>2, <1>3 DEF Inv

\* The four ways to leave mc7p_decode_code, and mc7p_free_list.
LEMMA LeaveInv ==
  ASSUME Inv, CommitAllocFails \/ Fail \/ Finish \/ FreeList
  PROVE  Inv'
  <1>1. /\ TypeOK /\ heap \in BOOLEAN /\ faults \in 0..MaxAllocFailures
        /\ pos \in Nat /\ result \in {0, -1} /\ errPos \in Nat
        /\ out \in List /\ stmts \in Seq(StatementRecord)
    BY BlobTyped DEF Inv, TypeOK
  <1>2. CASE CommitAllocFails
    <2>1. faults' \in 0..MaxAllocFailures
      BY <1>1, <1>2, DecoderAssumption DEF CommitAllocFails
    <2>2. PICK held \in {heap, TRUE} : heap' = held /\ Return(stmts, held, 0)
      BY <1>2 DEF CommitAllocFails
    <2>3. /\ out' \in List /\ heap' \in BOOLEAN
          /\ result' \in {0, -1} /\ pc' \in {"returned", "freed"}
      BY <1>1, <2>2 DEF Return, List
    <2> QED BY <1>1, <1>2, <2>1, <2>3, ReturnInv DEF CommitAllocFails
  <1>3. CASE Fail
    BY <1>1, <1>3, ReturnInv DEF Fail, Return, List
  <1>4. CASE Finish
    BY <1>1, <1>4, ReturnInv DEF Finish, Return, List
  <1>5. CASE FreeList
    <2>1. <<>> \in Seq(StatementRecord)
      OBVIOUS
    <2>2. [set |-> TRUE, stmts |-> <<>>, arena |-> FALSE] \in List
      BY <2>1 DEF List
    <2>3. out' \in List /\ heap' \in BOOLEAN
      BY <1>1, <1>5, <2>2 DEF FreeList
    <2> QED BY <1>1, <1>5, <2>3, ReturnInv DEF FreeList
  <1> QED BY <1>2, <1>3, <1>4, <1>5

\* Every step keeps the invariant.
LEMMA NextInv ==
  ASSUME Inv, [Next]_vars
  PROVE  Inv'
  <1>1. CASE UNCHANGED vars
    <2>1. TypeOK'
      BY <1>1 DEF Inv, TypeOK, vars, candidate, outcome
    <2>2. Progress'
      BY <1>1 DEF Inv, Progress, vars, candidate
    <2>3. SelectionOptimal' /\ StatementsTile'
      BY <1>1, TileKept, SelectionKept DEF Inv, vars
    <2> QED BY <2>1, <2>2, <2>3 DEF Inv
  <1> QED BY <1>1, PickCandidateInv, DecodeParamsInv, FinishCandidateInv,
             CommitInv, LeaveInv
          DEF Next, DecodeCode, DecodeBestAt

\* The inductive invariant holds of every run of mc7p_decode_code.
THEOREM Invariant == Spec => []Inv
  BY InitInv, NextInv, PTL DEF Spec

(* The decoder's variables keep their types for every operator table and   *)
(* every blob; in particular the reader never leaves the blob, and every   *)
(* operand in the list is a well-formed mc7p_access_t.                     *)
THEOREM TypeCorrect == Spec => []TypeOK
  BY Invariant, PTL DEF Inv

(* mc7p_decode_code: the statements tile the decoded part of the blob and  *)
(* none is shorter than its operator's code, so that the offsets the       *)
(* renderer and the plugin take from `sac' and `len' are statement starts. *)
THEOREM TilingHolds == Spec => []StatementsTile
  BY Invariant, PTL DEF Inv

(* decode_best_at: the order of the candidates does not matter but for the *)
(* last tie; no allocation failure makes a worse candidate replace a       *)
(* better one that decoded.                                                *)
THEOREM SelectionHolds == Spec => []SelectionOptimal
  BY Invariant, PTL DEF Inv
----------------------------------------------------------------------------
(* Every operand but a coded type took a byte.  Coded(n, k) are the        *)
(* parameters of operator n before the k-th that take none.                *)
Coded(n, k) == {i \in 1..(k - 1) : Ops[n].params[i].kind = "coding"}

\* Behind a parameter the coded ones are one more when it is coded.
LEMMA CodedAfter ==
  ASSUME NEW n, NEW k \in Nat \ {0}
  PROVE  /\ IsFiniteSet(Coded(n, k)) /\ Cardinality(Coded(n, k)) \in Nat
         /\ Ops[n].params[k].kind = "coding" =>
                Cardinality(Coded(n, k + 1)) = Cardinality(Coded(n, k)) + 1
         /\ Ops[n].params[k].kind # "coding" => Coded(n, k + 1) = Coded(n, k)
  <1>1. IsFiniteSet(1..(k - 1))
    BY FS_Interval
  <1>2. IsFiniteSet(Coded(n, k)) /\ Cardinality(Coded(n, k)) \in Nat
    <2>1. Coded(n, k) \in SUBSET (1..(k - 1))
      BY DEF Coded
    <2> QED BY <1>1, <2>1, FS_Subset, FS_CardinalityType
  <1>3. 1..((k + 1) - 1) = (1..(k - 1)) \cup {k} /\ k \notin 1..(k - 1)
    OBVIOUS
  <1>4. CASE Ops[n].params[k].kind = "coding"
    <2>1. Coded(n, k + 1) = Coded(n, k) \cup {k} /\ k \notin Coded(n, k)
      BY <1>3, <1>4 DEF Coded
    <2> QED BY <1>2, <1>4, <2>1, FS_AddElement
  <1>5. CASE Ops[n].params[k].kind # "coding"
    BY <1>2, <1>3, <1>5 DEF Coded
  <1> QED BY <1>2, <1>4, <1>5

\* A candidate starts with no operand; each one it takes is paid for.
LEMMA PaidStep ==
  ASSUME Inv, OperandsPaidFor, [Next]_vars
  PROVE  OperandsPaidFor'
  <1> SUFFICES ASSUME pc' = "params"
               PROVE  Len(operands') - Cardinality(Coded(num', pidx'))
                          <= rpos' - pos' - Len(Ops[num'].code)
    BY DEF OperandsPaidFor, Coded
  <1>1. /\ TypeOK /\ pos \in Nat /\ rpos \in Nat /\ rep \in Nat
        /\ pidx \in Nat \ {0} /\ operands \in Seq(Access) /\ Len(operands) \in Nat
    BY BlobTyped DEF Inv, TypeOK
  <1>2. CASE PickCandidate
    <2>1. PICK n \in Candidates : num' = n
      BY <1>2 DEF PickCandidate
    <2>2. n \in DOMAIN Ops
      BY <2>1 DEF Candidates, FirstIndex
    <2>3. /\ pidx' = 1 /\ operands' = <<>> /\ pos' = pos
          /\ rpos' = pos + Len(Ops[n].code)
      BY <1>2, <2>1 DEF PickCandidate
    <2>4. Cardinality(Coded(n, 1)) \in Nat /\ Len(Ops[n].code) \in Nat
      BY <2>2, CodedAfter, RowTyped
    <2>5. Len(operands') = 0
      BY <2>3
    <2> QED BY <1>1, <2>1, <2>3, <2>4, <2>5
  <1>3. ASSUME pc = "params"
        PROVE  /\ Len(operands) - Cardinality(Coded(num, pidx))
                      <= rpos - pos - Len(Ops[num].code)
               /\ Len(Ops[num].code) \in Nat
               /\ Cardinality(Coded(num, pidx)) \in Nat
               /\ Cardinality(Coded(num, pidx + 1)) \in Nat
               /\ Current = Ops[num].params[pidx]
    <2>1. Len(Ops[num].code) \in Nat
      BY <1>1, <1>3, RowTyped DEF TypeOK
    <2>2. pidx + 1 \in Nat \ {0}
      BY <1>1
    <2> QED BY <1>1, <1>3, <2>1, <2>2, CodedAfter
            DEF OperandsPaidFor, Coded, Current
  <1>4. CASE SkipFlag
    <2>1. /\ pc = "params" /\ Current.kind = "flag" /\ pidx' = pidx + 1
          /\ UNCHANGED <<operands, num, rpos, pos>>
      BY <1>4 DEF SkipFlag, ReadingParam
    <2>2. Coded(num, pidx + 1) = Coded(num, pidx)
      BY <1>1, <1>3, <2>1, CodedAfter
    <2> QED BY <1>3, <2>1, <2>2
  <1>5. CASE SkipRepeated
    <2>1. /\ pc = "params" /\ Current.kind = "ident" /\ pidx' = pidx + 1
          /\ UNCHANGED <<operands, num, rpos, pos>>
      BY <1>5 DEF SkipRepeated, ReadingParam
    <2>2. Coded(num, pidx + 1) = Coded(num, pidx)
      BY <1>1, <1>3, <2>1, CodedAfter
    <2> QED BY <1>3, <2>1, <2>2
  <1>6. CASE TakeOperand
    <2>1. /\ pc = "params" /\ ReadingParam /\ Current.kind # "flag" /\ rep < Repeat
          /\ UNCHANGED <<num, pos>>
      BY <1>6 DEF TakeOperand, OperandDue, ReadingParam
    <2>2. PICK got \in Operand :
            /\ operands' = Append(operands, got.acc) /\ rpos' = got.end
            /\ pidx' = IF rep + 1 = Repeat THEN pidx + 1 ELSE pidx
      BY <1>6 DEF TakeOperand
    <2>3. /\ got.end \in Nat /\ got.end >= rpos
          /\ Current.kind # "coding" => got.end >= rpos + 1
      BY <1>1, <2>1, OperandTyped
    <2>4. Len(operands') = Len(operands) + 1
      BY <1>1, <2>2, OperandTyped, <2>1
    <2> DEFINE n == Len(operands)
               k == Cardinality(Coded(num, pidx))
               c == Len(Ops[num].code)
    <2>5. /\ n \in Nat /\ k \in Nat /\ c \in Nat /\ pos \in Nat /\ rpos \in Nat
          /\ n - k <= rpos - pos - c
      BY <1>1, <1>3, <2>1
    <2>6. rpos' - pos' - Len(Ops[num'].code) = got.end - pos - c
      BY <2>1, <2>2
    <2>7. CASE Current.kind = "coding"
      <3>1. Repeat = 1
        BY <2>1, <2>7 DEF Repeat, TimesRead, Current
      <3>2. pidx' = pidx + 1
        BY <1>1, <2>1, <2>2, <3>1
      <3>3. Cardinality(Coded(num, pidx + 1)) = Cardinality(Coded(num, pidx)) + 1
        BY <1>1, <1>3, <2>1, <2>7, CodedAfter
      <3>4. Len(operands') - Cardinality(Coded(num', pidx')) = (n + 1) - (k + 1)
        BY <2>1, <2>4, <3>2, <3>3
      <3> HIDE DEF n, k, c
      <3>5. (n + 1) - (k + 1) <= got.end - pos - c
        BY <2>3, <2>5
      <3> QED BY <2>6, <3>4, <3>5
    <2>8. CASE Current.kind # "coding"
      <3>1. Coded(num, pidx + 1) = Coded(num, pidx)
        BY <1>1, <1>3, <2>1, <2>8, CodedAfter
      <3>2. Coded(num', pidx') = Coded(num, pidx)
        BY <2>1, <2>2, <3>1
      <3>3. Len(operands') - Cardinality(Coded(num', pidx')) = (n + 1) - k
        BY <2>4, <3>2
      <3> HIDE DEF n, k, c
      <3>4. (n + 1) - k <= got.end - pos - c
        BY <2>3, <2>8, <2>5
      <3> QED BY <2>6, <3>3, <3>4
    <2> QED BY <2>7, <2>8
  <1>7. CASE UNCHANGED vars
    <2>1. pc = "params" /\ UNCHANGED <<operands, num, rpos, pos, pidx>>
      BY <1>7 DEF vars, candidate
    <2> QED BY <1>3, <2>1
  \* The other steps leave the parameters.
  <1>8. CASE RejectCandidate \/ OperandAllocFails \/ FinishCandidate
    <2>1. pc' = "pick"
      BY <1>8 DEF RejectCandidate, OperandAllocFails, FinishCandidate
    <2> QED BY <2>1
  <1>9. CASE Commit \/ CommitAllocFails \/ Fail \/ Finish \/ FreeList
    <2>1. pc # "params"
      BY <1>9 DEF Commit, CommitAllocFails, Fail, Finish, FreeList, Exhausted
    <2>2. pc' \in {pc, "returned", "freed"}
      BY <1>9 DEF Commit, CommitAllocFails, Fail, Finish, FreeList, Return
    <2> QED BY <2>1, <2>2
  <1> QED BY <1>2, <1>4, <1>5, <1>6, <1>7, <1>8, <1>9
          DEF Next, DecodeCode, DecodeBestAt, DecodeParams

(* The repeat count of JL and MUX drives a loop that the blob's length     *)
(* bounds: every operand but a coded type took at least one byte           *)
(* (decode_params).                                                        *)
THEOREM OperandsHold == Spec => []OperandsPaidFor
  <1>1. Init => OperandsPaidFor
    BY DEF Init, OperandsPaidFor
  <1>2. Inv /\ OperandsPaidFor /\ [Next]_vars => OperandsPaidFor'
    BY PaidStep
  <1> QED BY Invariant, <1>1, <1>2, PTL DEF Spec
----------------------------------------------------------------------------
\* What the caller is told.  The steps inside decode_best_at cannot return; with
\* Inv, the branch of Commit that makes no progress is never taken.
Answer == OutcomeExact /\ BlocksAccountedFor

\* Every step keeps the answer right: only the steps that return set it.
LEMMA AnswerStep ==
  ASSUME Inv, Answer, [Next]_vars
  PROVE  Answer'
  <1>1. /\ faults \in Nat /\ pos \in Nat /\ Len(code) \in Nat /\ pos <= Len(code)
        /\ heap \in BOOLEAN /\ out.arena \in BOOLEAN
    BY BlobTyped, DecoderAssumption DEF Inv, TypeOK, List
  <1>2. CASE pc' \in {"pick", "params"}
    BY <1>2 DEF Answer, OutcomeExact, BlocksAccountedFor
  <1>3. CASE UNCHANGED vars
    BY <1>3 DEF Answer, OutcomeExact, BlocksAccountedFor, vars, outcome
  <1>4. CASE DecodeBestAt
    <2>1. pc' \in {"pick", "params"}
      BY <1>4 DEF DecodeBestAt, DecodeParams, PickCandidate, FinishCandidate,
                  SkipFlag, TakeOperand, SkipRepeated, RejectCandidate,
                  OperandAllocFails, OperandDue, ReadingParam
    <2> QED BY <1>2, <2>1
  <1>5. CASE Commit
    <2>1. tried # {} /\ pc = "pick"
      BY <1>5 DEF Commit, Exhausted
    <2>2. best.end > pos /\ best.end \in Nat
      BY <2>1, BestTyped
    <2>3. pc' = "pick"
      BY <1>1, <1>5, <2>1, <2>2 DEF Commit
    <2> QED BY <1>2, <2>3
  <1>6. CASE CommitAllocFails
    <2>1. faults' # 0 /\ pc' = "returned" /\ stmts' = stmts
      BY <1>1, <1>6 DEF CommitAllocFails, Return
    <2>2. PICK held \in {heap, TRUE} : heap' = held /\ Return(stmts, held, 0)
      BY <1>6 DEF CommitAllocFails
    <2>3. /\ out' = [set |-> TRUE, stmts |-> stmts, arena |-> heap']
          /\ result' = 0
      BY <2>2 DEF Return
    <2> QED BY <2>1, <2>3 DEF Answer, OutcomeExact, BlocksAccountedFor
  <1>7. CASE Fail
    <2>1. pos < Len(code) /\ tried = {} /\ pc' = "returned"
      BY <1>7 DEF Fail, Exhausted, Return
    <2> QED BY <1>7, <2>1
            DEF Fail, Return, Answer, OutcomeExact, BlocksAccountedFor
  <1>8. CASE Finish
    <2>1. pos = Len(code)
      BY <1>1, <1>8 DEF Finish
    <2> QED BY <1>1, <1>8, <2>1
            DEF Finish, Return, Answer, OutcomeExact, BlocksAccountedFor
  <1>9. CASE FreeList
    <2>1. pc = "returned" /\ pc' = "freed" /\ out.set /\ (heap <=> out.arena)
      BY <1>9 DEF FreeList, Answer, OutcomeExact, BlocksAccountedFor
    <2>2. ~heap' /\ ~out'.arena
      BY <1>1, <1>9, <2>1 DEF FreeList
    <2> QED BY <2>1, <2>2 DEF Answer, OutcomeExact, BlocksAccountedFor
  <1> QED BY <1>3, <1>4, <1>5, <1>6, <1>7, <1>8, <1>9 DEF Next, DecodeCode

\* What mc7p_decode_code returns and what it leaves on the heap agree.
THEOREM AnswerHolds == Spec => []Answer
  <1>1. Init => Answer
    BY DEF Init, Answer, OutcomeExact, BlocksAccountedFor
  <1> QED BY <1>1, AnswerStep, Invariant, PTL DEF Spec

(* mc7p_decode_code: 0 without a failed allocation means that the whole    *)
(* blob was decoded; -1 means that *err_pos is inside the blob, at the end *)
(* of the list, and that no operator of the table decodes there.           *)
THEOREM OutcomeHolds == Spec => []OutcomeExact
  BY AnswerHolds, PTL DEF Answer

(* mc7p_decode_code and mc7p_free_list: whatever allocation fails, and     *)
(* however the call ends, every block is released and none twice.          *)
THEOREM BlocksHold == Spec => []BlocksAccountedFor
  BY AnswerHolds, PTL DEF Answer
----------------------------------------------------------------------------
\* The refinement: what StatementStream sees of the decoder.
status == IF pc \in {"pick", "params"} THEN "cutting"
          ELSE IF result = -1 THEN "failed"
          ELSE IF pos = Len(code) THEN "whole" ELSE "truncated"

\* The cuts of a statement list are as many as its statements.
LEMMA CutsTyped ==
  ASSUME NEW s \in Seq(StatementRecord)
  PROVE  /\ CutsOf(s) \in Seq([sac : Nat, len : Int])
         /\ s = <<>> <=> CutsOf(s) = <<>>
         /\ Len(CutsOf(s)) = Len(s)
         /\ \A i \in 1..Len(s) : CutsOf(s)[i] = [sac |-> s[i].sac, len |-> s[i].len]
  <1>1. \A i \in 1..Len(s) : [sac |-> s[i].sac, len |-> s[i].len] \in [sac : Nat, len : Int]
    <2>1. \A i \in 1..Len(s) : s[i] \in StatementRecord
      OBVIOUS
    <2> QED BY <2>1 DEF StatementRecord
  <1>2. Len(s) \in Nat /\ DOMAIN s = 1..Len(s)
    OBVIOUS
  <1>3. CutsOf(s) = [i \in 1..Len(s) |-> [sac |-> s[i].sac, len |-> s[i].len]]
    BY <1>2 DEF CutsOf
  <1>4. CutsOf(s) \in Seq([sac : Nat, len : Int]) /\ Len(CutsOf(s)) = Len(s)
    BY <1>1, <1>2, <1>3
  <1>5. s = <<>> <=> CutsOf(s) = <<>>
    BY <1>2, <1>4
  <1> QED BY <1>3, <1>4, <1>5

\* One more statement is one more cut.
LEMMA CutsAppend ==
  ASSUME NEW s \in Seq(StatementRecord), NEW st \in StatementRecord
  PROVE  CutsOf(Append(s, st)) = Append(CutsOf(s), [sac |-> st.sac, len |-> st.len])
  <1> DEFINE longer == Append(s, st)
             cut    == [sac |-> st.sac, len |-> st.len]
             right  == Append(CutsOf(s), cut)
  <1>1. /\ longer \in Seq(StatementRecord) /\ Len(longer) = Len(s) + 1
        /\ longer[Len(s) + 1] = st /\ Len(s) \in Nat
        /\ \A i \in 1..Len(s) : longer[i] = s[i]
    OBVIOUS
  <1>2. cut \in [sac : Nat, len : Int]
    BY DEF StatementRecord
  <1>3. /\ CutsOf(s) \in Seq([sac : Nat, len : Int]) /\ Len(CutsOf(s)) = Len(s)
        /\ \A i \in 1..Len(s) : CutsOf(s)[i] = [sac |-> s[i].sac, len |-> s[i].len]
    BY CutsTyped
  <1>4. /\ CutsOf(longer) \in Seq([sac : Nat, len : Int])
        /\ Len(CutsOf(longer)) = Len(longer)
        /\ \A i \in 1..Len(longer) :
               CutsOf(longer)[i] = [sac |-> longer[i].sac, len |-> longer[i].len]
    BY <1>1, CutsTyped
  <1> HIDE DEF longer, cut
  <1>5. /\ right \in Seq([sac : Nat, len : Int]) /\ Len(right) = Len(s) + 1
        /\ right[Len(s) + 1] = cut
        /\ \A i \in 1..Len(s) : right[i] = CutsOf(s)[i]
    BY <1>1, <1>2, <1>3
  <1>6. \A i \in 1..(Len(s) + 1) : CutsOf(longer)[i] = right[i]
    <2>1. ASSUME NEW i \in 1..(Len(s) + 1)
          PROVE  CutsOf(longer)[i] = right[i]
      <3>1. CASE i \in 1..Len(s)
        <4>1. CutsOf(longer)[i] = [sac |-> longer[i].sac, len |-> longer[i].len]
          BY <1>1, <1>4
        <4> HIDE DEF right
        <4> QED BY <1>1, <1>3, <1>5, <3>1, <4>1
      <3>2. CASE i = Len(s) + 1
        <4>1. CutsOf(longer)[i] = [sac |-> longer[i].sac, len |-> longer[i].len]
          BY <1>1, <1>4
        <4> HIDE DEF right
        <4> QED BY <1>1, <1>5, <3>2, <4>1 DEF cut
      <3>3. i \in 1..Len(s) \/ i = Len(s) + 1
        BY <1>1
      <3> QED BY <3>1, <3>2, <3>3
    <2> HIDE DEF right
    <2> QED BY <2>1
  <1> HIDE DEF right
  <1>7. CutsOf(longer) = right
    BY <1>1, <1>4, <1>5, <1>6
  <1> QED BY <1>7 DEF longer, cut, right

\* What has been cut ends at pos.
LEMMA CutsEnd ==
  ASSUME Inv
  PROVE  Stream!EndOf(CutsOf(stmts)) = pos
  <1>1. stmts \in Seq(StatementRecord) /\ pos = EndOf(stmts, Len(stmts))
    BY DEF Inv, TypeOK, StatementsTile
  <1>2. CASE Len(stmts) = 0
    <2>1. stmts = <<>>
      BY <1>1, <1>2
    <2>2. CutsOf(stmts) = <<>>
      BY <1>1, <2>1, CutsTyped
    <2> QED BY <1>1, <1>2, <2>2 DEF EndOf, Stream!EndOf
  <1>3. CASE Len(stmts) # 0
    <2>1. Len(stmts) \in 1..Len(stmts)
      BY <1>1, <1>3
    <2>2. Len(CutsOf(stmts)) = Len(stmts) /\ CutsOf(stmts) # <<>>
      BY <1>1, <1>3, CutsTyped
    <2>3. CutsOf(stmts)[Len(stmts)] = [sac |-> stmts[Len(stmts)].sac,
                                       len |-> stmts[Len(stmts)].len]
      BY <1>1, <2>1, CutsTyped
    <2> QED BY <1>1, <1>3, <2>2, <2>3 DEF EndOf, Stream!EndOf
  <1> QED BY <1>2, <1>3

\* An empty list is an uncut blob.
LEMMA StreamInit == Init => Stream!Init
  <1> SUFFICES ASSUME Init PROVE Stream!Init
    OBVIOUS
  <1>1. stmts = <<>> /\ <<>> \in Seq(StatementRecord)
    BY DEF Init
  <1>2. CutsOf(stmts) = <<>>
    BY <1>1, CutsTyped
  <1> QED BY <1>2 DEF Init, Stream!Init

\* Commit cuts, the three ways of leaving the loop stop, the rest stutters.
LEMMA StreamStep ==
  ASSUME Inv, Answer, [Next]_vars
  PROVE  [Stream!Next]_(Stream!vars)
  <1> USE DEF Stream!vars
  <1>1. /\ pos \in Nat /\ Len(code) \in Nat /\ stmts \in Seq(StatementRecord)
        /\ pc \in {"pick", "params", "returned", "freed"}
    BY BlobTyped DEF Inv, TypeOK
  <1>2. CASE UNCHANGED <<code, stmts, status>>
    BY <1>2 DEF status, CutsOf
  <1>3. CASE UNCHANGED vars
    BY <1>2, <1>3 DEF vars, outcome, status
  <1>4. CASE DecodeBestAt
    <2>1. /\ pc \in {"pick", "params"} /\ pc' \in {"pick", "params"}
          /\ UNCHANGED <<code, stmts>>
      BY <1>4 DEF DecodeBestAt, DecodeParams, PickCandidate, FinishCandidate,
                  SkipFlag, TakeOperand, SkipRepeated, RejectCandidate,
                  OperandAllocFails, OperandDue, ReadingParam
    <2> QED BY <1>2, <2>1 DEF status
  <1>5. CASE Commit
    <2>1. tried # {} /\ pc = "pick" /\ stmts' = Append(stmts, Statement) /\ code' = code
      BY <1>5 DEF Commit, Exhausted
    <2>2. /\ best.end \in Nat /\ best.end > pos /\ best.end <= Len(code)
          /\ best.op \in DOMAIN Ops
          /\ best.flags \in SUBSET Nat /\ best.operands \in Seq(Access)
      BY <2>1, BestTyped
    <2>3. pc' = "pick"
      <3>1. ~(best.end <= pos)
        BY <1>1, <2>2
      <3>2. UNCHANGED <<outcome, pc>>
        BY <1>5, <3>1 DEF Commit
      <3> QED BY <2>1, <3>2
    <2>4. Statement \in StatementRecord
      BY <1>1, <2>2 DEF Statement, StatementRecord
    <2>5. CutsOf(stmts') = Append(CutsOf(stmts),
                                  [sac |-> pos, len |-> best.end - pos])
      BY <1>1, <2>1, <2>4, CutsAppend DEF Statement
    <2>6. best.end - pos \in 1..(Len(code) - pos)
      BY <1>1, <2>2
    <2>7. status = "cutting" /\ status' = "cutting"
      BY <2>1, <2>3 DEF status
    <2>8. Stream!Cut
      BY <2>1, <2>5, <2>6, <2>7, CutsEnd DEF Stream!Cut, status
    <2> QED BY <2>8 DEF Stream!Next
  <1>6. CASE CommitAllocFails \/ Fail \/ Finish
    <2>1. pc = "pick" /\ pc' = "returned" /\ UNCHANGED <<code, stmts, pos>>
      BY <1>6 DEF CommitAllocFails, Fail, Finish, Exhausted, Return
    <2>2. Answer' /\ Inv'
      BY AnswerStep, NextInv
    <2>3. status = "cutting"
      BY <2>1 DEF status
    <2>4. pos = Len(code) => status' = "whole"
      BY <2>1, <2>2 DEF Answer, OutcomeExact, status, Inv, TypeOK
    <2>5. pos # Len(code) => status' \in {"failed", "truncated"}
      BY <2>1 DEF status
    <2>6. Stream!Stop
      BY <2>1, <2>3, <2>4, <2>5, CutsEnd DEF Stream!Stop, status, CutsOf
    <2> QED BY <2>6 DEF Stream!Next
  <1>7. CASE FreeList
    <2>1. /\ pc = "returned" /\ pc' = "freed"
          /\ UNCHANGED <<code, stmts, pos, result>>
      BY <1>7 DEF FreeList
    <2> QED BY <1>2, <2>1 DEF status
  <1> QED BY <1>3, <1>4, <1>5, <1>6, <1>7 DEF Next, DecodeCode

(* mc7p_decode_code does nothing but cut the blob into adjacent statements *)
(* and stop: it implements StatementStream.                                *)
THEOREM StreamImplemented == Spec => ImplementsStream
  <1>1. Spec => [](Inv /\ Answer)
    BY Invariant, AnswerHolds, PTL
  <1> QED BY <1>1, StreamInit, StreamStep, PTL
          DEF Spec, ImplementsStream, Stream!Spec
----------------------------------------------------------------------------
(* What one loop iteration at a time leaves behind is what StatementAt     *)
(* computes at once.  InHand: the candidate in hand is where decode_params *)
(* gets to; Heard: while no allocation fails, every operator tried that    *)
(* has a reading is among `tried'; the best candidate is a reading; and    *)
(* the statement committed last was the one to commit.                     *)
State == [rpos |-> rpos, pending |-> pending, multiple |-> multiple,
          operands |-> operands]

InHand ==
    pc = "params" =>
        /\ num \in Offered(code, pos)
        /\ pidx <= Len(Ops[num].params) + 1
        /\ \E s \in Steps(code, pos, Ops[num])[pidx - 1] :
               /\ pending = s.pending /\ multiple = s.multiple
               /\ rep = 0 => State = s
               /\ rep # 0 =>
                      LET times == TimesOf(code, Ops[num], pidx, s)
                      IN  /\ pidx <= Len(Ops[num].params) /\ Current.kind # "flag"
                          /\ rep < Repeat /\ rep <= times
                          /\ State \in Reads(code, pos, Current, times, s)[rep]

Tried(r) == [op |-> r.op, end |-> r.end, score |-> r.score]

Heard ==
    faults = 0 =>
        \A r \in Readings(code, pos) :
            r.op < num \/ (r.op = num /\ pc # "params") => Tried(r) \in tried

BestIsReading == tried # {} => best \in Readings(code, pos)

\* A statement of the list as the one decode_best_at finds at its start.
IsStatement(st) ==
    \E r \in StatementAt(code, st.sac) :
        st = [op |-> r.op, sac |-> st.sac, len |-> r.end - st.sac,
              operands |-> r.operands, flags |-> r.flags]
AllDecoded == faults = 0 => \A i \in DOMAIN stmts : IsStatement(stmts[i])
NothingThere == faults = 0 /\ pc = "returned" /\ result = -1 => StatementAt(code, pos) = {}

\* The parameter in hand: the state it started from, and how far it has got.
At(s) ==
    LET times == TimesOf(code, Ops[num], pidx, s)
    IN  /\ s \in Steps(code, pos, Ops[num])[pidx - 1]
        /\ s \in ReaderState(code, pos + Len(Ops[num].code))
        /\ Steps(code, pos, Ops[num])[pidx] = ReadParam(code, pos, Ops[num], pidx, s)
        /\ pending = s.pending /\ multiple = s.multiple
        /\ Repeat = RepeatsOf(Ops[num], pidx, s)
        /\ rep = 0 => State = s
        /\ rep <= times /\ State \in Reads(code, pos, Current, times, s)[rep]
        /\ rep # 0 => Current.kind # "flag" /\ rep < Repeat

LEMMA CandidateOffered ==
  ASSUME Inv, InHand, pc = "params"
  PROVE  /\ code \in Seq(Byte) /\ pos \in Nat /\ num \in Offered(code, pos)
         /\ num \in DOMAIN Ops /\ num \in Nat
         /\ Ops[num].code \in Seq(Byte) /\ Ops[num].params \in Seq(Param)
         /\ Len(Ops[num].code) \in Nat /\ Len(Ops[num].params) \in Nat
         /\ pos + Len(Ops[num].code) <= Len(code)
         /\ pidx \in 1..(Len(Ops[num].params) + 1) /\ rep \in Nat
  <1>1. /\ code \in Seq(Byte) /\ pos \in Nat /\ num \in Offered(code, pos)
        /\ pidx \in Nat \ {0} /\ rep \in Nat /\ pidx <= Len(Ops[num].params) + 1
    BY BlobTyped DEF Inv, TypeOK, InHand
  <1>2. /\ num \in DOMAIN Ops /\ num \in Nat
        /\ Ops[num].code \in Seq(Byte) /\ Ops[num].params \in Seq(Param)
        /\ Len(Ops[num].code) \in Nat
        /\ pos + Len(Ops[num].code) <= Len(code)
    BY <1>1, OfferedFits
  <1>3. Len(Ops[num].params) \in Nat
    BY <1>2
  <1> QED BY <1>1, <1>2, <1>3

LEMMA HandAt ==
  ASSUME Inv, InHand, ReadingParam
  PROVE  \E s : At(s)
  <1>1. pc = "params" /\ pidx <= Len(Ops[num].params)
    BY DEF ReadingParam
  <1>2. /\ code \in Seq(Byte) /\ pos \in Nat
        /\ Ops[num].code \in Seq(Byte) /\ Ops[num].params \in Seq(Param)
        /\ Len(Ops[num].params) \in Nat
        /\ pos + Len(Ops[num].code) <= Len(code)
        /\ pidx \in 1..Len(Ops[num].params) /\ rep \in Nat
    BY <1>1, CandidateOffered
  <1>3. PICK s \in Steps(code, pos, Ops[num])[pidx - 1] :
            /\ pending = s.pending /\ multiple = s.multiple
            /\ rep = 0 => State = s
            /\ rep # 0 =>
                   LET times == TimesOf(code, Ops[num], pidx, s)
                   IN  /\ pidx <= Len(Ops[num].params) /\ Current.kind # "flag"
                       /\ rep < Repeat /\ rep <= times
                       /\ State \in Reads(code, pos, Current, times, s)[rep]
    BY <1>1 DEF InHand
  <1>4. /\ s \in ReaderState(code, pos + Len(Ops[num].code))
        /\ Steps(code, pos, Ops[num])[pidx] = ReadParam(code, pos, Ops[num], pidx, s)
    BY <1>2, StepsNext
  <1>5. Repeat = RepeatsOf(Ops[num], pidx, s)
    BY <1>3 DEF Repeat, RepeatsOf
  <1> DEFINE times == TimesOf(code, Ops[num], pidx, s)
  <1>6. times \in Nat
    <2>1. s.multiple \in Nat \cup {-1}
      BY <1>4 DEF ReaderState
    <2> QED BY <1>2, <2>1, TimesOfTyped
  <1>7. rep <= times /\ State \in Reads(code, pos, Current, times, s)[rep]
    <2> HIDE DEF times
    <2>1. CASE rep = 0
      <3>1. Reads(code, pos, Current, times, s)[0] = {s}
        BY <1>6, ReadsUnfold
      <3> QED BY <1>3, <1>6, <2>1, <3>1
    <2>2. CASE rep # 0
      BY <1>3, <2>2 DEF times
    <2> QED BY <2>1, <2>2
  <1> QED BY <1>3, <1>4, <1>5, <1>7 DEF At

\* The operand that is due is the next repetition's.
LEMMA OperandNext ==
  ASSUME Inv, InHand, OperandDue, NEW s, At(s),
         NEW times, times = TimesOf(code, Ops[num], pidx, s)
  PROVE  /\ times \in Nat /\ rep + 1 \in 0..times
         /\ rep + 1 = Repeat => rep + 1 = times
         /\ Reads(code, pos, Current, times, s)[rep + 1] = ReadOne(code, pos, Current, State)
         /\ ReadParam(code, pos, Ops[num], pidx, s)
                = DoneFrom(Current, Reads(code, pos, Current, times, s)[times])
  <1>1. ReadingParam /\ Current.kind # "flag" /\ rep < Repeat /\ pc = "params"
    BY DEF OperandDue, ReadingParam
  <1>2. Current \in Param /\ Current = Ops[num].params[pidx]
    BY <1>1, CurrentTyped DEF Inv, Current
  <1>3. /\ code \in Seq(Byte) /\ pos \in Nat /\ rep \in Nat
        /\ pos + Len(Ops[num].code) \in Nat
    BY <1>1, CandidateOffered
  <1>4. /\ s \in ReaderState(code, pos + Len(Ops[num].code))
        /\ Repeat = RepeatsOf(Ops[num], pidx, s)
        /\ rep <= times /\ State \in Reads(code, pos, Current, times, s)[rep]
    BY DEF At
  <1>5. /\ times \in Nat /\ rep + 1 \in 0..times
        /\ rep + 1 = Repeat => rep + 1 = times
        /\ Reads(code, pos, Current, times, s)[rep + 1] = ReadOne(code, pos, Current, State)
    <2>1. /\ Ops[num].params[pidx] \in Param /\ Ops[num].params[pidx].kind # "flag"
          /\ rep < RepeatsOf(Ops[num], pidx, s) /\ rep <= TimesOf(code, Ops[num], pidx, s)
          /\ State \in Reads(code, pos, Ops[num].params[pidx],
                             TimesOf(code, Ops[num], pidx, s), s)[rep]
      BY <1>1, <1>2, <1>4
    <2> DEFINE op == Ops[num]
    <2>2. code \in Seq(Byte) /\ pos \in Nat /\ s \in ReaderState(code, 0) /\ rep \in Nat
      BY <1>3, <1>4 DEF ReaderState
    <2>3. Due(code, pos, op, pidx, s, rep, State)
      BY <2>1, <2>2 DEF Due
    <2> HIDE DEF op
    <2>4. /\ TimesOf(code, op, pidx, s) \in Nat
          /\ rep + 1 \in 0..TimesOf(code, op, pidx, s)
          /\ rep + 1 = RepeatsOf(op, pidx, s) => rep + 1 = TimesOf(code, op, pidx, s)
          /\ Reads(code, pos, op.params[pidx], TimesOf(code, op, pidx, s), s)[rep + 1]
                = ReadOne(code, pos, op.params[pidx], State)
      BY <2>3, OneMore
    <2> QED BY <1>2, <1>4, <2>4 DEF op
  <1>6. ReadParam(code, pos, Ops[num], pidx, s)
            = DoneFrom(Current, Reads(code, pos, Current, times, s)[times])
    <2>1. s.multiple \in Nat \cup {-1}
      BY <1>4 DEF ReaderState
    <2>2. RepeatsOf(Ops[num], pidx, s) # 0
      BY <1>1, <1>3, <1>4
    <2> QED BY <1>1, <1>2, <1>3, <2>1, <2>2, ReadParamIsReads
  <1> QED BY <1>5, <1>6

\* Nothing the candidate's place depends on changes.
LEMMA HandKept ==
  ASSUME InHand, pc = "params", UNCHANGED <<code, pos, num, candidate>>
  PROVE  InHand'
  BY DEF InHand, State, candidate, Current, Repeat

\* Whatever ends the parameter in hand: the next one starts from a step's state.
LEMMA NextParam ==
  ASSUME Inv, InHand, ReadingParam, pidx' = pidx + 1, rep' = 0,
         UNCHANGED <<code, pos, num>>,
         State' \in Steps(code, pos, Ops[num])[pidx]
  PROVE  InHand'
  <1>1. pc = "params" /\ pidx <= Len(Ops[num].params)
    BY DEF ReadingParam
  <1>2. num \in Offered(code, pos) /\ pidx \in Nat /\ Len(Ops[num].params) \in Nat
    BY <1>1, CandidateOffered
  <1>3. pidx' <= Len(Ops[num].params) + 1 /\ pidx' - 1 = pidx
    BY <1>1, <1>2
  <1>4. State'.pending = pending' /\ State'.multiple = multiple'
    BY DEF State
  <1> QED BY <1>2, <1>3, <1>4 DEF InHand

\* decode_params: each iteration is the next state of the parameter's function.
LEMMA InHandStep ==
  ASSUME Inv, InHand, [Next]_vars
  PROVE  InHand'
  <1> USE DEF candidate
  <1>1. CASE pc' # "params"
    BY <1>1 DEF InHand
  <1>2. CASE UNCHANGED vars
    BY <1>2, <1>1, HandKept DEF vars
  <1>3. CASE PickCandidate
    <2>1. PICK n \in Candidates : num' = n
      BY <1>3 DEF PickCandidate
    <2>2. /\ pidx' = 1 /\ rep' = 0 /\ rpos' = pos + Len(Ops[n].code)
          /\ pending' = {} /\ multiple' = -1 /\ operands' = <<>>
          /\ code' = code /\ pos' = pos
      BY <1>3, <2>1 DEF PickCandidate
    <2>3. n \in Offered(code, pos)
      BY <2>1 DEF Candidates, Offered
    <2>4. code \in Seq(Byte) /\ pos \in Nat
      BY BlobTyped DEF Inv
    <2>5. Len(Ops[n].params) \in Nat
      BY <2>3, <2>4, OfferedFits
    <2>6. Steps(code, pos, Ops[n])[0] = {Start(pos, Ops[n])}
      BY <2>5, StepsUnfold
    <2>7. State' = Start(pos, Ops[n])
      BY <2>2 DEF State, Start
    <2>8. State'.pending = pending' /\ State'.multiple = multiple'
      BY DEF State
    <2>9. pidx' - 1 = 0 /\ pidx' <= Len(Ops[n].params) + 1
      BY <2>2, <2>5
    <2> QED BY <2>1, <2>2, <2>3, <2>6, <2>7, <2>8, <2>9 DEF InHand
  <1>4. CASE SkipFlag
    <2>1. /\ ReadingParam /\ Current.kind = "flag" /\ pidx' = pidx + 1
          /\ UNCHANGED <<code, pos, num, rep, rpos, pending, multiple, operands>>
      BY <1>4 DEF SkipFlag
    <2>2. PICK s : At(s)
      BY <2>1, HandAt
    <2>3. rep = 0 /\ State = s /\ State' = State
      BY <2>1, <2>2 DEF At, State
    <2>4. Steps(code, pos, Ops[num])[pidx] = {s}
      BY <2>1, <2>2, ReadParamReadsNone DEF At, Current
    <2> QED BY <2>1, <2>3, <2>4, NextParam
  <1>5. CASE SkipRepeated
    <2>1. /\ ReadingParam /\ Current.kind = "ident" /\ Repeat = 0
          /\ pidx' = pidx + 1 /\ pending' = {}
          /\ UNCHANGED <<code, pos, num, rep, rpos, multiple, operands>>
      BY <1>5 DEF SkipRepeated
    <2>2. PICK s : At(s)
      BY <2>1, HandAt
    <2>3. rep \in Nat
      BY DEF Inv, TypeOK
    <2>4. rep = 0 /\ State = s
      BY <2>1, <2>2, <2>3 DEF At
    <2>5. Steps(code, pos, Ops[num])[pidx] = Unread(s)
      BY <2>1, <2>2, ReadParamReadsNone DEF At, Current
    <2>6. State' = [State EXCEPT !.pending = {}]
      BY <2>1 DEF State
    <2>7. State' \in Steps(code, pos, Ops[num])[pidx]
      BY <2>4, <2>5, <2>6 DEF Unread
    <2> QED BY <2>1, <2>4, <2>7, NextParam
  <1>6. CASE TakeOperand
    <2>1. /\ OperandDue /\ ReadingParam /\ Current.kind # "flag" /\ rep < Repeat
          /\ pc = "params" /\ Len(operands) < MaxOperands
          /\ UNCHANGED <<code, pos, num>>
      BY <1>6 DEF TakeOperand, OperandDue, ReadingParam
    <2>2. PICK got \in Operand :
            LET last == rep + 1 = Repeat
            IN  /\ operands' = Append(operands, got.acc)
                /\ rpos' = got.end
                /\ pidx' = IF last THEN pidx + 1 ELSE pidx
                /\ rep' = IF last THEN 0 ELSE rep + 1
                /\ pending' = IF last THEN PendingAfter(Current, got.acc, pending)
                                      ELSE pending
                /\ multiple' = IF last THEN CountAfter(Current, got.acc, multiple)
                                       ELSE multiple
      BY <1>6 DEF TakeOperand
    <2>3. PICK s : At(s)
      BY <2>1, HandAt
    <2> DEFINE times == TimesOf(code, Ops[num], pidx, s)
               t == [State EXCEPT !.rpos = got.end, !.operands = Append(@, got.acc)]
    <2>4. /\ times \in Nat /\ rep + 1 \in 0..times
          /\ rep + 1 = Repeat => rep + 1 = times
          /\ Reads(code, pos, Current, times, s)[rep + 1] = ReadOne(code, pos, Current, State)
          /\ ReadParam(code, pos, Ops[num], pidx, s)
                 = DoneFrom(Current, Reads(code, pos, Current, times, s)[times])
      BY <2>1, <2>3, OperandNext
    <2> HIDE DEF times
    <2>5. t \in ReadOne(code, pos, Current, State)
      <3>1. /\ State.operands = operands /\ State.rpos = rpos /\ State.pending = pending
        BY DEF State
      <3> QED BY <2>1, <2>2, <3>1 DEF ReadOne, Operand
    <2>6. /\ t.rpos = got.end /\ t.operands = Append(operands, got.acc)
          /\ t.pending = pending /\ t.multiple = multiple
          /\ t = [rpos |-> got.end, pending |-> pending, multiple |-> multiple,
                  operands |-> Append(operands, got.acc)]
      <3> DEFINE more == Append(operands, got.acc)
      <3>1. State.operands = operands
        BY DEF State
      <3>2. t = [State EXCEPT !.rpos = got.end, !.operands = more]
        BY <3>1
      <3> HIDE DEF t, more
      <3>3. t = [rpos |-> got.end, pending |-> pending, multiple |-> multiple,
                 operands |-> more]
        BY <3>2 DEF State
      <3> QED BY <3>3 DEF more
    <2>7. t \in Reads(code, pos, Current, times, s)[rep + 1]
      BY <2>4, <2>5
    <2> HIDE DEF t
    <2>8. CASE rep + 1 = Repeat
      <3>1. operands \in Seq(Access)
        BY DEF Inv, TypeOK
      <3>2. t.operands[Len(t.operands)] = got.acc
        <4>1. got.acc \in Access
          BY <2>1, <2>2, OperandTyped DEF Inv
        <4> QED BY <2>6, <3>1, <4>1
      <3>3. /\ pidx' = pidx + 1 /\ rep' = 0
            /\ pending' = PendingAfter(Current, got.acc, pending)
            /\ multiple' = CountAfter(Current, got.acc, multiple)
            /\ rpos' = got.end /\ operands' = Append(operands, got.acc)
        BY <2>2, <2>8
      <3>4. State' = DoneWith(Current, t)
        <4> DEFINE pend == PendingAfter(Current, got.acc, pending)
                   mult == CountAfter(Current, got.acc, multiple)
                   more == Append(operands, got.acc)
        <4>1. DoneWith(Current, t) = [t EXCEPT !.pending = pend, !.multiple = mult]
          BY <2>6, <3>2 DEF DoneWith
        <4>2. State' = [rpos |-> got.end, pending |-> pend, multiple |-> mult,
                        operands |-> more]
          BY <3>3 DEF State
        <4>3. t = [rpos |-> got.end, pending |-> pending, multiple |-> multiple,
                   operands |-> more]
          BY <2>6
        <4> HIDE DEF pend, mult, more
        <4> QED BY <4>1, <4>2, <4>3
      <3>5. State' \in DoneFrom(Current, Reads(code, pos, Current, times, s)[times])
        BY <2>4, <2>7, <2>8, <3>4 DEF DoneFrom
      <3>6. State' \in Steps(code, pos, Ops[num])[pidx]
        BY <2>3, <2>4, <3>5 DEF At
      <3> QED BY <2>1, <3>3, <3>6, NextParam
    <2>9. CASE rep + 1 # Repeat
      <3>1. /\ pidx' = pidx /\ rep' = rep + 1 /\ pending' = pending
            /\ multiple' = multiple /\ rpos' = got.end
            /\ operands' = Append(operands, got.acc)
        BY <2>2, <2>9
      <3>2. State' = t
        BY <2>6, <3>1 DEF State
      <3>3. rep \in Nat /\ Repeat \in Nat
        <4>1. rep \in Nat /\ multiple \in Nat \cup {-1}
          BY DEF Inv, TypeOK
        <4> QED BY <4>1 DEF Repeat, TimesRead
      <3>4. rep' # 0 /\ rep' < Repeat /\ rep' <= times
        BY <2>1, <2>4, <2>9, <3>1, <3>3
      <3>5. /\ num \in Offered(code, pos) /\ pidx <= Len(Ops[num].params)
            /\ pidx <= Len(Ops[num].params) + 1
        BY <2>1, CandidateOffered DEF ReadingParam, InHand
      <3>6. Current' = Current /\ Repeat' = Repeat
        BY <2>1, <3>1 DEF Current, Repeat
      <3>7. /\ s \in Steps(code, pos, Ops[num])[pidx - 1]
            /\ pending = s.pending /\ multiple = s.multiple
        BY <2>3 DEF At
      <3> QED BY <2>1, <2>7, <3>1, <3>2, <3>4, <3>5, <3>6, <3>7 DEF InHand, times
    <2> QED BY <2>8, <2>9
  \* The other steps leave the parameters.
  <1>7. CASE RejectCandidate \/ OperandAllocFails \/ FinishCandidate
    <2>1. pc' = "pick"
      BY <1>7 DEF RejectCandidate, OperandAllocFails, FinishCandidate
    <2> QED BY <1>1, <2>1
  <1>8. CASE Commit \/ CommitAllocFails \/ Fail \/ Finish \/ FreeList
    <2>1. pc # "params" /\ pc' \in {pc, "returned", "freed"}
      BY <1>8 DEF Commit, CommitAllocFails, Fail, Finish, FreeList, Exhausted, Return
    <2> QED BY <1>1, <2>1
  <1> QED BY <1>2, <1>3, <1>4, <1>5, <1>6, <1>7, <1>8
          DEF Next, DecodeCode, DecodeBestAt, DecodeParams

\* A candidate that is dropped has no reading.
LEMMA RejectedHasNone ==
  ASSUME Inv, InHand, OperandDue, Operand = {} \/ Len(operands) >= MaxOperands
  PROVE  ReadParams(code, pos, Ops[num]) = {}
  <1>1. ReadingParam /\ pc = "params"
    BY DEF OperandDue, ReadingParam
  <1>2. PICK s : At(s)
    BY <1>1, HandAt
  <1> DEFINE times == TimesOf(code, Ops[num], pidx, s)
  <1>3. /\ times \in Nat /\ rep + 1 \in 0..times
        /\ Reads(code, pos, Current, times, s)[rep + 1] = ReadOne(code, pos, Current, State)
        /\ ReadParam(code, pos, Ops[num], pidx, s)
               = DoneFrom(Current, Reads(code, pos, Current, times, s)[times])
    BY <1>2, OperandNext
  <1> HIDE DEF times
  <1>4. ReadOne(code, pos, Current, State) = {}
    <2>1. /\ State.operands = operands /\ State.rpos = rpos /\ State.pending = pending
      BY DEF State
    <2>2. Len(operands) \in Nat /\ MaxOperands \in Nat
      BY TableAssumption DEF Inv, TypeOK
    <2>3. CASE Operand = {}
      BY <2>1, <2>3 DEF ReadOne, Operand
    <2>4. CASE Len(operands) >= MaxOperands
      <3>1. ~(Len(State.operands) < MaxOperands)
        BY <2>1, <2>2, <2>4
      <3> QED BY <3>1 DEF ReadOne
    <2> QED BY <2>3, <2>4
  <1>5. Reads(code, pos, Current, times, s)[times] = {}
    BY <1>3, <1>4, ReadsEmpty
  <1>6. Steps(code, pos, Ops[num])[pidx] = {}
    BY <1>2, <1>3, <1>5 DEF At, DoneFrom
  <1>7. Len(Ops[num].params) \in Nat /\ pidx \in 0..Len(Ops[num].params)
    BY <1>1, CandidateOffered DEF ReadingParam
  <1> QED BY <1>6, <1>7, StepsEmpty

\* A candidate that is finished is at its reading.
Finished == [op |-> num, end |-> rpos,
             score |-> Cardinality(FlagsOn(code, pos, Ops[num])),
             flags |-> RestoreFlags(code, pos, Ops[num]), operands |-> operands]

LEMMA FinishedIsReading ==
  ASSUME Inv, InHand, pc = "params", pidx > Len(Ops[num].params)
  PROVE  Finished \in Readings(code, pos)
  <1>1. /\ num \in Offered(code, pos) /\ code \in Seq(Byte) /\ pos \in Nat
        /\ Len(Ops[num].params) \in Nat
        /\ pidx \in 1..(Len(Ops[num].params) + 1) /\ rep \in Nat
    BY CandidateOffered
  <1>2. pidx - 1 = Len(Ops[num].params) /\ ~(pidx <= Len(Ops[num].params))
    BY <1>1
  <1>3. PICK s \in Steps(code, pos, Ops[num])[pidx - 1] : rep = 0 /\ State = s
    BY <1>2 DEF InHand
  <1>4. s \in ReadParams(code, pos, Ops[num])
    <2>1. ReadParams(code, pos, Ops[num])
              = Steps(code, pos, Ops[num])[Len(Ops[num].params)]
      BY <1>1, StepsUnfold
    <2> QED BY <1>2, <1>3, <2>1
  <1>5. Finished = ReadingOf(code, pos, num, s)
    BY <1>3 DEF Finished, ReadingOf, State
  <1> QED BY <1>1, <1>4, <1>5, ReadingsTyped

\* Each step keeps the account of the operators that were heard.
LEMMA HeardStep ==
  ASSUME Inv, InHand, Heard, [Next]_vars
  PROVE  Heard'
  <1> SUFFICES ASSUME faults' = 0
               PROVE  \A r \in Readings(code', pos') :
                          r.op < num' \/ (r.op = num' /\ pc' # "params") => Tried(r) \in tried'
    BY DEF Heard, Tried
  <1>1. /\ faults \in Nat /\ num \in Int /\ code \in Seq(Byte) /\ pos \in Nat
        /\ \A r \in Readings(code, pos) : /\ r.op \in Offered(code, pos)
                                          /\ r.op \in Nat
    <2>1. faults \in Nat
      BY DecoderAssumption DEF Inv, TypeOK
    <2>2. num \in Int
      BY TableAssumption DEF Inv, TypeOK
    <2>3. code \in Seq(Byte) /\ pos \in Nat
      BY BlobTyped DEF Inv
    <2>4. \A r \in Readings(code, pos) : r.op \in Offered(code, pos)
      BY <2>3, ReadingsTyped
    <2>5. \A n \in Offered(code, pos) : n \in Nat
      BY <2>3, OfferedFits
    <2> QED BY <2>1, <2>2, <2>3, <2>4, <2>5
  <1>2. CASE UNCHANGED <<code, pos, num, tried, faults>>
             /\ (pc' = "params" \/ pc # "params")
    BY <1>2 DEF Heard
  <1>3. CASE UNCHANGED vars
    BY <1>2, <1>3 DEF vars, Heard
  <1>4. CASE PickCandidate
    <2>1. PICK n \in Candidates : (\A m \in Candidates : n <= m) /\ num' = n
      BY <1>4 DEF PickCandidate
    <2>2. UNCHANGED <<code, pos, tried, faults>> /\ pc' = "params" /\ pc = "pick"
      BY <1>4 DEF PickCandidate
    <2>3. n \in Nat
      <3>1. n \in Offered(code, pos)
        BY <2>1 DEF Candidates, Offered
      <3> QED BY <1>1, <3>1, OfferedFits
    <2>4. ASSUME NEW r \in Readings(code, pos), r.op < n
          PROVE  Tried(r) \in tried
      <3>1. r.op \in Offered(code, pos) /\ r.op \in Nat
        BY <1>1
      <3>2. r.op \notin Candidates
        BY <2>1, <2>3, <2>4, <3>1
      <3>3. r.op <= num
        BY <1>1, <3>1, <3>2 DEF Candidates, Offered
      <3>4. r.op < num \/ r.op = num
        BY <1>1, <3>1, <3>3
      <3> QED BY <2>2, <3>4 DEF Heard
    <2> QED BY <2>1, <2>2, <2>4
  <1>5. CASE SkipFlag \/ TakeOperand \/ SkipRepeated
    <2>1. UNCHANGED <<code, pos, num, tried, faults, pc>>
      BY <1>5 DEF SkipFlag, TakeOperand, SkipRepeated
    <2> QED BY <1>2, <2>1
  <1>6. CASE RejectCandidate
    <2>1. /\ UNCHANGED <<code, pos, num, tried, faults>>
          /\ OperandDue /\ (Operand = {} \/ Len(operands) >= MaxOperands)
      BY <1>6 DEF RejectCandidate
    <2>2. ReadParams(code, pos, Ops[num]) = {}
      BY <2>1, RejectedHasNone
    <2>3. ASSUME NEW r \in Readings(code, pos) PROVE r.op # num
      <3>1. PICK n \in Offered(code, pos) :
              \E s \in ReadParams(code, pos, Ops[n]) : r = ReadingOf(code, pos, n, s)
        BY <1>1, ReadingsTyped
      <3>2. r.op = n /\ ReadParams(code, pos, Ops[n]) # {}
        BY <3>1 DEF ReadingOf
      <3> QED BY <2>2, <3>2
    <2> QED BY <2>1, <2>3 DEF Heard
  <1>7. CASE FinishCandidate
    <2>1. /\ UNCHANGED <<code, pos, num, faults>> /\ pc = "params"
          /\ pidx > Len(Ops[num].params) /\ tried' = tried \cup {Tried(Finished)}
      BY <1>7 DEF FinishCandidate, Tried, Finished
    <2>2. Finished \in Readings(code, pos) /\ Finished.op = num
      BY <2>1, FinishedIsReading DEF Finished
    <2>3. ASSUME NEW r \in Readings(code, pos), r.op = num
          PROVE  r = Finished
      BY <1>1, <2>2, <2>3, ReadingsTyped
    <2>4. \A r \in Readings(code, pos) : r.op < num => Tried(r) \in tried
      BY <2>1 DEF Heard
    <2> QED BY <2>1, <2>3, <2>4
  <1>8. CASE Commit
    <2>1. num' = -1 /\ code' = code
      BY <1>8 DEF Commit
    <2>2. pos' \in Nat
      <3>1. Inv'
        BY NextInv
      <3> QED BY <3>1 DEF Inv, TypeOK
    <2>3. ASSUME NEW r \in Readings(code, pos') PROVE r.op \in Nat
      <3>1. r.op \in Offered(code, pos')
        BY <1>1, <2>2, ReadingsTyped
      <3> QED BY <1>1, <2>2, <3>1, OfferedFits
    <2> QED BY <2>1, <2>3
  <1>9. CASE Fail \/ Finish \/ FreeList
    <2>1. UNCHANGED <<code, pos, num, tried, faults>> /\ pc # "params"
      BY <1>9 DEF Fail, Finish, FreeList, Exhausted
    <2> QED BY <1>2, <2>1
  <1>10. CASE OperandAllocFails \/ CommitAllocFails
    <2>1. faults' = faults + 1
      BY <1>10 DEF OperandAllocFails, CommitAllocFails
    <2> QED BY <1>1, <2>1
  <1>11. \/ UNCHANGED vars \/ PickCandidate
         \/ SkipFlag \/ TakeOperand \/ SkipRepeated \/ RejectCandidate
         \/ FinishCandidate \/ Commit \/ Fail \/ Finish \/ FreeList
         \/ OperandAllocFails \/ CommitAllocFails
    BY DEF Next, DecodeCode, DecodeBestAt, DecodeParams
  <1> QED BY <1>3, <1>4, <1>5, <1>6, <1>7, <1>8, <1>9, <1>10, <1>11

\* The best candidate is a reading: it is replaced by finished ones only.
LEMMA BestStep ==
  ASSUME Inv, InHand, BestIsReading, [Next]_vars
  PROVE  BestIsReading'
  <1>1. CASE UNCHANGED <<code, pos, best, tried>>
    BY <1>1 DEF BestIsReading
  <1>2. CASE FinishCandidate
    <2>1. Finished \in Readings(code, pos)
      BY <1>2, FinishedIsReading DEF FinishCandidate
    <2>2. /\ UNCHANGED <<code, pos>>
          /\ \/ best' = Finished
             \/ best' = best /\ ~Beats(rpos, Finished.score, best)
      BY <1>2 DEF FinishCandidate, Finished
    <2>3. CASE tried = {}
      <3>1. best = NoBest
        BY <2>3 DEF Inv, Progress
      <3>2. rpos \in Nat /\ Beats(rpos, Finished.score, best)
        <4>1. rpos \in Nat
          BY BlobTyped DEF Inv, TypeOK
        <4> QED BY <3>1, <4>1 DEF Beats, NoBest
      <3> QED BY <2>1, <2>2, <3>2 DEF BestIsReading
    <2>4. CASE tried # {}
      BY <2>1, <2>2, <2>4 DEF BestIsReading
    <2> QED BY <2>3, <2>4
  <1>3. CASE Commit
    BY <1>3 DEF Commit, BestIsReading
  <1>4. CASE UNCHANGED vars
    BY <1>1, <1>4 DEF vars
  <1>5. CASE PickCandidate \/ DecodeParams
    <2>1. UNCHANGED <<code, pos, best, tried>>
      BY <1>5 DEF PickCandidate, DecodeParams, SkipFlag, TakeOperand, SkipRepeated,
                  RejectCandidate, OperandAllocFails
    <2> QED BY <1>1, <2>1
  <1>6. CASE CommitAllocFails \/ Fail \/ Finish \/ FreeList
    <2>1. UNCHANGED <<code, pos, best, tried>>
      BY <1>6 DEF CommitAllocFails, Fail, Finish, FreeList
    <2> QED BY <1>1, <2>1
  <1> QED BY <1>2, <1>3, <1>4, <1>5, <1>6 DEF Next, DecodeCode, DecodeBestAt

\* When the candidates are exhausted every reading was heard.
LEMMA AllHeard ==
  ASSUME Inv, Heard, Exhausted, faults = 0, NEW r \in Readings(code, pos)
  PROVE  Tried(r) \in tried
  <1>1. code \in Seq(Byte) /\ pos \in Nat
    BY BlobTyped DEF Inv
  <1>2. r.op \in Offered(code, pos) /\ r.op \in Nat
    BY <1>1, ReadingsTyped, OfferedFits
  <1>3. ~(r.op > num)
    BY <1>2 DEF Exhausted, Candidates, Offered
  <1>4. num \in Int
    BY TableAssumption DEF Inv, TypeOK
  <1>5. r.op < num \/ r.op = num
    BY <1>2, <1>3, <1>4
  <1> QED BY <1>5 DEF Heard, Exhausted

\* The statement to commit is the one StatementAt finds.
LEMMA CommitsStatement ==
  ASSUME Inv, Heard, BestIsReading, Exhausted, tried # {}, faults = 0
  PROVE  best \in StatementAt(code, pos)
  <1>1. code \in Seq(Byte) /\ pos \in Nat /\ pos < Len(code)
    BY BlobTyped DEF Inv, Exhausted
  <1>2. best \in Readings(code, pos)
    BY DEF BestIsReading
  <1>3. ASSUME NEW q \in Readings(code, pos) \ {best}
        PROVE  Preferred(best, q)
    <2>1. /\ q \in Reading /\ best \in Reading /\ q.op # best.op
      BY <1>1, <1>2, ReadingsTyped
    <2>2. /\ q.end \in Int /\ best.end \in Int /\ q.score \in Int /\ best.score \in Int
          /\ q.op \in Int /\ best.op \in Int
      BY <2>1, TableAssumption DEF Reading
    <2>3. Tried(q) \in tried
      BY AllHeard
    <2> DEFINE t == Tried(q)
    <2>4. t.end = q.end /\ t.score = q.score /\ t.op = q.op
      BY DEF Tried
    <2>5. \/ t.end < best.end
          \/ t.end = best.end /\ t.score < best.score
          \/ t.end = best.end /\ t.score = best.score /\ best.op <= t.op
      BY <2>3 DEF Inv, SelectionOptimal
    <2> HIDE DEF t
    <2> QED BY <2>1, <2>2, <2>4, <2>5 DEF Preferred, Beats
  <1> QED BY <1>1, <1>2, <1>3, StatementAtIs

\* Each step keeps the statements decoded, and fails where there is none.
LEMMA DecodedStep ==
  ASSUME Inv, Heard, BestIsReading, AllDecoded, NothingThere, [Next]_vars
  PROVE  AllDecoded' /\ NothingThere'
  <1>1. faults \in Nat /\ (faults' = 0 => faults = 0)
    <2>1. faults \in Nat
      BY DecoderAssumption DEF Inv, TypeOK
    <2>2. faults' \in {faults, faults + 1}
      BY DEF Next, DecodeCode, DecodeBestAt, DecodeParams, PickCandidate, SkipFlag,
             TakeOperand, SkipRepeated, RejectCandidate, OperandAllocFails,
             FinishCandidate, Commit, CommitAllocFails, Fail, Finish, FreeList, vars
    <2> QED BY <2>1, <2>2
  <1>2. CASE UNCHANGED <<code, stmts>> /\ pc' # "returned"
    BY <1>1, <1>2 DEF AllDecoded, IsStatement, NothingThere
  <1>3. CASE UNCHANGED vars
    BY <1>1, <1>3 DEF AllDecoded, IsStatement, NothingThere, vars, outcome
  <1>4. CASE DecodeBestAt
    <2>1. UNCHANGED <<code, stmts>> /\ pc' \in {"pick", "params"}
      BY <1>4 DEF DecodeBestAt, DecodeParams, PickCandidate, FinishCandidate,
                  SkipFlag, TakeOperand, SkipRepeated, RejectCandidate,
                  OperandAllocFails, OperandDue, ReadingParam
    <2> QED BY <1>2, <2>1
  <1>5. CASE Commit
    <2>1. /\ Exhausted /\ tried # {} /\ code' = code
          /\ stmts' = Append(stmts, Statement) /\ pc = "pick"
      BY <1>5 DEF Commit, Exhausted
    <2>2. /\ best.op \in DOMAIN Ops /\ best.end \in Nat /\ best.end > pos
          /\ best.flags \in SUBSET Nat /\ best.operands \in Seq(Access)
      BY <2>1, BestTyped
    <2>3. pos \in Nat /\ stmts \in Seq(StatementRecord)
      BY BlobTyped DEF Inv, TypeOK
    <2>4. pc' = pc
      <3>1. ~(best.end <= pos)
        BY <2>2, <2>3
      <3> QED BY <1>5, <3>1 DEF Commit
    <2>5. faults' = 0 => IsStatement(Statement)
      <3> SUFFICES ASSUME faults' = 0 PROVE IsStatement(Statement)
        OBVIOUS
      <3>1. best \in StatementAt(code, pos)
        BY <1>1, <2>1, CommitsStatement
      <3> QED BY <3>1 DEF IsStatement, Statement
    <2>6. /\ DOMAIN stmts' = 1..(Len(stmts) + 1) /\ DOMAIN stmts = 1..Len(stmts)
          /\ stmts'[Len(stmts) + 1] = Statement
          /\ \A i \in DOMAIN stmts : stmts'[i] = stmts[i]
      <3>1. Statement \in StatementRecord
        BY <2>2, <2>3 DEF Statement, StatementRecord
      <3> QED BY <2>1, <2>3, <3>1
    <2>7. faults' = 0 => \A i \in DOMAIN stmts' : IsStatement(stmts'[i])
      <3> SUFFICES ASSUME faults' = 0, NEW i \in DOMAIN stmts'
                   PROVE  IsStatement(stmts'[i])
        OBVIOUS
      <3>1. CASE i \in DOMAIN stmts
        BY <1>1, <2>6, <3>1 DEF AllDecoded
      <3>2. CASE i = Len(stmts) + 1
        BY <2>5, <2>6, <3>2
      <3>3. i \in DOMAIN stmts \/ i = Len(stmts) + 1
        <4> DEFINE n == Len(stmts)
        <4>1. n \in Nat /\ i \in 1..(n + 1)
          BY <2>3, <2>6
        <4>2. i \in 1..n \/ i = n + 1
          <5> HIDE DEF n
          <5> QED BY <4>1
        <4> QED BY <2>6, <4>2
      <3> QED BY <3>1, <3>2, <3>3
    <2> QED BY <2>1, <2>4, <2>7 DEF AllDecoded, IsStatement, NothingThere
  <1>6. CASE Fail
    <2>1. Exhausted /\ tried = {} /\ UNCHANGED <<code, pos, stmts, faults>>
      BY <1>6 DEF Fail
    <2>2. faults = 0 => Readings(code, pos) = {}
      BY <2>1, AllHeard
    <2>3. faults = 0 => StatementAt(code, pos) = {}
      BY <2>2 DEF StatementAt
    <2> QED BY <2>1, <2>3 DEF AllDecoded, IsStatement, NothingThere
  <1>7. CASE CommitAllocFails \/ Finish
    <2>1. UNCHANGED <<code, stmts>> /\ result' = 0
      BY <1>7 DEF CommitAllocFails, Finish, Return
    <2> QED BY <1>1, <2>1 DEF AllDecoded, IsStatement, NothingThere
  <1>8. CASE FreeList
    <2>1. UNCHANGED <<code, stmts>> /\ pc' = "freed"
      BY <1>8 DEF FreeList
    <2> QED BY <1>2, <2>1
  <1> QED BY <1>3, <1>4, <1>5, <1>6, <1>7, <1>8 DEF Next, DecodeCode

(* mc7p_decode_code looks at all of them, mc7p_disassemble_one,            *)
(* mc7p_flow_one and mc7p_decode_one_statement at one statement: while no  *)
(* allocation fails, every statement of the list is the one they find at   *)
(* its offset, and where the decoder gives up they find none.              *)
THEOREM OneAtATimeHolds == Spec => []OneAtATime
  <1>1. Init => InHand /\ Heard /\ BestIsReading /\ AllDecoded /\ NothingThere
    <2> SUFFICES ASSUME Init
                 PROVE  InHand /\ Heard /\ BestIsReading /\ AllDecoded /\ NothingThere
      OBVIOUS
    <2>1. code \in Seq(Byte) /\ pos \in Nat /\ num = -1
      BY InitInv, BlobTyped DEF Inv, Init
    <2>2. \A r \in Readings(code, pos) : r.op \in Nat
      BY <2>1, ReadingsTyped, OfferedFits
    <2>3. Heard
      BY <2>1, <2>2 DEF Heard
    <2> QED BY <2>3 DEF Init, InHand, BestIsReading, AllDecoded, NothingThere
  <1>2. Inv /\ InHand /\ Heard /\ BestIsReading /\ AllDecoded /\ NothingThere /\ [Next]_vars
            => (InHand /\ Heard /\ BestIsReading /\ AllDecoded /\ NothingThere)'
    BY InHandStep, HeardStep, BestStep, DecodedStep
  <1>3. Inv /\ AllDecoded /\ NothingThere => OneAtATime
    <2> SUFFICES ASSUME Inv, AllDecoded, NothingThere, faults = 0
                 PROVE  /\ stmts # <<>> => IsStatement(stmts[Len(stmts)])
                        /\ pc = "returned" /\ result = -1 => StatementAt(code, pos) = {}
      BY DEF OneAtATime, IsStatement
    <2>1. stmts \in Seq(StatementRecord)
      BY DEF Inv, TypeOK
    <2>2. stmts # <<>> => Len(stmts) \in DOMAIN stmts
      BY <2>1
    <2> QED BY <2>2 DEF AllDecoded, NothingThere
  <1> QED BY Invariant, <1>1, <1>2, <1>3, PTL DEF Spec
-----------------------------------------------------------------------------
(* JL and MUX: how many operands a candidate has so far, and what the      *)
(* count that was read means for the ones to come.                         *)
CountIn(acc) == IF acc.kind = "imm" /\ ~IntIsNegative(acc.value)
                THEN IntValue(acc.value) ELSE -1

Honoured(op, accs) ==
  Len(accs) = OperandOf(op, Len(op.params) - 1) + TargetsExpected(op, accs)

\* Parameter i is to be read for the k+1st time, the count is m.
CountingAt(op, i, k, m, accs) ==
  IF i > Len(op.params) THEN Honoured(op, accs)
  ELSE /\ Len(accs) = OperandOf(op, i - 1) + k
       /\ k # 0 => i = Len(op.params) /\ k < TimesRead(op, i, m)
       /\ \A j \in LenParams(op) : j < i => m = CountIn(accs[OperandOf(op, j)])
       /\ (\A j \in LenParams(op) : j >= i) => m = -1

Counting ==
  pc = "params" /\ Ops[num].multi => CountingAt(Ops[num], pidx, rep, multiple, operands)

BestCounts ==
  tried # {} /\ Ops[best.op].multi => Honoured(Ops[best.op], best.operands)

\* A row of a repeating operator.
Multi(op) ==
  /\ op.params \in Seq(Param) /\ Len(op.params) \in Nat \ {0} /\ op.multi
  /\ op.params[Len(op.params)].kind = "ident"
  /\ \A i, j \in LenParams(op) : i = j

LEMMA MultiRow ==
  ASSUME NEW n \in DOMAIN Ops, Ops[n].multi
  PROVE  Multi(Ops[n])
  <1>1. Ops[n].params \in Seq(Param) /\ Len(Ops[n].params) \in Nat
    BY RowTyped
  <1>2. /\ Ops[n].params # <<>> /\ Ops[n].params[Len(Ops[n].params)].kind = "ident"
        /\ \A i, j \in LenParams(Ops[n]) : i = j
    BY MultiAssumption
  <1>3. Len(Ops[n].params) # 0
    BY <1>1, <1>2
  <1> QED BY <1>1, <1>2, <1>3 DEF Multi

\* The count says how many targets there are to be.
LEMMA Expected ==
  ASSUME NEW op, Multi(op), NEW accs
  PROVE  /\ \A j \in LenParams(op) :
                LET c == CountIn(accs[OperandOf(op, j)])
                IN  j < Len(op.params) =>
                        TargetsExpected(op, accs) = IF c >= 0 THEN c ELSE 1
         /\ (\A j \in LenParams(op) : j >= Len(op.params)) => TargetsExpected(op, accs) = 1
  <1> DEFINE n == Len(op.params)
             len == LenParams(op) \ {n}
  <1>1. LenParams(op) \subseteq 1..n /\ n \in Nat
    BY DEF Multi, LenParams
  <1>2. ASSUME NEW j \in LenParams(op), j < n
        PROVE  LET c == CountIn(accs[OperandOf(op, j)])
               IN  TargetsExpected(op, accs) = IF c >= 0 THEN c ELSE 1
    <2>1. len = {j}
      BY <1>1, <1>2 DEF Multi
    <2>2. Max({j}) = j
      <3>1. j \in Int
        BY <1>1
      <3> QED BY <3>1 DEF Max
    <2> DEFINE acc == accs[OperandOf(op, j)]
    <2>3. IntValue(acc.value) \in Nat
      BY IntValueIsNat
    <2>4. TargetsExpected(op, accs) = IF acc.kind = "imm" /\ ~IntIsNegative(acc.value)
                                      THEN IntValue(acc.value) ELSE 1
      BY <2>1, <2>2 DEF TargetsExpected
    <2> HIDE DEF acc
    <2>5. TargetsExpected(op, accs) = IF CountIn(acc) >= 0 THEN CountIn(acc) ELSE 1
      BY <2>3, <2>4 DEF CountIn
    <2> QED BY <2>5 DEF acc
  <1>3. ASSUME \A j \in LenParams(op) : j >= n
        PROVE  TargetsExpected(op, accs) = 1
    <2>1. len = {}
      BY <1>1, <1>3
    <2> QED BY <2>1 DEF TargetsExpected
  <1> QED BY <1>2, <1>3

\* An operand is due: the parameter in hand and all that is known of it.
DueAt(op, i, k, m, accs) ==
  /\ Multi(op) /\ CountingAt(op, i, k, m, accs)
  /\ i \in 1..Len(op.params) /\ k \in Nat /\ m \in Nat \cup {-1} /\ accs \in Seq(Access)

\* An operand that is pushed is the last one.
LEMMA AppendIs ==
  ASSUME NEW accs \in Seq(Access), NEW acc \in Access
  PROVE  Len(Append(accs, acc)) = Len(accs) + 1 /\ Append(accs, acc)[Len(accs) + 1] = acc
  OBVIOUS

\* The operands of the parameters before stay where they are.
KeptBefore(op, i, accs, more) ==
  \A j \in LenParams(op) : j < i => more[OperandOf(op, j)] = accs[OperandOf(op, j)]

LEMMA CountsStay ==
  ASSUME NEW op, NEW i, NEW k, NEW m, NEW accs, DueAt(op, i, k, m, accs)
  PROVE  \A acc \in Access : KeptBefore(op, i, accs, Append(accs, acc))
  <1>1. /\ accs \in Seq(Access) /\ i \in Nat /\ i >= 1 /\ i - 1 \in Nat
        /\ Len(accs) = OperandOf(op, i - 1) + k /\ k \in Nat
    BY DEF DueAt, CountingAt, Multi
  <1>2. ASSUME NEW j \in LenParams(op), j < i
        PROVE  OperandOf(op, j) \in 1..Len(accs)
    <2>1. j \in Nat /\ j # 0 /\ j <= i - 1 /\ op.params[j].kind # "flag"
      BY <1>1, <1>2 DEF LenParams, DueAt, Multi
    <2>2. /\ OperandOf(op, j) >= 1 /\ OperandOf(op, j) <= OperandOf(op, i - 1)
          /\ OperandOf(op, j) \in Nat /\ OperandOf(op, i - 1) \in Nat
      BY <1>1, <2>1, OperandOfGrows, OperandOfNext
    <2> QED BY <1>1, <2>2
  <1>3. \A acc \in Access : \A x \in 1..Len(accs) : Append(accs, acc)[x] = accs[x]
    BY <1>1
  <1> QED BY <1>2, <1>3 DEF KeptBefore

\* The last parameter is read to its end, or no time: the count is honoured.
LEMMA LastCounts ==
  ASSUME NEW op, NEW m \in Nat \cup {-1}, NEW accs, Multi(op),
         \A j \in LenParams(op) : j < Len(op.params) => m = CountIn(accs[OperandOf(op, j)]),
         (\A j \in LenParams(op) : j >= Len(op.params)) => m = -1,
         Len(accs) = OperandOf(op, Len(op.params) - 1) + TimesRead(op, Len(op.params), m)
  PROVE  Honoured(op, accs)
  <1> DEFINE n == Len(op.params)
  <1>1. TimesRead(op, n, m) = IF m >= 0 THEN m ELSE 1
    BY DEF TimesRead, Multi
  <1>2. LenParams(op) \subseteq 1..n /\ n \in Nat
    BY DEF Multi, LenParams
  <1>3. CASE \E j \in LenParams(op) : j < n
    <2>1. PICK j \in LenParams(op) : j < n
      BY <1>3
    <2>2. m = CountIn(accs[OperandOf(op, j)])
      BY <2>1
    <2>3. TargetsExpected(op, accs) = IF m >= 0 THEN m ELSE 1
      BY <2>1, <2>2, Expected
    <2> QED BY <1>1, <2>3 DEF Honoured
  <1>4. CASE \A j \in LenParams(op) : j >= n
    <2>1. m = -1 /\ TargetsExpected(op, accs) = 1
      BY <1>4, Expected
    <2> QED BY <1>1, <2>1 DEF Honoured
  <1> QED BY <1>2, <1>3, <1>4

\* One operand more.
LEMMA TakeCounts ==
  ASSUME NEW op, NEW i, NEW k, NEW m, NEW accs, NEW acc \in Access,
         DueAt(op, i, k, m, accs), op.params[i].kind # "flag", k < TimesRead(op, i, m)
  PROVE  LET last == k + 1 = TimesRead(op, i, m)
         IN  CountingAt(op, IF last THEN i + 1 ELSE i, IF last THEN 0 ELSE k + 1,
                        IF last THEN CountAfter(op.params[i], acc, m) ELSE m,
                        Append(accs, acc))
  <1> DEFINE n == Len(op.params)
             more == Append(accs, acc)
  <1>1. /\ Multi(op) /\ accs \in Seq(Access) /\ n \in Nat /\ i \in Nat /\ i >= 1 /\ i <= n
        /\ k \in Nat /\ m \in Nat \cup {-1} /\ i - 1 \in Nat
        /\ OperandOf(op, i - 1) \in Nat
        /\ Len(accs) = OperandOf(op, i - 1) + k
        /\ k # 0 => i = n
        /\ LenParams(op) \subseteq 1..n
    BY OperandOfNext DEF DueAt, CountingAt, Multi, LenParams
  <1>2. /\ \A j \in LenParams(op) : j < i => m = CountIn(accs[OperandOf(op, j)])
        /\ (\A j \in LenParams(op) : j >= i) => m = -1
    BY <1>1 DEF DueAt, CountingAt
  <1>3. /\ Len(more) = OperandOf(op, i - 1) + k + 1 /\ more[Len(accs) + 1] = acc
        /\ \A j \in LenParams(op) : j < i => more[OperandOf(op, j)] = accs[OperandOf(op, j)]
    <2>1. Len(more) = Len(accs) + 1 /\ more[Len(accs) + 1] = acc
      BY AppendIs, <1>1
    <2>2. Len(accs) + 1 = OperandOf(op, i - 1) + k + 1
      BY <1>1
    <2>3. \A j \in LenParams(op) : j < i => more[OperandOf(op, j)] = accs[OperandOf(op, j)]
      <3>1. KeptBefore(op, i, accs, Append(accs, acc))
        BY CountsStay
      <3> QED BY <3>1 DEF KeptBefore
    <2> QED BY <2>1, <2>2, <2>3
  <1> HIDE DEF more
  <1>4. \A j \in LenParams(op) : j < i => m = CountIn(more[OperandOf(op, j)])
    BY <1>2, <1>3
  <1>5. CASE i = n /\ k + 1 # TimesRead(op, i, m)
    <2>1. TimesRead(op, i, m) \in Nat
      BY <1>1 DEF TimesRead
    <2>2. k + 1 < TimesRead(op, i, m)
      BY <1>1, <1>5, <2>1
    <2>3. CountingAt(op, i, k + 1, m, more)
      BY <1>1, <1>2, <1>3, <1>4, <1>5, <2>2 DEF CountingAt
    <2> QED BY <1>5, <2>3 DEF more
  <1>6. CASE i = n /\ k + 1 = TimesRead(op, i, m)
    <2>1. Len(more) = OperandOf(op, n - 1) + TimesRead(op, n, m)
      BY <1>1, <1>3, <1>6
    <2>2. Honoured(op, more)
      BY <1>1, <1>2, <1>4, <1>6, <2>1, LastCounts
    <2>3. i + 1 > n
      BY <1>1, <1>6
    <2>4. CountingAt(op, i + 1, 0, CountAfter(op.params[i], acc, m), more)
      BY <2>2, <2>3 DEF CountingAt
    <2> QED BY <1>6, <2>4 DEF more
  <1>7. CASE i # n
    <2> DEFINE after == CountAfter(op.params[i], acc, m)
    <2>1. k = 0 /\ i < n /\ i \in 1..n /\ i + 1 <= n /\ TimesRead(op, i, m) = 1
      BY <1>1, <1>7 DEF TimesRead
    <2>2. OperandOf(op, i) = OperandOf(op, i - 1) + 1
      BY <1>1, OperandOfNext
    <2>3. Len(more) = OperandOf(op, i) + 0 /\ more[OperandOf(op, i)] = acc
      BY <1>1, <1>3, <2>1, <2>2
    <2>4. /\ \A j \in LenParams(op) : j < i + 1 => after = CountIn(more[OperandOf(op, j)])
          /\ (\A j \in LenParams(op) : j >= i + 1) => after = -1
      <3>1. CASE i \in LenParams(op)
        <4>1. LenParams(op) = {i} /\ m = -1
          BY <1>1, <1>2, <3>1 DEF Multi
        <4>2. after = CountIn(acc)
          BY <3>1, <4>1 DEF CountAfter, CountIn, LenParams
        <4> QED BY <1>1, <2>3, <4>1, <4>2
      <3>2. CASE i \notin LenParams(op)
        <4>1. after = m
          BY <2>1, <3>2 DEF CountAfter, LenParams
        <4>2. \A j \in LenParams(op) : (j < i + 1 <=> j < i) /\ (j >= i + 1 <=> j >= i)
          BY <1>1, <3>2
        <4> QED BY <1>2, <1>4, <4>1, <4>2
      <3> QED BY <3>1, <3>2
    <2> HIDE DEF after
    <2>5. CountingAt(op, i + 1, 0, after, more)
      <3>1. ~(i + 1 > n) /\ (i + 1) - 1 = i
        BY <1>1, <2>1
      <3> QED BY <2>3, <2>4, <3>1 DEF CountingAt
    <2> QED BY <2>1, <2>5 DEF after, more
  <1> QED BY <1>5, <1>6, <1>7

\* A flag has no operand, and a count of zero ends the parameters.
LEMMA SkipCounts ==
  ASSUME NEW op, NEW i, NEW k, NEW m, NEW accs,
         DueAt(op, i, k, m, accs)
  PROVE  /\ op.params[i].kind = "flag" => CountingAt(op, i + 1, k, m, accs)
         /\ op.params[i].kind # "flag" /\ TimesRead(op, i, m) = 0 =>
                CountingAt(op, i + 1, k, m, accs)
  <1> DEFINE n == Len(op.params)
  <1>1. /\ Multi(op) /\ accs \in Seq(Access) /\ n \in Nat /\ i \in Nat /\ i >= 1 /\ i <= n
        /\ k \in Nat /\ m \in Nat \cup {-1} /\ i - 1 \in Nat
        /\ OperandOf(op, i - 1) \in Nat
        /\ Len(accs) = OperandOf(op, i - 1) + k
        /\ k # 0 => i = n /\ k < TimesRead(op, i, m)
        /\ LenParams(op) \subseteq 1..n
    BY OperandOfNext DEF DueAt, CountingAt, Multi, LenParams
  <1>2. /\ \A j \in LenParams(op) : j < i => m = CountIn(accs[OperandOf(op, j)])
        /\ (\A j \in LenParams(op) : j >= i) => m = -1
    BY <1>1 DEF DueAt, CountingAt
  <1>3. CASE op.params[i].kind = "flag"
    <2>1. i < n /\ k = 0 /\ i \notin LenParams(op) /\ (i + 1) - 1 = i
      BY <1>1, <1>3 DEF Multi, LenParams
    <2>2. OperandOf(op, i) = OperandOf(op, i - 1)
      BY <1>1, <1>3, OperandOfNext
    <2>3. \A j \in LenParams(op) : (j < i + 1 <=> j < i) /\ (j >= i + 1 <=> j >= i)
      BY <1>1, <2>1
    <2>4. ~(i + 1 > n) /\ Len(accs) = OperandOf(op, i) + k
      BY <1>1, <2>1, <2>2
    <2> QED BY <1>2, <1>3, <2>1, <2>3, <2>4 DEF CountingAt
  <1>4. CASE op.params[i].kind # "flag" /\ TimesRead(op, i, m) = 0
    <2>1. i = n /\ k = 0 /\ i + 1 > n
      BY <1>1, <1>4 DEF TimesRead
    <2>2. Len(accs) = OperandOf(op, n - 1) + TimesRead(op, n, m)
      BY <1>1, <1>4, <2>1
    <2>3. Honoured(op, accs)
      BY <1>1, <1>2, <2>1, <2>2, LastCounts
    <2> QED BY <1>4, <2>1, <2>3 DEF CountingAt
  <1> QED BY <1>3, <1>4

\* Every step keeps the count, of the candidate in hand and of the best so far.
LEMMA CountingStep ==
  ASSUME Inv, Counting, BestCounts, MultiCountHonoured, Next
  PROVE  Counting' /\ BestCounts' /\ MultiCountHonoured'
  <1>1. TypeOK
    BY DEF Inv
  <1>2. ASSUME pc = "params", Ops[num].multi, pidx <= Len(Ops[num].params)
        PROVE  DueAt(Ops[num], pidx, rep, multiple, operands)
    <2>1. num \in DOMAIN Ops /\ Multi(Ops[num])
      BY <1>1, <1>2, MultiRow DEF TypeOK
    <2>2. pidx \in 1..Len(Ops[num].params)
      BY <1>1, <1>2, <2>1 DEF TypeOK, Multi
    <2>3. CountingAt(Ops[num], pidx, rep, multiple, operands)
      BY <1>2 DEF Counting
    <2> QED BY <1>1, <2>1, <2>2, <2>3 DEF DueAt, TypeOK
  <1>3. ASSUME UNCHANGED <<stmts, best, tried>>
        PROVE  BestCounts' /\ MultiCountHonoured'
    BY <1>3 DEF BestCounts, MultiCountHonoured
  <1>4. ASSUME pc' # "params"
        PROVE  Counting'
    BY <1>4 DEF Counting
  <1>5. CASE PickCandidate
    <2>1. /\ pidx' = 1 /\ rep' = 0 /\ multiple' = -1 /\ operands' = <<>>
          /\ UNCHANGED <<stmts, best, tried>>
      BY <1>5 DEF PickCandidate
    <2>2. num' \in DOMAIN Ops
      BY <1>1, <1>5, CandidateFits DEF PickCandidate
    <2>3. ASSUME Ops[num'].multi
          PROVE  CountingAt(Ops[num'], 1, 0, -1, <<>>)
      <3>1. Multi(Ops[num'])
        BY <2>2, <2>3, MultiRow
      <3>2. /\ ~(1 > Len(Ops[num'].params)) /\ OperandOf(Ops[num'], 1 - 1) = 0
            /\ LenParams(Ops[num']) \subseteq 1..Len(Ops[num'].params)
        BY <3>1, OperandOfNext DEF Multi, LenParams
      <3>3. \A j \in LenParams(Ops[num']) : ~(j < 1)
        BY <3>1, <3>2 DEF Multi
      <3> QED BY <3>2, <3>3 DEF CountingAt
    <2> QED BY <1>3, <2>1, <2>3 DEF Counting
  <1>6. CASE SkipFlag \/ SkipRepeated
    <2>1. /\ pc = "params" /\ pidx <= Len(Ops[num].params)
          /\ pidx' = pidx + 1
          /\ UNCHANGED <<stmts, best, tried, num, rep, multiple, operands>>
          /\ \/ Ops[num].params[pidx].kind = "flag"
             \/ Ops[num].params[pidx].kind # "flag"
                /\ TimesRead(Ops[num], pidx, multiple) = 0
      BY <1>6 DEF SkipFlag, SkipRepeated, ReadingParam, Current, Repeat
    <2>2. ASSUME Ops[num].multi
          PROVE  CountingAt(Ops[num], pidx + 1, rep, multiple, operands)
      <3>1. DueAt(Ops[num], pidx, rep, multiple, operands)
        BY <1>2, <2>1, <2>2
      <3> QED BY <2>1, <3>1, SkipCounts
    <2> QED BY <1>3, <2>1, <2>2 DEF Counting
  <1>7. CASE TakeOperand
    <2>1. /\ pc = "params" /\ pidx <= Len(Ops[num].params) /\ ReadingParam
          /\ Current.kind # "flag" /\ rep < Repeat
          /\ UNCHANGED <<stmts, best, tried, num>>
      BY <1>7 DEF TakeOperand, OperandDue, ReadingParam
    <2>2. PICK got \in Operand :
            LET last == rep + 1 = Repeat
            IN  /\ operands' = Append(operands, got.acc)
                /\ pidx' = IF last THEN pidx + 1 ELSE pidx
                /\ rep' = IF last THEN 0 ELSE rep + 1
                /\ multiple' = IF last THEN CountAfter(Current, got.acc, multiple)
                                      ELSE multiple
      BY <1>7 DEF TakeOperand
    <2>3. got.acc \in Access
      BY <1>1, <2>1, OperandTyped
    <2>4. ASSUME Ops[num].multi
          PROVE  CountingAt(Ops[num], pidx', rep', multiple', operands')
      <3>1. DueAt(Ops[num], pidx, rep, multiple, operands)
        BY <1>2, <2>1, <2>4
      <3> DEFINE last == rep + 1 = TimesRead(Ops[num], pidx, multiple)
      <3>2. CountingAt(Ops[num], IF last THEN pidx + 1 ELSE pidx, IF last THEN 0 ELSE rep + 1,
                       IF last THEN CountAfter(Current, got.acc, multiple) ELSE multiple,
                       Append(operands, got.acc))
        BY <2>1, <2>3, <3>1, TakeCounts DEF Current, Repeat
      <3> QED BY <2>2, <3>2 DEF Repeat
    <2> QED BY <1>3, <2>1, <2>4 DEF Counting
  <1>8. CASE RejectCandidate \/ OperandAllocFails
    <2>1. pc' # "params" /\ UNCHANGED <<stmts, best, tried>>
      BY <1>8 DEF RejectCandidate, OperandAllocFails
    <2> QED BY <1>3, <1>4, <2>1
  <1>9. CASE FinishCandidate
    <2> DEFINE score == Cardinality(FlagsOn(code, pos, Ops[num]))
    <2>1. /\ pc' # "params" /\ UNCHANGED stmts
          /\ pc = "params" /\ pidx > Len(Ops[num].params)
          /\ \/ ~Beats(rpos, score, best) /\ best' = best
             \/ best'.op = num /\ best'.operands = operands
      BY <1>9 DEF FinishCandidate
    <2>2. Ops[num].multi => Honoured(Ops[num], operands)
      BY <2>1 DEF Counting, CountingAt
    <2>3. CASE best'.op = num /\ best'.operands = operands
      BY <1>4, <2>1, <2>2, <2>3 DEF BestCounts, MultiCountHonoured
    <2>4. CASE ~Beats(rpos, score, best) /\ best' = best
      <3>1. tried # {}
        <4>1. rpos \in Nat
          BY <1>1, BlobTyped DEF TypeOK
        <4>2. best = NoBest => Beats(rpos, score, best)
          BY <4>1 DEF Beats, NoBest
        <4> QED BY <2>4, <4>2 DEF Inv, Progress
      <3> QED BY <1>4, <2>1, <2>4, <3>1 DEF BestCounts, MultiCountHonoured
    <2> QED BY <2>1, <2>3, <2>4
  <1>10. CASE Commit
    <2>1. tried # {} /\ stmts' = Append(stmts, Statement) /\ tried' = {} /\ pc' # "params"
      BY <1>10 DEF Commit, Exhausted
    <2>2. stmts \in Seq(StatementRecord)
      BY <1>1 DEF TypeOK
    <2>3. /\ DOMAIN stmts' = 1..(Len(stmts) + 1) /\ Len(stmts) \in Nat
          /\ DOMAIN stmts = 1..Len(stmts)
          /\ \A i \in 1..Len(stmts) : stmts'[i] = stmts[i]
          /\ stmts'[Len(stmts) + 1] = Statement
      BY <2>1, <2>2
    <2>4. Statement.op = best.op /\ Statement.operands = best.operands
      BY DEF Statement
    <2>5. Ops[best.op].multi => Honoured(Ops[best.op], best.operands)
      BY <2>1 DEF BestCounts
    <2>6. ASSUME NEW i \in DOMAIN stmts', Ops[stmts'[i].op].multi
          PROVE  Honoured(Ops[stmts'[i].op], stmts'[i].operands)
      <3>1. CASE i \in 1..Len(stmts)
        BY <2>3, <2>6, <3>1 DEF MultiCountHonoured, Honoured
      <3>2. CASE i = Len(stmts) + 1
        BY <2>3, <2>4, <2>5, <2>6, <3>2
      <3> QED BY <2>3, <3>1, <3>2
    <2>7. MultiCountHonoured'
      BY <2>6 DEF MultiCountHonoured, Honoured
    <2> QED BY <1>4, <2>1, <2>7 DEF BestCounts
  <1>11. CASE CommitAllocFails \/ Fail \/ Finish \/ FreeList
    <2>1. pc' # "params" /\ UNCHANGED <<stmts, best, tried>>
      BY <1>11 DEF CommitAllocFails, Fail, Finish, FreeList, Return
    <2> QED BY <1>3, <1>4, <2>1
  <1> QED BY <1>5, <1>6, <1>7, <1>8, <1>9, <1>10, <1>11
          DEF Next, DecodeCode, DecodeBestAt, DecodeParams

(* JL and MUX: a statement of the list has as many targets as its LEN      *)
(* operand says, and one when that is negative as an int or no immediate,  *)
(* for every operator table whose repeating rows are laid out as JL, MUX   *)
(* and MUX_2 are.                                                          *)
THEOREM MultiCountHolds == Spec => []MultiCountHonoured
  <1>1. Init => Counting /\ BestCounts /\ MultiCountHonoured
    BY DEF Init, Counting, BestCounts, MultiCountHonoured
  <1>2. /\ Inv /\ Counting /\ BestCounts /\ MultiCountHonoured /\ [Next]_vars
        => Counting' /\ BestCounts' /\ MultiCountHonoured'
    <2>1. ASSUME Inv, Counting, BestCounts, MultiCountHonoured, UNCHANGED vars
          PROVE  Counting' /\ BestCounts' /\ MultiCountHonoured'
      BY <2>1 DEF vars, candidate, Counting, BestCounts, MultiCountHonoured
    <2> QED BY <2>1, CountingStep
  <1> QED BY <1>1, <1>2, Invariant, PTL DEF Spec
=============================================================================
