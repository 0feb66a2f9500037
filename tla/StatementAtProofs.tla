-------------------------- MODULE StatementAtProofs --------------------------
(***************************************************************************)
(* What decode_params and decode_best_at compute for every operator table  *)
(* and every blob: how the reading of a parameter and of a statement       *)
(* unfolds, that there is at most one, and what it is made of.             *)
(***************************************************************************)
EXTENDS StatementAt, OperandDecoderProofs, FiniteSetTheorems, WellFoundedInduction

\* A set of natural numbers that holds 0 and with n also n + 1 holds all of them.
LEMMA Induction ==
  ASSUME NEW S, 0 \in S, \A n \in Nat : n \in S => n + 1 \in S
  PROVE  Nat \subseteq S
  <1> DEFINE R == OpToRel(<, Nat)
             T == Nat \ S
  <1> SUFFICES ASSUME T # {} PROVE FALSE
    OBVIOUS
  <1>1. IsWellFoundedOn(R, Nat)
    BY NatLessThanWellFounded
  <1>2. \A x, y \in Nat : x < y => <<x, y>> \in R
    BY DEF OpToRel
  <1> HIDE DEF R
  <1>3. PICK n \in T : \A m \in T : <<m, n>> \notin R
    <2>1. T \subseteq Nat
      OBVIOUS
    <2> HIDE DEF T
    <2> QED BY <1>1, <2>1, WFMin
  <1>4. n \in Nat /\ n # 0
    OBVIOUS
  <1>5. n - 1 \in Nat /\ n - 1 < n
    BY <1>4
  <1>6. <<n - 1, n>> \in R
    BY <1>2, <1>4, <1>5
  <1>7. n - 1 \in S
    BY <1>3, <1>5, <1>6
  <1>8. (n - 1) + 1 \in S
    BY <1>5, <1>7
  <1> QED BY <1>4, <1>8
-----------------------------------------------------------------------------
(* One parameter read several times.  Reads is the function ReadTimes      *)
(* computes: after k repetitions, the states the reader may be in.         *)
IsReads(read, code, pos, p, times, state) ==
  read = [k \in 0..times |->
             IF k = 0 THEN {state}
             ELSE UNION {ReadOne(code, pos, p, s) : s \in read[k - 1]}]

LEMMA ReadsExists ==
  ASSUME NEW code, NEW pos, NEW p, NEW state, NEW n \in Nat
  PROVE  \E read : IsReads(read, code, pos, p, n, state)
  <1> DEFINE next(set) == UNION {ReadOne(code, pos, p, s) : s \in set}
             S == {m \in Nat : \E read : IsReads(read, code, pos, p, m, state)}
  <1>1. 0 \in S
    <2> DEFINE f == [k \in 0..0 |-> {state}]
    <2>1. f = [k \in 0..0 |-> IF k = 0 THEN {state} ELSE next(f[k - 1])]
      OBVIOUS
    <2> QED BY <2>1 DEF IsReads
  <1>2. ASSUME NEW m \in Nat, m \in S
        PROVE  m + 1 \in S
    <2>1. PICK f : f = [k \in 0..m |-> IF k = 0 THEN {state} ELSE next(f[k - 1])]
      BY <1>2 DEF IsReads
    <2> HIDE DEF next
    <2> DEFINE g == [k \in 0..(m + 1) |-> IF k <= m THEN f[k] ELSE next(f[m])]
    <2>2. ASSUME NEW k \in 0..(m + 1)
          PROVE  g[k] = IF k = 0 THEN {state} ELSE next(g[k - 1])
      <3>1. CASE k = 0
        BY <2>1, <3>1
      <3>2. CASE k \in 1..m
        <4>1. k \in 0..m /\ k - 1 \in 0..m /\ k - 1 \in 0..(m + 1) /\ k - 1 <= m
              /\ k <= m /\ k # 0
          BY <3>2
        <4>2. f[k] = next(f[k - 1])
          BY <2>1, <4>1
        <4>3. g[k] = f[k] /\ g[k - 1] = f[k - 1]
          BY <4>1
        <4> HIDE DEF g
        <4> QED BY <4>1, <4>2, <4>3
      <3>3. CASE k = m + 1
        <4>1. k # 0 /\ ~(k <= m) /\ k - 1 = m /\ m \in 0..(m + 1)
          BY <3>3
        <4>2. g[k] = next(f[m]) /\ g[m] = f[m]
          BY <4>1
        <4> HIDE DEF g
        <4> QED BY <4>1, <4>2
      <3> QED BY <3>1, <3>2, <3>3
    <2>3. g = [k \in 0..(m + 1) |-> g[k]]
      OBVIOUS
    <2> HIDE DEF g
    <2>4. g = [k \in 0..(m + 1) |-> IF k = 0 THEN {state} ELSE next(g[k - 1])]
      BY <2>2, <2>3
    <2>5. IsReads(g, code, pos, p, m + 1, state)
      BY <2>4 DEF IsReads, next
    <2> QED BY <2>5
  <1> HIDE DEF S
  <1>3. Nat \subseteq S
    BY <1>1, <1>2, Induction
  <1> QED BY <1>3 DEF S

Reads(code, pos, p, times, state) ==
  CHOOSE read : IsReads(read, code, pos, p, times, state)

LEMMA ReadTimesIsReads ==
  ASSUME NEW code, NEW pos, NEW p, NEW state, NEW n \in Nat,
         NEW times \in Nat, times = Min({n, Len(code) + 1})
  PROVE  ReadTimes(code, pos, p, n, state) = Reads(code, pos, p, times, state)[times]
  BY DEF ReadTimes, Reads, IsReads

\* A set the reader's states are in, k repetitions on.
LEMMA ReadsUnfold ==
  ASSUME NEW code, NEW pos, NEW p, NEW state, NEW times \in Nat
  PROVE  LET read == Reads(code, pos, p, times, state)
         IN  /\ read[0] = {state}
             /\ \A k \in 0..(times - 1) :
                    read[k + 1] = UNION {ReadOne(code, pos, p, s) : s \in read[k]}
  <1> DEFINE read == Reads(code, pos, p, times, state)
  <1>1. read = [k \in 0..times |->
                   IF k = 0 THEN {state}
                   ELSE UNION {ReadOne(code, pos, p, s) : s \in read[k - 1]}]
    <2>1. IsReads(read, code, pos, p, times, state)
      BY ReadsExists DEF Reads
    <2> QED BY <2>1 DEF IsReads
  <1> HIDE DEF read
  <1>2. read[0] = {state}
    BY <1>1
  <1>3. ASSUME NEW k \in 0..(times - 1)
        PROVE  read[k + 1] = UNION {ReadOne(code, pos, p, s) : s \in read[k]}
    <2>1. k + 1 \in 0..times /\ k + 1 # 0 /\ (k + 1) - 1 = k
      OBVIOUS
    <2> DEFINE j == k + 1
    <2>2. j \in 0..times /\ j # 0 /\ j - 1 = k
      BY <2>1
    <2> HIDE DEF j
    <2>3. read[j] = UNION {ReadOne(code, pos, p, s) : s \in read[j - 1]}
      BY <1>1, <2>2
    <2> QED BY <2>2, <2>3 DEF j
  <1> QED BY <1>2, <1>3 DEF read
-----------------------------------------------------------------------------
\* The operator table: what TableAssumption says of one row.
LEMMA RowTyped ==
  ASSUME NEW n \in DOMAIN Ops
  PROVE  /\ n \in Nat /\ n \in Int
         /\ Ops[n].code \in Seq(Byte) /\ Len(Ops[n].code) \in Nat
         /\ Ops[n].params \in Seq(Param) /\ Len(Ops[n].params) \in Nat
  BY TableAssumption

\* The type and condition tables give numbers.
LEMMA TypeTablesTyped ==
  /\ \A b : TypeFromByte(b) \in SUBSET Nat
  /\ \A b \in Nat : CondFromByte(b) \in SUBSET Nat
  <1>1. \A i \in DOMAIN TypeByteToOT : TypeByteToOT[i] \in Nat \cup {-1}
    BY DEF TypeByteToOT
  <1>2. \A b : TypeFromByte(b) \in SUBSET Nat
    BY <1>1 DEF TypeFromByte
  <1>3. \A b \in Nat : CondFromByte(b) \in SUBSET Nat
    BY DEF CondFromByte
  <1> QED BY <1>2, <1>3

\* A coded type is one of the operator's, so the type it leaves pending is too.
LEMMA CodedTypeTyped ==
  ASSUME NEW code, NEW pos, NEW p \in Param
  PROVE  CodedType(code, pos, p) \in SUBSET Nat
  <1>1. p.pairs \in Seq(Nat \X Nat)
    BY DEF Param
  <1>2. \A i \in DOMAIN p.pairs : p.pairs[i] \in Nat \X Nat
    BY <1>1
  <1>3. \A i \in DOMAIN p.pairs : p.pairs[i][1] \in Nat
    BY <1>2
  <1> QED BY <1>3 DEF CodedType

\* The operands that stand for a type or a condition are accesses.
LEMMA TypeAccessTyped ==
  ASSUME NEW n \in Nat
  PROVE  /\ TypeAccess(n) \in Access /\ CondAccess(n) \in Access
  <1>1. OT.Void \in Nat /\ BitsOf(n) \in Word
    BY WordOperations DEF OT
  <1> QED BY <1>1, ConstructorsTyped DEF TypeAccess, CondAccess

\* Whatever the parameter: the operand it reads is an access and ends in the blob.
LEMMA ParamOperandTyped ==
  ASSUME NEW code \in Seq(Byte), NEW pos, NEW p \in Param, p.kind # "flag",
         NEW rpos \in 0..Len(code), NEW pending \in SUBSET Nat,
         NEW got \in ParamOperand(code, pos, p, rpos, pending)
  PROVE  /\ got.acc \in Access /\ got.end \in Nat
         /\ got.end >= rpos /\ got.end <= Len(code)
         /\ p.kind # "coding" => got.end >= rpos + 1
  <1>2. Len(code) \in Nat
    OBVIOUS
  <1>3. CASE p.kind = "coding"
    <2>1. PICK ot \in CodedType(code, pos, p) : got = [end |-> rpos, acc |-> TypeAccess(ot)]
      BY <1>3 DEF ParamOperand
    <2>2. ot \in Nat
      BY CodedTypeTyped
    <2> QED BY <1>2, <1>3, <2>1, <2>2, TypeAccessTyped
  <1>4. CASE p.kind = "type"
    <2>1. CanTake(code, rpos, 1)
      BY <1>4 DEF ParamOperand
    <2>2. PICK ot \in TypeFromByte(Peek(code, rpos)) :
            got = [end |-> rpos + 1, acc |-> TypeAccess(ot)]
      BY <1>4 DEF ParamOperand
    <2>3. ot \in Nat
      BY TypeTablesTyped
    <2> QED BY <1>2, <2>1, <2>2, <2>3, TypeAccessTyped DEF CanTake
  <1>5. CASE p.kind = "cond"
    <2>1. CanTake(code, rpos, 1)
      BY <1>5 DEF ParamOperand
    <2>2. PICK c \in CondFromByte(Peek(code, rpos)) :
            got = [end |-> rpos + 1, acc |-> CondAccess(c)]
      BY <1>5 DEF ParamOperand
    <2>3. Peek(code, rpos) \in Nat
      <3>1. rpos + 1 \in 1..Len(code)
        BY <1>2, <2>1 DEF CanTake
      <3>2. code[rpos + 1] \in Byte
        BY <1>2, <3>1
      <3>3. \A b \in Byte : b \in Nat
        BY DEF Byte
      <3>4. Peek(code, rpos) = code[rpos + 1]
        BY <1>2, <3>1 DEF Peek
      <3> QED BY <3>2, <3>3, <3>4, Zenon
    <2>4. c \in Nat
      BY <2>3, TypeTablesTyped
    <2> QED BY <1>2, <2>1, <2>2, <2>4, TypeAccessTyped DEF CanTake
  <1>6. CASE p.kind = "ident"
    <2> DEFINE dts == IF p.ref THEN pending ELSE {p.predef}
    <2>1. got \in DecodeIdent(code, rpos, ReaderConstants, p.mode, p.predef, dts)
      BY <1>6 DEF ParamOperand
    <2>2. p.predef \in Nat
      BY DEF Param
    <2>3. dts \in SUBSET Nat /\ ReaderConstants \in Seq(Byte)
      BY <2>2 DEF ReaderConstants
    <2> HIDE DEF dts
    <2>4. got.end \in (rpos + 1)..Len(code)
      BY <1>2, <2>1, DecodeIdentAdvances
    <2>5. got.acc \in Access
      BY <1>2, <2>1, <2>2, <2>3, DecodeIdentTyped
    <2> QED BY <1>2, <2>4, <2>5
  <1>7. p.kind \in {"flag", "coding", "type", "cond", "ident"}
    BY DEF Param
  <1> QED BY <1>3, <1>4, <1>5, <1>6, <1>7

\* There is at most one: of equal codes the last counts, a byte is one type.
LEMMA ParamOperandSingle ==
  ASSUME NEW code \in Seq(Byte), NEW pos, NEW p \in Param, p.kind # "flag",
         NEW rpos \in 0..Len(code), NEW pending
  PROVE  AtMostOne(ParamOperand(code, pos, p, rpos, pending))
  <1>1. AtMostOne(CodedType(code, pos, p))
    <2> DEFINE bits == LowBits(ShiftRight(BitsOf(code[pos + p.byte + 1]), p.bit), CodingWidth(p))
               hits == {i \in DOMAIN p.pairs : BitsOf(p.pairs[i][2]) = bits}
               last == {j \in hits : \A k \in hits : k <= j}
    <2>1. hits \subseteq Int
      BY DEF Param
    <2>2. \A i, j \in last : i = j
      BY <2>1
    <2>3. CodedType(code, pos, p) = {p.pairs[i][1] : i \in last}
      BY DEF CodedType
    <2> HIDE DEF last
    <2> QED BY <2>2, <2>3 DEF AtMostOne
  <1>2. \A b : AtMostOne(TypeFromByte(b)) /\ AtMostOne(CondFromByte(b))
    BY DEF AtMostOne, TypeFromByte, CondFromByte
  <1>3. \A dts : AtMostOne(DecodeIdent(code, rpos, ReaderConstants, p.mode, p.predef, dts))
    BY DecodeIdentSingle
  <1>4. CASE p.kind = "coding"
    BY <1>1, <1>4 DEF AtMostOne, ParamOperand
  <1>5. CASE p.kind = "type"
    BY <1>2, <1>5 DEF AtMostOne, ParamOperand
  <1>6. CASE p.kind = "cond"
    BY <1>2, <1>6 DEF AtMostOne, ParamOperand
  <1>7. CASE p.kind = "ident"
    BY <1>3, <1>7 DEF AtMostOne, ParamOperand
  <1>8. p.kind \in {"flag", "coding", "type", "cond", "ident"}
    BY DEF Param
  <1> QED BY <1>4, <1>5, <1>6, <1>7, <1>8
-----------------------------------------------------------------------------
\* The states of the reader at or behind an offset.
ReaderState(code, from) ==
  [rpos : from..Len(code), pending : SUBSET Nat, multiple : Nat \cup {-1},
   operands : Seq(Access)]

\* One operand more: the reader goes on by a byte, but for a coded type.
LEMMA ReadOneTyped ==
  ASSUME NEW code \in Seq(Byte), NEW pos, NEW p \in Param, p.kind # "flag",
         NEW from \in Nat, NEW s \in ReaderState(code, from),
         NEW t \in ReadOne(code, pos, p, s)
  PROVE  /\ t \in ReaderState(code, from)
         /\ t.rpos >= s.rpos /\ (p.kind # "coding" => t.rpos >= s.rpos + 1)
         /\ t.pending = s.pending /\ t.multiple = s.multiple
         /\ Len(t.operands) = Len(s.operands) + 1
         /\ SubSeq(t.operands, 1, Len(s.operands)) = s.operands
         /\ Len(t.operands) <= MaxOperands
  <1>1. Len(code) \in Nat /\ MaxOperands \in Nat
    BY TableAssumption
  <1>2. /\ s.rpos \in from..Len(code) /\ s.rpos \in 0..Len(code)
        /\ s.pending \in SUBSET Nat /\ s.multiple \in Nat \cup {-1}
        /\ s.operands \in Seq(Access) /\ Len(s.operands) \in Nat
    BY <1>1 DEF ReaderState
  <1>3. PICK got \in ParamOperand(code, pos, p, s.rpos, s.pending) :
          t = [s EXCEPT !.rpos = got.end, !.operands = Append(@, got.acc)]
    BY DEF ReadOne
  <1>4. Len(s.operands) < MaxOperands
    BY DEF ReadOne
  <1>5. /\ got.acc \in Access /\ got.end \in Nat
        /\ got.end >= s.rpos /\ got.end <= Len(code)
        /\ p.kind # "coding" => got.end >= s.rpos + 1
    BY <1>2, ParamOperandTyped
  <1>6. /\ t.rpos = got.end /\ t.operands = Append(s.operands, got.acc)
        /\ t.pending = s.pending /\ t.multiple = s.multiple
    BY <1>3 DEF ReaderState
  <1>7. /\ Append(s.operands, got.acc) \in Seq(Access)
        /\ Len(Append(s.operands, got.acc)) = Len(s.operands) + 1
        /\ SubSeq(Append(s.operands, got.acc), 1, Len(s.operands)) = s.operands
    BY <1>2, <1>5
  <1>8. t \in ReaderState(code, from)
    <2> DEFINE more == Append(s.operands, got.acc)
    <2>1. more \in Seq(Access) /\ got.end \in from..Len(code)
      BY <1>1, <1>2, <1>5, <1>7
    <2>2. t = [s EXCEPT !.rpos = got.end, !.operands = more]
      BY <1>3
    <2> HIDE DEF more
    <2> QED BY <2>1, <2>2 DEF ReaderState
  <1> QED BY <1>1, <1>2, <1>4, <1>5, <1>6, <1>7, <1>8

LEMMA ReadOneSingle ==
  ASSUME NEW code \in Seq(Byte), NEW pos, NEW p \in Param, p.kind # "flag",
         NEW from \in Nat, NEW s \in ReaderState(code, from)
  PROVE  AtMostOne(ReadOne(code, pos, p, s))
  <1>1. s.rpos \in 0..Len(code)
    BY DEF ReaderState
  <1>2. AtMostOne(ParamOperand(code, pos, p, s.rpos, s.pending))
    BY <1>1, ParamOperandSingle
  <1> QED BY <1>2 DEF AtMostOne, ReadOne

(* Behind k repetitions there is at most one state, with k operands more   *)
(* and, when the operands take bytes, at least k bytes further on.         *)
LEMMA ReadsTyped ==
  ASSUME NEW code \in Seq(Byte), NEW pos, NEW p \in Param, p.kind # "flag",
         NEW from \in Nat, NEW state \in ReaderState(code, from), NEW times \in Nat
  PROVE  \A k \in 0..times :
             LET now == Reads(code, pos, p, times, state)[k]
             IN  /\ AtMostOne(now)
                 /\ \A t \in now :
                        /\ t \in ReaderState(code, from)
                        /\ t.rpos >= state.rpos
                        /\ p.kind # "coding" => t.rpos >= state.rpos + k
                        /\ t.pending = state.pending /\ t.multiple = state.multiple
                        /\ Len(t.operands) = Len(state.operands) + k
                        /\ SubSeq(t.operands, 1, Len(state.operands)) = state.operands
                        /\ k > 0 => Len(t.operands) <= MaxOperands
  <1> DEFINE read == Reads(code, pos, p, times, state)
             Good(t, k) == /\ t \in ReaderState(code, from)
                           /\ t.rpos >= state.rpos
                           /\ p.kind # "coding" => t.rpos >= state.rpos + k
                           /\ t.pending = state.pending /\ t.multiple = state.multiple
                           /\ Len(t.operands) = Len(state.operands) + k
                           /\ SubSeq(t.operands, 1, Len(state.operands)) = state.operands
                           /\ k > 0 => Len(t.operands) <= MaxOperands
             S == {k \in Nat : k <= times =>
                       AtMostOne(read[k]) /\ \A t \in read[k] : Good(t, k)}
  <1>1. /\ read[0] = {state}
        /\ \A k \in 0..(times - 1) :
               read[k + 1] = UNION {ReadOne(code, pos, p, s) : s \in read[k]}
    BY ReadsUnfold
  <1> HIDE DEF read
  <1>2. state.rpos \in Nat /\ state.operands \in Seq(Access)
    BY DEF ReaderState
  <1>3. 0 \in S
    <2>1. SubSeq(state.operands, 1, Len(state.operands)) = state.operands
      BY <1>2
    <2>2. Good(state, 0)
      BY <1>2, <2>1
    <2> QED BY <1>1, <2>2 DEF AtMostOne
  <1>4. ASSUME NEW k \in Nat, k \in S
        PROVE  k + 1 \in S
    <2> SUFFICES ASSUME k + 1 <= times
                 PROVE  AtMostOne(read[k + 1]) /\ \A t \in read[k + 1] : Good(t, k + 1)
      <3> HIDE DEF Good
      <3> QED OBVIOUS
    <2>1. k \in 0..(times - 1) /\ k <= times
      <3> HIDE DEF S, Good
      <3> QED OBVIOUS
    <2>2. AtMostOne(read[k]) /\ \A s \in read[k] : Good(s, k)
      BY <1>4, <2>1
    <2>3. read[k + 1] = UNION {ReadOne(code, pos, p, s) : s \in read[k]}
      BY <1>1, <2>1
    <2>4. ASSUME NEW s \in read[k], NEW t \in ReadOne(code, pos, p, s)
          PROVE  Good(t, k + 1)
      <3>1. Good(s, k) /\ s \in ReaderState(code, from)
        BY <2>2
      <3>2. /\ t \in ReaderState(code, from)
            /\ t.rpos >= s.rpos /\ (p.kind # "coding" => t.rpos >= s.rpos + 1)
            /\ t.pending = s.pending /\ t.multiple = s.multiple
            /\ Len(t.operands) = Len(s.operands) + 1
            /\ SubSeq(t.operands, 1, Len(s.operands)) = s.operands
            /\ Len(t.operands) <= MaxOperands
        BY <3>1, ReadOneTyped
      <3>3. /\ s.rpos \in Nat /\ t.rpos \in Nat
            /\ s.operands \in Seq(Access) /\ t.operands \in Seq(Access)
        BY <3>1, <3>2 DEF ReaderState
      <3>4. SubSeq(t.operands, 1, Len(state.operands)) = state.operands
        <4> DEFINE n == Len(state.operands)
                   m == Len(s.operands)
        <4>1. n \in Nat /\ m \in Nat /\ n <= m /\ m <= Len(t.operands)
          BY <1>2, <3>1, <3>2, <3>3
        <4>2. SubSeq(SubSeq(t.operands, 1, m), 1, n) = SubSeq(t.operands, 1, n)
          <5> HIDE DEF n, m
          <5> QED BY <3>3, <4>1
        <4> QED BY <3>1, <3>2, <4>2
      <3> DEFINE ls == Len(s.operands)
                 lt == Len(t.operands)
                 l0 == Len(state.operands)
      <3>5. ls \in Nat /\ lt \in Nat /\ l0 \in Nat /\ ls = l0 + k /\ lt = ls + 1
        BY <1>2, <3>1, <3>2, <3>3
      <3>6. lt = l0 + (k + 1)
        <4> HIDE DEF ls, lt, l0
        <4> QED BY <3>5
      <3>7. t.rpos >= state.rpos /\ (p.kind # "coding" => t.rpos >= state.rpos + (k + 1))
        BY <1>2, <3>1, <3>2, <3>3
      <3> QED BY <3>1, <3>2, <3>4, <3>6, <3>7
    <2>5. ASSUME NEW s \in read[k]
          PROVE  AtMostOne(ReadOne(code, pos, p, s))
      BY <2>2, <2>5, ReadOneSingle
    <2>6. AtMostOne(read[k + 1])
      <3> SUFFICES ASSUME NEW q \in read[k + 1], NEW r \in read[k + 1] PROVE q = r
        BY DEF AtMostOne
      <3>1. PICK s \in read[k] : q \in ReadOne(code, pos, p, s)
        BY <2>3
      <3>2. PICK u \in read[k] : r \in ReadOne(code, pos, p, u)
        BY <2>3
      <3>3. s = u
        BY <2>2 DEF AtMostOne
      <3> QED BY <2>5, <3>1, <3>2, <3>3 DEF AtMostOne
    <2>7. \A t \in read[k + 1] : Good(t, k + 1)
      <3> HIDE DEF Good
      <3> QED BY <2>3, <2>4
    <2> QED BY <2>6, <2>7
  <1> HIDE DEF S
  <1>5. Nat \subseteq S
    BY <1>3, <1>4, Induction
  <1> QED BY <1>5 DEF S, read
-----------------------------------------------------------------------------
\* What min returns of two numbers.
LEMMA MinIsLess ==
  ASSUME NEW a \in Int, NEW b \in Int
  PROVE  Min({a, b}) = IF a <= b THEN a ELSE b
  <1>1. CASE a <= b
    <2>1. \A m \in {a, b} : (\A y \in {a, b} : m <= y) => m = a
      BY <1>1
    <2>2. a \in {a, b} /\ \A y \in {a, b} : a <= y
      BY <1>1
    <2> QED BY <1>1, <2>1, <2>2 DEF Min
  <1>2. CASE ~(a <= b)
    <2>1. \A m \in {a, b} : (\A y \in {a, b} : m <= y) => m = b
      BY <1>2
    <2>2. b \in {a, b} /\ \A y \in {a, b} : b <= y
      BY <1>2
    <2> QED BY <1>2, <2>1, <2>2 DEF Min
  <1> QED BY <1>1, <1>2

\* What an operand leaves behind for the parameters after it.
LEMMA AfterTyped ==
  ASSUME NEW acc \in Access, NEW p, NEW pending \in SUBSET Nat,
         NEW multiple \in Nat \cup {-1}
  PROVE  /\ PendingAfter(p, acc, pending) \in SUBSET Nat
         /\ CountAfter(p, acc, multiple) \in Nat \cup {-1}
  <1>1. acc.dt \in Nat
    BY DEF Access, AccessOf
  <1>2. PendingAfter(p, acc, pending) \in SUBSET Nat
    BY <1>1 DEF PendingAfter
  <1>3. CountAfter(p, acc, multiple) \in Nat \cup {-1}
    BY IntValueIsNat DEF CountAfter
  <1> QED BY <1>2, <1>3

\* The number of repetitions that decode_params is to make, and those that matter.
RepeatsOf(op, i, state) == TimesRead(op, i, state.multiple)
Bounded(code, n) == IF n <= Len(code) + 1 THEN n ELSE Len(code) + 1

\* The state behind a parameter whose last repetition led to t.
DoneWith(p, t) ==
  LET last == t.operands[Len(t.operands)]
  IN  [t EXCEPT !.pending = PendingAfter(p, last, @), !.multiple = CountAfter(p, last, @)]

DoneFrom(p, now) == {DoneWith(p, t) : t \in now}
Unread(state)    == {[state EXCEPT !.pending = {}]}

\* Together: the repetitions of a parameter, no more than the blob has bytes, and one.
TimesOf(code, op, i, state) == Bounded(code, RepeatsOf(op, i, state))

LEMMA TimesOfTyped ==
  ASSUME NEW code \in Seq(Byte), NEW op, NEW i, NEW state,
         state.multiple \in Nat \cup {-1}
  PROVE  /\ RepeatsOf(op, i, state) \in Nat /\ TimesOf(code, op, i, state) \in Nat
         /\ RepeatsOf(op, i, state) = 0 <=> TimesOf(code, op, i, state) = 0
         /\ TimesOf(code, op, i, state) = Min({RepeatsOf(op, i, state), Len(code) + 1})
  <1>1. RepeatsOf(op, i, state) \in Nat
    BY DEF RepeatsOf, TimesRead
  <1>2. Len(code) \in Nat
    OBVIOUS
  <1> QED BY <1>1, <1>2, MinIsLess DEF Bounded, TimesOf

LEMMA ReadParamIsReads ==
  ASSUME NEW code \in Seq(Byte), NEW pos, NEW op, NEW i, NEW state,
         state.multiple \in Nat \cup {-1}, op.params[i].kind # "flag",
         RepeatsOf(op, i, state) # 0
  PROVE  ReadParam(code, pos, op, i, state) =
             DoneFrom(op.params[i],
                      Reads(code, pos, op.params[i], TimesOf(code, op, i, state), state)
                           [TimesOf(code, op, i, state)])
  <1> DEFINE p == op.params[i]
             n == RepeatsOf(op, i, state)
             times == TimesOf(code, op, i, state)
  <1>1. n \in Nat /\ times \in Nat /\ times = Min({n, Len(code) + 1})
    BY TimesOfTyped
  <1>2. ReadTimes(code, pos, p, n, state) = Reads(code, pos, p, times, state)[times]
    <2> HIDE DEF n, times, p
    <2> QED BY <1>1, ReadTimesIsReads
  <1> HIDE DEF times
  <1>3. ReadParam(code, pos, op, i, state) = DoneFrom(p, ReadTimes(code, pos, p, n, state))
    BY DEF ReadParam, DoneWith, DoneFrom, RepeatsOf
  <1> HIDE DEF p, n
  <1> QED BY <1>2, <1>3 DEF p, times

LEMMA ReadParamReadsNone ==
  ASSUME NEW code, NEW pos, NEW op, NEW i, NEW state
  PROVE  /\ op.params[i].kind = "flag" => ReadParam(code, pos, op, i, state) = {state}
         /\ op.params[i].kind # "flag" /\ RepeatsOf(op, i, state) = 0 =>
                ReadParam(code, pos, op, i, state) = Unread(state)
  BY DEF ReadParam, Unread, RepeatsOf

\* One parameter more: at most one state, not further back.
LEMMA ReadParamTyped ==
  ASSUME NEW code \in Seq(Byte), NEW pos, NEW op, op.params \in Seq(Param),
         NEW i \in 1..Len(op.params), NEW from \in Nat,
         NEW state \in ReaderState(code, from)
  PROVE  /\ AtMostOne(ReadParam(code, pos, op, i, state))
         /\ \A t \in ReadParam(code, pos, op, i, state) :
                t \in ReaderState(code, from) /\ t.rpos >= state.rpos
  <1> DEFINE p == op.params[i]
             n == RepeatsOf(op, i, state)
             times == TimesOf(code, op, i, state)
             now == Reads(code, pos, p, times, state)[times]
  <1>1. p \in Param
    OBVIOUS
  <1>2. state.multiple \in Nat \cup {-1} /\ state.rpos \in Nat
    BY DEF ReaderState
  <1>3. /\ n \in Nat /\ times \in Nat /\ (n = 0 <=> times = 0)
        /\ p.kind = "flag" => ReadParam(code, pos, op, i, state) = {state}
        /\ p.kind # "flag" /\ n = 0 =>
               ReadParam(code, pos, op, i, state) = Unread(state)
        /\ p.kind # "flag" /\ n # 0 =>
               ReadParam(code, pos, op, i, state) = DoneFrom(p, now)
    <2>1. n \in Nat /\ times \in Nat /\ (n = 0 <=> times = 0)
      BY <1>2, TimesOfTyped
    <2>2. p.kind = "flag" => ReadParam(code, pos, op, i, state) = {state}
      BY ReadParamReadsNone
    <2>3. p.kind # "flag" /\ n = 0 => ReadParam(code, pos, op, i, state) = Unread(state)
      BY ReadParamReadsNone
    <2>4. p.kind # "flag" /\ n # 0 =>
              ReadParam(code, pos, op, i, state) = DoneFrom(p, now)
      BY <1>2, ReadParamIsReads, Zenon
    <2> QED BY <2>1, <2>2, <2>3, <2>4
  <1>4. CASE p.kind = "flag"
    BY <1>2, <1>3, <1>4 DEF AtMostOne
  <1>5. CASE p.kind # "flag" /\ n = 0
    <2> DEFINE none == {}
               t == [state EXCEPT !.pending = none]
    <2>1. none \in SUBSET Nat
      OBVIOUS
    <2>2. t \in ReaderState(code, from) /\ t.rpos = state.rpos
      <3> HIDE DEF none
      <3> QED BY <2>1 DEF ReaderState
    <2>3. ReadParam(code, pos, op, i, state) = {t}
      BY <1>3, <1>5 DEF Unread
    <2> HIDE DEF t
    <2> QED BY <1>2, <2>2, <2>3 DEF AtMostOne
  <1>6. CASE p.kind # "flag" /\ n # 0
    <2> HIDE DEF p, n, times
    <2>1. /\ AtMostOne(now)
          /\ \A t \in now : /\ t \in ReaderState(code, from) /\ t.rpos >= state.rpos
                            /\ Len(t.operands) = Len(state.operands) + times
      <3>1. times \in 0..times
        BY <1>3
      <3>2. p \in Param /\ times \in Nat /\ p.kind # "flag"
        BY <1>1, <1>3, <1>6
      <3>3. \A k \in 0..times :
             LET at == Reads(code, pos, p, times, state)[k]
             IN  /\ AtMostOne(at)
                 /\ \A t \in at :
                        /\ t \in ReaderState(code, from)
                        /\ t.rpos >= state.rpos
                        /\ p.kind # "coding" => t.rpos >= state.rpos + k
                        /\ t.pending = state.pending /\ t.multiple = state.multiple
                        /\ Len(t.operands) = Len(state.operands) + k
                        /\ SubSeq(t.operands, 1, Len(state.operands)) = state.operands
                        /\ k > 0 => Len(t.operands) <= MaxOperands
        BY <3>2, ReadsTyped
      <3> QED BY <3>1, <3>3, Zenon
    <2>2. ASSUME NEW t \in now
          PROVE  DoneWith(p, t) \in ReaderState(code, from) /\ DoneWith(p, t).rpos = t.rpos
      <3>1. t \in ReaderState(code, from) /\ Len(t.operands) = Len(state.operands) + times
        BY <2>1
      <3>2. t.operands \in Seq(Access) /\ Len(t.operands) \in Nat
            /\ Len(state.operands) \in Nat
        BY <3>1 DEF ReaderState
      <3>3. Len(t.operands) \in 1..Len(t.operands)
        <4> DEFINE lt == Len(t.operands)
                   ls == Len(state.operands)
        <4> HIDE DEF lt, ls
        <4>1. lt \in Nat /\ ls \in Nat /\ lt = ls + times /\ times \in Nat /\ times # 0
          BY <1>3, <1>6, <3>1, <3>2 DEF lt, ls
        <4>2. lt \in 1..lt
          BY <4>1
        <4> QED BY <4>2 DEF lt
      <3> DEFINE last == t.operands[Len(t.operands)]
                 pending == PendingAfter(p, last, t.pending)
                 multiple == CountAfter(p, last, t.multiple)
      <3>4. last \in Access
        BY <3>2, <3>3
      <3>5. t.pending \in SUBSET Nat /\ t.multiple \in Nat \cup {-1}
        BY <3>1 DEF ReaderState
      <3>6. pending \in SUBSET Nat /\ multiple \in Nat \cup {-1}
        BY <3>4, <3>5, AfterTyped
      <3>7. DoneWith(p, t) = [t EXCEPT !.pending = pending, !.multiple = multiple]
        BY DEF DoneWith
      <3> HIDE DEF pending, multiple
      <3> QED BY <3>1, <3>6, <3>7 DEF ReaderState
    <2>3. AtMostOne(DoneFrom(p, now))
      BY <2>1 DEF AtMostOne, DoneFrom
    <2> HIDE DEF now
    <2> QED BY <1>3, <1>6, <2>1, <2>2, <2>3 DEF DoneFrom, ReaderState
  <1> QED BY <1>4, <1>5, <1>6
-----------------------------------------------------------------------------
(* All parameters.  Steps is the function ReadParams computes: behind i    *)
(* parameters, the states the reader may be in.                            *)
IsSteps(read, code, pos, op, n) ==
  read = [i \in 0..n |->
             IF i = 0 THEN {Start(pos, op)}
             ELSE UNION {ReadParam(code, pos, op, i, s) : s \in read[i - 1]}]

LEMMA StepsExist ==
  ASSUME NEW code, NEW pos, NEW op, NEW n \in Nat
  PROVE  \E read : IsSteps(read, code, pos, op, n)
  <1> DEFINE next(set, i) == UNION {ReadParam(code, pos, op, i, s) : s \in set}
             S == {m \in Nat : \E read : IsSteps(read, code, pos, op, m)}
  <1>1. 0 \in S
    <2> DEFINE f == [i \in 0..0 |-> {Start(pos, op)}]
    <2>1. f = [i \in 0..0 |-> IF i = 0 THEN {Start(pos, op)} ELSE next(f[i - 1], i)]
      OBVIOUS
    <2> QED BY <2>1 DEF IsSteps
  <1>2. ASSUME NEW m \in Nat, m \in S
        PROVE  m + 1 \in S
    <2>1. PICK f : f = [i \in 0..m |-> IF i = 0 THEN {Start(pos, op)}
                                       ELSE next(f[i - 1], i)]
      BY <1>2 DEF IsSteps
    <2> HIDE DEF next
    <2> DEFINE g == [i \in 0..(m + 1) |-> IF i <= m THEN f[i] ELSE next(f[m], m + 1)]
    <2>2. ASSUME NEW i \in 0..(m + 1)
          PROVE  g[i] = IF i = 0 THEN {Start(pos, op)} ELSE next(g[i - 1], i)
      <3>1. CASE i = 0
        BY <2>1, <3>1
      <3>2. CASE i \in 1..m
        <4>1. i \in 0..m /\ i - 1 \in 0..m /\ i - 1 \in 0..(m + 1) /\ i - 1 <= m
              /\ i <= m /\ i # 0
          BY <3>2
        <4>2. f[i] = next(f[i - 1], i)
          BY <2>1, <4>1
        <4>3. g[i] = f[i] /\ g[i - 1] = f[i - 1]
          BY <4>1
        <4> HIDE DEF g
        <4> QED BY <4>1, <4>2, <4>3
      <3>3. CASE i = m + 1
        <4>1. i # 0 /\ ~(i <= m) /\ i - 1 = m /\ m \in 0..(m + 1)
          BY <3>3
        <4>2. g[i] = next(f[m], i) /\ g[m] = f[m]
          BY <3>3, <4>1
        <4> HIDE DEF g
        <4> QED BY <4>1, <4>2
      <3> QED BY <3>1, <3>2, <3>3
    <2>3. g = [i \in 0..(m + 1) |-> g[i]]
      OBVIOUS
    <2> HIDE DEF g
    <2>4. g = [i \in 0..(m + 1) |-> IF i = 0 THEN {Start(pos, op)} ELSE next(g[i - 1], i)]
      BY <2>2, <2>3
    <2>5. IsSteps(g, code, pos, op, m + 1)
      BY <2>4 DEF IsSteps, next
    <2> QED BY <2>5
  <1> HIDE DEF S
  <1>3. Nat \subseteq S
    BY <1>1, <1>2, Induction
  <1> QED BY <1>3 DEF S

Steps(code, pos, op) == CHOOSE read : IsSteps(read, code, pos, op, Len(op.params))

LEMMA StepsUnfold ==
  ASSUME NEW code, NEW pos, NEW op, Len(op.params) \in Nat
  PROVE  LET read == Steps(code, pos, op)
         IN  /\ ReadParams(code, pos, op) = read[Len(op.params)]
             /\ read[0] = {Start(pos, op)}
             /\ \A i \in 1..Len(op.params) :
                    read[i] = UNION {ReadParam(code, pos, op, i, s) : s \in read[i - 1]}
  <1> DEFINE read == Steps(code, pos, op)
             n == Len(op.params)
  <1>1. read = [i \in 0..n |->
                   IF i = 0 THEN {Start(pos, op)}
                   ELSE UNION {ReadParam(code, pos, op, i, s) : s \in read[i - 1]}]
    <2>1. IsSteps(read, code, pos, op, n)
      BY StepsExist DEF Steps
    <2> QED BY <2>1 DEF IsSteps
  <1>2. ReadParams(code, pos, op) = read[n]
    BY DEF ReadParams, Steps, IsSteps
  <1> HIDE DEF read, n
  <1>3. n \in Nat
    BY DEF n
  <1>4. read[0] = {Start(pos, op)}
    BY <1>1, <1>3
  <1>5. ASSUME NEW i \in 1..n
        PROVE  read[i] = UNION {ReadParam(code, pos, op, i, s) : s \in read[i - 1]}
    <2>1. i \in 0..n /\ i # 0
      BY <1>3
    <2> QED BY <1>1, <2>1
  <1> QED BY <1>2, <1>4, <1>5 DEF read, n

(* Behind i parameters there is at most one state, and the reader is at or *)
(* behind the operator's code.                                             *)
LEMMA StepsTyped ==
  ASSUME NEW code \in Seq(Byte), NEW pos \in Nat, NEW op,
         op.code \in Seq(Byte), op.params \in Seq(Param),
         pos + Len(op.code) <= Len(code)
  PROVE  \A i \in 0..Len(op.params) :
             /\ AtMostOne(Steps(code, pos, op)[i])
             /\ \A t \in Steps(code, pos, op)[i] :
                    t \in ReaderState(code, pos + Len(op.code))
  <1> DEFINE read == Steps(code, pos, op)
             n == Len(op.params)
             from == pos + Len(op.code)
             S == {i \in Nat : i <= n =>
                       AtMostOne(read[i]) /\ \A t \in read[i] : t \in ReaderState(code, from)}
  <1>1. n \in Nat /\ from \in Nat /\ from <= Len(code) /\ Len(code) \in Nat
    OBVIOUS
  <1>2. /\ read[0] = {Start(pos, op)}
        /\ \A i \in 1..n : read[i] = UNION {ReadParam(code, pos, op, i, s) : s \in read[i - 1]}
    BY <1>1, StepsUnfold
  <1> HIDE DEF read
  <1>3. 0 \in S
    <2>1. <<>> \in Seq(Access) /\ {} \in SUBSET Nat
      OBVIOUS
    <2>2. Start(pos, op) \in ReaderState(code, from)
      BY <1>1, <2>1 DEF Start, ReaderState
    <2> QED BY <1>2, <2>2 DEF AtMostOne
  <1>4. ASSUME NEW i \in Nat, i \in S
        PROVE  i + 1 \in S
    <2> SUFFICES ASSUME i + 1 <= n
                 PROVE  AtMostOne(read[i + 1]) /\ \A t \in read[i + 1] : t \in ReaderState(code, from)
      OBVIOUS
    <2> HIDE DEF n, from
    <2>1. i <= n /\ i + 1 \in 1..n /\ (i + 1) - 1 = i
      BY <1>1
    <2>2. AtMostOne(read[i]) /\ \A s \in read[i] : s \in ReaderState(code, from)
      BY <1>4, <2>1
    <2>3. read[i + 1] = UNION {ReadParam(code, pos, op, i + 1, s) : s \in read[i]}
      BY <1>2, <2>1
    <2>4. ASSUME NEW s \in read[i]
          PROVE  /\ AtMostOne(ReadParam(code, pos, op, i + 1, s))
                 /\ \A t \in ReadParam(code, pos, op, i + 1, s) : t \in ReaderState(code, from)
      <3>1. s \in ReaderState(code, from) /\ i + 1 \in 1..Len(op.params)
        BY <2>1, <2>2 DEF n
      <3> QED BY <1>1, <3>1, ReadParamTyped
    <2> QED BY <2>2, <2>3, <2>4 DEF AtMostOne
  <1> HIDE DEF S
  <1>5. Nat \subseteq S
    BY <1>3, <1>4, Induction
  <1> QED BY <1>1, <1>5 DEF S, read
-----------------------------------------------------------------------------
\* An operator the index offers at an offset, with a code the blob has room for.
Offered(code, pos) ==
  {n \in FirstIndex(code[pos + 1]) : CodeMatches(code, pos, Ops[n])}

LEMMA OfferedFits ==
  ASSUME NEW code \in Seq(Byte), NEW pos \in Nat, NEW n \in Offered(code, pos)
  PROVE  /\ n \in DOMAIN Ops /\ n \in Nat
         /\ Ops[n].code \in Seq(Byte) /\ Ops[n].params \in Seq(Param)
         /\ Len(Ops[n].code) \in Nat /\ Len(Ops[n].code) >= 1
         /\ pos + Len(Ops[n].code) <= Len(code)
  <1>1. n \in DOMAIN Ops /\ Ops[n].code # <<>>
    BY DEF Offered, FirstIndex
  <1>2. pos + Len(Ops[n].code) <= Len(code)
    BY DEF Offered, CodeMatches, CanTake
  <1>3. /\ n \in Nat /\ Ops[n].code \in Seq(Byte) /\ Ops[n].params \in Seq(Param)
        /\ Len(Ops[n].code) \in Nat
    BY <1>1, RowTyped
  <1>4. Len(Ops[n].code) >= 1
    BY <1>1, <1>3
  <1> QED BY <1>1, <1>2, <1>3, <1>4

\* The score of a candidate is a number, and its flags are those of the table.
LEMMA ScoreTyped ==
  ASSUME NEW code, NEW pos, NEW n \in DOMAIN Ops
  PROVE  /\ Cardinality(FlagsOn(code, pos, Ops[n])) \in Nat
         /\ RestoreFlags(code, pos, Ops[n]) \in SUBSET Nat
  <1>1. Ops[n].params \in Seq(Param) /\ Len(Ops[n].params) \in Nat
    BY RowTyped
  <1>2. FlagsOn(code, pos, Ops[n]) \subseteq 1..Len(Ops[n].params)
    BY <1>1 DEF FlagsOn
  <1>3. IsFiniteSet(1..Len(Ops[n].params))
    BY <1>1, FS_Interval
  <1>4. IsFiniteSet(FlagsOn(code, pos, Ops[n]))
    BY <1>2, <1>3, FS_Subset
  <1>5. Cardinality(FlagsOn(code, pos, Ops[n])) \in Nat
    BY <1>4, FS_CardinalityType
  <1>6. \A i \in 1..Len(Ops[n].params) : Ops[n].params[i].flag \in Nat
    <2>1. \A i \in 1..Len(Ops[n].params) : Ops[n].params[i] \in Param
      BY <1>1
    <2> QED BY <2>1 DEF Param
  <1>7. RestoreFlags(code, pos, Ops[n]) \in SUBSET Nat
    BY <1>2, <1>6 DEF RestoreFlags
  <1> QED BY <1>5, <1>7

\* The reading of operator n, as decode_best_at records it.
ReadingOf(code, pos, n, s) ==
  [op |-> n, end |-> s.rpos, operands |-> s.operands,
   score |-> Cardinality(FlagsOn(code, pos, Ops[n])),
   flags |-> RestoreFlags(code, pos, Ops[n])]

Reading == [op : DOMAIN Ops, end : Nat, operands : Seq(Access), score : Nat,
            flags : SUBSET Nat]

\* Where a parameter list is read to its end the readings are, one per operator.
LEMMA ReadingsTyped ==
  ASSUME NEW code \in Seq(Byte), NEW pos \in Nat
  PROVE  /\ \A r : r \in Readings(code, pos) <=>
                       \E n \in Offered(code, pos) :
                           \E s \in ReadParams(code, pos, Ops[n]) :
                               r = ReadingOf(code, pos, n, s)
         /\ \A r \in Readings(code, pos) :
                /\ r \in Reading /\ r.op \in Offered(code, pos)
                /\ r.end >= pos + Len(Ops[r.op].code) /\ r.end <= Len(code)
                /\ r.end > pos
         /\ \A q, r \in Readings(code, pos) : q.op = r.op => q = r
  <1>1. ASSUME NEW n \in Offered(code, pos)
        PROVE  /\ AtMostOne(ReadParams(code, pos, Ops[n]))
               /\ \A s \in ReadParams(code, pos, Ops[n]) :
                      s \in ReaderState(code, pos + Len(Ops[n].code))
    <2>1. /\ Ops[n].code \in Seq(Byte) /\ Ops[n].params \in Seq(Param)
          /\ pos + Len(Ops[n].code) <= Len(code)
      BY OfferedFits
    <2>2. Len(Ops[n].params) \in Nat /\ Len(Ops[n].params) \in 0..Len(Ops[n].params)
      BY <2>1
    <2>3. ReadParams(code, pos, Ops[n]) = Steps(code, pos, Ops[n])[Len(Ops[n].params)]
      BY <2>2, StepsUnfold
    <2> QED BY <2>1, <2>2, <2>3, StepsTyped
  <1>2. \A r : r \in Readings(code, pos) <=>
                   \E n \in Offered(code, pos) :
                       \E s \in ReadParams(code, pos, Ops[n]) :
                           r = ReadingOf(code, pos, n, s)
    BY DEF Readings, Offered, ReadingOf
  <1>3. ASSUME NEW n \in Offered(code, pos), NEW s \in ReadParams(code, pos, Ops[n])
        PROVE  LET r == ReadingOf(code, pos, n, s)
               IN  /\ r \in Reading /\ r.op = n
                   /\ r.end >= pos + Len(Ops[n].code) /\ r.end <= Len(code)
                   /\ r.end > pos
    <2>1. s.rpos \in (pos + Len(Ops[n].code))..Len(code) /\ s.operands \in Seq(Access)
      BY <1>1 DEF ReaderState
    <2>2. n \in DOMAIN Ops /\ Len(Ops[n].code) \in Nat /\ Len(Ops[n].code) >= 1
      BY OfferedFits
    <2>3. s.rpos \in Nat /\ s.rpos >= pos + Len(Ops[n].code) /\ s.rpos <= Len(code)
          /\ s.rpos > pos
      BY <2>1, <2>2
    <2>4. /\ Cardinality(FlagsOn(code, pos, Ops[n])) \in Nat
          /\ RestoreFlags(code, pos, Ops[n]) \in SUBSET Nat
      BY <2>2, ScoreTyped
    <2> QED BY <2>1, <2>2, <2>3, <2>4 DEF ReadingOf, Reading
  <1>4. \A r \in Readings(code, pos) :
            /\ r \in Reading /\ r.op \in Offered(code, pos)
            /\ r.end >= pos + Len(Ops[r.op].code) /\ r.end <= Len(code)
            /\ r.end > pos
    BY <1>2, <1>3
  <1>5. ASSUME NEW q \in Readings(code, pos), NEW r \in Readings(code, pos), q.op = r.op
        PROVE  q = r
    <2>1. PICK n \in Offered(code, pos) :
            \E s \in ReadParams(code, pos, Ops[n]) : q = ReadingOf(code, pos, n, s)
      BY <1>2
    <2>2. PICK m \in Offered(code, pos) :
            \E s \in ReadParams(code, pos, Ops[m]) : r = ReadingOf(code, pos, m, s)
      BY <1>2
    <2>3. PICK s \in ReadParams(code, pos, Ops[n]) : q = ReadingOf(code, pos, n, s)
      BY <2>1
    <2>4. PICK t \in ReadParams(code, pos, Ops[m]) : r = ReadingOf(code, pos, m, t)
      BY <2>2
    <2>5. n = m
      BY <1>5, <2>3, <2>4 DEF ReadingOf
    <2>6. s = t
      BY <1>1, <2>5 DEF AtMostOne
    <2> QED BY <2>3, <2>4, <2>5, <2>6
  <1> QED BY <1>2, <1>4, <1>5

\* decode_best_at: the statement is the reading no other reading is preferred to.
Preferred(r, q) ==
  Beats(r.end, r.score, q) \/ (r.op < q.op /\ ~Beats(q.end, q.score, r))

LEMMA StatementAtIs ==
  ASSUME NEW code \in Seq(Byte), NEW pos \in Nat, pos < Len(code)
  PROVE  \A r : r \in StatementAt(code, pos) <=>
                    /\ r \in Readings(code, pos)
                    /\ \A q \in Readings(code, pos) \ {r} : Preferred(r, q)
  <1>1. ~(pos >= Len(code))
    OBVIOUS
  <1> QED BY <1>1 DEF StatementAt, Preferred

(* There is at most one: mc7p_flow_one and mc7p_decode_one_statement cannot *)
(* see one statement each at the same offset.                              *)
THEOREM StatementTyped ==
  ASSUME NEW code \in Seq(Byte), NEW pos \in Nat
  PROVE  /\ AtMostOne(StatementAt(code, pos))
         /\ \A r \in StatementAt(code, pos) :
                /\ r \in Reading /\ r.op \in Offered(code, pos)
                /\ r.end >= pos + Len(Ops[r.op].code) /\ r.end <= Len(code)
                /\ r.end > pos
  <1>1. CASE pos >= Len(code)
    BY <1>1 DEF StatementAt, AtMostOne
  <1>2. CASE pos < Len(code)
    <2>1. \A r : r \in StatementAt(code, pos) <=>
                     /\ r \in Readings(code, pos)
                     /\ \A q \in Readings(code, pos) \ {r} : Preferred(r, q)
      BY <1>2, StatementAtIs
    <2>2. \A r \in Readings(code, pos) :
                /\ r \in Reading /\ r.op \in Offered(code, pos)
                /\ r.end >= pos + Len(Ops[r.op].code) /\ r.end <= Len(code)
                /\ r.end > pos
      BY ReadingsTyped
    <2>3. ASSUME NEW q \in StatementAt(code, pos), NEW r \in StatementAt(code, pos), q # r
          PROVE  FALSE
      <3>1. Preferred(q, r) /\ Preferred(r, q)
        BY <2>1, <2>3
      <3>2. q \in Reading /\ r \in Reading
        BY <2>1, <2>2
      <3>3. /\ q.end \in Int /\ r.end \in Int /\ q.score \in Int /\ r.score \in Int
            /\ q.op \in Int /\ r.op \in Int
        BY <3>2, TableAssumption DEF Reading
      <3> QED BY <3>1, <3>3 DEF Preferred, Beats
    <2> QED BY <2>1, <2>2, <2>3 DEF AtMostOne
  <1>3. Len(code) \in Nat
    OBVIOUS
  <1> QED BY <1>1, <1>2, <1>3
-----------------------------------------------------------------------------
(* How decode_params gets from one state of the reader to the next: what a *)
(* step of the decoder does is the next of Reads, or the next of Steps.    *)

\* Once no state is left, none comes back.
LEMMA ReadsEmpty ==
  ASSUME NEW code, NEW pos, NEW p, NEW state, NEW times \in Nat,
         NEW k \in 0..times, Reads(code, pos, p, times, state)[k] = {}
  PROVE  Reads(code, pos, p, times, state)[times] = {}
  <1> DEFINE read == Reads(code, pos, p, times, state)
             S == {j \in Nat : k + j <= times => read[k + j] = {}}
  <1>1. \A j \in 0..(times - 1) :
            read[j + 1] = UNION {ReadOne(code, pos, p, s) : s \in read[j]}
    BY ReadsUnfold
  <1>2. read[k] = {}
    OBVIOUS
  <1> HIDE DEF read
  <1>3. 0 \in S
    BY <1>2
  <1>4. ASSUME NEW j \in Nat, j \in S
        PROVE  j + 1 \in S
    <2> SUFFICES ASSUME k + (j + 1) <= times PROVE read[k + (j + 1)] = {}
      OBVIOUS
    <2>1. k + j \in 0..(times - 1) /\ k + j <= times /\ (k + j) + 1 = k + (j + 1)
      OBVIOUS
    <2>2. read[k + j] = {}
      BY <1>4, <2>1
    <2>3. read[(k + j) + 1] = UNION {ReadOne(code, pos, p, s) : s \in read[k + j]}
      BY <1>1, <2>1
    <2> QED BY <2>1, <2>2, <2>3
  <1> HIDE DEF S
  <1>5. times - k \in S
    BY <1>3, <1>4, Induction
  <1>6. k + (times - k) = times
    OBVIOUS
  <1> QED BY <1>5, <1>6 DEF S, read

LEMMA StepsEmpty ==
  ASSUME NEW code, NEW pos, NEW op, Len(op.params) \in Nat,
         NEW i \in 0..Len(op.params), Steps(code, pos, op)[i] = {}
  PROVE  ReadParams(code, pos, op) = {}
  <1> DEFINE read == Steps(code, pos, op)
             n == Len(op.params)
             S == {j \in Nat : i + j <= n => read[i + j] = {}}
  <1>1. /\ ReadParams(code, pos, op) = read[n]
        /\ \A j \in 1..n :
               read[j] = UNION {ReadParam(code, pos, op, j, s) : s \in read[j - 1]}
    BY StepsUnfold
  <1>2. read[i] = {} /\ i \in 0..n /\ n \in Nat
    OBVIOUS
  <1> HIDE DEF read, n
  <1>3. 0 \in S
    BY <1>2
  <1>4. ASSUME NEW j \in Nat, j \in S
        PROVE  j + 1 \in S
    <2> SUFFICES ASSUME i + (j + 1) <= n PROVE read[i + (j + 1)] = {}
      OBVIOUS
    <2> DEFINE k == i + (j + 1)
    <2>1. i + j <= n /\ k \in 1..n /\ k - 1 = i + j
      BY <1>2
    <2> HIDE DEF k
    <2>2. read[k - 1] = {}
      BY <1>4, <2>1
    <2>3. read[k] = UNION {ReadParam(code, pos, op, k, s) : s \in read[k - 1]}
      BY <1>1, <2>1
    <2>4. read[k] = {}
      BY <2>2, <2>3
    <2> QED BY <2>4 DEF k
  <1> HIDE DEF S
  <1>5. n - i \in S
    BY <1>2, <1>3, <1>4, Induction
  <1>6. i + (n - i) = n
    BY <1>2
  <1> QED BY <1>1, <1>2, <1>5, <1>6 DEF S

\* Behind one parameter is what it makes of the one state before it.
LEMMA StepsNext ==
  ASSUME NEW code \in Seq(Byte), NEW pos \in Nat, NEW op,
         op.code \in Seq(Byte), op.params \in Seq(Param),
         pos + Len(op.code) <= Len(code),
         NEW i \in 1..Len(op.params), NEW s \in Steps(code, pos, op)[i - 1]
  PROVE  /\ s \in ReaderState(code, pos + Len(op.code))
         /\ Steps(code, pos, op)[i] = ReadParam(code, pos, op, i, s)
  <1>1. i - 1 \in 0..Len(op.params) /\ Len(op.params) \in Nat
    OBVIOUS
  <1>2. /\ AtMostOne(Steps(code, pos, op)[i - 1])
        /\ s \in ReaderState(code, pos + Len(op.code))
    BY <1>1, StepsTyped
  <1>3. Steps(code, pos, op)[i - 1] = {s}
    BY <1>2 DEF AtMostOne
  <1>4. Steps(code, pos, op)[i] =
            UNION {ReadParam(code, pos, op, i, t) : t \in Steps(code, pos, op)[i - 1]}
    BY <1>1, StepsUnfold
  <1> QED BY <1>2, <1>3, <1>4

\* t is the state after rep repetitions of parameter i, and another one is due.
Due(code, pos, op, i, s, rep, t) ==
  /\ code \in Seq(Byte) /\ pos \in Nat
  /\ op.params[i] \in Param /\ op.params[i].kind # "flag"
  /\ s \in ReaderState(code, 0)
  /\ rep \in Nat /\ rep < RepeatsOf(op, i, s) /\ rep <= TimesOf(code, op, i, s)
  /\ t \in Reads(code, pos, op.params[i], TimesOf(code, op, i, s), s)[rep]

(* One repetition more.  A repetition that matters is still to come: the   *)
(* ones before it took a byte each, and the blob has not that many.        *)
LEMMA OneMore ==
  ASSUME NEW code, NEW pos, NEW op, NEW i, NEW s, NEW rep, NEW t,
         Due(code, pos, op, i, s, rep, t)
  PROVE  /\ TimesOf(code, op, i, s) \in Nat /\ rep + 1 \in 0..TimesOf(code, op, i, s)
         /\ rep + 1 = RepeatsOf(op, i, s) => rep + 1 = TimesOf(code, op, i, s)
         /\ Reads(code, pos, op.params[i], TimesOf(code, op, i, s), s)[rep + 1]
                = ReadOne(code, pos, op.params[i], t)
  <1> DEFINE from == 0
             n == RepeatsOf(op, i, s)
             p == op.params[i]
             times == TimesOf(code, op, i, s)
             read == Reads(code, pos, p, times, s)
  <1>0. /\ code \in Seq(Byte) /\ pos \in Nat /\ s \in ReaderState(code, from)
        /\ p \in Param /\ p.kind # "flag"
        /\ rep \in Nat /\ rep < n /\ rep <= times /\ t \in read[rep]
        /\ p = op.params[i] /\ times = TimesOf(code, op, i, s)
    BY DEF Due
  <1> HIDE DEF p, times
  <1>1. s.multiple \in Nat \cup {-1} /\ s.rpos \in from..Len(code)
    BY <1>0 DEF ReaderState
  <1>2. n \in Nat /\ times \in Nat /\ times = Bounded(code, n)
    BY <1>0, <1>1, TimesOfTyped DEF TimesOf, times
  <1>3. rep \in 0..times
    BY <1>0, <1>2
  <1>4. /\ AtMostOne(read[rep]) /\ t \in ReaderState(code, from)
        /\ p.kind # "coding" => t.rpos >= s.rpos + rep
    <2>1. \A k \in 0..times :
             /\ AtMostOne(read[k])
             /\ \A u \in read[k] :
                    /\ u \in ReaderState(code, from)
                    /\ p.kind # "coding" => u.rpos >= s.rpos + k
      <3>1. /\ p \in Param /\ p.kind # "flag" /\ times \in Nat /\ code \in Seq(Byte)
            /\ from \in Nat /\ s \in ReaderState(code, from)
        BY <1>0, <1>2
      <3> HIDE DEF read
      <3>2. \A k \in 0..times :
             LET at == Reads(code, pos, p, times, s)[k]
             IN  /\ AtMostOne(at)
                 /\ \A u \in at :
                        /\ u \in ReaderState(code, from)
                        /\ u.rpos >= s.rpos
                        /\ p.kind # "coding" => u.rpos >= s.rpos + k
                        /\ u.pending = s.pending /\ u.multiple = s.multiple
                        /\ Len(u.operands) = Len(s.operands) + k
                        /\ SubSeq(u.operands, 1, Len(s.operands)) = s.operands
                        /\ k > 0 => Len(u.operands) <= MaxOperands
        BY ONLY <3>1, ReadsTyped
      <3> QED BY <3>2 DEF read
    <2> QED BY <1>0, <1>3, <2>1
  <1>5. t.rpos \in from..Len(code)
    BY <1>4 DEF ReaderState
  <1>6. p.kind = "coding" => n = 1
    BY DEF RepeatsOf, TimesRead, p
  <1>7. rep + 1 \in 0..times /\ (rep + 1 = n => rep + 1 = times)
    <2> HIDE DEF n
    <2>1. rep < n
      BY <1>0
    <2>2. CASE n <= Len(code) + 1
      BY <1>0, <1>2, <2>1, <2>2 DEF Bounded
    <2>3. CASE ~(n <= Len(code) + 1)
      <3>1. times = Len(code) + 1
        BY <1>0, <1>2, <2>3 DEF Bounded
      <3>2. p.kind # "coding"
        <4>1. Len(code) \in Nat
          BY <1>0
        <4>2. n # 1
          BY <1>0, <1>2, <2>3, <4>1
        <4> QED BY <1>6, <4>2
      <3>3. rep # times
        BY <1>1, <1>4, <1>5, <3>1, <3>2
      <3> QED BY <1>0, <1>2, <1>3, <2>1, <2>3, <3>1, <3>3
    <2> QED BY <2>2, <2>3
  <1>8. rep \in 0..(times - 1)
    BY <1>0, <1>2, <1>7
  <1>9. read[rep + 1] = UNION {ReadOne(code, pos, p, u) : u \in read[rep]}
    BY <1>0, <1>2, <1>8, ReadsUnfold
  <1>10. read[rep] = {t}
    BY <1>0, <1>4 DEF AtMostOne
  <1> HIDE DEF read, n
  <1>11. read[rep + 1] = ReadOne(code, pos, p, t)
    BY <1>9, <1>10
  <1> QED BY <1>0, <1>2, <1>7, <1>11 DEF read, n, p, times
\* One parameter more is one operand more, unless it is a flag.
LEMMA OperandOfNext ==
  ASSUME NEW op, NEW i \in Nat
  PROVE  /\ OperandOf(op, i) \in Nat
         /\ OperandOf(op, 0) = 0
         /\ i # 0 => OperandOf(op, i) = OperandOf(op, i - 1)
                         + IF op.params[i].kind # "flag" THEN 1 ELSE 0
  <1> DEFINE own(k) == {j \in 1..k : op.params[j].kind # "flag"}
  <1>1. ASSUME NEW k \in Nat
        PROVE  IsFiniteSet(own(k)) /\ Cardinality(own(k)) \in Nat
    <2>1. IsFiniteSet(1..k) /\ own(k) \subseteq 1..k
      <3>1. 1 \in Int /\ k \in Int
        OBVIOUS
      <3>2. IsFiniteSet(1..k)
        BY <3>1, FS_Interval
      <3> QED BY <3>2
    <2>2. IsFiniteSet(own(k))
      BY <2>1, FS_Subset
    <2> QED BY <2>2, FS_CardinalityType
  <1>2. own(0) = {} /\ Cardinality(own(0)) = 0
    BY FS_EmptySet
  <1>3. CASE i = 0
    BY <1>1, <1>2, <1>3 DEF OperandOf
  <1>4. CASE i # 0
    <2>1. i - 1 \in Nat /\ i \notin own(i - 1)
      BY <1>4
    <2>2. CASE op.params[i].kind # "flag"
      <3>1. own(i) = own(i - 1) \cup {i}
        BY <1>4, <2>2
      <3>2. Cardinality(own(i)) = Cardinality(own(i - 1)) + 1
        BY <1>1, <2>1, <3>1, FS_AddElement
      <3> QED BY <1>1, <1>2, <2>2, <3>2 DEF OperandOf
    <2>3. CASE op.params[i].kind = "flag"
      <3>1. own(i) = own(i - 1)
        BY <1>4, <2>3
      <3>2. OperandOf(op, i) = OperandOf(op, i - 1) /\ OperandOf(op, i - 1) \in Nat
        BY <1>1, <2>1, <3>1 DEF OperandOf
      <3> QED BY <1>2, <2>3, <3>2 DEF OperandOf
    <2> QED BY <2>2, <2>3
  <1> QED BY <1>3, <1>4

\* The operands of a parameter come after those of the ones before it.
LEMMA OperandOfGrows ==
  ASSUME NEW op, NEW i \in Nat, NEW j \in Nat, i <= j
  PROVE  /\ OperandOf(op, i) <= OperandOf(op, j)
         /\ i # 0 /\ op.params[i].kind # "flag" => OperandOf(op, i) >= 1
  <1> DEFINE own(k) == {x \in 1..k : op.params[x].kind # "flag"}
  <1>1. own(i) \subseteq own(j) /\ IsFiniteSet(own(j))
    <2>1. IsFiniteSet(1..j) /\ own(j) \subseteq 1..j
      <3>1. 1 \in Int /\ j \in Int
        OBVIOUS
      <3>2. IsFiniteSet(1..j)
        BY <3>1, FS_Interval
      <3> QED BY <3>2
    <2>2. IsFiniteSet(own(j))
      BY <2>1, FS_Subset
    <2> QED BY <2>2
  <1>2. OperandOf(op, i) <= OperandOf(op, j)
    BY <1>1, FS_Subset DEF OperandOf
  <1>3. i # 0 => i - 1 \in Nat /\ OperandOf(op, i - 1) \in Nat
    BY OperandOfNext
  <1> QED BY <1>2, <1>3, OperandOfNext

(* The parameters that have an operand: the i-th is the one whose operand  *)
(* is the i-th that is read.                                               *)
LEMMA OwnParamsTyped ==
  ASSUME NEW n \in DOMAIN Ops
  PROVE  LET own == OwnParams(Ops[n])
         IN  /\ own \in Seq(Param)
             /\ \A i \in DOMAIN own : own[i].kind \in {"coding", "type", "cond", "ident"}
             /\ \A i \in DOMAIN own : \E j \in DOMAIN Ops[n].params :
                    own[i] = Ops[n].params[j] /\ OperandOf(Ops[n], j) = i
  <1> DEFINE op  == Ops[n]
             Is(j, i) == op.params[j].kind # "flag" /\ OperandOf(op, j) = i
             len == Len(op.params)
             S   == {k \in Nat : k <= len =>
                        \A i \in 1..OperandOf(op, k) : \E j \in DOMAIN op.params : Is(j, i)}
  <1>1. op.params \in Seq(Param) /\ len \in Nat /\ DOMAIN op.params = 1..len
    BY RowTyped
  <1>2. OwnParams(op) = [i \in 1..OperandOf(op, len) |->
                            op.params[CHOOSE j \in DOMAIN op.params : Is(j, i)]]
    BY DEF OwnParams
  <1> HIDE DEF op, len
  <1>3. 0 \in S
    <2>1. OperandOf(op, 0) = 0
      BY OperandOfNext
    <2> QED BY <2>1
  <1>4. ASSUME NEW k \in Nat, k \in S
        PROVE  k + 1 \in S
    <2> SUFFICES ASSUME k + 1 <= len, NEW i \in 1..OperandOf(op, k + 1)
                 PROVE  \E j \in DOMAIN op.params : Is(j, i)
      OBVIOUS
    <2>1. /\ OperandOf(op, k) \in Nat /\ k + 1 \in Nat /\ k + 1 # 0 /\ (k + 1) - 1 = k
          /\ k <= len /\ k + 1 \in DOMAIN op.params
      BY <1>1, OperandOfNext
    <2>2. OperandOf(op, k + 1) = OperandOf(op, k)
              + IF op.params[k + 1].kind # "flag" THEN 1 ELSE 0
      BY <2>1, OperandOfNext
    <2>3. CASE i \in 1..OperandOf(op, k)
      BY <1>4, <2>1, <2>3
    <2>4. CASE i \notin 1..OperandOf(op, k)
      <3>1. op.params[k + 1].kind # "flag" /\ OperandOf(op, k + 1) = i
        BY <2>1, <2>2, <2>4
      <3> QED BY <2>1, <3>1
    <2> QED BY <2>3, <2>4
  <1> HIDE DEF S
  <1>5. Nat \subseteq S
    BY <1>3, <1>4, Induction
  <1>6. OperandOf(op, len) \in Nat
    BY <1>1, OperandOfNext
  <1>7. ASSUME NEW i \in 1..OperandOf(op, len)
        PROVE  LET j == CHOOSE j \in DOMAIN op.params : Is(j, i)
               IN  op.params[j] \in Param /\ op.params[j].kind # "flag"
    <2>1. \E j \in DOMAIN op.params : Is(j, i)
      BY <1>1, <1>5, <1>7 DEF S
    <2> QED BY <1>1, <2>1
  <1> HIDE DEF Is
  <1>8. \A p \in Param : p.kind # "flag" => p.kind \in {"coding", "type", "cond", "ident"}
    BY DEF Param
  <1>9. /\ OwnParams(op) \in [1..OperandOf(op, len) -> Param]
        /\ \A i \in 1..OperandOf(op, len) : OwnParams(op)[i].kind # "flag"
    BY <1>2, <1>7
  <1>10. OwnParams(op) \in Seq(Param) /\ DOMAIN OwnParams(op) = 1..OperandOf(op, len)
    <2> HIDE DEF Param
    <2> QED BY <1>6, <1>9
  <1>11. ASSUME NEW i \in DOMAIN OwnParams(op)
         PROVE  \E j \in DOMAIN op.params : OwnParams(op)[i] = op.params[j] /\ OperandOf(op, j) = i
    <2>1. \E j \in DOMAIN op.params : Is(j, i)
      BY <1>1, <1>5, <1>10, <1>11 DEF S
    <2>2. OwnParams(op)[i] = op.params[CHOOSE j \in DOMAIN op.params : Is(j, i)]
      BY <1>2, <1>10, <1>11
    <2> QED BY <2>1, <2>2 DEF Is
  <1> QED BY <1>8, <1>9, <1>10, <1>11 DEF op

\* The parameter that the OperandOf-th operand comes from.
LEMMA OwnParamIs ==
  ASSUME NEW row, row.params \in Seq(Param), NEW j \in 1..Len(row.params),
         row.params[j].kind # "flag"
  PROVE  /\ OperandOf(row, j) \in DOMAIN OwnParams(row)
         /\ OwnParams(row)[OperandOf(row, j)] = row.params[j]
         /\ DOMAIN OwnParams(row) = 1..OperandOf(row, Len(row.params))
  <1> DEFINE len == Len(row.params)
             Is(k) == row.params[k].kind # "flag" /\ OperandOf(row, k) = OperandOf(row, j)
  <1>1. len \in Nat /\ DOMAIN row.params = 1..len /\ j \in Nat /\ j # 0 /\ j <= len
    OBVIOUS
  <1>2. OperandOf(row, j) \in 1..OperandOf(row, len)
    <2>1. OperandOf(row, j) \in Nat /\ OperandOf(row, len) \in Nat
      BY <1>1, OperandOfNext
    <2>2. OperandOf(row, j) <= OperandOf(row, len) /\ OperandOf(row, j) >= 1
      BY <1>1, OperandOfGrows
    <2> QED BY <2>1, <2>2
  <1>3. ASSUME NEW k \in DOMAIN row.params, NEW l \in DOMAIN row.params, k < l,
               row.params[l].kind # "flag"
        PROVE  OperandOf(row, k) # OperandOf(row, l)
    <2>1. k \in Nat /\ l \in Nat /\ l # 0 /\ l - 1 \in Nat /\ k <= l - 1
      BY <1>1, <1>3
    <2>2. OperandOf(row, k) \in Nat /\ OperandOf(row, l - 1) \in Nat
      BY <2>1, OperandOfNext
    <2>3. OperandOf(row, l) = OperandOf(row, l - 1) + 1
      BY <1>3, <2>1, OperandOfNext
    <2>4. OperandOf(row, k) <= OperandOf(row, l - 1)
      BY <2>1, OperandOfGrows
    <2> QED BY <2>2, <2>3, <2>4
  <1>4. \A k \in DOMAIN row.params : Is(k) => k = j
    <2> SUFFICES ASSUME NEW k \in DOMAIN row.params, Is(k), k # j
                 PROVE  FALSE
      OBVIOUS
    <2>1. k \in Nat /\ j \in DOMAIN row.params
      BY <1>1
    <2>2. k < j \/ j < k
      BY <1>1, <2>1
    <2> QED BY <1>3, <2>1, <2>2
  <1>5. (CHOOSE k \in DOMAIN row.params : Is(k)) = j
    <2>1. j \in DOMAIN row.params /\ Is(j)
      BY <1>1
    <2> HIDE DEF Is
    <2> QED BY <1>4, <2>1
  <1>6. OwnParams(row) = [i \in 1..OperandOf(row, len) |->
            row.params[CHOOSE k \in DOMAIN row.params :
                           row.params[k].kind # "flag" /\ OperandOf(row, k) = i]]
    BY DEF OwnParams
  <1>7. OwnParams(row)[OperandOf(row, j)] = row.params[CHOOSE k \in DOMAIN row.params : Is(k)]
    <2> HIDE DEF len
    <2> QED BY <1>2, <1>6
  <1> QED BY <1>2, <1>5, <1>6, <1>7
-----------------------------------------------------------------------------
(* Reading a statement from a part of a blob: w is the part of code that   *)
(* the statement at offset o begins.  What ends inside the part is read    *)
(* from the part as it is from the blob.                                   *)
LEMMA ParamOperandInPart ==
  ASSUME NEW w, NEW code, NEW o, WindowOf(w, code, o), NEW p \in Param,
         p.kind # "flag", p.kind = "coding" => p.byte < Len(w),
         NEW q \in Nat, o + q <= Len(code), NEW pending,
         NEW got \in ParamOperand(code, o, p, o + q, pending), got.end <= o + Len(w)
  PROVE  ParamOperand(w, 0, p, q, pending) = {Back(got, o)}
  <1>1. /\ o \in Nat /\ w \in Seq(Byte) /\ code \in Seq(Byte)
        /\ Len(w) \in Nat /\ Len(code) \in Nat
    BY DEF WindowOf
  <1>2. CASE p.kind = "coding"
    <2>1. p.byte \in Nat /\ p.byte < Len(w)
      BY <1>2 DEF Param
    <2>2. w[p.byte + 1] = code[o + p.byte + 1]
      BY <2>1, WindowBytes
    <2>3. 0 + p.byte + 1 = p.byte + 1
      BY <2>1
    <2>4. CodedType(w, 0, p) = CodedType(code, o, p)
      BY <2>2, <2>3 DEF CodedType
    <2>5. PICK ot \in CodedType(code, o, p) : got = [end |-> o + q, acc |-> TypeAccess(ot)]
      BY <1>2 DEF ParamOperand
    <2>6. [end |-> q, acc |-> TypeAccess(ot)] \in ParamOperand(w, 0, p, q, pending)
      BY <1>2, <2>4, <2>5 DEF ParamOperand
    <2>7. Back(got, o) \in ParamOperand(w, 0, p, q, pending)
      BY <1>1, <2>5, <2>6, BackInto
    <2>8. got.end = o + q
      BY <2>5
    <2>9. q \in 0..Len(w)
      BY <1>1, <2>8
    <2>10. AtMostOne(ParamOperand(w, 0, p, q, pending))
      BY <1>1, <2>9, ParamOperandSingle
    <2> QED BY <2>7, <2>10 DEF AtMostOne
  <1>3. CASE p.kind \in {"type", "cond"}
    <2> DEFINE end == q + 1
    <2>1. got.end = o + q + 1
      BY <1>3 DEF ParamOperand
    <2>2. q < Len(w) /\ end \in Nat /\ o + q + 1 = o + end /\ q \in 0..Len(w)
          /\ q + 1 <= Len(w)
      BY <1>1, <2>1
    <2>3. Peek(w, q) = Peek(code, o + q)
      BY <2>2, WindowBytes
    <2>4. \/ /\ p.kind = "type"
             /\ \E ot \in TypeFromByte(Peek(w, q)) : got = [end |-> o + q + 1, acc |-> TypeAccess(ot)]
          \/ /\ p.kind = "cond"
             /\ \E c \in CondFromByte(Peek(w, q)) : got = [end |-> o + q + 1, acc |-> CondAccess(c)]
      BY <1>3, <2>3 DEF ParamOperand
    <2>5. PICK acc :
             /\ got = [end |-> o + q + 1, acc |-> acc]
             /\ \/ p.kind = "type" /\ \E ot \in TypeFromByte(Peek(w, q)) : acc = TypeAccess(ot)
                \/ p.kind = "cond" /\ \E c \in CondFromByte(Peek(w, q)) : acc = CondAccess(c)
      BY <2>4
    <2>6. [end |-> end, acc |-> acc] \in ParamOperand(w, 0, p, q, pending)
      <3>1. CanTake(w, q, 1)
        BY <2>2 DEF CanTake
      <3> QED BY <2>5, <3>1 DEF ParamOperand
    <2>7. got = [end |-> o + end, acc |-> acc]
      BY <2>2, <2>5
    <2> HIDE DEF end
    <2>8. Back(got, o) \in ParamOperand(w, 0, p, q, pending)
      BY <1>1, <2>2, <2>6, <2>7, BackInto
    <2>9. AtMostOne(ParamOperand(w, 0, p, q, pending))
      BY <1>1, <2>2, ParamOperandSingle
    <2> QED BY <2>8, <2>9 DEF AtMostOne
  <1>4. CASE p.kind = "ident"
    <2> DEFINE dts == IF p.ref THEN pending ELSE {p.predef}
    <2>1. got \in DecodeIdent(code, o + q, ReaderConstants, p.mode, p.predef, dts)
      BY <1>4 DEF ParamOperand
    <2>2. ParamOperand(w, 0, p, q, pending) =
              DecodeIdent(w, q, ReaderConstants, p.mode, p.predef, dts)
      BY <1>4 DEF ParamOperand
    <2> HIDE DEF dts
    <2> QED BY <2>1, <2>2, DecodeIdentInPart
  <1>5. p.kind \in {"flag", "coding", "type", "cond", "ident"}
    BY DEF Param
  <1> QED BY <1>2, <1>3, <1>4, <1>5

\* The reader's state, with its position as the part has it.
BackState(s, o) == [s EXCEPT !.rpos = @ - o]

LEMMA BackStateIs ==
  ASSUME NEW code, NEW o \in Nat, NEW s \in ReaderState(code, o)
  PROVE  /\ BackState(s, o) = [rpos |-> s.rpos - o, pending |-> s.pending,
                               multiple |-> s.multiple, operands |-> s.operands]
         /\ BackState(s, o).rpos = s.rpos - o /\ BackState(s, o).pending = s.pending
         /\ BackState(s, o).multiple = s.multiple /\ BackState(s, o).operands = s.operands
  <1>1. s = [rpos |-> s.rpos, pending |-> s.pending,
             multiple |-> s.multiple, operands |-> s.operands]
    BY DEF ReaderState
  <1> QED BY <1>1 DEF BackState

\* A state inside the part is one of the part's.
LEMMA BackStateTyped ==
  ASSUME NEW w, NEW code, NEW o, WindowOf(w, code, o), NEW s \in ReaderState(code, o),
         s.rpos <= o + Len(w)
  PROVE  /\ BackState(s, o) \in ReaderState(w, 0)
         /\ s.rpos - o \in Nat /\ o + (s.rpos - o) = s.rpos /\ s.rpos <= Len(code)
         /\ s.rpos - o <= Len(w)
  <1>1. o \in Nat /\ Len(w) \in Nat /\ Len(code) \in Nat
    BY DEF WindowOf
  <1>2. /\ s.rpos \in o..Len(code) /\ s.pending \in SUBSET Nat
        /\ s.multiple \in Nat \cup {-1} /\ s.operands \in Seq(Access)
    BY DEF ReaderState
  <1>3. s.rpos - o \in 0..Len(w) /\ o + (s.rpos - o) = s.rpos /\ s.rpos <= Len(code)
    BY <1>1, <1>2
  <1>4. BackState(s, o) = [rpos |-> s.rpos - o, pending |-> s.pending,
                           multiple |-> s.multiple, operands |-> s.operands]
    BY <1>1, BackStateIs
  <1>5. BackState(s, o) \in ReaderState(w, 0)
    BY <1>2, <1>3, <1>4 DEF ReaderState
  <1> QED BY <1>1, <1>3, <1>5

LEMMA ReadOneInPart ==
  ASSUME NEW w, NEW code, NEW o, WindowOf(w, code, o), NEW p \in Param,
         p.kind # "flag", p.kind = "coding" => p.byte < Len(w),
         NEW s \in ReaderState(code, o),
         NEW t \in ReadOne(code, o, p, s), t.rpos <= o + Len(w)
  PROVE  ReadOne(w, 0, p, BackState(s, o)) = {BackState(t, o)}
  <1> DEFINE q == s.rpos - o
             b == BackState(s, o)
  <1>1. o \in Nat /\ code \in Seq(Byte) /\ Len(code) \in Nat /\ Len(w) \in Nat
    BY DEF WindowOf
  <1>2. /\ t \in ReaderState(code, o) /\ t.rpos >= s.rpos
    BY <1>1, ReadOneTyped
  <1>3. s.rpos \in o..Len(code) /\ t.rpos \in o..Len(code)
    BY <1>2 DEF ReaderState
  <1>4. q \in Nat /\ o + q = s.rpos /\ o + q <= Len(code) /\ s.rpos <= o + Len(w)
    BY <1>1, <1>2, <1>3
  <1>5. PICK got \in ParamOperand(code, o, p, s.rpos, s.pending) :
          /\ Len(s.operands) < MaxOperands
          /\ t = [s EXCEPT !.rpos = got.end, !.operands = Append(@, got.acc)]
    BY DEF ReadOne
  <1>6. t.rpos = got.end /\ t.operands = Append(s.operands, got.acc)
        /\ t.pending = s.pending /\ t.multiple = s.multiple
    BY <1>5 DEF ReaderState
  <1>7. /\ b.rpos = q /\ b.pending = s.pending /\ b.multiple = s.multiple
        /\ b.operands = s.operands
        /\ b = [rpos |-> q, pending |-> s.pending, multiple |-> s.multiple,
                operands |-> s.operands]
    BY <1>1, BackStateIs
  <1> HIDE DEF q, b
  <1>8. ParamOperand(w, 0, p, q, s.pending) = {Back(got, o)}
    BY <1>4, <1>5, <1>6, ParamOperandInPart
  <1>9. ReadOne(w, 0, p, b) =
            {[b EXCEPT !.rpos = Back(got, o).end,
                       !.operands = Append(@, Back(got, o).acc)]}
    BY <1>5, <1>7, <1>8 DEF ReadOne
  <1>10. Back(got, o).end = t.rpos - o /\ Back(got, o).acc = got.acc
    BY <1>6 DEF Back
  <1>11. BackState(t, o) = [rpos |-> t.rpos - o, pending |-> t.pending,
                            multiple |-> t.multiple, operands |-> t.operands]
    BY <1>1, <1>2, BackStateIs
  <1>12. [b EXCEPT !.rpos = Back(got, o).end, !.operands = Append(@, Back(got, o).acc)]
             = BackState(t, o)
    <2> DEFINE x == Back(got, o)
               more == Append(s.operands, got.acc)
    <2>1. Append(b.operands, x.acc) = more
      BY <1>7, <1>10
    <2>2. [b EXCEPT !.rpos = x.end, !.operands = Append(@, x.acc)]
              = [b EXCEPT !.rpos = x.end, !.operands = more]
      BY <2>1
    <2>3. x.end = t.rpos - o /\ t.operands = more
      BY <1>6, <1>10
    <2> HIDE DEF x, more
    <2>4. [b EXCEPT !.rpos = x.end, !.operands = more]
              = [rpos |-> x.end, pending |-> s.pending, multiple |-> s.multiple,
                 operands |-> more]
      <3>1. b = [rpos |-> q, pending |-> s.pending, multiple |-> s.multiple,
                 operands |-> s.operands]
        BY <1>7
      <3> DEFINE c == [b EXCEPT !.rpos = x.end]
      <3>2. c = [rpos |-> x.end, pending |-> s.pending, multiple |-> s.multiple,
                 operands |-> s.operands]
        BY ONLY <3>1
      <3> HIDE DEF c
      <3>3. [c EXCEPT !.operands = more] =
                [rpos |-> x.end, pending |-> s.pending, multiple |-> s.multiple,
                 operands |-> more]
        BY ONLY <3>2
      <3> QED BY <3>3 DEF c
    <2>5. [b EXCEPT !.rpos = x.end, !.operands = Append(@, x.acc)] = BackState(t, o)
      BY <1>6, <1>11, <2>2, <2>3, <2>4
    <2> QED BY <2>5 DEF x
  <1> QED BY <1>9, <1>12 DEF b

\* After k repetitions, whatever number of them each reading is to make.
LEMMA ReadsInPart ==
  ASSUME NEW w, NEW code, NEW o, WindowOf(w, code, o), NEW p \in Param,
         p.kind # "flag", p.kind = "coding" => p.byte < Len(w),
         NEW s \in ReaderState(code, o), NEW n \in Nat, NEW m \in Nat
  PROVE  \A k \in Nat :
             k <= n /\ k <= m =>
                 \A t \in Reads(code, o, p, n, s)[k] :
                     t.rpos <= o + Len(w) =>
                         Reads(w, 0, p, m, BackState(s, o))[k] = {BackState(t, o)}
  <1> DEFINE there == Reads(code, o, p, n, s)
             here  == Reads(w, 0, p, m, BackState(s, o))
             S == {k \in Nat : k <= n /\ k <= m =>
                       \A t \in there[k] :
                           t.rpos <= o + Len(w) => here[k] = {BackState(t, o)}}
  <1>1. /\ o \in Nat /\ code \in Seq(Byte) /\ w \in Seq(Byte)
        /\ Len(code) \in Nat /\ Len(w) \in Nat
    BY DEF WindowOf
  <1>2. /\ there[0] = {s}
        /\ \A k \in 0..(n - 1) : there[k + 1] = UNION {ReadOne(code, o, p, u) : u \in there[k]}
    BY ReadsUnfold
  <1>3. /\ here[0] = {BackState(s, o)}
        /\ \A k \in 0..(m - 1) : here[k + 1] = UNION {ReadOne(w, 0, p, u) : u \in here[k]}
    BY ReadsUnfold
  <1>4. \A k \in 0..n : \A t \in there[k] : t \in ReaderState(code, o)
    BY <1>1, ReadsTyped
  <1> HIDE DEF there, here
  <1>5. 0 \in S
    BY <1>2, <1>3
  <1>6. ASSUME NEW k \in Nat, k \in S
        PROVE  k + 1 \in S
    <2> SUFFICES ASSUME k + 1 <= n, k + 1 <= m, NEW t \in there[k + 1],
                        t.rpos <= o + Len(w)
                 PROVE  here[k + 1] = {BackState(t, o)}
      OBVIOUS
    <2>1. k \in 0..(n - 1) /\ k \in 0..(m - 1) /\ k \in 0..n /\ k <= n /\ k <= m
      OBVIOUS
    <2>2. PICK u \in there[k] : t \in ReadOne(code, o, p, u)
      BY <1>2, <2>1
    <2>3. u \in ReaderState(code, o)
      BY <1>4, <2>1
    <2>4. t \in ReaderState(code, o) /\ t.rpos >= u.rpos
      BY <1>1, <2>2, <2>3, ReadOneTyped
    <2>5. u.rpos \in Nat /\ t.rpos \in Nat
      BY <1>1, <2>3, <2>4 DEF ReaderState
    <2>6. u.rpos <= o + Len(w)
      BY <1>1, <2>4, <2>5
    <2>7. here[k] = {BackState(u, o)}
      BY <1>6, <2>1, <2>6
    <2>8. ReadOne(w, 0, p, BackState(u, o)) = {BackState(t, o)}
      BY <2>2, <2>3, ReadOneInPart
    <2>9. here[k + 1] = UNION {ReadOne(w, 0, p, v) : v \in here[k]}
      BY <1>3, <2>1
    <2> QED BY <2>7, <2>8, <2>9
  <1> HIDE DEF S
  <1>7. Nat \subseteq S
    BY <1>5, <1>6, Induction
  <1> QED BY <1>7 DEF S, there, here

\* What a parameter leaves behind does not depend on where the reader is.
LEMMA DoneInPart ==
  ASSUME NEW code, NEW o \in Nat, NEW p, NEW t \in ReaderState(code, o),
         DoneWith(p, t) \in ReaderState(code, o)
  PROVE  BackState(DoneWith(p, t), o) = DoneWith(p, BackState(t, o))
  <1> DEFINE last == t.operands[Len(t.operands)]
             pend == PendingAfter(p, last, t.pending)
             mult == CountAfter(p, last, t.multiple)
             Rec(x, y, z) == [rpos |-> x, pending |-> y, multiple |-> z, operands |-> t.operands]
  <1>1. BackState(t, o) = Rec(t.rpos - o, t.pending, t.multiple)
    BY BackStateIs
  <1>2. t = Rec(t.rpos, t.pending, t.multiple)
    BY DEF ReaderState
  <1>3. DoneWith(p, t) = [t EXCEPT !.pending = pend, !.multiple = mult]
    BY DEF DoneWith
  <1>4. DoneWith(p, BackState(t, o)) = [BackState(t, o) EXCEPT !.pending = pend, !.multiple = mult]
    BY <1>1 DEF DoneWith
  <1> HIDE DEF pend, mult
  <1>5. ASSUME NEW u, NEW x, NEW y, NEW z, u = Rec(x, y, z)
        PROVE  [u EXCEPT !.pending = pend, !.multiple = mult] = Rec(x, pend, mult)
    <2> DEFINE v == [u EXCEPT !.pending = pend]
    <2>1. v = Rec(x, pend, z)
      BY ONLY <1>5
    <2> HIDE DEF v
    <2>2. [v EXCEPT !.multiple = mult] = Rec(x, pend, mult)
      BY ONLY <2>1
    <2> QED BY <2>2 DEF v
  <1> HIDE DEF Rec
  <1>6. DoneWith(p, t) = Rec(t.rpos, pend, mult)
    BY <1>2, <1>3, <1>5
  <1>7. DoneWith(p, BackState(t, o)) = Rec(t.rpos - o, pend, mult)
    <2> DEFINE b == BackState(t, o)
               x == t.rpos - o
    <2>1. b = Rec(x, t.pending, t.multiple)
      BY <1>1
    <2>2. DoneWith(p, b) = [b EXCEPT !.pending = pend, !.multiple = mult]
      BY <1>4
    <2> HIDE DEF b, x
    <2>3. DoneWith(p, b) = Rec(x, pend, mult)
      BY <1>5, <2>1, <2>2
    <2> QED BY <2>3 DEF b, x
  <1>8. BackState(Rec(t.rpos, pend, mult), o) = Rec(t.rpos - o, pend, mult)
    <2> DEFINE u == Rec(t.rpos, pend, mult)
    <2>1. u.rpos = t.rpos
      BY DEF Rec
    <2>2. BackState(u, o) = [u EXCEPT !.rpos = t.rpos - o]
      BY <2>1 DEF BackState
    <2> QED BY <2>2 DEF Rec
  <1> QED BY <1>6, <1>7, <1>8

LEMMA ReadParamInPart ==
  ASSUME NEW w, NEW code, NEW o, WindowOf(w, code, o), NEW op,
         op.params \in Seq(Param), NEW i \in 1..Len(op.params),
         op.params[i].kind = "coding" => op.params[i].byte < Len(w),
         NEW s \in ReaderState(code, o),
         NEW t \in ReadParam(code, o, op, i, s), t.rpos <= o + Len(w)
  PROVE  ReadParam(w, 0, op, i, BackState(s, o)) = {BackState(t, o)}
  <1> DEFINE p == op.params[i]
             b == BackState(s, o)
             n == RepeatsOf(op, i, s)
             times == TimesOf(code, op, i, s)
             there == Reads(code, o, p, times, s)
             here  == Reads(w, 0, p, times, b)
  <1>1. /\ o \in Nat /\ code \in Seq(Byte) /\ w \in Seq(Byte)
        /\ Len(code) \in Nat /\ Len(w) \in Nat /\ o + Len(w) <= Len(code)
    BY DEF WindowOf
  <1>2. p \in Param
    OBVIOUS
  <1>3. /\ s.multiple \in Nat \cup {-1} /\ s.rpos \in o..Len(code)
        /\ b.multiple = s.multiple
    <2>1. s.multiple \in Nat \cup {-1} /\ s.rpos \in o..Len(code)
      BY DEF ReaderState
    <2> QED BY <1>1, <2>1, BackStateIs
  <1>4. RepeatsOf(op, i, b) = n
    BY <1>3 DEF RepeatsOf
  <1>5. CASE p.kind = "flag"
    <2>1. t = s
      BY <1>5, ReadParamReadsNone
    <2>2. ReadParam(w, 0, op, i, b) = {b}
      BY <1>5, ReadParamReadsNone
    <2> QED BY <2>1, <2>2
  <1>6. CASE p.kind # "flag" /\ n = 0
    <2> DEFINE none == {}
    <2>1. t = [s EXCEPT !.pending = none]
      BY <1>6, ReadParamReadsNone DEF Unread
    <2>2. ReadParam(w, 0, op, i, b) = {[b EXCEPT !.pending = none]}
      BY <1>4, <1>6, ReadParamReadsNone DEF Unread
    <2> HIDE DEF none
    <2>3. s = [rpos |-> s.rpos, pending |-> s.pending,
               multiple |-> s.multiple, operands |-> s.operands]
      BY DEF ReaderState
    <2>4. b = [rpos |-> s.rpos - o, pending |-> s.pending,
               multiple |-> s.multiple, operands |-> s.operands]
      BY <1>1, BackStateIs
    <2>5. t = [rpos |-> s.rpos, pending |-> none,
               multiple |-> s.multiple, operands |-> s.operands]
      BY <2>1, <2>3
    <2>6. BackState(t, o) = [rpos |-> s.rpos - o, pending |-> none,
                             multiple |-> s.multiple, operands |-> s.operands]
      BY <2>5 DEF BackState
    <2>7. [b EXCEPT !.pending = none] = BackState(t, o)
      <3> HIDE DEF b
      <3> QED BY <2>4, <2>6
    <2> QED BY <2>2, <2>7
  <1>7. CASE p.kind # "flag" /\ n # 0
    <2>1. n \in Nat /\ times \in Nat /\ times = Bounded(code, n)
          /\ TimesOf(w, op, i, b) = Bounded(w, n)
      BY <1>1, <1>3, <1>4, TimesOfTyped DEF TimesOf
    <2>2. ReadParam(code, o, op, i, s) = DoneFrom(p, there[times])
      <3>1. /\ code \in Seq(Byte) /\ s.multiple \in Nat \cup {-1}
            /\ op.params[i].kind # "flag" /\ RepeatsOf(op, i, s) # 0
        BY <1>1, <1>3, <1>7
      <3> QED BY ONLY <3>1, ReadParamIsReads
    <2>3. PICK u \in there[times] : t = DoneWith(p, u)
      BY <2>2 DEF DoneFrom
    <2> HIDE DEF p, n, times, there
    <2>4. u \in ReaderState(code, o) /\ (p.kind # "coding" => u.rpos >= s.rpos + times)
      <3>1. /\ p \in Param /\ p.kind # "flag" /\ times \in Nat /\ code \in Seq(Byte)
            /\ o \in Nat /\ s \in ReaderState(code, o)
        BY <1>1, <1>2, <1>7, <2>1
      <3>2. \A k \in 0..times :
             LET at == Reads(code, o, p, times, s)[k]
             IN  /\ AtMostOne(at)
                 /\ \A x \in at :
                        /\ x \in ReaderState(code, o)
                        /\ x.rpos >= s.rpos
                        /\ p.kind # "coding" => x.rpos >= s.rpos + k
                        /\ x.pending = s.pending /\ x.multiple = s.multiple
                        /\ Len(x.operands) = Len(s.operands) + k
                        /\ SubSeq(x.operands, 1, Len(s.operands)) = s.operands
                        /\ k > 0 => Len(x.operands) <= MaxOperands
        BY ONLY <3>1, ReadsTyped
      <3>3. times \in 0..times
        BY <2>1
      <3>4. u \in Reads(code, o, p, times, s)[times]
        BY <2>3 DEF there
      <3> QED BY <3>2, <3>3, <3>4, Zenon
    <2>5. u.rpos \in o..Len(code) /\ t.rpos = u.rpos
      BY <2>3, <2>4 DEF ReaderState, DoneWith
    <2>6. Bounded(w, n) = times
      <3>1. CASE p.kind = "coding"
        <4>1. n = 1
          BY <3>1 DEF n, p, RepeatsOf, TimesRead
        <4> QED BY <1>1, <2>1, <4>1 DEF Bounded
      <3>2. CASE p.kind # "coding"
        <4>1. times <= Len(w)
          BY <1>1, <1>3, <2>1, <2>4, <2>5, <3>2
        <4> QED BY <1>1, <2>1, <4>1 DEF Bounded
      <3> QED BY <3>1, <3>2
    <2>7. here[times] = {BackState(u, o)}
      <3>1. \A k \in Nat :
             k <= times /\ k <= times =>
                 \A x \in Reads(code, o, p, times, s)[k] :
                     x.rpos <= o + Len(w) =>
                         Reads(w, 0, p, times, BackState(s, o))[k] = {BackState(x, o)}
        <4>1. p.kind = "coding" => p.byte < Len(w)
          BY DEF p
        <4> QED BY <1>2, <1>7, <2>1, <4>1, ReadsInPart
      <3>2. times \in Nat /\ times <= times /\ u.rpos <= o + Len(w)
        BY <2>1, <2>5
      <3> QED BY <2>3, <3>1, <3>2 DEF there
    <2>8. ReadParam(w, 0, op, i, b) = DoneFrom(p, here[times])
      <3>1. RepeatsOf(op, i, b) # 0 /\ TimesOf(w, op, i, b) = times
        BY <1>4, <1>7, <2>1, <2>6 DEF n
      <3>2. b.multiple \in Nat \cup {-1} /\ op.params[i].kind # "flag" /\ w \in Seq(Byte)
        BY <1>1, <1>3, <1>7 DEF p
      <3> HIDE DEF b
      <3>3. ReadParam(w, 0, op, i, b) =
                DoneFrom(op.params[i],
                         Reads(w, 0, op.params[i], TimesOf(w, op, i, b), b)
                              [TimesOf(w, op, i, b)])
        BY ONLY <3>1, <3>2, ReadParamIsReads
      <3> QED BY <3>1, <3>3 DEF p
    <2> HIDE DEF here
    <2>9. ReadParam(w, 0, op, i, b) = {DoneWith(p, BackState(u, o))}
      BY <2>7, <2>8 DEF DoneFrom
    <2>10. t \in ReaderState(code, o)
      BY <1>1, ReadParamTyped
    <2>11. DoneWith(p, BackState(u, o)) = BackState(t, o)
      BY <1>1, <2>3, <2>4, <2>10, DoneInPart
    <2> QED BY <2>9, <2>11
  <1> QED BY <1>5, <1>6, <1>7

\* The parameters of an operator whose code lies in the part.
LEMMA StepsInPart ==
  ASSUME NEW w, NEW code, NEW o, WindowOf(w, code, o), NEW op,
         op.code \in Seq(Byte), op.params \in Seq(Param), Len(op.code) <= Len(w),
         \A i \in 1..Len(op.params) :
             op.params[i].kind = "coding" => op.params[i].byte < Len(op.code)
  PROVE  \A t \in ReadParams(code, o, op) :
             t.rpos <= o + Len(w) => ReadParams(w, 0, op) = {BackState(t, o)}
  <1> DEFINE n == Len(op.params)
             there == Steps(code, o, op)
             here  == Steps(w, 0, op)
             S == {i \in Nat : i <= n =>
                       \A t \in there[i] :
                           t.rpos <= o + Len(w) => here[i] = {BackState(t, o)}}
  <1>1. /\ o \in Nat /\ code \in Seq(Byte) /\ w \in Seq(Byte) /\ n \in Nat
        /\ Len(code) \in Nat /\ Len(w) \in Nat /\ o + Len(w) <= Len(code)
        /\ Len(op.code) \in Nat /\ o + Len(op.code) <= Len(code)
    BY DEF WindowOf
  <1>2. /\ ReadParams(code, o, op) = there[n] /\ there[0] = {Start(o, op)}
        /\ \A i \in 1..n : there[i] = UNION {ReadParam(code, o, op, i, s) : s \in there[i - 1]}
    BY <1>1, StepsUnfold
  <1>3. /\ ReadParams(w, 0, op) = here[n] /\ here[0] = {Start(0, op)}
        /\ \A i \in 1..n : here[i] = UNION {ReadParam(w, 0, op, i, s) : s \in here[i - 1]}
    BY <1>1, StepsUnfold
  <1>4. \A i \in 0..n : \A t \in there[i] : t \in ReaderState(code, o)
    <2>1. \A i \in 0..n : \A t \in there[i] : t \in ReaderState(code, o + Len(op.code))
      BY <1>1, StepsTyped
    <2>2. ReaderState(code, o + Len(op.code)) \subseteq ReaderState(code, o)
      <3>1. (o + Len(op.code))..Len(code) \subseteq o..Len(code)
        BY <1>1
      <3> QED BY <3>1 DEF ReaderState
    <2> QED BY <2>1, <2>2
  <1> HIDE DEF there, here
  <1>5. 0 \in S
    <2>1. BackState(Start(o, op), o) = Start(0, op)
      <3> DEFINE from == Start(o, op)
                 len  == Len(op.code)
      <3>1. from.rpos = o + len
        BY DEF Start
      <3>2. (o + len) - o = 0 + len
        <4> HIDE DEF len
        <4>1. len \in Nat
          BY <1>1 DEF len
        <4> QED BY <1>1, <4>1
      <3>3. [from EXCEPT !.rpos = 0 + len] = Start(0, op)
        <4> DEFINE a    == o + len
                   none == {}
                   one  == -1
                   nil  == <<>>
                   to   == 0 + len
        <4>1. from = [rpos |-> a, pending |-> none, multiple |-> one, operands |-> nil]
          BY DEF Start
        <4>2. Start(0, op) = [rpos |-> to, pending |-> none, multiple |-> one,
                              operands |-> nil]
          BY DEF Start
        <4> HIDE DEF from, a, none, one, nil, to
        <4>3. [from EXCEPT !.rpos = to] = [rpos |-> to, pending |-> none,
                                           multiple |-> one, operands |-> nil]
          BY ONLY <4>1
        <4> QED BY <4>2, <4>3 DEF to
      <3> HIDE DEF from, len
      <3>4. BackState(from, o) = [from EXCEPT !.rpos = 0 + len]
        BY <3>1, <3>2 DEF BackState
      <3> QED BY <3>3, <3>4 DEF from
    <2> QED BY <1>2, <1>3, <2>1
  <1>6. ASSUME NEW i \in Nat, i \in S
        PROVE  i + 1 \in S
    <2> SUFFICES ASSUME i + 1 <= n, NEW t \in there[i + 1], t.rpos <= o + Len(w)
                 PROVE  here[i + 1] = {BackState(t, o)}
      OBVIOUS
    <2> DEFINE j == i + 1
    <2>1. j \in 1..n /\ j - 1 = i /\ i <= n /\ i \in 0..n
      BY <1>1
    <2>2. t \in there[j] /\ j \in 1..Len(op.params)
      BY <2>1
    <2> HIDE DEF j
    <2>3. PICK s \in there[i] : t \in ReadParam(code, o, op, j, s)
      BY <1>2, <2>1, <2>2
    <2>4. s \in ReaderState(code, o)
      BY <1>4, <2>1
    <2>5. t \in ReaderState(code, o) /\ t.rpos >= s.rpos
      BY <1>1, <2>2, <2>3, <2>4, ReadParamTyped
    <2>6. s.rpos \in Nat /\ t.rpos \in Nat
      BY <1>1, <2>4, <2>5 DEF ReaderState
    <2>7. s.rpos <= o + Len(w)
      BY <1>1, <2>5, <2>6
    <2>8. here[i] = {BackState(s, o)}
      BY <1>6, <2>1, <2>7
    <2>9. op.params[j].kind = "coding" => op.params[j].byte < Len(w)
      <3>1. op.params[j] \in Param
        BY <2>2
      <3>2. op.params[j].byte \in Int
        <4>1. \A p \in Param : p.byte \in Int
          BY DEF Param
        <4> QED BY <3>1, <4>1
      <3>3. op.params[j].kind = "coding" => op.params[j].byte < Len(op.code)
        BY <2>2
      <3> DEFINE k == op.params[j].byte
      <3> HIDE DEF k
      <3>4. k \in Int /\ (op.params[j].kind = "coding" => k < Len(op.code))
        BY <3>2, <3>3 DEF k
      <3>5. op.params[j].kind = "coding" => k < Len(w)
        BY <1>1, <3>4
      <3> QED BY <3>5 DEF k
    <2>10. ReadParam(w, 0, op, j, BackState(s, o)) = {BackState(t, o)}
      BY <2>2, <2>3, <2>4, <2>9, ReadParamInPart
    <2>11. here[j] = UNION {ReadParam(w, 0, op, j, v) : v \in here[i]}
      BY <1>3, <2>1
    <2>12. here[j] = {BackState(t, o)}
      BY <2>8, <2>10, <2>11
    <2> QED BY <2>12 DEF j
  <1> HIDE DEF S
  <1>7. Nat \subseteq S
    BY <1>5, <1>6, Induction
  <1>8. n \in S /\ n <= n
    BY <1>1, <1>7
  <1> HIDE DEF n
  <1> QED BY <1>2, <1>3, <1>8 DEF S

\* The operators that a statement may begin with are those its bytes match.
LEMMA OfferedInPart ==
  ASSUME NEW w, NEW code, NEW o, WindowOf(w, code, o), Len(w) > 0
  PROVE  Offered(w, 0) = {n \in Offered(code, o) : Len(Ops[n].code) <= Len(w)}
  <1>1. /\ o \in Nat /\ code \in Seq(Byte) /\ w \in Seq(Byte)
        /\ Len(code) \in Nat /\ Len(w) \in Nat /\ o + Len(w) <= Len(code)
    BY DEF WindowOf
  <1>2. \A i \in Nat : i < Len(w) => w[i + 1] = code[o + i + 1]
    BY WindowBytes
  <1>3. w[0 + 1] = code[o + 1] /\ w[1] = code[o + 1]
    <2>1. 0 < Len(w) /\ 0 \in Nat /\ o + 0 + 1 = o + 1
      BY <1>1
    <2>2. w[0 + 1] = code[o + 0 + 1]
      BY <1>2, <2>1
    <2> QED BY <2>1, <2>2
  <1>4. ASSUME NEW n \in FirstIndex(code[o + 1]), Len(Ops[n].code) <= Len(w)
        PROVE  CodeMatches(w, 0, Ops[n]) <=> CodeMatches(code, o, Ops[n])
    <2>1. n \in DOMAIN Ops
      BY DEF FirstIndex
    <2>2. Len(Ops[n].code) \in Nat
      BY <2>1, RowTyped
    <2>3. \A i \in 0..(Len(Ops[n].code) - 1) : w[0 + i + 1] = code[o + i + 1]
      <3> SUFFICES ASSUME NEW i \in 0..(Len(Ops[n].code) - 1)
                   PROVE  w[0 + i + 1] = code[o + i + 1]
        OBVIOUS
      <3>1. i \in Nat /\ i < Len(w) /\ 0 + i + 1 = i + 1
        BY <1>1, <1>4, <2>2
      <3> QED BY <1>2, <3>1
    <2>4. CanTake(w, 0, Len(Ops[n].code)) /\ CanTake(code, o, Len(Ops[n].code))
      BY <1>1, <1>4, <2>2 DEF CanTake
    <2> QED BY <2>3, <2>4 DEF CodeMatches
  <1>5. ASSUME NEW n \in Offered(w, 0)
        PROVE  Len(Ops[n].code) <= Len(w)
    BY <1>1, <1>5, OfferedFits
  <1> QED BY <1>3, <1>4, <1>5 DEF Offered

(* decode_best_at on a part that holds the whole statement, where no two   *)
(* operators begin alike: the statement is the same.                       *)
LEMMA StatementInPart ==
  ASSUME NEW w, NEW code, NEW o, WindowOf(w, code, o),
         AtMostOne(Offered(code, o)),
         NEW r \in StatementAt(code, o), r.end <= o + Len(w)
  PROVE  /\ StatementAt(w, 0) = {[r EXCEPT !.end = r.end - o]}
         /\ r.end - o \in Nat /\ o + (r.end - o) = r.end
  <1>1. /\ o \in Nat /\ code \in Seq(Byte) /\ w \in Seq(Byte)
        /\ Len(code) \in Nat /\ Len(w) \in Nat /\ o + Len(w) <= Len(code)
    BY DEF WindowOf
  <1>2. /\ r \in Reading /\ r.op \in Offered(code, o)
        /\ r.end >= o + Len(Ops[r.op].code) /\ r.end <= Len(code) /\ r.end > o
    BY <1>1, StatementTyped
  <1> DEFINE n == r.op
             op == Ops[n]
  <1>3. /\ n \in DOMAIN Ops /\ op.code \in Seq(Byte) /\ op.params \in Seq(Param)
        /\ Len(op.code) \in Nat /\ Len(op.params) \in Nat
    BY <1>1, <1>2, OfferedFits
  <1>4. r.end \in Nat /\ r.end - o \in Nat /\ o + (r.end - o) = r.end
        /\ Len(op.code) <= Len(w) /\ Len(w) > 0 /\ o < Len(code)
    <2>1. r.end \in Nat
      BY <1>2 DEF Reading
    <2> QED BY <1>1, <1>2, <1>3, <2>1
  <1>5. Offered(w, 0) = {n}
    BY <1>2, <1>4, OfferedInPart DEF AtMostOne
  <1>6. PICK s \in ReadParams(code, o, op) : r = ReadingOf(code, o, n, s)
    <2>1. r \in Readings(code, o)
      BY <1>1, <1>4, StatementAtIs
    <2>2. PICK m \in Offered(code, o) : \E s \in ReadParams(code, o, Ops[m]) :
              r = ReadingOf(code, o, m, s)
      BY <1>1, <2>1, ReadingsTyped
    <2>3. m = n
      BY <2>2 DEF ReadingOf
    <2> QED BY <2>2, <2>3
  <1>7. \A i \in 1..Len(op.params) :
            op.params[i].kind \in {"flag", "coding"} =>
                op.params[i].byte \in Nat /\ op.params[i].byte < Len(op.code)
    <2> SUFFICES ASSUME NEW i \in 1..Len(op.params), op.params[i].kind \in {"flag", "coding"}
                 PROVE  op.params[i].byte \in Nat /\ op.params[i].byte < Len(op.code)
      OBVIOUS
    <2>1. op.params[i] \in Param
      BY <1>3
    <2>2. op.params[i] \in ParamsOf(op, "flag") \cup ParamsOf(op, "coding")
      BY <1>3 DEF ParamsOf
    <2>3. op.params[i].byte < Len(op.code)
      BY <1>3, <2>2, CodeAssumption
    <2> QED BY <2>1, <2>3 DEF Param
  <1>8. r.end = s.rpos /\ r.operands = s.operands /\ r.op = n
    BY <1>6 DEF ReadingOf
  <1>9. ReadParams(w, 0, op) = {BackState(s, o)}
    BY <1>2, <1>3, <1>4, <1>7, <1>8, StepsInPart
  <1>10. FlagsOn(w, 0, op) = FlagsOn(code, o, op)
    <2>1. \A i \in DOMAIN op.params : op.params[i].kind = "flag" =>
             w[0 + op.params[i].byte + 1] = code[o + op.params[i].byte + 1]
      <3> SUFFICES ASSUME NEW i \in DOMAIN op.params, op.params[i].kind = "flag"
                   PROVE  w[0 + op.params[i].byte + 1] = code[o + op.params[i].byte + 1]
        OBVIOUS
      <3> DEFINE k == op.params[i].byte
      <3>1. k \in Nat /\ k < Len(op.code)
        BY <1>3, <1>7
      <3> HIDE DEF k
      <3>2. k < Len(w) /\ 0 + k + 1 = k + 1
        BY <1>1, <1>3, <1>4, <3>1
      <3>3. w[k + 1] = code[o + k + 1]
        BY <3>1, <3>2, WindowBytes
      <3> QED BY <3>2, <3>3 DEF k
    <2> QED BY <2>1 DEF FlagsOn
  <1>11. RestoreFlags(w, 0, op) = RestoreFlags(code, o, op)
    BY <1>10 DEF RestoreFlags
  <1> DEFINE here == ReadingOf(w, 0, n, BackState(s, o))
  <1>12. here = [r EXCEPT !.end = r.end - o]
    <2>1. BackState(s, o).rpos = s.rpos - o /\ BackState(s, o).operands = s.operands
      <3>1. s \in ReaderState(code, o + Len(op.code))
        <4> HIDE DEF n, op
        <4>1. o + Len(op.code) <= Len(code) /\ Len(op.params) \in 0..Len(op.params)
          BY <1>1, <1>3, <1>4
        <4>2. s \in Steps(code, o, op)[Len(op.params)]
          BY <1>3, <1>6, StepsUnfold
        <4> QED BY <1>1, <1>3, <4>1, <4>2, StepsTyped
      <3>2. o + Len(op.code) \in Nat
        BY <1>1, <1>3
      <3> QED BY <3>1 DEF BackState, ReaderState
    <2>2. here = [op |-> n, end |-> r.end - o, operands |-> s.operands,
                  score |-> Cardinality(FlagsOn(code, o, op)),
                  flags |-> RestoreFlags(code, o, op)]
      BY <1>8, <1>10, <1>11, <2>1 DEF ReadingOf
    <2>3. r = [op |-> n, end |-> r.end, operands |-> s.operands,
               score |-> Cardinality(FlagsOn(code, o, op)),
               flags |-> RestoreFlags(code, o, op)]
      BY <1>6, <1>8 DEF ReadingOf
    <2> HIDE DEF n, op, here
    <2> QED BY <2>2, <2>3
  <1> HIDE DEF here
  <1>13. \A q : q \in Readings(w, 0) <=> q = here
    <2>1. \A q : q \in Readings(w, 0) <=>
              \E m \in Offered(w, 0) : \E u \in ReadParams(w, 0, Ops[m]) :
                  q = ReadingOf(w, 0, m, u)
      BY <1>1, ReadingsTyped
    <2> QED BY <1>5, <1>9, <2>1 DEF here
  <1>14. \A q : q \in StatementAt(w, 0) <=>
             /\ q \in Readings(w, 0)
             /\ \A x \in Readings(w, 0) \ {q} : Preferred(q, x)
    BY <1>1, <1>4, StatementAtIs
  <1>15. \A q : q \in StatementAt(w, 0) <=> q = here
    BY <1>13, <1>14
  <1>16. StatementAt(w, 0) = {here}
    BY <1>15
  <1> QED BY <1>4, <1>12, <1>16
=============================================================================
