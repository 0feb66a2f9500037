------------------------ MODULE AnalysisPluginProofs ------------------------
(***************************************************************************)
(* What holds of the analysis plugin for every image, every operator       *)
(* table, every limit of the scans and every order of calls: no label      *)
(* loses its flag, and the plugin's variables keep their types.            *)
(***************************************************************************)
EXTENDS AnalysisPlugin, StatementAtProofs

(* A flag with an address in its name lies there.  Without that, the flag  *)
(* that FlagLabel moves could be another label's.                          *)
FlagsAtHome ==
    \A f \in labelFlags :
        \E id : f.name = <<id>> \/ f.name = <<id, f.addr>>

FlagInv == FlagsAtHome /\ LabelsKeepFlags

\* Names with and without an address are different.
LEMMA NamesApart ==
    ASSUME NEW i, NEW j, NEW a, NEW b
    PROVE  /\ <<i>> # <<j, a>>
           /\ <<i>>[1] = i /\ <<i, a>>[1] = i
           /\ <<i>> = <<j>> => i = j
           /\ <<i, a>> = <<j, b>> => i = j /\ a = b
<1>1. <<i>> # <<j, a>>
  <2>1. Len(<<i>>) = 1 /\ Len(<<j, a>>) = 2
    OBVIOUS
  <2> QED BY <2>1
<1> QED BY <1>1

(* mc7p_flag_label flags the label, keeps every flag of another name and   *)
(* takes no flag away that another label needs.                            *)
LEMMA FlagLabelKeeps ==
    ASSUME FlagInv, NEW id, NEW a,
           labelFlags' = FlagLabel(id, a),
           seen' = seen \cup {[addr |-> a, id |-> id]}
    PROVE  FlagInv'
<1>1. CASE IsNegativeLong(id)
  <2>1. labelFlags' = labelFlags
    BY <1>1 DEF FlagLabel
  <2> QED BY <1>1, <2>1 DEF FlagInv, FlagsAtHome, LabelsKeepFlags
<1>2. CASE ~IsNegativeLong(id)
  <2> DEFINE taken == \E f \in labelFlags : f.name = <<id>> /\ f.addr # a
             name  == IF taken THEN <<id, a>> ELSE <<id>>
             new   == [name |-> name, addr |-> a]
  <2>1. labelFlags' = {f \in labelFlags : f.name # name} \cup {new}
    BY <1>2 DEF FlagLabel, FlagSet
  <2>2. name = <<id>> \/ name = <<id, a>>
    OBVIOUS
  <2>3. new.name = name /\ new.addr = a /\ name[1] = id
    BY <2>2, NamesApart
  \* A flag that is moved was at the address before.
  <2>4. \A f \in labelFlags : f.name = name => f.addr = a /\ f.name[1] = id
    <3> SUFFICES ASSUME NEW f \in labelFlags, f.name = name
                 PROVE  f.addr = a /\ f.name[1] = id
      OBVIOUS
    <3>1. CASE taken
      <4>1. f.name = <<id, a>>
        BY <3>1
      <4>2. PICK i : f.name = <<i>> \/ f.name = <<i, f.addr>>
        BY DEF FlagInv, FlagsAtHome
      <4> QED BY <2>3, <4>1, <4>2, NamesApart
    <3>2. CASE ~taken
      <4>1. f.name = <<id>>
        BY <3>2
      <4> QED BY <2>3, <3>2, <4>1
    <3> QED BY <3>1, <3>2
  <2>5. FlagsAtHome'
    <3>1. \E i : new.name = <<i>> \/ new.name = <<i, new.addr>>
      BY <2>2, <2>3
    <3> QED BY <2>1, <3>1 DEF FlagInv, FlagsAtHome
  <2>6. LabelsKeepFlags'
    <3> SUFFICES ASSUME NEW l \in seen', ~IsNegativeLong(l.id)
                 PROVE  \E f \in labelFlags' : f.addr = l.addr /\ f.name[1] = l.id
      BY DEF LabelsKeepFlags
    <3>1. new \in labelFlags'
      BY <2>1
    <3>2. CASE l \in seen
      <4>1. PICK f \in labelFlags : f.addr = l.addr /\ f.name[1] = l.id
        BY <3>2 DEF FlagInv, LabelsKeepFlags
      <4>2. CASE f.name = name
        BY <2>3, <2>4, <3>1, <4>1, <4>2
      <4>3. CASE f.name # name
        BY <2>1, <4>1, <4>3
      <4> QED BY <4>2, <4>3
    <3>3. CASE l = [addr |-> a, id |-> id]
      <4>1. new.addr = l.addr /\ new.name[1] = l.id
        BY <2>3, <3>3
      <4> QED BY <3>1, <4>1
    <3> QED BY <3>2, <3>3
  <2> QED BY <2>5, <2>6 DEF FlagInv
<1> QED BY <1>1, <1>2

\* What leaves the flags and the labels alone leaves the invariant.
LEMMA FlagsKept ==
    ASSUME FlagInv, UNCHANGED <<labelFlags, seen>>
    PROVE  FlagInv'
BY DEF FlagInv, FlagsAtHome, LabelsKeepFlags

LEMMA FlagInit == Init => FlagInv
BY DEF Init, FlagInv, FlagsAtHome, LabelsKeepFlags

LEMMA FlagStep == FlagInv /\ [Next]_vars => FlagInv'
<1> SUFFICES ASSUME FlagInv, [Next]_vars PROVE FlagInv'
  OBVIOUS
<1>1. CASE Analyse
  <2>1. PICK a, r : AnalyseStatement(a, r, FlowOf(r))
    BY <1>1 DEF Analyse
  <2>2. CASE FlowOf(r).kind = "LABEL"
    <3>1. /\ labelFlags' = FlagLabel(FlowOf(r).id, a)
          /\ seen' = seen \cup {[addr |-> a, id |-> FlowOf(r).id]}
      BY <2>1, <2>2 DEF AnalyseStatement
    <3> QED BY <3>1, FlagLabelKeeps
  <2>3. CASE FlowOf(r).kind # "LABEL"
    BY <2>1, <2>3, FlagsKept DEF AnalyseStatement
  <2> QED BY <2>2, <2>3
<1>2. CASE AnalyseInvalid
  BY <1>2, FlagsKept DEF AnalyseInvalid
<1>3. CASE IoStep
  BY <1>3, FlagsKept DEF IoStep
<1>4. CASE IoGiveUp
  BY <1>4, FlagsKept DEF IoGiveUp
<1>5. CASE DataStep
  BY <1>5, FlagsKept DEF DataStep
<1>6. CASE DataGiveUp
  BY <1>6, FlagsKept DEF DataGiveUp
<1>7. CASE UNCHANGED vars
  BY <1>7, FlagsKept DEF vars
<1> QED BY <1>1, <1>2, <1>3, <1>4, <1>5, <1>6, <1>7 DEF Next

(* Every label analysed keeps a flag of its own id at its own address:     *)
(* analysis_op_mc7plus may be called for any addresses, in any order, and  *)
(* several blocks may number their labels alike (mc7p_flag_label).         *)
THEOREM FlagsHold == Spec => []LabelsKeepFlags
<1>1. FlagInv => LabelsKeepFlags
  BY DEF FlagInv
<1> QED BY FlagInit, FlagStep, <1>1, PTL DEF Spec
-----------------------------------------------------------------------------
(* The reference addresses.  Every access the decoders build has one, a    *)
(* word or UT64_MAX, the indirect ones through their two parts.            *)
LEMMA PlainRefTyped ==
  ASSUME NEW kinds, NEW subs, NEW a \in AccessOf(kinds, subs)
  PROVE  PlainRef(a) \in Word
  <1>1. a.offset \in Word /\ a.number \in Word
    BY DEF AccessOf
  <1>2. /\ \A w, k : ShiftLeft(w, k) \in Word
        /\ \A w \in Word : \A n : LowBits(w, n) \in Word
        /\ AllOnes \in Word
    BY WordOperations
  <1>3. \A v, w \in Word : v \cup w \in Word
    BY DEF Word
  <1>4. \A kind : \A w \in Word : Tagged(kind, w) \in Word
    <2>1. TAKE kind
    <2>2. TAKE w \in Word
    <2>3. /\ ShiftLeft(BitsOf(28003), 48) \in Word /\ ShiftLeft(BitsOf(14192), 32) \in Word
          /\ ShiftLeft(BitsOf(RefClass[kind]), 48) \in Word
      BY <1>2
    <2> QED BY <2>3 DEF Tagged, RefBase, Word
  <1>5. \A n, k : ByteField(n, k) \in Word
    BY <1>2 DEF ByteField
  <1>6. CASE a.kind = "db"
    <2>1. ByteField(a.range, 40) \cup ShiftLeft(LowBits(a.number, 20), 20)
              \cup LowBits(a.offset, 20) \in Word
      BY <1>1, <1>2, <1>3, <1>5
    <2> QED BY <1>4, <1>6, <2>1 DEF PlainRef
  <1>7. CASE a.kind = "mem"
    <2>1. ByteField(a.area, 40) \cup LowBits(a.offset, 40) \in Word
      BY <1>1, <1>2, <1>3, <1>5
    <2> QED BY <1>4, <1>7, <2>1 DEF PlainRef
  <1>8. CASE a.kind = "slot"
    <2>1. ByteField(a.scope, 40) \cup ByteField(a.range, 32) \cup LowBits(a.number, 32) \in Word
      BY <1>1, <1>2, <1>3, <1>5
    <2> QED BY <1>4, <1>8, <2>1 DEF PlainRef
  <1>9. CASE a.kind \notin {"db", "mem", "slot"}
    BY <1>2, <1>9 DEF PlainRef, NoRef
  <1> QED BY <1>6, <1>7, <1>8, <1>9

LEMMA PartsTyped ==
  ASSUME NEW a \in Access, a.kind = "indirect"
  PROVE  a.sub[1] \in Part /\ a.sub[2] \in Part
  <1>1. a \in AccessOf({"indirect"}, Part \X Part)
    BY DEF Access, AccessOf
  <1>2. a.sub \in Part \X Part
    BY <1>1 DEF AccessOf
  <1> QED BY <1>2

LEMMA RefAddrTyped ==
  ASSUME NEW a \in Access
  PROVE  RefAddr(a) \in Word
  <1>1. CASE a.kind # "indirect"
    <2>1. \/ a \in AccessOf({"imm", "mem", "slot", "ptr", "db", "type", "cond"}, {<<>>})
          \/ a \in AccessOf({"indirect"}, Part \X Part)
      BY DEF Access
    <2>2. PlainRef(a) \in Word
      BY <2>1, PlainRefTyped
    <2> QED BY <1>1, <2>2 DEF RefAddr
  <1>2. CASE a.kind = "indirect"
    <2> DEFINE fields == {b \in PlainRef(a.sub[1]) : b \in 32..47}
                         \cup LowBits(PlainRef(a.sub[2]), 32)
    <2>1. PlainRef(a.sub[2]) \in Word
      BY <1>2, PartsTyped, PlainRefTyped DEF Part
    <2>2. LowBits(PlainRef(a.sub[2]), 32) \in Word
      BY <2>1, WordOperations
    <2>3. {b \in PlainRef(a.sub[1]) : b \in 32..47} \in Word
      BY DEF Word, Bits64
    <2>4. fields \in Word
      BY <2>2, <2>3 DEF Word
    <2>5. /\ ShiftLeft(BitsOf(28003), 48) \in Word /\ ShiftLeft(BitsOf(14192), 32) \in Word
          /\ ShiftLeft(BitsOf(RefClass["indirect"]), 48) \in Word
      BY WordOperations
    <2> HIDE DEF fields
    <2>6. Tagged("indirect", fields) \in Word
      BY <2>4, <2>5 DEF Tagged, RefBase, Word
    <2> QED BY <1>2, <2>6 DEF RefAddr, fields
  <1> QED BY <1>1, <1>2

\* What mc7p_op_add_value may report: an access, its address and its name.
Reported ==
  {[acc |-> a, base |-> RefAddr(a), access |-> m, name |-> AccessName(a, t)] :
       a \in Access, m \in {"r", "w"}, t \in SUBSET Nat}

LEMMA ReportedTyped ==
  ASSUME NEW v \in Reported
  PROVE  v.base \in Word /\ v.acc \in Access
  BY RefAddrTyped DEF Reported

LEMMA ValueReported ==
  ASSUME NEW a \in Access, NEW m \in {"r", "w"}, NEW t \in SUBSET Nat
  PROVE  Value(a, m, t) \in Seq(Reported)
  <1> DEFINE v == [acc |-> a, base |-> RefAddr(a), access |-> m, name |-> AccessName(a, t)]
  <1>1. v \in Reported
    BY DEF Reported
  <1> HIDE DEF v
  <1>2. <<v>> \in Seq(Reported) /\ <<>> \in Seq(Reported)
    BY <1>1
  <1> QED BY <1>2 DEF Value, v

LEMMA ValuesReported ==
  ASSUME NEW a \in Access, NEW m \in {"r", "w"}, NEW t \in SUBSET Nat
  PROVE  Values(a, m, t) \in Seq(Reported)
  <1>1. Value(a, m, t) \in Seq(Reported) /\ <<>> \in Seq(Reported)
    BY ValueReported
  <1>2. CASE a.kind = "indirect"
    <2>1. a.sub[1] \in Access /\ a.sub[2] \in Access
      BY <1>2, PartsTyped DEF Part, Access, AccessOf
    <2>2. "r" \in {"r", "w"} /\ {} \in SUBSET Nat
      OBVIOUS
    <2>3. /\ Value(a.sub[1], "r", {}) \in Seq(Reported)
          /\ Value(a.sub[2], "r", {}) \in Seq(Reported)
      BY <2>1, <2>2, ValueReported
    <2> QED BY <1>1, <1>2, <2>3 DEF Values
  <1>3. CASE a.kind # "indirect"
    BY <1>1, <1>3 DEF Values
  <1> QED BY <1>2, <1>3

(* mc7p_fill_access_from_params, parameter by parameter: how far it is in  *)
(* the operands, the type in effect and what it has reported.              *)
ParamState == [oi : Nat, type : SUBSET Nat, values : Seq(Reported)]

IsWalk(s, row, operands, n) ==
  s = [i \in 0..n |-> IF i = 0 THEN [oi |-> 0, type |-> {}, values |-> <<>>]
                      ELSE ParamAccess(row, operands, i, s[i - 1])]

LEMMA WalkExists ==
  ASSUME NEW row, NEW operands, NEW n \in Nat
  PROVE  \E s : IsWalk(s, row, operands, n)
  <1> DEFINE first == [oi |-> 0, type |-> {}, values |-> <<>>]
             S == {m \in Nat : \E s : IsWalk(s, row, operands, m)}
  <1> HIDE DEF first
  <1>1. 0 \in S
    <2>1. LET s == [i \in 0..0 |-> first] IN IsWalk(s, row, operands, 0)
      BY DEF IsWalk, first
    <2> QED BY <2>1
  <1>2. ASSUME NEW m \in Nat, m \in S
        PROVE  m + 1 \in S
    <2>1. PICK f : f = [i \in 0..m |-> IF i = 0 THEN first
                                       ELSE ParamAccess(row, operands, i, f[i - 1])]
      BY <1>2 DEF IsWalk, first
    <2> DEFINE g == [i \in 0..(m + 1) |->
                        IF i = m + 1 THEN ParamAccess(row, operands, i, f[m]) ELSE f[i]]
    <2>2. ASSUME NEW i \in 0..(m + 1)
          PROVE  g[i] = IF i = 0 THEN first ELSE ParamAccess(row, operands, i, g[i - 1])
      <3>1. CASE i = 0
        BY <2>1, <3>1
      <3>2. CASE i # 0 /\ i # m + 1
        <4>1. i \in 0..m /\ i - 1 \in 0..(m + 1) /\ i - 1 # m + 1
          BY <3>2
        <4>2. g[i] = f[i] /\ g[i - 1] = f[i - 1]
          BY <4>1
        <4>3. f[i] = ParamAccess(row, operands, i, f[i - 1])
          BY <2>1, <3>2, <4>1
        <4> QED BY <3>2, <4>2, <4>3
      <3>3. CASE i = m + 1
        <4>1. i # 0 /\ i - 1 = m /\ m \in 0..(m + 1) /\ m # m + 1
          BY <3>3
        <4>2. g[i - 1] = f[m]
          BY <4>1
        <4>3. g[i] = ParamAccess(row, operands, i, f[m])
          BY <3>3
        <4> QED BY <4>1, <4>2, <4>3
      <3> QED BY <3>1, <3>2, <3>3
    <2>3. g = [i \in 0..(m + 1) |-> g[i]]
      OBVIOUS
    <2> HIDE DEF g
    <2>4. IsWalk(g, row, operands, m + 1)
      BY <2>2, <2>3 DEF IsWalk, first
    <2> QED BY <2>4
  <1> HIDE DEF S
  <1>3. Nat \subseteq S
    BY <1>1, <1>2, Induction
  <1> QED BY <1>3 DEF S

Walk(row, operands) == CHOOSE s : IsWalk(s, row, operands, Len(row.params))

LEMMA ParamAccessTyped ==
  ASSUME NEW row, row.params \in Seq(Param), NEW operands \in Seq(Access),
         NEW i \in 1..Len(row.params), NEW s \in ParamState
  PROVE  ParamAccess(row, operands, i, s) \in ParamState
  <1> DEFINE p == row.params[i]
             a == operands[s.oi + 1]
             mode == IF p.mode = Mode.Dest THEN "w" ELSE "r"
             values == Values(a, mode, s.type)
  <1>1. s.oi \in Nat /\ s.type \in SUBSET Nat /\ s.values \in Seq(Reported)
    BY DEF ParamState
  <1>2. CASE s.oi >= Len(operands) \/ p.kind \in {"flag", "coding"}
    BY <1>2 DEF ParamAccess
  <1>3. CASE ~(s.oi >= Len(operands) \/ p.kind \in {"flag", "coding"})
    <2>1. a \in Access
      BY <1>1, <1>3
    <2>2. values \in Seq(Reported)
      BY <1>1, <2>1, ValuesReported
    <2>3. a.dt \in Nat
      BY <2>1 DEF Access, AccessOf
    <2> HIDE DEF a, values
    <2>4. s.values \o values \in Seq(Reported)
      BY <1>1, <2>2
    <2>5. s.oi + 1 \in Nat /\ {a.dt} \in SUBSET Nat
      BY <1>1, <2>3
    <2>6. \E type \in SUBSET Nat, all \in Seq(Reported) :
              ParamAccess(row, operands, i, s) = [oi |-> s.oi + 1, type |-> type, values |-> all]
      <3> DEFINE type == IF p.kind = "type" /\ a.kind = "type" THEN {a.dt} ELSE s.type
                 known == p.kind = "ident" /\ IsRef(a) /\ ModeAccess(p.mode) # {}
                 all == IF known THEN s.values \o values ELSE s.values
      <3>1. type \in SUBSET Nat /\ all \in Seq(Reported)
        BY <1>1, <2>4, <2>5
      <3>2. ParamAccess(row, operands, i, s) = [oi |-> s.oi + 1, type |-> type, values |-> all]
        BY <1>3 DEF ParamAccess, a, values
      <3> QED BY <3>1, <3>2
    <2> QED BY <2>5, <2>6 DEF ParamState
  <1> QED BY <1>2, <1>3

LEMMA FromParamsReported ==
  ASSUME NEW row, row.params \in Seq(Param), NEW operands \in Seq(Access)
  PROVE  AccessFromParams(row, operands) \in Seq(Reported)
  <1> DEFINE n == Len(row.params)
             s == Walk(row, operands)
             S == {i \in Nat : i <= n => s[i] \in ParamState}
  <1>1. n \in Nat /\ 0 \in 0..n
    OBVIOUS
  <1>2. s = [i \in 0..n |-> IF i = 0 THEN [oi |-> 0, type |-> {}, values |-> <<>>]
                            ELSE ParamAccess(row, operands, i, s[i - 1])]
    <2>1. IsWalk(s, row, operands, n)
      BY <1>1, WalkExists DEF Walk
    <2> QED BY <2>1 DEF IsWalk
  <1>7. AccessFromParams(row, operands) = s[n].values
    BY DEF AccessFromParams, Walk, IsWalk
  <1> HIDE DEF s
  <1>3. 0 \in S
    <2>1. s[0] = [oi |-> 0, type |-> {}, values |-> <<>>]
      BY <1>1, <1>2
    <2>2. <<>> \in Seq(Reported) /\ {} \in SUBSET Nat
      OBVIOUS
    <2>3. s[0] \in ParamState
      BY <2>1, <2>2 DEF ParamState
    <2> QED BY <2>3
  <1>4. ASSUME NEW i \in Nat, i \in S
        PROVE  i + 1 \in S
    <2> SUFFICES ASSUME i + 1 <= n PROVE s[i + 1] \in ParamState
      OBVIOUS
    <2>1. i + 1 \in 1..n /\ i + 1 \in 0..n /\ i + 1 # 0 /\ (i + 1) - 1 = i /\ i <= n
      BY <1>1
    <2>2. s[i + 1] = ParamAccess(row, operands, i + 1, s[i])
      BY <1>2, <2>1
    <2>3. s[i] \in ParamState
      BY <1>4, <2>1
    <2> QED BY <2>1, <2>2, <2>3, ParamAccessTyped
  <1> HIDE DEF S
  <1>5. Nat \subseteq S
    BY <1>3, <1>4, Induction
  <1>6. s[n] \in ParamState
    BY <1>1, <1>5 DEF S
  <1> QED BY <1>6, <1>7 DEF ParamState

(* mc7p_fill_access_fallback, operand by operand.                          *)
FallbackType(operands) ==
  LET types == {i \in DOMAIN operands : operands[i].kind = "type"}
  IN  {operands[i].dt : i \in {j \in types : \A k \in types : j <= k}}

FallbackValues(row, operands, i) ==
  LET first == {j \in DOMAIN operands :
                    IsRef(operands[j]) /\ \A k \in 1..(j - 1) : ~IsRef(operands[k])}
      mode  == IF i \in first /\ row.class \in {"MOVE", "ARITH"} THEN "w" ELSE "r"
  IN  IF IsRef(operands[i]) THEN Values(operands[i], mode, FallbackType(operands)) ELSE <<>>

IsFallback(s, row, operands, n) ==
  s = [i \in 0..n |-> IF i = 0 THEN <<>>
                      ELSE s[i - 1] \o FallbackValues(row, operands, i)]

Fallback(row, operands) == CHOOSE s : IsFallback(s, row, operands, Len(operands))

LEMMA FallbackExists ==
  ASSUME NEW row, NEW operands, NEW n \in Nat
  PROVE  \E s : IsFallback(s, row, operands, n)
  <1> DEFINE S == {m \in Nat : \E s : IsFallback(s, row, operands, m)}
             next(values, i) == values \o FallbackValues(row, operands, i)
  <1>1. 0 \in S
    <2>1. LET s == [i \in 0..0 |-> <<>>] IN IsFallback(s, row, operands, 0)
      BY DEF IsFallback
    <2> QED BY <2>1
  <1>2. ASSUME NEW m \in Nat, m \in S
        PROVE  m + 1 \in S
    <2>1. PICK f : f = [i \in 0..m |-> IF i = 0 THEN <<>> ELSE next(f[i - 1], i)]
      BY <1>2 DEF IsFallback
    <2> DEFINE g == [i \in 0..(m + 1) |-> IF i = m + 1 THEN next(f[m], i) ELSE f[i]]
    <2> HIDE DEF next
    <2>2. ASSUME NEW i \in 0..(m + 1)
          PROVE  g[i] = IF i = 0 THEN <<>> ELSE next(g[i - 1], i)
      <3>1. CASE i = 0
        BY <2>1, <3>1
      <3>2. CASE i # 0 /\ i # m + 1
        <4>1. i \in 0..m /\ i - 1 \in 0..(m + 1) /\ i - 1 # m + 1
          BY <3>2
        <4>2. g[i] = f[i] /\ g[i - 1] = f[i - 1]
          BY <4>1
        <4>3. f[i] = next(f[i - 1], i)
          BY <2>1, <3>2, <4>1
        <4> QED BY <3>2, <4>2, <4>3
      <3>3. CASE i = m + 1
        <4>1. i # 0 /\ i - 1 = m /\ m \in 0..(m + 1) /\ m # m + 1
          BY <3>3
        <4>2. g[i - 1] = f[m]
          BY <4>1
        <4>3. g[i] = next(f[m], i)
          BY <3>3
        <4> QED BY <4>1, <4>2, <4>3
      <3> QED BY <3>1, <3>2, <3>3
    <2>3. g = [i \in 0..(m + 1) |-> g[i]]
      OBVIOUS
    <2> HIDE DEF g
    <2>4. IsFallback(g, row, operands, m + 1)
      BY <2>2, <2>3 DEF IsFallback, next
    <2> QED BY <2>4
  <1> HIDE DEF S
  <1>3. Nat \subseteq S
    BY <1>1, <1>2, Induction
  <1> QED BY <1>3 DEF S

LEMMA FallbackReported ==
  ASSUME NEW row, NEW operands \in Seq(Access)
  PROVE  AccessFallback(row, operands) \in Seq(Reported)
  <1> DEFINE n == Len(operands)
             s == Fallback(row, operands)
             S == {i \in Nat : i <= n => s[i] \in Seq(Reported)}
  <1>1. n \in Nat /\ 0 \in 0..n
    OBVIOUS
  <1>2. s = [i \in 0..n |-> IF i = 0 THEN <<>>
                            ELSE s[i - 1] \o FallbackValues(row, operands, i)]
    <2>1. IsFallback(s, row, operands, n)
      BY <1>1, FallbackExists DEF Fallback
    <2> QED BY <2>1 DEF IsFallback
  <1>3. AccessFallback(row, operands) = s[n]
    BY DEF AccessFallback, Fallback, IsFallback, FallbackValues, FallbackType
  <1> HIDE DEF s
  <1>4. ASSUME NEW i \in 1..n
        PROVE  FallbackValues(row, operands, i) \in Seq(Reported)
    <2>1. \A j \in DOMAIN operands : operands[j] \in Access
      OBVIOUS
    <2>2. \A a \in Access : a.dt \in Nat
      BY DEF Access, AccessOf
    <2>3. FallbackType(operands) \in SUBSET Nat
      BY <2>1, <2>2 DEF FallbackType
    <2>4. \A m \in {"r", "w"} :
              Values(operands[i], m, FallbackType(operands)) \in Seq(Reported)
      BY <2>1, <2>3, ValuesReported
    <2> QED BY <2>4 DEF FallbackValues
  <1>5. 0 \in S
    BY <1>1, <1>2
  <1>6. ASSUME NEW i \in Nat, i \in S
        PROVE  i + 1 \in S
    <2> SUFFICES ASSUME i + 1 <= n PROVE s[i + 1] \in Seq(Reported)
      OBVIOUS
    <2>1. i + 1 \in 1..n /\ i + 1 \in 0..n /\ i + 1 # 0 /\ (i + 1) - 1 = i /\ i <= n
      BY <1>1
    <2>2. s[i + 1] = s[i] \o FallbackValues(row, operands, i + 1)
      BY <1>2, <2>1
    <2>3. s[i] \in Seq(Reported)
      BY <1>6, <2>1
    <2>4. FallbackValues(row, operands, i + 1) \in Seq(Reported)
      BY <1>4, <2>1
    <2> QED BY <2>2, <2>3, <2>4
  <1> HIDE DEF S
  <1>7. Nat \subseteq S
    BY <1>5, <1>6, Induction
  <1> QED BY <1>1, <1>3, <1>7 DEF S

(* Whatever the statement, every address that mc7p_fill_analysis_access    *)
(* reports is a word.                                                      *)
LEMMA AnalysisAccessReported ==
  ASSUME NEW row, row.params \in Seq(Param), NEW operands \in Seq(Access)
  PROVE  AnalysisAccess(row, operands) \in Seq(Reported)
  BY FromParamsReported, FallbackReported DEF AnalysisAccess
-----------------------------------------------------------------------------
(* Type correctness.  Beside the types, the invariant says that the buffer *)
(* of a call with a scan under way lies in readable memory, so that the    *)
(* label either scan finds has an address in the image.                    *)
InMemory ==
  pc # "idle" => op.addr >= image.from /\ op.addr + Len(data) <= image.from + Len(image.bytes)

OpWhole == DOMAIN op = DOMAIN NoOp /\ op.addr \in Nat

PluginInv == TypeOK /\ InMemory /\ OpWhole

LEMMA ImageTyped ==
  ASSUME image \in Images
  PROVE  /\ image.bytes \in Seq(Byte) /\ image.from \in Nat /\ Len(image.bytes) \in Nat
         /\ Addresses \subseteq Nat
         /\ \A a \in Nat : a \in Addresses <=> a >= image.from /\ a < image.from + Len(image.bytes)
  <1>1. image.bytes \in Seq(Byte) /\ image.from \in Nat
    BY PluginAssumption
  <1>2. Len(image.bytes) \in Nat
    BY <1>1
  <1> QED BY <1>1, <1>2 DEF Addresses

\* What rizin reads for an address is bytes, as many as were asked for.
LEMMA ReadTyped ==
  ASSUME image \in Images, NEW a \in Nat, NEW n \in Nat, CanRead(a, n)
  PROVE  MemoryAt(a, n) \in Seq(Byte) /\ Len(MemoryAt(a, n)) = n
  <1>1. image.bytes \in Seq(Byte) /\ image.from \in Nat /\ Len(image.bytes) \in Nat
    BY ImageTyped
  <1> DEFINE lo == a - image.from + 1
             hi == a - image.from + n
  <1>2. /\ lo \in Nat /\ lo >= 1 /\ hi \in Nat /\ hi <= Len(image.bytes)
        /\ hi - lo + 1 = n /\ lo <= hi + 1
    <2> DEFINE from == image.from
               len  == Len(image.bytes)
    <2>1. from \in Nat /\ len \in Nat /\ a >= from /\ a + n <= from + len
      BY <1>1 DEF CanRead
    <2> HIDE DEF from, len
    <2>2. /\ a - from + 1 \in Nat /\ a - from + 1 >= 1 /\ a - from + n \in Nat
          /\ a - from + n <= len /\ (a - from + n) - (a - from + 1) + 1 = n
          /\ a - from + 1 <= a - from + n + 1
      BY <2>1
    <2> QED BY <2>2 DEF from, len
  <1> HIDE DEF lo, hi
  <1>3. SubSeq(image.bytes, lo, hi) \in Seq(Byte)
    <2>1. hi \in Int
      BY <1>2
    <2> QED BY <1>1, <1>2, <2>1, PieceTyped
  <1>4. Len(SubSeq(image.bytes, lo, hi)) = n
    BY <1>1, <1>2
  <1> QED BY <1>3, <1>4 DEF MemoryAt, lo, hi

\* mc7p_flow_one gives a kind and a label id, whatever the statement's operands.
LEMMA FlowTyped ==
  ASSUME NEW r \in Reading
  PROVE  FlowOf(r) \in Flow
  <1> DEFINE acc == r.operands
             Pair(kind, id) == [kind |-> kind, id |-> id]
  <1>1. acc \in Seq(Access) /\ NoLabel \in Word
    BY WordOperations DEF Reading, NoLabel
  <1>2. \A i \in DOMAIN acc : acc[i].value \in Word /\ LabelOf(acc[i]) \in Word
    <2>1. \A a \in Access : a.value \in Word
      BY DEF Access, AccessOf
    <2>2. \A i \in DOMAIN acc : acc[i] \in Access
      BY <1>1
    <2> QED BY <1>1, <2>1, <2>2 DEF LabelOf
  <1>3. acc # <<>> => 1 \in DOMAIN acc /\ Len(acc) \in DOMAIN acc
    BY <1>1
  <1> HIDE DEF acc
  <1>4. \E kind \in {"NONE", "LABEL", "JMP", "CJMP", "CALL", "RET"}, id \in Word :
            FlowOf(r) = [kind |-> kind, id |-> id]
    <2>1. CASE Ops[r.op].class = "LABEL"
      BY <1>1, <1>2, <1>3, <2>1 DEF FlowOf, acc
    <2>2. CASE Ops[r.op].class \in {"JMP", "JMP_"}
      <3> DEFINE conditional == Ops[r.op].class # "JMP"
                                \/ r.flags \cap {Flag.Cond, Flag.Negated} # {}
                 id == IF acc = <<>> THEN NoLabel ELSE LabelOf(acc[Len(acc)])
      <3>1. id \in Word
        BY <1>1, <1>2, <1>3
      <3>2. FlowOf(r) = [kind |-> IF conditional THEN "CJMP" ELSE "JMP", id |-> id]
        BY <2>2 DEF FlowOf, acc
      <3> HIDE DEF id, conditional
      <3> QED BY <3>1, <3>2
    <2>3. CASE Ops[r.op].class = "CALL"
      <3> DEFINE id == IF acc = <<>> THEN NoLabel ELSE LabelOf(acc[1])
      <3>1. id \in Word
        BY <1>1, <1>2, <1>3
      <3>2. FlowOf(r) = [kind |-> "CALL", id |-> id]
        BY <2>3 DEF FlowOf, acc
      <3> QED BY <3>1, <3>2
    <2>4. CASE Ops[r.op].class = "RET"
      BY <1>1, <2>4 DEF FlowOf
    <2>5. CASE Ops[r.op].class \notin {"LABEL", "JMP", "JMP_", "CALL", "RET"}
      BY <1>1, <2>5 DEF FlowOf
    <2> QED BY <2>1, <2>2, <2>3, <2>4, <2>5
  <1> QED BY <1>4 DEF Flow

\* The accesses of a statement are taken from the statement its bytes decode to.
LEMMA AccessesTyped ==
  ASSUME NEW bytes \in Seq(Byte)
  PROVE  AccessesOf(bytes) \in Seq(Reported)
  <1> DEFINE st == StatementAt(bytes, 0)
             r == CHOOSE q \in st : TRUE
  <1>1. CASE st = {}
    BY <1>1 DEF AccessesOf
  <1>2. CASE st # {}
    <2>1. r \in st
      BY <1>2
    <2>2. r \in Reading
      BY <2>1, StatementTyped
    <2> HIDE DEF r
    <2>3. r.op \in DOMAIN Ops /\ r.operands \in Seq(Access)
      BY <2>2 DEF Reading
    <2>4. Ops[r.op].params \in Seq(Param)
      BY <2>3, RowTyped
    <2>5. AnalysisAccess(Ops[r.op], r.operands) \in Seq(Reported)
      BY <2>3, <2>4, AnalysisAccessReported
    <2> QED BY <1>2, <2>5 DEF AccessesOf, r
  <1> QED BY <1>1, <1>2

\* The flags of variables keep their addresses words, the newest among them.
LEMMA FlagAccessesTyped ==
  ASSUME TypeOK, NEW values \in Seq(Reported)
  PROVE  \A f \in FlagAccesses(values) : f.addr \in Word
  <1>1. \A i \in DOMAIN values : values[i].base \in Word
    BY ReportedTyped
  <1> QED BY <1>1 DEF FlagAccesses, TypeOK

LEMMA PluginInit == Init => PluginInv
  <1> SUFFICES ASSUME Init PROVE PluginInv
    OBVIOUS
  <1>1. NoLabel \in Word
    BY WordOperations DEF NoLabel
  <1>2. op.size = 0 /\ op.kind = "NONE" /\ op.id = NoLabel /\ op.jump = {} /\ op.addr = 0
    BY DEF Init, NoOp
  <1>3. data = <<>> /\ Len(data) = 0 /\ data \in Seq(Byte)
    BY DEF Init
  <1>4. [kind |-> op.kind, id |-> op.id] \in Flow
    BY <1>1, <1>2 DEF Flow
  <1>5. 0 \in 0..ScanMax
    BY PluginAssumption
  <1>6. TypeOK
    BY <1>2, <1>3, <1>4, <1>5 DEF TypeOK, Init
  <1>7. InMemory
    BY DEF Init, InMemory
  <1>8. DOMAIN op = DOMAIN NoOp
    BY DEF Init
  <1> QED BY <1>2, <1>6, <1>7, <1>8 DEF PluginInv, OpWhole

\* A new label and its flag, plain or with the address.
LEMMA LabelFlagTyped ==
  ASSUME TypeOK, NEW id \in Word, NEW a \in Addresses, image' = image,
         labelFlags' = FlagLabel(id, a),
         seen' = seen \cup {[addr |-> a, id |-> id]}
  PROVE  /\ labelFlags' \subseteq LabelFlag'
         /\ \A l \in seen' : l.addr \in Addresses' /\ l.id \in Word
  <1> DEFINE l == [addr |-> a, id |-> id]
             new(name) == [name |-> name, addr |-> a]
  <1>1. Addresses' = Addresses /\ l \in seen' /\ l.id = id /\ l.addr = a
    BY DEF Addresses
  <1>2. \A x \in seen : x \in seen'
    OBVIOUS
  <1>3. LabelFlag \subseteq LabelFlag'
    BY <1>1, <1>2 DEF LabelFlag
  <1>4. /\ <<id>> \in {<<i>> : i \in {x.id : x \in seen'}}
        /\ <<id, a>> \in {<<x.id, x.addr>> : x \in seen'}
    BY <1>1
  <1>5. new(<<id>>) \in LabelFlag' /\ new(<<id, a>>) \in LabelFlag'
    BY <1>1, <1>4 DEF LabelFlag
  <1>6. labelFlags \subseteq LabelFlag'
    BY <1>3 DEF TypeOK
  <1>7. labelFlags' \subseteq labelFlags \cup {new(<<id>>), new(<<id, a>>)}
    BY DEF FlagLabel, FlagSet
  <1>8. \A x \in seen' : x.addr \in Addresses' /\ x.id \in Word
    BY <1>1 DEF TypeOK
  <1> QED BY <1>5, <1>6, <1>7, <1>8

\* A call up to its scan.
LEMMA AnalyseInv ==
  ASSUME PluginInv, Analyse
  PROVE  PluginInv'
  <1>1. PICK a \in Addresses : \E n \in DataLens :
            /\ CanRead(a, n) /\ data' = MemoryAt(a, n)
            /\ \E r \in StatementAt(data', 0) : AnalyseStatement(a, r, FlowOf(r))
    BY DEF Analyse
  <1>2. PICK n \in DataLens :
            /\ CanRead(a, n) /\ data' = MemoryAt(a, n)
            /\ \E r \in StatementAt(data', 0) : AnalyseStatement(a, r, FlowOf(r))
    BY <1>1
  <1>3. PICK r \in StatementAt(data', 0) : AnalyseStatement(a, r, FlowOf(r))
    BY <1>2
  <1>4. /\ off' = 0 /\ steps' = 0 /\ image' = image /\ image \in Images /\ TypeOK
        /\ Addresses' = Addresses
    BY DEF Analyse, PluginInv, TypeOK, Addresses
  <1>5. a \in Nat /\ n \in Nat /\ a >= image.from
    BY <1>4, ImageTyped, PluginAssumption
  <1>6. data' \in Seq(Byte) /\ Len(data') = n
    BY <1>2, <1>4, <1>5, ReadTyped
  <1>7. r \in Reading /\ r.end \in Nat /\ r.end <= n
    <2>1. 0 \in Nat
      OBVIOUS
    <2> QED BY <1>3, <1>6, <2>1, StatementTyped DEF Reading
  <1> DEFINE flow   == FlowOf(r)
             values == AccessesOf(SubSeq(data', 1, r.end))
  <1>8. /\ flow \in Flow /\ flow.kind \in {"NONE", "LABEL", "JMP", "CJMP", "CALL", "RET"}
        /\ flow.id \in Word
    BY <1>7, FlowTyped DEF Flow
  <1>9. values \in Seq(Reported)
    <2>1. SubSeq(data', 1, r.end) \in Seq(Byte)
      BY <1>6, <1>7
    <2> QED BY <2>1, AccessesTyped
  <1> HIDE DEF flow, values
  <1>10. /\ op' = [NoOp EXCEPT
                     !.addr = a, !.size = r.end, !.op = r.op, !.operands = r.operands,
                     !.eob = IsJump(flow.kind) \/ flow.kind = "RET",
                     !.kind = flow.kind, !.id = flow.id, !.values = values,
                     !.fail = IF flow.kind = "CJMP" THEN {a + r.end} ELSE {}]
         /\ refFlags' = FlagAccesses(values)
         /\ xrefs' = xrefs \cup {<<a, values[i].base>> : i \in DOMAIN values}
         /\ IF flow.kind = "LABEL"
            THEN /\ labelFlags' = FlagLabel(flow.id, a)
                 /\ seen' = seen \cup {[addr |-> a, id |-> flow.id]}
            ELSE UNCHANGED <<labelFlags, seen>>
         /\ pc' = IF IsJump(flow.kind) /\ ~IsNegativeLong(flow.id) THEN "io" ELSE "idle"
    BY <1>3 DEF AnalyseStatement, flow, values
  <1>11. /\ op'.addr = a /\ op'.size = r.end /\ op'.kind = flow.kind /\ op'.id = flow.id
         /\ op'.jump = {} /\ DOMAIN op' = DOMAIN NoOp
    BY <1>10 DEF NoOp
  <1>12. /\ labelFlags' \subseteq LabelFlag'
         /\ \A l \in seen' : l.addr \in Addresses' /\ l.id \in Word
    <2>1. CASE flow.kind = "LABEL"
      BY <1>4, <1>8, <1>10, <2>1, LabelFlagTyped
    <2>2. CASE flow.kind # "LABEL"
      <3>1. LabelFlag' = LabelFlag
        BY <1>4, <1>10, <2>2 DEF LabelFlag
      <3> QED BY <1>4, <1>10, <2>2, <3>1 DEF TypeOK
    <2> QED BY <2>1, <2>2
  <1>13. \A x \in xrefs' : x[1] \in Addresses' /\ x[2] \in Word
    <2>1. \A i \in DOMAIN values : values[i].base \in Word
      BY <1>9, ReportedTyped
    <2> QED BY <1>4, <1>10, <2>1 DEF TypeOK
  <1>14. \A f \in refFlags' : f.addr \in Word
    BY <1>4, <1>9, <1>10, FlagAccessesTyped
  <1>15. TypeOK'
    <2>1. op'.size \in 0..Len(data') /\ 0 \in 0..ScanMax
      BY <1>6, <1>7, <1>11, PluginAssumption
    <2>2. [kind |-> op'.kind, id |-> op'.id] \in Flow
      BY <1>8, <1>11 DEF Flow
    <2>3. pc' \in {"idle", "io", "data"} /\ (pc' # "idle" => IsJump(op'.kind) /\ ~IsNegativeLong(op'.id))
      BY <1>10, <1>11
    <2> QED BY <1>4, <1>6, <1>11, <1>12, <1>13, <1>14, <2>1, <2>2, <2>3 DEF TypeOK
  <1>16. InMemory'
    BY <1>2, <1>4, <1>5, <1>6, <1>11 DEF InMemory, CanRead
  <1> QED BY <1>5, <1>11, <1>15, <1>16 DEF PluginInv, OpWhole

\* The halves of the window are numbers.
LEMMA PowersOfTwo ==
  ASSUME NEW k \in 0..30
  PROVE  2^k \in Nat \ {0}
  <1>1. /\ 2^0 \in Nat \ {0} /\ 2^1 \in Nat \ {0} /\ 2^2 \in Nat \ {0} /\ 2^3 \in Nat \ {0}
        /\ 2^4 \in Nat \ {0} /\ 2^5 \in Nat \ {0} /\ 2^6 \in Nat \ {0} /\ 2^7 \in Nat \ {0}
        /\ 2^8 \in Nat \ {0} /\ 2^9 \in Nat \ {0} /\ 2^10 \in Nat \ {0} /\ 2^11 \in Nat \ {0}
        /\ 2^12 \in Nat \ {0} /\ 2^13 \in Nat \ {0} /\ 2^14 \in Nat \ {0}
        /\ 2^15 \in Nat \ {0} /\ 2^16 \in Nat \ {0} /\ 2^17 \in Nat \ {0}
        /\ 2^18 \in Nat \ {0} /\ 2^19 \in Nat \ {0} /\ 2^20 \in Nat \ {0}
        /\ 2^21 \in Nat \ {0} /\ 2^22 \in Nat \ {0} /\ 2^23 \in Nat \ {0}
        /\ 2^24 \in Nat \ {0} /\ 2^25 \in Nat \ {0} /\ 2^26 \in Nat \ {0}
        /\ 2^27 \in Nat \ {0} /\ 2^28 \in Nat \ {0} /\ 2^29 \in Nat \ {0} /\ 2^30 \in Nat \ {0}
    OBVIOUS
  <1>2. \/ k = 0 \/ k = 1 \/ k = 2 \/ k = 3 \/ k = 4 \/ k = 5 \/ k = 6 \/ k = 7 \/ k = 8
        \/ k = 9 \/ k = 10 \/ k = 11 \/ k = 12 \/ k = 13 \/ k = 14 \/ k = 15 \/ k = 16
        \/ k = 17 \/ k = 18 \/ k = 19 \/ k = 20 \/ k = 21 \/ k = 22 \/ k = 23 \/ k = 24
        \/ k = 25 \/ k = 26 \/ k = 27 \/ k = 28 \/ k = 29 \/ k = 30
    OBVIOUS
  <1> QED BY <1>1, <1>2, Zenon

\* A window that reads is not empty, so its first address is one of the image.
LEMMA WindowInImage ==
  ASSUME image \in Images, NEW a \in Nat, NEW n \in ScanWindow(a)
  PROVE  n \in Nat /\ n >= 1 /\ CanRead(a, n) /\ a \in Addresses
  <1>1. PICK k \in 0..30 : n = Window \div 2^k
    BY DEF ScanWindow
  <1>2. n # 0 /\ CanRead(a, n)
    BY DEF ScanWindow
  <1>3. 2^k \in Nat \ {0} /\ Window \in Nat
    BY PowersOfTwo, PluginAssumption
  <1>4. \A d \in Nat \ {0} : \A w \in Nat : w \div d \in Nat
    OBVIOUS
  <1>5. n \in Nat /\ n >= 1
    BY <1>1, <1>2, <1>3, <1>4
  <1>6. a \in Addresses
    BY <1>2, <1>5, ImageTyped DEF CanRead
  <1> QED BY <1>2, <1>5, <1>6

\* The scan of the map: its offsets are offsets from the bounds, so numbers.
LEMMA WindowStatementTyped ==
  ASSUME PluginInv, NEW r \in WindowStatement
  PROVE  /\ ScanBounds.base + off \in Addresses
         /\ r \in Reading /\ r.end \in Nat
  <1> DEFINE a == ScanBounds.base + off
  <1>1. image \in Images /\ off \in Nat
    BY DEF PluginInv, TypeOK
  <1>2. ScanBounds.base \in Nat
    BY <1>1, ImageTyped DEF ScanBounds
  <1>3. a \in Nat
    BY <1>1, <1>2
  <1>4. PICK n \in ScanWindow(a) : r \in StatementAt(MemoryAt(a, n), 0)
    BY DEF WindowStatement
  <1> HIDE DEF a
  <1>5. n \in Nat /\ n >= 1 /\ CanRead(a, n) /\ a \in Addresses
    BY <1>1, <1>3, <1>4, WindowInImage
  <1>6. MemoryAt(a, n) \in Seq(Byte)
    BY <1>1, <1>3, <1>5, ReadTyped
  <1>7. r \in Reading /\ r.end \in Nat
    <2>1. 0 \in Nat
      OBVIOUS
    <2> QED BY <1>4, <1>6, <2>1, StatementTyped DEF Reading
  <1> QED BY <1>5, <1>7 DEF a

\* A step that leaves image, flags, references and buffer alone.
LEMMA ScanStepInv ==
  ASSUME PluginInv, UNCHANGED <<image, labelFlags, refFlags, xrefs, seen, data>>,
         op'.size = op.size, op'.kind = op.kind, op'.id = op.id, op'.addr = op.addr,
         DOMAIN op' = DOMAIN op, op'.jump \subseteq Addresses,
         off' \in Nat, steps' \in 0..ScanMax, pc # "idle",
         pc' \in {"idle", "io", "data"}, pc' # "idle" => op'.jump = op.jump
  PROVE  PluginInv'
  <1>1. Addresses' = Addresses /\ LabelFlag' = LabelFlag
    BY DEF Addresses, LabelFlag
  <1>2. TypeOK'
    BY <1>1 DEF PluginInv, TypeOK
  <1>3. InMemory' /\ OpWhole'
    BY DEF PluginInv, InMemory, OpWhole
  <1> QED BY <1>2, <1>3 DEF PluginInv

LEMMA IoStepInv ==
  ASSUME PluginInv, IoStep
  PROVE  PluginInv'
  <1>1. PICK r \in WindowStatement :
           IF IsTarget(r)
           THEN /\ op' = [op EXCEPT !.jump = {ScanBounds.base + off}, !.scanned = "io"]
                /\ pc' = "idle"
                /\ UNCHANGED <<off, steps>>
           ELSE /\ off' = off + r.end
                /\ steps' = steps + 1
                /\ UNCHANGED <<op, pc>>
    BY DEF IoStep
  <1>2. ScanBounds.base + off \in Addresses /\ r.end \in Nat
    BY <1>1, WindowStatementTyped
  <1>3. /\ UNCHANGED <<image, labelFlags, refFlags, xrefs, seen, data>>
        /\ pc = "io" /\ steps < ScanMax
    BY DEF IoStep, IoScanning
  <1>4. /\ off \in Nat /\ steps \in 0..ScanMax /\ ScanMax \in Nat /\ op.jump \subseteq Addresses
        /\ DOMAIN op = DOMAIN NoOp
    BY PluginAssumption DEF PluginInv, TypeOK, OpWhole
  <1>5. CASE IsTarget(r)
    <2>1. /\ op' = [op EXCEPT !.jump = {ScanBounds.base + off}, !.scanned = "io"]
          /\ pc' = "idle" /\ UNCHANGED <<off, steps>>
      BY <1>1, <1>5
    <2>2. /\ op'.jump = {ScanBounds.base + off}
          /\ op'.size = op.size /\ op'.kind = op.kind /\ op'.id = op.id
          /\ op'.addr = op.addr /\ DOMAIN op' = DOMAIN op
      BY <1>4, <2>1 DEF NoOp
    <2> QED BY <1>2, <1>3, <1>4, <2>1, <2>2, ScanStepInv
  <1>6. CASE ~IsTarget(r)
    <2>1. off' = off + r.end /\ steps' = steps + 1 /\ UNCHANGED <<op, pc>>
      BY <1>1, <1>6
    <2>2. off' \in Nat /\ steps' \in 0..ScanMax
      BY <1>2, <1>3, <1>4, <2>1
    <2> QED BY <1>3, <1>4, <2>1, <2>2, ScanStepInv
  <1> QED BY <1>5, <1>6

LEMMA DataStepInv ==
  ASSUME PluginInv, DataStep
  PROVE  PluginInv'
  <1>1. PICK r \in StatementAt(data, off) :
           IF IsTarget(r)
           THEN /\ op' = [op EXCEPT !.jump = {op.addr + off}, !.scanned = "data"]
                /\ pc' = "idle"
                /\ UNCHANGED <<off, steps>>
           ELSE /\ off' = off + r.end
                /\ steps' = steps + 1
                /\ UNCHANGED <<op, pc>>
    BY DEF DataStep
  <1>2. /\ UNCHANGED <<image, labelFlags, refFlags, xrefs, seen, data>>
        /\ pc = "data" /\ steps < ScanMax /\ off < Len(data)
    BY DEF DataStep, DataScanning
  <1>3. /\ off \in Nat /\ steps \in 0..ScanMax /\ ScanMax \in Nat /\ op.jump \subseteq Addresses
        /\ DOMAIN op = DOMAIN NoOp /\ op.addr \in Nat
        /\ data \in Seq(Byte) /\ image \in Images /\ Len(data) \in Nat
    BY PluginAssumption DEF PluginInv, TypeOK, OpWhole
  <1>4. r.end \in Nat
    BY <1>1, <1>3, StatementTyped DEF Reading
  <1>5. op.addr + off \in Addresses
    <2>1. op.addr >= image.from /\ op.addr + Len(data) <= image.from + Len(image.bytes)
      BY <1>2 DEF PluginInv, InMemory
    <2>2. image.from \in Nat /\ Len(image.bytes) \in Nat
      BY <1>3, ImageTyped
    <2> QED BY <1>2, <1>3, <2>1, <2>2 DEF Addresses
  <1>6. CASE IsTarget(r)
    <2>1. /\ op' = [op EXCEPT !.jump = {op.addr + off}, !.scanned = "data"]
          /\ pc' = "idle" /\ UNCHANGED <<off, steps>>
      BY <1>1, <1>6
    <2>2. /\ op'.jump = {op.addr + off}
          /\ op'.size = op.size /\ op'.kind = op.kind /\ op'.id = op.id
          /\ op'.addr = op.addr /\ DOMAIN op' = DOMAIN op
      BY <1>3, <2>1 DEF NoOp
    <2> QED BY <1>2, <1>3, <1>5, <2>1, <2>2, ScanStepInv
  <1>7. CASE ~IsTarget(r)
    <2>1. off' = off + r.end /\ steps' = steps + 1 /\ UNCHANGED <<op, pc>>
      BY <1>1, <1>7
    <2>2. off' \in Nat /\ steps' \in 0..ScanMax
      BY <1>2, <1>3, <1>4, <2>1
    <2> QED BY <1>2, <1>3, <2>1, <2>2, ScanStepInv
  <1> QED BY <1>6, <1>7

\* A scan that gives up: the next one starts behind the statement, or none does.
LEMMA GiveUpInv ==
  ASSUME PluginInv, IoGiveUp \/ DataGiveUp
  PROVE  PluginInv'
  <1>1. /\ op.size \in Nat /\ steps \in 0..ScanMax /\ 0 \in 0..ScanMax /\ off \in Nat
        /\ op.jump \subseteq Addresses /\ DOMAIN op = DOMAIN NoOp
    <2>1. op.size \in 0..Len(data) /\ Len(data) \in Nat
      BY DEF PluginInv, TypeOK
    <2> QED BY <2>1, PluginAssumption DEF PluginInv, TypeOK, OpWhole
  <1>2. CASE IoGiveUp
    BY <1>1, <1>2, ScanStepInv DEF IoGiveUp
  <1>3. CASE DataGiveUp
    <2>1. /\ op' = [op EXCEPT !.scanned = "failed"] /\ pc = "data" /\ pc' = "idle"
          /\ UNCHANGED <<image, labelFlags, refFlags, xrefs, seen, data, off, steps>>
      BY <1>3 DEF DataGiveUp
    <2>2. /\ op'.jump = op.jump
          /\ op'.size = op.size /\ op'.kind = op.kind /\ op'.id = op.id
          /\ op'.addr = op.addr /\ DOMAIN op' = DOMAIN op
      BY <1>1, <2>1 DEF NoOp
    <2> QED BY <1>1, <2>1, <2>2, ScanStepInv
  <1> QED BY <1>2, <1>3

\* Nothing decodes there: the op is as rizin made it.
LEMMA InvalidInv ==
  ASSUME PluginInv, AnalyseInvalid
  PROVE  PluginInv'
  <1>1. PICK a \in Addresses : \E n \in DataLens : CanRead(a, n) /\ data' = MemoryAt(a, n)
    BY DEF AnalyseInvalid
  <1>2. PICK n \in DataLens : CanRead(a, n) /\ data' = MemoryAt(a, n)
    BY <1>1
  <1>3. /\ op' = NoOp /\ pc = "idle" /\ TypeOK /\ image \in Images
        /\ UNCHANGED <<image, labelFlags, refFlags, xrefs, seen, off, steps, pc>>
    BY DEF AnalyseInvalid, PluginInv, TypeOK
  <1>4. a \in Nat /\ n \in Nat
    BY <1>3, ImageTyped, PluginAssumption
  <1>5. data' \in Seq(Byte) /\ Len(data') \in Nat
    BY <1>2, <1>3, <1>4, ReadTyped
  <1>6. /\ op'.size = 0 /\ op'.kind = "NONE" /\ op'.id = NoLabel /\ op'.jump = {}
        /\ op'.addr = 0 /\ NoLabel \in Word
    BY <1>3, WordOperations DEF NoOp, NoLabel
  <1>7. Addresses' = Addresses /\ LabelFlag' = LabelFlag
    BY <1>3 DEF Addresses, LabelFlag
  <1>8. [kind |-> op'.kind, id |-> op'.id] \in Flow /\ op'.size \in 0..Len(data')
    BY <1>5, <1>6 DEF Flow
  <1>9. TypeOK'
    BY <1>3, <1>5, <1>6, <1>7, <1>8 DEF TypeOK
  <1>10. InMemory' /\ OpWhole'
    BY <1>3, <1>6 DEF InMemory, OpWhole
  <1> QED BY <1>9, <1>10 DEF PluginInv

LEMMA PluginStep == PluginInv /\ [Next]_vars => PluginInv'
  <1>1. ASSUME PluginInv, UNCHANGED vars PROVE PluginInv'
    <2>1. Addresses' = Addresses /\ LabelFlag' = LabelFlag
      BY <1>1 DEF vars, Addresses, LabelFlag
    <2> QED BY <1>1, <2>1 DEF vars, PluginInv, TypeOK, InMemory, OpWhole
  <1>2. ASSUME PluginInv, Next PROVE PluginInv'
    BY <1>2, AnalyseInv, InvalidInv, IoStepInv, DataStepInv, GiveUpInv DEF Next
  <1> QED BY <1>1, <1>2

(* The plugin's and rizin's variables keep their types: sizes lie in the   *)
(* buffer, jumps point into the image, references and flags of variables   *)
(* are words, and a scan is under way only for a jump that names a label.  *)
THEOREM PluginTypeCorrect == Spec => []TypeOK
  <1>1. PluginInv => TypeOK
    BY DEF PluginInv
  <1> QED BY <1>1, PluginStep, PluginInit, PTL DEF Spec
-----------------------------------------------------------------------------
\* The rows of the table being apart, decode_best_at has one candidate at most.
LEMMA OneOffered ==
  ASSUME NEW code \in Seq(Byte), NEW pos \in Nat
  PROVE  AtMostOne(Offered(code, pos))
  <1> SUFFICES ASSUME NEW m \in Offered(code, pos), NEW n \in Offered(code, pos), m # n
               PROVE  FALSE
    BY DEF AtMostOne
  <1>1. /\ m \in DOMAIN Ops /\ Len(Ops[m].code) \in Nat
        /\ pos + Len(Ops[m].code) <= Len(code) /\ Ops[m].code # <<>>
    BY OfferedFits DEF Offered, FirstIndex
  <1>2. n \in DOMAIN Ops /\ Len(Ops[n].code) \in Nat /\ Ops[n].code # <<>>
    BY OfferedFits DEF Offered, FirstIndex
  <1>3. PICK i \in (0..(Len(Ops[m].code) - 1)) \cap (0..(Len(Ops[n].code) - 1)) :
            \A b \in Byte : ~(ByteMatches(Ops[m], i, b) /\ ByteMatches(Ops[n], i, b))
    BY <1>1, <1>2, RowsApartAssumption DEF RowsApart
  <1>4. ByteMatches(Ops[m], i, code[pos + i + 1]) /\ ByteMatches(Ops[n], i, code[pos + i + 1])
    BY <1>3 DEF Offered, CodeMatches
  <1>5. code[pos + i + 1] \in Byte
    <2>1. i \in Nat /\ i < Len(Ops[m].code)
      BY <1>1, <1>3
    <2>2. pos + i + 1 \in 1..Len(code)
      BY <1>1, <2>1
    <2> QED BY <2>2
  <1> QED BY <1>3, <1>4, <1>5

(* The first bytes of a buffer hold the statement that they end with: the  *)
(* second decoding of mc7p_fill_analysis_access sees what the first saw.   *)
LEMMA SecondDecoding ==
  ASSUME NEW bytes \in Seq(Byte), NEW r \in StatementAt(bytes, 0)
  PROVE  AccessesOf(SubSeq(bytes, 1, r.end)) = AnalysisAccess(Ops[r.op], r.operands)
  <1> DEFINE w == SubSeq(bytes, 1, r.end)
             q == [r EXCEPT !.end = r.end - 0]
  <1>1. /\ r \in Reading /\ r.end \in Nat /\ r.end <= Len(bytes) /\ Len(bytes) \in Nat
        /\ 0 \in Nat
    BY StatementTyped DEF Reading
  <1>2. w \in Seq(Byte) /\ Len(w) = r.end /\ \A i \in 1..Len(w) : w[i] = bytes[i]
    BY <1>1
  <1> HIDE DEF w
  <1>3. WindowOf(w, bytes, 0)
    <2>1. 0 + Len(w) <= Len(bytes) /\ \A i \in 1..Len(w) : w[i] = bytes[0 + i]
      BY <1>1, <1>2
    <2> QED BY <1>1, <1>2, <2>1 DEF WindowOf
  <1>4. AtMostOne(Offered(bytes, 0))
    BY <1>1, OneOffered
  <1>5. StatementAt(w, 0) = {q}
    <2>1. r.end <= 0 + Len(w)
      BY <1>1, <1>2
    <2> QED BY <1>3, <1>4, <2>1, StatementInPart
  <1>6. q.op = r.op /\ q.operands = r.operands
    BY <1>1 DEF Reading
  <1> HIDE DEF q
  <1>7. StatementAt(w, 0) # {} /\ (CHOOSE x \in StatementAt(w, 0) : TRUE) = q
    BY <1>5
  <1> QED BY <1>6, <1>7 DEF AccessesOf, w
-----------------------------------------------------------------------------
(* The reference addresses have bit 63 clear, so none of them is UT64_MAX: *)
(* mc7p_op_add_value reports every variable.                               *)
LEMMA BitsClear ==
  /\ 15 \notin BitsOf(28003) /\ \A c \in 1..4 : 15 \notin BitsOf(c)
  /\ \A n \in Nat : 23 \notin BitsOf(n % 256) /\ 31 \notin BitsOf(n)
  <1>1. 2^15 = 32768 /\ 2^23 = 8388608
    OBVIOUS
  <1>2. 28003 \div 32768 = 0 /\ \A c \in 1..4 : c \div 32768 = 0
    OBVIOUS
  <1>3. \A n \in Nat : (n % 256) \div 8388608 = 0
    <2>1. \A b \in 0..255 : b \div 8388608 = 0
      OBVIOUS
    <2>2. \A n \in Nat : n % 256 \in 0..255
      OBVIOUS
    <2> QED BY <2>1, <2>2
  <1>4. 0 % 2 # 1
    OBVIOUS
  <1>5. 15 \notin BitsOf(28003) /\ \A c \in 1..4 : 15 \notin BitsOf(c)
    BY <1>1, <1>2, <1>4 DEF BitsOf
  <1>6. \A n \in Nat : 23 \notin BitsOf(n % 256)
    BY <1>1, <1>3, <1>4 DEF BitsOf
  <1>7. \A n \in Nat : 31 \notin BitsOf(n)
    BY DEF BitsOf
  <1> QED BY <1>5, <1>6, <1>7

LEMMA TaggedBelow ==
  ASSUME NEW kind \in {"db", "mem", "slot", "indirect"}, NEW fields, 63 \notin fields
  PROVE  63 \notin Tagged(kind, fields)
  <1>1. RefClass[kind] \in 1..4
    BY DEF RefClass
  <1>2. \A w : 15 \notin w /\ w \subseteq Int => 63 \notin ShiftLeft(w, 48)
    BY DEF ShiftLeft
  <1>3. \A w : 31 \notin w /\ w \subseteq Int => 63 \notin ShiftLeft(w, 32)
    BY DEF ShiftLeft
  <1>4. \A n : BitsOf(n) \subseteq Int
    BY DEF BitsOf
  <1>5. /\ 63 \notin ShiftLeft(BitsOf(28003), 48) /\ 63 \notin ShiftLeft(BitsOf(RefClass[kind]), 48)
        /\ 63 \notin ShiftLeft(BitsOf(14192), 32)
    BY <1>1, <1>2, <1>3, <1>4, BitsClear
  <1> QED BY <1>5 DEF Tagged, RefBase

LEMMA VariableHasAddress ==
  ASSUME NEW a \in Access, IsRef(a)
  PROVE  RefAddr(a) # NoRef
  <1>1. 63 \in NoRef
    BY DEF NoRef, AllOnes, Bits64
  <1>2. \A w, n : n \in Nat /\ n <= 63 => 63 \notin LowBits(w, n)
    BY DEF LowBits
  <1>3. \A n \in Nat : 63 \notin ByteField(n, 40) /\ 63 \notin ByteField(n, 32)
    <2>1. \A w : 23 \notin w /\ w \subseteq Int => 63 \notin ShiftLeft(w, 40)
      BY DEF ShiftLeft
    <2>2. \A w : 31 \notin w /\ w \subseteq Int => 63 \notin ShiftLeft(w, 32)
      BY DEF ShiftLeft
    <2>3. \A n : BitsOf(n) \subseteq Int
      BY DEF BitsOf
    <2>4. \A n \in Nat : n % 256 \in Nat
      OBVIOUS
    <2> QED BY <2>1, <2>2, <2>3, <2>4, BitsClear DEF ByteField
  <1>4. a.range \in Nat /\ a.area \in Nat /\ a.scope \in Nat /\ a.number \in Word
    BY DEF Access, AccessOf
  <1>5. 63 \notin ShiftLeft(LowBits(a.number, 20), 20)
    <2>1. \A b \in Int : b + 20 = 63 => b = 43
      OBVIOUS
    <2>2. \A b \in LowBits(a.number, 20) : b \in Int /\ b < 20
      BY <1>4 DEF LowBits, Word, Bits64
    <2>3. \A b \in LowBits(a.number, 20) : b + 20 # 63
      BY <2>1, <2>2
    <2> QED BY <2>3 DEF ShiftLeft
  <1>6. CASE a.kind = "db"
    <2>1. 63 \notin ByteField(a.range, 40) \cup ShiftLeft(LowBits(a.number, 20), 20)
                        \cup LowBits(a.offset, 20)
      BY <1>2, <1>3, <1>4, <1>5
    <2> QED BY <1>1, <1>6, <2>1, TaggedBelow DEF RefAddr, PlainRef
  <1>7. CASE a.kind = "mem"
    <2>1. 63 \notin ByteField(a.area, 40) \cup LowBits(a.offset, 40)
      BY <1>2, <1>3, <1>4
    <2> QED BY <1>1, <1>7, <2>1, TaggedBelow DEF RefAddr, PlainRef
  <1>8. CASE a.kind = "slot"
    <2>1. 63 \notin ByteField(a.scope, 40) \cup ByteField(a.range, 32) \cup LowBits(a.number, 32)
      BY <1>2, <1>3, <1>4
    <2> QED BY <1>1, <1>8, <2>1, TaggedBelow DEF RefAddr, PlainRef
  <1>9. CASE a.kind = "indirect"
    <2>1. 63 \notin {b \in PlainRef(a.sub[1]) : b \in 32..47} \cup LowBits(PlainRef(a.sub[2]), 32)
      BY <1>2
    <2> QED BY <1>1, <1>9, <2>1, TaggedBelow DEF RefAddr
  <1> QED BY <1>6, <1>7, <1>8, <1>9 DEF IsRef
\* That values report a read or a write (m) of access a.
Reports(values, a, m) ==
  \E k \in DOMAIN values : values[k].acc = a /\ values[k].access = m

LEMMA ReportsOfBoth ==
  ASSUME NEW u \in Seq(Reported), NEW v \in Seq(Reported), NEW a, NEW m
  PROVE  Reports(u \o v, a, m) <=> Reports(u, a, m) \/ Reports(v, a, m)
  <1> DEFINE both == u \o v
             n == Len(u)
             l == Len(v)
  <1>1. n \in Nat /\ l \in Nat /\ DOMAIN u = 1..n /\ DOMAIN v = 1..l
    OBVIOUS
  <1>2. DOMAIN both = 1..(n + l) /\ \A k \in 1..(n + l) :
            both[k] = IF k <= n THEN u[k] ELSE v[k - n]
    OBVIOUS
  <1> HIDE DEF both, n, l
  <1>3. ASSUME Reports(both, a, m)
        PROVE  Reports(u, a, m) \/ Reports(v, a, m)
    <2>1. PICK k \in 1..(n + l) : both[k].acc = a /\ both[k].access = m
      BY <1>2, <1>3 DEF Reports
    <2>2. CASE k <= n
      BY <1>1, <1>2, <2>1, <2>2 DEF Reports
    <2>3. CASE ~(k <= n)
      <3>1. k - n \in 1..l
        BY <1>1, <2>1, <2>3
      <3> QED BY <1>1, <1>2, <2>1, <2>3, <3>1 DEF Reports
    <2> QED BY <2>2, <2>3
  <1>4. ASSUME Reports(u, a, m)
        PROVE  Reports(both, a, m)
    <2>1. PICK k \in 1..n : u[k].acc = a /\ u[k].access = m
      BY <1>1, <1>4 DEF Reports
    <2>2. k \in 1..(n + l) /\ k <= n
      BY <1>1
    <2> QED BY <1>2, <2>1, <2>2 DEF Reports
  <1>5. ASSUME Reports(v, a, m)
        PROVE  Reports(both, a, m)
    <2>1. PICK k \in 1..l : v[k].acc = a /\ v[k].access = m
      BY <1>1, <1>5 DEF Reports
    <2>2. n + k \in 1..(n + l) /\ ~(n + k <= n) /\ (n + k) - n = k
      BY <1>1
    <2> QED BY <1>2, <2>1, <2>2 DEF Reports
  <1> QED BY <1>3, <1>4, <1>5 DEF both

LEMMA ValueReports ==
  ASSUME NEW x \in Access, NEW mode, NEW t, NEW a, NEW m
  PROVE  Reports(Value(x, mode, t), a, m) => a = x /\ m = mode
  BY DEF Reports, Value

\* A variable is reported with its own mode; its parts are only read.
LEMMA ValuesReport ==
  ASSUME NEW x \in Access, IsRef(x), NEW mode \in {"r", "w"}, NEW t \in SUBSET Nat
  PROVE  /\ Reports(Values(x, mode, t), x, mode)
         /\ \A a : Reports(Values(x, mode, t), a, "w") => a = x /\ mode = "w"
  <1> DEFINE parts == IF x.kind = "indirect"
                      THEN Value(x.sub[1], "r", {}) \o Value(x.sub[2], "r", {}) ELSE <<>>
             own   == Value(x, mode, t)
  <1>1. own \in Seq(Reported) /\ Reports(own, x, mode)
    <2>1. own \in Seq(Reported)
      BY ValueReported
    <2>2. own = <<[acc |-> x, base |-> RefAddr(x), access |-> mode, name |-> AccessName(x, t)]>>
      BY VariableHasAddress DEF Value
    <2>3. 1 \in DOMAIN own /\ own[1].acc = x /\ own[1].access = mode
      BY <2>2
    <2> HIDE DEF own
    <2> QED BY <2>1, <2>3 DEF Reports
  <1>2. \A a : Reports(own, a, "w") => a = x /\ mode = "w"
    BY ValueReports
  <1>3. parts \in Seq(Reported) /\ \A a : ~Reports(parts, a, "w")
    <2>1. CASE x.kind = "indirect"
      <3>1. x.sub[1] \in Access /\ x.sub[2] \in Access
        BY <2>1, PartsTyped DEF Part, Access, AccessOf
      <3> DEFINE u == Value(x.sub[1], "r", {})
                 v == Value(x.sub[2], "r", {})
      <3>2. u \in Seq(Reported) /\ v \in Seq(Reported)
        <4>1. "r" \in {"r", "w"} /\ {} \in SUBSET Nat
          OBVIOUS
        <4> QED BY <3>1, <4>1, ValueReported
      <3>3. \A a : ~Reports(u, a, "w") /\ ~Reports(v, a, "w")
        BY <3>1, ValueReports
      <3> HIDE DEF u, v
      <3>4. u \o v \in Seq(Reported) /\ \A a : ~Reports(u \o v, a, "w")
        BY <3>2, <3>3, ReportsOfBoth
      <3> QED BY <2>1, <3>4 DEF u, v
    <2>2. CASE x.kind # "indirect"
      <3>1. parts = <<>>
        BY <2>2
      <3>2. <<>> \in Seq(Reported) /\ \A a : ~Reports(<<>>, a, "w")
        BY DEF Reports
      <3> QED BY <3>1, <3>2
    <2> QED BY <2>1, <2>2
  <1>4. Values(x, mode, t) = parts \o own
    BY DEF Values
  <1> HIDE DEF parts, own
  <1>5. \A a, m : Reports(parts \o own, a, m) <=> Reports(parts, a, m) \/ Reports(own, a, m)
    BY <1>1, <1>3, ReportsOfBoth
  <1> QED BY <1>1, <1>2, <1>3, <1>4, <1>5
-----------------------------------------------------------------------------
(* mc7p_fill_access_from_params against the operands: without a CODING the *)
(* operand it is at is the one that its parameter read.                    *)

\* The operands of a row that are variables with a known use, and that use.
UsedOf(row, operands) ==
  {i \in DOMAIN OwnParams(row) \cap DOMAIN operands :
      OwnParams(row)[i].kind = "ident" /\ IsRef(operands[i])
      /\ ModeAccess(OwnParams(row)[i].mode) # {}}

UseOf(p) == IF p.mode = Mode.Dest THEN "w" ELSE "r"

LEMMA UseIs ==
  ASSUME NEW p, ModeAccess(p.mode) # {}
  PROVE  (CHOOSE m \in ModeAccess(p.mode) : TRUE) = UseOf(p)
  <1>1. ModeAccess(p.mode) = {UseOf(p)}
    BY DEF ModeAccess, UseOf, Mode
  <1> QED BY <1>1

\* The values reported so far are those of the first k operands.
Followed(row, operands, values, k) ==
  /\ \A i \in UsedOf(row, operands) :
         i <= k => Reports(values, operands[i], UseOf(OwnParams(row)[i]))
  /\ \A a : Reports(values, a, "w") =>
         \E i \in UsedOf(row, operands) :
             i <= k /\ UseOf(OwnParams(row)[i]) = "w" /\ a = operands[i]

WalkState(row, operands, j, s) ==
  /\ s \in ParamState /\ s.oi <= Len(operands) /\ s.oi <= OperandOf(row, j)
  /\ s.oi = OperandOf(row, j) \/ s.oi = Len(operands)
  /\ Followed(row, operands, s.values, s.oi)

Uncoded(row) ==
  row.params \in Seq(Param) /\ \A j \in 1..Len(row.params) : row.params[j].kind # "coding"

LEMMA WalkNext ==
  ASSUME NEW row, Uncoded(row), NEW operands \in Seq(Access),
         NEW j \in 1..Len(row.params), NEW s, WalkState(row, operands, j - 1, s)
  PROVE  WalkState(row, operands, j, ParamAccess(row, operands, j, s))
  <1> DEFINE p == row.params[j]
             t == ParamAccess(row, operands, j, s)
             a == operands[s.oi + 1]
             n == Len(operands)
             known == p.kind = "ident" /\ IsRef(a) /\ ModeAccess(p.mode) # {}
  <1>1. /\ row.params \in Seq(Param) /\ j \in Nat /\ j # 0 /\ j - 1 \in Nat /\ n \in Nat
        /\ p.kind # "coding" /\ DOMAIN operands = 1..n
    BY DEF Uncoded
  <1>2. /\ s \in ParamState /\ s.oi <= n /\ s.oi <= OperandOf(row, j - 1)
        /\ s.oi = OperandOf(row, j - 1) \/ s.oi = n
        /\ Followed(row, operands, s.values, s.oi)
    BY DEF WalkState
  <1>3. /\ s.oi \in Nat /\ s.type \in SUBSET Nat /\ s.values \in Seq(Reported)
        /\ OperandOf(row, j - 1) \in Nat /\ OperandOf(row, j) \in Nat
    BY <1>1, <1>2, OperandOfNext DEF ParamState
  <1>4. OperandOf(row, j) = OperandOf(row, j - 1) + IF p.kind # "flag" THEN 1 ELSE 0
    BY <1>1, OperandOfNext
  <1>5. t \in ParamState
    BY <1>1, <1>2, ParamAccessTyped
  <1>6. CASE s.oi >= n \/ p.kind = "flag"
    <2>1. t = s
      BY <1>6 DEF ParamAccess
    <2>2. s.oi <= OperandOf(row, j) /\ (s.oi = OperandOf(row, j) \/ s.oi = n)
      BY <1>1, <1>2, <1>3, <1>4, <1>6
    <2> QED BY <1>2, <2>1, <2>2 DEF WalkState
  <1>7. CASE ~(s.oi >= n \/ p.kind = "flag")
    <2> DEFINE i == s.oi + 1
    <2>1. i = OperandOf(row, j) /\ i \in 1..n /\ s.oi < n /\ i \in Nat
      BY <1>1, <1>2, <1>3, <1>4, <1>7
    <2>2. a \in Access
      BY <1>1, <2>1
    <2>3. i \in DOMAIN OwnParams(row) /\ OwnParams(row)[i] = p
      BY <1>1, <1>7, <2>1, OwnParamIs
    <2>4. i \in UsedOf(row, operands) <=> known
      BY <1>1, <2>1, <2>3 DEF UsedOf
    <2>5. /\ t.oi = i
          /\ t.values = IF known THEN s.values \o Values(a, UseOf(p), s.type) ELSE s.values
      BY <1>1, <1>7 DEF ParamAccess, UseOf
    <2>6. \A k \in UsedOf(row, operands) : k \in Nat /\ (k <= i <=> k <= s.oi \/ k = i)
      BY <1>1, <1>3 DEF UsedOf
    <2> DEFINE values == Values(a, UseOf(p), s.type)
    <2>7. Followed(row, operands, t.values, i)
      <3>1. CASE known
        <4>1. UseOf(p) \in {"r", "w"}
          BY DEF UseOf
        <4>2. values \in Seq(Reported)
          BY <1>3, <2>2, <4>1, ValuesReported
        <4>3. /\ Reports(values, a, UseOf(p))
              /\ \A x : Reports(values, x, "w") => x = a /\ UseOf(p) = "w"
          BY <1>3, <2>2, <3>1, <4>1, ValuesReport
        <4>4. t.values = s.values \o values
          BY <2>5, <3>1
        <4> HIDE DEF values
        <4>5. \A x, m : Reports(t.values, x, m) <=> Reports(s.values, x, m) \/ Reports(values, x, m)
          BY <1>3, <4>2, <4>4, ReportsOfBoth
        <4>6. i \in UsedOf(row, operands) /\ operands[i] = a /\ i <= i
          BY <2>1, <2>4, <3>1
        <4> HIDE DEF t, i, a, p
        <4> QED BY <1>2, <2>3, <2>6, <4>3, <4>5, <4>6 DEF Followed
      <3>2. CASE ~known
        <4>1. t.values = s.values /\ i \notin UsedOf(row, operands)
          BY <2>4, <2>5, <3>2
        <4> HIDE DEF t, i, a, p
        <4> QED BY <1>2, <2>6, <4>1 DEF Followed
      <3> QED BY <3>1, <3>2
    <2>8. t.oi = OperandOf(row, j) /\ t.oi <= n /\ t.oi <= OperandOf(row, j)
      BY <1>1, <2>1, <2>5
    <2>9. Followed(row, operands, t.values, t.oi)
      BY <2>5, <2>7
    <2> HIDE DEF t, i
    <2>10. WalkState(row, operands, j, t)
      BY <1>5, <2>8, <2>9 DEF WalkState
    <2> QED BY <2>10 DEF t
  <1> QED BY <1>6, <1>7

\* From the first parameter to the last.
LEMMA ParamsFollowed ==
  ASSUME NEW row, Uncoded(row), NEW operands \in Seq(Access)
  PROVE  Followed(row, operands, AccessFromParams(row, operands), Len(operands))
  <1> DEFINE n == Len(row.params)
             s == Walk(row, operands)
             S == {j \in Nat : j <= n => WalkState(row, operands, j, s[j])}
  <1>1. row.params \in Seq(Param) /\ n \in Nat /\ 0 \in 0..n /\ Len(operands) \in Nat
    BY DEF Uncoded
  <1>2. s = [i \in 0..n |-> IF i = 0 THEN [oi |-> 0, type |-> {}, values |-> <<>>]
                            ELSE ParamAccess(row, operands, i, s[i - 1])]
    <2>1. IsWalk(s, row, operands, n)
      BY <1>1, WalkExists DEF Walk
    <2> QED BY <2>1 DEF IsWalk
  <1>3. AccessFromParams(row, operands) = s[n].values
    BY DEF AccessFromParams, Walk, IsWalk
  <1> HIDE DEF s
  <1>4. UsedOf(row, operands) \subseteq 1..Len(operands)
    BY DEF UsedOf
  <1>5. 0 \in S
    <2>1. s[0] = [oi |-> 0, type |-> {}, values |-> <<>>]
      BY <1>1, <1>2
    <2>2. <<>> \in Seq(Reported) /\ {} \in SUBSET Nat
      OBVIOUS
    <2>3. s[0] \in ParamState
      BY <2>1, <2>2 DEF ParamState
    <2>4. s[0].oi = 0 /\ s[0].values = <<>> /\ OperandOf(row, 0) = 0
      BY <2>1, OperandOfNext
    <2>5. \A a, m : ~Reports(<<>>, a, m)
      BY DEF Reports
    <2>6. Followed(row, operands, <<>>, 0)
      BY <1>1, <1>4, <2>5 DEF Followed
    <2>7. 0 <= Len(operands) /\ 0 <= 0
      BY <1>1
    <2>8. WalkState(row, operands, 0, s[0])
      BY <2>3, <2>4, <2>6, <2>7 DEF WalkState
    <2> QED BY <2>8
  <1>6. ASSUME NEW j \in Nat, j \in S
        PROVE  j + 1 \in S
    <2> SUFFICES ASSUME j + 1 <= n PROVE WalkState(row, operands, j + 1, s[j + 1])
      OBVIOUS
    <2>1. j + 1 \in 1..n /\ j + 1 \in 0..n /\ j + 1 # 0 /\ (j + 1) - 1 = j /\ j <= n
      BY <1>1
    <2>2. s[j + 1] = ParamAccess(row, operands, j + 1, s[j])
      BY <1>2, <2>1
    <2>3. WalkState(row, operands, (j + 1) - 1, s[j])
      BY <1>6, <2>1
    <2> QED BY <2>1, <2>2, <2>3, WalkNext
  <1> HIDE DEF S
  <1>7. Nat \subseteq S
    BY <1>5, <1>6, Induction
  <1>8. WalkState(row, operands, n, s[n])
    BY <1>1, <1>7 DEF S
  <1>9. /\ s[n].oi = OperandOf(row, n) \/ s[n].oi = Len(operands)
        /\ s[n].oi \in Nat /\ s[n].oi <= Len(operands)
        /\ Followed(row, operands, s[n].values, s[n].oi)
    BY <1>8 DEF WalkState, ParamState
  <1>10. \A i \in UsedOf(row, operands) :
             i <= OperandOf(row, n) /\ i <= Len(operands) /\ i \in Nat
    <2>1. DOMAIN OwnParams(row) = 1..OperandOf(row, n)
      BY DEF OwnParams
    <2> QED BY <1>1, <2>1 DEF UsedOf
  <1>11. \A i \in UsedOf(row, operands) : i <= s[n].oi /\ i <= Len(operands)
    BY <1>9, <1>10
  <1> QED BY <1>3, <1>9, <1>11 DEF Followed

(* mc7p_fill_analysis_access: where a parameter gives a known use, the     *)
(* fallback is not asked.                                                  *)
LEMMA ModesFollowed ==
  ASSUME NEW row, Uncoded(row), NEW operands \in Seq(Access), UsedOf(row, operands) # {}
  PROVE  Followed(row, operands, AnalysisAccess(row, operands), Len(operands))
  <1> DEFINE values == AccessFromParams(row, operands)
  <1>1. Followed(row, operands, values, Len(operands))
    BY ParamsFollowed
  <1>2. PICK i \in UsedOf(row, operands) : i <= Len(operands)
    <2>1. \A i \in UsedOf(row, operands) : i \in DOMAIN operands
      BY DEF UsedOf
    <2>2. \A i \in DOMAIN operands : i <= Len(operands)
      OBVIOUS
    <2> QED BY <2>1, <2>2
  <1>3. Reports(values, operands[i], UseOf(OwnParams(row)[i]))
    BY <1>1, <1>2 DEF Followed
  <1> HIDE DEF values
  <1>4. values # <<>>
    BY <1>3 DEF Reports
  <1> QED BY <1>1, <1>4 DEF AnalysisAccess, values

(* The last call's operands and values: a statement's, or rizin's empty op *)
(* with the operator number -1, which the table has not.                   *)
ValuesInv ==
  op.op \in DOMAIN Ops =>
      /\ op.operands \in Seq(Access)
      /\ op.values = AnalysisAccess(Ops[op.op], op.operands)

LEMMA ValuesFollow == ValuesInv => AccessesFollowModes
  <1> SUFFICES ASSUME ValuesInv, op.op \in DOMAIN Ops,
                      ParamsOf(Ops[op.op], "coding") = {},
                      UsedOperands(Ops[op.op]) # {}
               PROVE  LET row     == Ops[op.op]
                          used    == UsedOperands(row)
                          mode(i) == CHOOSE m \in ModeAccess(OwnParams(row)[i].mode) : TRUE
                      IN  /\ \A i \in used : ValueOf(op.operands[i], mode(i))
                          /\ \A k \in DOMAIN op.values : op.values[k].access = "w" =>
                                 \E i \in used : mode(i) = "w"
                                                 /\ op.values[k].acc = op.operands[i]
    BY DEF AccessesFollowModes
  <1> DEFINE row == Ops[op.op]
             own == OwnParams(row)
             used == UsedOf(row, op.operands)
  <1>1. used = UsedOperands(row)
    BY DEF UsedOf, UsedOperands
  <1>2. op.operands \in Seq(Access) /\ op.values = AnalysisAccess(row, op.operands)
    BY DEF ValuesInv
  <1>3. Uncoded(row)
    <2>1. row.params \in Seq(Param) /\ DOMAIN row.params = 1..Len(row.params)
      BY RowTyped
    <2> QED BY <2>1 DEF Uncoded, ParamsOf
  <1>4. Followed(row, op.operands, op.values, Len(op.operands))
    BY <1>1, <1>2, <1>3, ModesFollowed
  <1>5. \A i \in used : i <= Len(op.operands)
    BY <1>2 DEF UsedOf
  <1>6. \A i \in used : (CHOOSE m \in ModeAccess(own[i].mode) : TRUE) = UseOf(own[i])
    BY UseIs DEF UsedOf
  <1>7. \A i \in used : ValueOf(op.operands[i], UseOf(own[i]))
    BY <1>4, <1>5 DEF Followed, Reports, ValueOf
  <1>8. \A k \in DOMAIN op.values : op.values[k].access = "w" =>
            \E i \in used : UseOf(own[i]) = "w" /\ op.values[k].acc = op.operands[i]
    BY <1>4 DEF Followed, Reports
  <1> QED BY <1>1, <1>6, <1>7, <1>8

LEMMA ValuesStep == PluginInv /\ ValuesInv /\ [Next]_vars => ValuesInv'
  <1> SUFFICES ASSUME PluginInv, ValuesInv, [Next]_vars PROVE ValuesInv'
    OBVIOUS
  <1>1. CASE Analyse
    <2>1. PICK a \in Addresses : \E n \in DataLens :
              /\ CanRead(a, n) /\ data' = MemoryAt(a, n)
              /\ \E r \in StatementAt(data', 0) : AnalyseStatement(a, r, FlowOf(r))
      BY <1>1 DEF Analyse
    <2>2. PICK n \in DataLens :
              /\ CanRead(a, n) /\ data' = MemoryAt(a, n)
              /\ \E r \in StatementAt(data', 0) : AnalyseStatement(a, r, FlowOf(r))
      BY <2>1
    <2>3. PICK r \in StatementAt(data', 0) : AnalyseStatement(a, r, FlowOf(r))
      BY <2>2
    <2>4. data' \in Seq(Byte)
      <3>1. image \in Images /\ a \in Nat /\ n \in Nat
        BY ImageTyped, PluginAssumption DEF PluginInv, TypeOK
      <3> QED BY <2>2, <3>1, ReadTyped
    <2>5. r \in Reading
      <3>1. 0 \in Nat
        OBVIOUS
      <3> QED BY <2>3, <2>4, <3>1, StatementTyped
    <2>6. /\ op'.op = r.op /\ op'.operands = r.operands
          /\ op'.values = AccessesOf(SubSeq(data', 1, r.end))
      BY <2>3 DEF AnalyseStatement, NoOp
    <2>7. AccessesOf(SubSeq(data', 1, r.end)) = AnalysisAccess(Ops[r.op], r.operands)
      BY <2>3, <2>4, SecondDecoding
    <2> QED BY <2>5, <2>6, <2>7 DEF ValuesInv, Reading
  <1>2. CASE AnalyseInvalid
    <2>1. op'.op = -1
      BY <1>2 DEF AnalyseInvalid, NoOp
    <2>2. -1 \notin DOMAIN Ops
      BY TableAssumption
    <2> QED BY <2>1, <2>2 DEF ValuesInv
  <1>3. CASE IoStep \/ IoGiveUp \/ DataStep \/ DataGiveUp \/ UNCHANGED vars
    <2>1. DOMAIN op = DOMAIN NoOp
      BY DEF PluginInv, OpWhole
    <2>2. op'.op = op.op /\ op'.operands = op.operands /\ op'.values = op.values
      <3>1. CASE \/ \E j : op' = [op EXCEPT !.jump = j, !.scanned = "io"]
                 \/ \E j : op' = [op EXCEPT !.jump = j, !.scanned = "data"]
                 \/ op' = [op EXCEPT !.scanned = "failed"]
        BY <2>1, <3>1 DEF NoOp
      <3>2. CASE op' = op
        BY <3>2
      <3>3. CASE IoStep
        BY <3>1, <3>2, <3>3 DEF IoStep
      <3>4. CASE DataStep
        BY <3>1, <3>2, <3>4 DEF DataStep
      <3> QED BY <1>3, <3>1, <3>2, <3>3, <3>4 DEF IoGiveUp, DataGiveUp, vars
    <2> QED BY <2>2 DEF ValuesInv
  <1> QED BY <1>1, <1>2, <1>3 DEF Next

(* mc7p_fill_access_from_params: for a statement without a coded type,     *)
(* every variable whose parameter has a known use is reported with it, and *)
(* nothing is written but what a DEST parameter names.                     *)
THEOREM AccessesFollowModesHolds == Spec => []AccessesFollowModes
  <1>1. PluginInv /\ [Next]_vars => PluginInv'
    BY PluginStep
  <1>2. Init => ValuesInv
    BY TableAssumption DEF Init, NoOp, ValuesInv
  <1> QED BY <1>1, <1>2, PluginInit, ValuesStep, ValuesFollow, PTL DEF Spec
-----------------------------------------------------------------------------
(* The complete stream of an image: the offsets its statements start at,   *)
(* one after the other.                                                    *)
PathStep(bytes, now) == {r.end : r \in UNION {StatementAt(bytes, s) : s \in now}}

IsPath(at, bytes, n) ==
  at = [k \in 0..n |-> IF k = 0 THEN {0} ELSE PathStep(bytes, at[k - 1])]

Path(bytes) == CHOOSE at : IsPath(at, bytes, Len(bytes))

Starts(bytes) == UNION {Path(bytes)[k] : k \in 0..Len(bytes)}

StatementsOf(bytes) ==
  UNION {{[off |-> s, end |-> r.end, flow |-> FlowOf(r)] : r \in StatementAt(bytes, s)} :
         s \in Starts(bytes)}

LEMMA StreamIs ==
  ASSUME NEW im \in Images
  PROVE  Stream[im] = StatementsOf(im.bytes)
  BY DEF Stream, StatementsOf, Starts, Path, IsPath, PathStep

LEMMA PathExists ==
  ASSUME NEW bytes, NEW n \in Nat
  PROVE  \E at : IsPath(at, bytes, n)
  <1> DEFINE S == {m \in Nat : \E at : IsPath(at, bytes, m)}
             next(now) == PathStep(bytes, now)
  <1>1. 0 \in S
    <2>1. LET at == [k \in 0..0 |-> {0}] IN IsPath(at, bytes, 0)
      BY DEF IsPath
    <2> QED BY <2>1
  <1>2. ASSUME NEW m \in Nat, m \in S
        PROVE  m + 1 \in S
    <2>1. PICK f : f = [k \in 0..m |-> IF k = 0 THEN {0} ELSE next(f[k - 1])]
      BY <1>2 DEF IsPath
    <2> DEFINE g == [k \in 0..(m + 1) |-> IF k = m + 1 THEN next(f[m]) ELSE f[k]]
    <2> HIDE DEF next
    <2>2. ASSUME NEW k \in 0..(m + 1)
          PROVE  g[k] = IF k = 0 THEN {0} ELSE next(g[k - 1])
      <3>1. CASE k = 0
        BY <2>1, <3>1
      <3>2. CASE k # 0 /\ k # m + 1
        <4>1. k \in 0..m /\ k - 1 \in 0..(m + 1) /\ k - 1 # m + 1
          BY <3>2
        <4>2. g[k] = f[k] /\ g[k - 1] = f[k - 1]
          BY <4>1
        <4>3. f[k] = next(f[k - 1])
          BY <2>1, <3>2, <4>1
        <4> QED BY <3>2, <4>2, <4>3
      <3>3. CASE k = m + 1
        <4>1. k # 0 /\ k - 1 = m /\ m \in 0..(m + 1) /\ m # m + 1
          BY <3>3
        <4>2. g[k - 1] = f[m]
          BY <4>1
        <4>3. g[k] = next(f[m])
          BY <3>3
        <4> QED BY <4>1, <4>2, <4>3
      <3> QED BY <3>1, <3>2, <3>3
    <2>3. g = [k \in 0..(m + 1) |-> g[k]]
      OBVIOUS
    <2> HIDE DEF g
    <2>4. IsPath(g, bytes, m + 1)
      BY <2>2, <2>3 DEF IsPath, next
    <2> QED BY <2>4
  <1> HIDE DEF S
  <1>3. Nat \subseteq S
    BY <1>1, <1>2, Induction
  <1> QED BY <1>3 DEF S

LEMMA PathUnfold ==
  ASSUME NEW bytes \in Seq(Byte)
  PROVE  /\ Path(bytes)[0] = {0}
         /\ \A k \in 0..(Len(bytes) - 1) : \A e :
                e \in Path(bytes)[k + 1] <=>
                    \E s \in Path(bytes)[k] : \E r \in StatementAt(bytes, s) : e = r.end
  <1> DEFINE at == Path(bytes)
             n  == Len(bytes)
  <1>1. n \in Nat
    OBVIOUS
  <1>2. at = [k \in 0..n |-> IF k = 0 THEN {0} ELSE PathStep(bytes, at[k - 1])]
    <2>1. IsPath(at, bytes, n)
      BY <1>1, PathExists DEF Path
    <2> QED BY <2>1 DEF IsPath
  <1> HIDE DEF at, n
  <1>3. at[0] = {0}
    BY <1>1, <1>2
  <1>4. ASSUME NEW k \in 0..(n - 1)
        PROVE  at[k + 1] = PathStep(bytes, at[k])
    <2>1. k + 1 \in 0..n /\ k + 1 # 0 /\ (k + 1) - 1 = k
      BY <1>1
    <2> QED BY <1>2, <2>1
  <1>5. \A now, e : e \in PathStep(bytes, now) <=>
                        \E s \in now : \E r \in StatementAt(bytes, s) : e = r.end
    BY DEF PathStep
  <1> QED BY <1>3, <1>4, <1>5 DEF at, n

(* The k-th start, if there is one, is at least k: every statement takes a *)
(* byte.                                                                   *)
LEMMA PathTyped ==
  ASSUME NEW bytes \in Seq(Byte)
  PROVE  \A k \in 0..Len(bytes) :
             /\ AtMostOne(Path(bytes)[k])
             /\ \A s \in Path(bytes)[k] : s \in k..Len(bytes)
  <1> DEFINE at == Path(bytes)
             n  == Len(bytes)
             S  == {k \in Nat : k <= n => AtMostOne(at[k]) /\ \A s \in at[k] : s \in k..n}
  <1>1. n \in Nat
    OBVIOUS
  <1>2. /\ at[0] = {0}
        /\ \A k \in 0..(n - 1) : \A e :
               e \in at[k + 1] <=> \E s \in at[k] : \E r \in StatementAt(bytes, s) : e = r.end
    BY PathUnfold
  <1> HIDE DEF at, n
  <1>3. 0 \in S
    BY <1>1, <1>2 DEF AtMostOne
  <1>4. ASSUME NEW k \in Nat, k \in S
        PROVE  k + 1 \in S
    <2> SUFFICES ASSUME k + 1 <= n
                 PROVE  AtMostOne(at[k + 1]) /\ \A s \in at[k + 1] : s \in (k + 1)..n
      OBVIOUS
    <2>1. k \in 0..(n - 1) /\ k <= n
      BY <1>1
    <2>2. AtMostOne(at[k]) /\ \A s \in at[k] : s \in k..n
      BY <1>4, <2>1
    <2>3. \A s \in at[k] : /\ s \in Nat /\ AtMostOne(StatementAt(bytes, s))
                           /\ \A r \in StatementAt(bytes, s) :
                                  r.end \in Nat /\ r.end > s /\ r.end <= n
      <3> SUFFICES ASSUME NEW s \in at[k]
                   PROVE  /\ s \in Nat /\ AtMostOne(StatementAt(bytes, s))
                          /\ \A r \in StatementAt(bytes, s) :
                                 r.end \in Nat /\ r.end > s /\ r.end <= n
        OBVIOUS
      <3>1. s \in Nat
        BY <1>1, <2>2
      <3> QED BY <3>1, StatementTyped DEF Reading, n
    <2>4. \A s \in at[k + 1] : s \in (k + 1)..n
      <3> SUFFICES ASSUME NEW e \in at[k + 1] PROVE e \in (k + 1)..n
        OBVIOUS
      <3>1. PICK s \in at[k] : \E r \in StatementAt(bytes, s) : e = r.end
        BY <1>2, <2>1
      <3>2. s >= k /\ s \in Nat /\ e \in Nat /\ e > s /\ e <= n
        BY <2>2, <2>3, <3>1
      <3> QED BY <1>1, <3>2
    <2>5. AtMostOne(at[k + 1])
      BY <1>2, <2>1, <2>2, <2>3 DEF AtMostOne
    <2> QED BY <2>4, <2>5
  <1> HIDE DEF S
  <1>5. Nat \subseteq S
    BY <1>3, <1>4, Induction
  <1> QED BY <1>1, <1>5 DEF S, at, n

\* Of two starts the earlier has a statement, which ends at the later or before.
LEMMA PathOrder ==
  ASSUME NEW bytes \in Seq(Byte), NEW k \in 0..Len(bytes), NEW s \in Path(bytes)[k]
  PROVE  \A m \in k..Len(bytes) : \A t \in Path(bytes)[m] :
             /\ k = m => s = t
             /\ k # m => \E r \in StatementAt(bytes, s) : r.end <= t
  <1> DEFINE at == Path(bytes)
             n  == Len(bytes)
             S  == {m \in Nat : m >= k /\ m <= n => \A t \in at[m] :
                        /\ k = m => s = t
                        /\ k # m => \E r \in StatementAt(bytes, s) : r.end <= t}
  <1>1. n \in Nat /\ k \in Nat /\ k <= n
    OBVIOUS
  <1>2. \A j \in 0..(n - 1) : \A e :
            e \in at[j + 1] <=> \E u \in at[j] : \E r \in StatementAt(bytes, u) : e = r.end
    BY PathUnfold
  <1>3. \A j \in 0..n : AtMostOne(at[j]) /\ \A u \in at[j] : u \in Nat
    BY <1>1, PathTyped
  <1>4. \A u \in Nat : \A r \in StatementAt(bytes, u) : r.end \in Nat /\ r.end > u
    BY StatementTyped DEF Reading
  <1>5. s \in at[k]
    OBVIOUS
  <1> HIDE DEF at, n
  <1>6. 0 \in S
    <2> SUFFICES ASSUME 0 >= k, NEW t \in at[0] PROVE k = 0 /\ s = t
      BY <1>1
    <2>1. k = 0
      BY <1>1
    <2> QED BY <1>1, <1>3, <1>5, <2>1 DEF AtMostOne
  <1>7. ASSUME NEW m \in Nat, m \in S
        PROVE  m + 1 \in S
    <2> SUFFICES ASSUME m + 1 >= k, m + 1 <= n, NEW e \in at[m + 1]
                 PROVE  /\ k = m + 1 => s = e
                        /\ k # m + 1 => \E r \in StatementAt(bytes, s) : r.end <= e
      OBVIOUS
    <2>1. m \in 0..(n - 1) /\ m \in 0..n /\ m <= n /\ m + 1 \in 0..n
      BY <1>1
    <2>2. CASE k = m + 1
      BY <1>3, <1>5, <2>1, <2>2 DEF AtMostOne
    <2>3. CASE k # m + 1
      <3>1. m >= k
        BY <1>1, <2>3
      <3>2. PICK t \in at[m] : \E r \in StatementAt(bytes, t) : e = r.end
        BY <1>2, <2>1
      <3>3. PICK q \in StatementAt(bytes, t) : e = q.end
        BY <3>2
      <3>4. t \in Nat /\ e \in Nat /\ e > t
        BY <1>3, <1>4, <2>1, <3>3
      <3>5. /\ k = m => s = t
            /\ k # m => \E r \in StatementAt(bytes, s) : r.end <= t
        BY <1>7, <2>1, <3>1
      <3>6. CASE k = m
        <4>1. q \in StatementAt(bytes, s) /\ q.end <= e
          BY <3>3, <3>4, <3>5, <3>6
        <4> QED BY <2>3, <4>1
      <3>7. CASE k # m
        <4>1. PICK r \in StatementAt(bytes, s) : r.end <= t
          BY <3>5, <3>7
        <4>2. s \in Nat /\ r.end \in Nat
          BY <1>1, <1>3, <1>4, <1>5
        <4>3. r.end <= e
          BY <3>4, <4>1, <4>2
        <4> QED BY <2>3, <4>3
      <3> QED BY <3>6, <3>7
    <2> QED BY <2>2, <2>3
  <1> HIDE DEF S
  <1>8. Nat \subseteq S
    BY <1>6, <1>7, Induction
  <1> QED BY <1>1, <1>8 DEF S, at, n

LEMMA StartsAre ==
  ASSUME NEW bytes \in Seq(Byte)
  PROVE  /\ 0 \in Starts(bytes) /\ Starts(bytes) \subseteq 0..Len(bytes)
         /\ \A s \in Starts(bytes) : \A r \in StatementAt(bytes, s) : r.end \in Starts(bytes)
         /\ \A s, t \in Starts(bytes) :
                s < t => \E r \in StatementAt(bytes, s) : r.end <= t
         /\ \A s \in Starts(bytes) : s = 0 \/ \E st \in StatementsOf(bytes) : s = st.end
  <1> DEFINE at == Path(bytes)
             n  == Len(bytes)
  <1>1. n \in Nat
    OBVIOUS
  <1>2. /\ at[0] = {0}
        /\ \A k \in 0..(n - 1) : \A e :
               e \in at[k + 1] <=> \E s \in at[k] : \E r \in StatementAt(bytes, s) : e = r.end
    BY PathUnfold
  <1>3. \A k \in 0..n : \A s \in at[k] : s \in k..n
    BY PathTyped
  <1>4. \A s : s \in Starts(bytes) <=> \E k \in 0..n : s \in at[k]
    BY DEF Starts
  <1>5. 0 \in Starts(bytes) /\ Starts(bytes) \subseteq 0..n
    BY <1>1, <1>2, <1>3, <1>4
  <1>6. ASSUME NEW s \in Starts(bytes), NEW r \in StatementAt(bytes, s)
        PROVE  r.end \in Starts(bytes)
    <2>1. PICK k \in 0..n : s \in at[k]
      BY <1>4
    <2>2. s \in k..n /\ s < n
      <3>1. s \in k..n
        BY <1>3, <2>1
      <3>2. ~(s >= n)
        BY DEF StatementAt
      <3> QED BY <1>1, <3>1, <3>2
    <2>3. k \in 0..(n - 1) /\ k + 1 \in 0..n
      BY <1>1, <2>1, <2>2
    <2>4. r.end \in at[k + 1]
      BY <1>2, <2>1, <2>3
    <2> QED BY <1>4, <2>3, <2>4
  <1>7. ASSUME NEW s \in Starts(bytes), NEW t \in Starts(bytes), s < t
        PROVE  \E r \in StatementAt(bytes, s) : r.end <= t
    <2>1. PICK k \in 0..n : s \in at[k]
      BY <1>4
    <2>2. PICK m \in 0..n : t \in at[m]
      BY <1>4
    <2>3. s \in Nat /\ t \in Nat /\ \A u \in Nat : \A r \in StatementAt(bytes, u) :
                                       r.end \in Nat /\ r.end > u
      BY <1>1, <1>5, StatementTyped DEF Reading
    <2>4. CASE k < m
      <3>1. m \in k..n /\ k # m
        BY <1>1, <2>4
      <3> QED BY <2>1, <2>2, <3>1, PathOrder
    <2>5. CASE ~(k < m)
      <3>1. k \in m..n
        BY <1>1, <2>5
      <3>2. /\ m = k => t = s
            /\ m # k => \E r \in StatementAt(bytes, t) : r.end <= s
        BY <2>1, <2>2, <3>1, PathOrder
      <3> QED BY <1>7, <2>3, <3>2
    <2> QED BY <2>4, <2>5
  <1>8. ASSUME NEW s \in Starts(bytes), s # 0
        PROVE  \E st \in StatementsOf(bytes) : s = st.end
    <2>1. PICK k \in 0..n : s \in at[k]
      BY <1>4
    <2>2. k # 0 /\ k - 1 \in 0..(n - 1) /\ (k - 1) + 1 = k /\ k - 1 \in 0..n
      BY <1>1, <1>2, <1>8, <2>1
    <2> DEFINE j == k - 1
    <2>3. j \in 0..(n - 1) /\ s \in at[j + 1] /\ j \in 0..n
      BY <2>1, <2>2
    <2> HIDE DEF j
    <2>4. PICK u \in at[j] : \E r \in StatementAt(bytes, u) : s = r.end
      BY <1>2, <2>3
    <2>5. PICK r \in StatementAt(bytes, u) : s = r.end
      BY <2>4
    <2>6. u \in Starts(bytes)
      BY <1>4, <2>3, <2>4
    <2> DEFINE st == [off |-> u, end |-> r.end, flow |-> FlowOf(r)]
    <2>7. st \in StatementsOf(bytes) /\ st.end = s
      BY <2>5, <2>6 DEF StatementsOf
    <2> QED BY <2>7
  <1> QED BY <1>5, <1>6, <1>7, <1>8

\* The statements of the stream, one at most at an offset.
StatementOf(s, r) == [off |-> s, end |-> r.end, flow |-> FlowOf(r)]

LEMMA StreamTyped ==
  ASSUME NEW bytes \in Seq(Byte)
  PROVE  /\ \A st : st \in StatementsOf(bytes) <=>
                \E s \in Starts(bytes) : \E r \in StatementAt(bytes, s) : st = StatementOf(s, r)
         /\ \A st, other \in StatementsOf(bytes) : st.off = other.off => st = other
         /\ IsFiniteSet(StatementsOf(bytes))
  <1> DEFINE all == StatementsOf(bytes)
             n == Len(bytes)
  <1>1. \A st : st \in all <=>
            \E s \in Starts(bytes) : \E r \in StatementAt(bytes, s) : st = StatementOf(s, r)
    BY DEF StatementsOf, StatementOf
  <1>2. n \in Nat /\ Starts(bytes) \subseteq 0..n
    BY StartsAre
  <1>3. \A s \in Starts(bytes) : AtMostOne(StatementAt(bytes, s))
    BY <1>2, StatementTyped
  <1>4. \A st, other \in all : st.off = other.off => st = other
    <2> SUFFICES ASSUME NEW st \in all, NEW other \in all, st.off = other.off
                 PROVE  st = other
      OBVIOUS
    <2>1. PICK s \in Starts(bytes) : \E r \in StatementAt(bytes, s) : st = StatementOf(s, r)
      BY <1>1
    <2>2. PICK r \in StatementAt(bytes, s) : st = StatementOf(s, r)
      BY <2>1
    <2>3. PICK u \in Starts(bytes) : \E q \in StatementAt(bytes, u) : other = StatementOf(u, q)
      BY <1>1
    <2>4. PICK q \in StatementAt(bytes, u) : other = StatementOf(u, q)
      BY <2>3
    <2>5. s = u
      BY <2>2, <2>4 DEF StatementOf
    <2>6. r = q
      BY <1>3, <2>2, <2>4, <2>5 DEF AtMostOne
    <2> QED BY <2>2, <2>4, <2>5, <2>6
  <1>5. IsFiniteSet(all)
    <2> DEFINE offs == {st.off : st \in all}
               f == [s \in offs |-> CHOOSE st \in all : st.off = s]
    <2>1. offs \subseteq 0..n
      BY <1>1, <1>2 DEF StatementOf
    <2>2. IsFiniteSet(offs)
      <3>1. 0 \in Int /\ n \in Int
        BY <1>2
      <3>2. IsFiniteSet(0..n)
        BY <3>1, FS_Interval
      <3> QED BY <2>1, <3>2, FS_Subset
    <2> HIDE DEF all
    <2>3. \A s \in offs : (CHOOSE st \in all : st.off = s) \in all
      OBVIOUS
    <2>4. \A st \in all : st.off \in offs /\ f[st.off] = st
      BY <1>4
    <2>5. f \in [offs -> all]
      BY <2>3
    <2> HIDE DEF f, offs
    <2>6. f \in Surjection(offs, all)
      BY <2>4, <2>5 DEF Surjection
    <2> QED BY <2>2, <2>6, FS_Surjection
  <1> QED BY <1>1, <1>4, <1>5

\* The statements of the stream before an offset: one more behind each statement.
SeenBefore(bytes, u) == {st \in StatementsOf(bytes) : st.off < u}

LEMMA NextSeen ==
  ASSUME NEW bytes \in Seq(Byte), NEW s \in Starts(bytes), NEW q \in StatementAt(bytes, s)
  PROVE  /\ SeenBefore(bytes, q.end) = SeenBefore(bytes, s) \cup {StatementOf(s, q)}
         /\ StatementOf(s, q) \in StatementsOf(bytes)
         /\ Cardinality(SeenBefore(bytes, s)) \in Nat
         /\ Cardinality(SeenBefore(bytes, q.end)) = Cardinality(SeenBefore(bytes, s)) + 1
         /\ Cardinality(SeenBefore(bytes, s)) < Cardinality(StatementsOf(bytes))
  <1> DEFINE all == StatementsOf(bytes)
             before == SeenBefore(bytes, s)
             upto == SeenBefore(bytes, q.end)
             this == StatementOf(s, q)
  <1>1. Starts(bytes) \subseteq 0..Len(bytes) /\ Len(bytes) \in Nat
    BY StartsAre
  <1>2. s \in Nat
    BY <1>1
  <1>3. AtMostOne(StatementAt(bytes, s)) /\ q.end \in Nat /\ q.end > s
    BY <1>2, StatementTyped DEF Reading
  <1>4. this \in all /\ this.off = s
    BY StreamTyped DEF StatementOf
  <1>5. \A st \in all : st.off \in Starts(bytes) /\ st.off \in Nat
    BY <1>1, StreamTyped DEF StatementOf
  <1>6. upto = before \cup {this}
    <2>1. ASSUME NEW st \in all, st.off < q.end, ~(st.off < s)
          PROVE  st = this
      <3>1. CASE st.off = s
        BY <1>4, <2>1, <3>1, StreamTyped
      <3>2. CASE st.off # s
        <4>1. s < st.off
          BY <1>2, <1>5, <2>1, <3>2
        <4>2. PICK r \in StatementAt(bytes, s) : r.end <= st.off
          BY <1>5, <4>1, StartsAre
        <4>3. r = q
          BY <1>3 DEF AtMostOne
        <4> QED BY <1>3, <1>5, <2>1, <4>2, <4>3
      <3> QED BY <3>1, <3>2
    <2>2. this.off < q.end
      BY <1>3, <1>4
    <2>3. \A st \in all : st.off < s => st.off < q.end
      BY <1>2, <1>3, <1>5
    <2> HIDE DEF all, this
    <2> QED BY <1>4, <2>1, <2>2, <2>3 DEF SeenBefore, all
  <1>7. this \notin before
    BY <1>2, <1>4 DEF SeenBefore
  <1>8. IsFiniteSet(all) /\ upto \subseteq all /\ before \subseteq upto
    BY <1>6, StreamTyped DEF SeenBefore
  <1> HIDE DEF all, before, upto, this
  <1>9. IsFiniteSet(upto) /\ Cardinality(upto) <= Cardinality(all)
    BY <1>8, FS_Subset
  <1>10. IsFiniteSet(before)
    BY <1>8, <1>9, FS_Subset
  <1>11. Cardinality(upto) = Cardinality(before) + 1
    BY <1>6, <1>7, <1>10, FS_AddElement
  <1>12. Cardinality(before) \in Nat /\ Cardinality(all) \in Nat
    BY <1>8, <1>10, FS_CardinalityType
  <1>13. Cardinality(before) < Cardinality(all)
    BY <1>9, <1>11, <1>12
  <1> QED BY <1>4, <1>6, <1>11, <1>12, <1>13 DEF all, before, upto, this

LEMMA NoneSeen ==
  ASSUME NEW bytes \in Seq(Byte)
  PROVE  SeenBefore(bytes, 0) = {} /\ Cardinality(SeenBefore(bytes, 0)) = 0
  <1>1. \A st \in StatementsOf(bytes) : st.off \in Nat
    BY StartsAre, StreamTyped DEF StatementOf
  <1>2. SeenBefore(bytes, 0) = {}
    BY <1>1 DEF SeenBefore
  <1> QED BY <1>2, FS_EmptySet
-----------------------------------------------------------------------------
(* The scan of a map.  While its window is whole, it sees what the stream  *)
(* of the image has at the scan's offset.                                  *)
Searched == image.io = "map" /\ WithinLimits(image)

InBody(s) == s + Window <= Len(image.bytes)

LEMMA BoundsOfMap ==
  ASSUME PluginInv, Searched, pc # "idle"
  PROVE  ScanBounds.base = image.from /\ ScanBounds.size = Len(image.bytes)
  <1> DEFINE from == image.from
             len  == Len(image.bytes)
             to   == from + len - 1
  <1>1. /\ from \in Nat /\ len \in Nat /\ from <= op.addr /\ image.io = "map"
        /\ len <= ScanBytes /\ ScanBytes \in Nat
    BY ImageTyped, PluginAssumption
       DEF PluginInv, TypeOK, InMemory, Searched, WithinLimits
  <1>2. ScanBounds = [base |-> from, size |-> Min({to - from + 1, ScanBytes})]
    BY <1>1 DEF ScanBounds
  <1>3. Min({to - from + 1, ScanBytes}) = len
    <2> HIDE DEF from, len
    <2>1. to - from + 1 = len
      BY <1>1
    <2>2. len \in Int /\ ScanBytes \in Int
      BY <1>1
    <2>3. Min({len, ScanBytes}) = len
      BY <1>1, <2>2, MinIsLess
    <2> HIDE DEF to
    <2> QED BY <2>1, <2>3
  <1> QED BY <1>2, <1>3

\* Where the window reads as it is, mc7p_read_scan_window takes it as it is.
LEMMA WholeWindow ==
  ASSUME NEW a, CanRead(a, Window)
  PROVE  ScanWindow(a) = {Window}
  <1> DEFINE sizes == {Window \div 2^k : k \in 0..30} \ {0}
  <1>1. Window \in Nat \ {0}
    BY PluginAssumption
  <1>2. Window \in sizes
    <2>1. 2^0 = 1 /\ 0 \in 0..30 /\ Window \div 1 = Window
      BY <1>1
    <2>2. Window = Window \div 2^0
      BY <2>1
    <2> QED BY <1>1, <2>1, <2>2
  <1>3. \A n \in sizes : n \in Nat /\ n <= Window
    <2> SUFFICES ASSUME NEW k \in 0..30, NEW n, n = Window \div 2^k
                 PROVE  n \in Nat /\ n <= Window
      OBVIOUS
    <2>1. \A d \in Nat \ {0} : \A w \in Nat : w \div d \in Nat /\ w \div d <= w
      OBVIOUS
    <2>2. 2^k \in Nat \ {0}
      BY PowersOfTwo
    <2> QED BY <1>1, <2>1, <2>2
  <1> HIDE DEF sizes
  <1>4. \A n : n \in ScanWindow(a) <=>
            /\ n \in sizes /\ CanRead(a, n)
            /\ \A m \in sizes : CanRead(a, m) => m <= n
    BY DEF ScanWindow, sizes
  <1>5. Window \in ScanWindow(a)
    BY <1>2, <1>3, <1>4
  <1>6. \A n \in ScanWindow(a) : n = Window
    <2> TAKE n \in ScanWindow(a)
    <2>1. n \in sizes /\ Window <= n
      BY <1>2, <1>4
    <2> QED BY <1>1, <1>3, <2>1
  <1> QED BY <1>5, <1>6

(* A whole window at a start of the stream: the scan decodes there what    *)
(* the stream has, and nothing where the stream stops.                     *)
LEMMA BodyWindow ==
  ASSUME PluginInv, Searched, pc # "idle", off \in Starts(image.bytes), InBody(off)
  PROVE  /\ StatementAt(image.bytes, off) = {} => WindowStatement = {}
         /\ \A q \in StatementAt(image.bytes, off) :
                \E r : /\ WindowStatement = {r} /\ FlowOf(r) = FlowOf(q)
                       /\ off + r.end = q.end
  <1> DEFINE bytes == image.bytes
             a == image.from + off
             w == SubSeq(bytes, off + 1, off + Window)
  <1>1. /\ image \in Images /\ bytes \in Seq(Byte) /\ image.from \in Nat /\ Len(bytes) \in Nat
        /\ Window \in Nat \ {0} /\ off \in Nat
    BY ImageTyped, PluginAssumption DEF PluginInv, TypeOK
  <1>2. off + Window <= Len(bytes)
    BY DEF InBody
  <1>3. CanRead(a, Window)
    BY <1>1, <1>2 DEF CanRead
  <1>4. MemoryAt(a, Window) = w
    <2>1. a - image.from + 1 = off + 1 /\ a - image.from + Window = off + Window
      BY <1>1
    <2> QED BY <2>1 DEF MemoryAt
  <1>5. WindowStatement = StatementAt(w, 0)
    <2>1. ScanBounds.base = image.from
      BY BoundsOfMap
    <2>2. ScanWindow(a) = {Window}
      BY <1>3, WholeWindow
    <2>3. WindowStatement = UNION {StatementAt(MemoryAt(a, n), 0) : n \in {Window}}
      BY <2>1, <2>2 DEF WindowStatement
    <2> HIDE DEF w, a
    <2>4. WindowStatement = StatementAt(MemoryAt(a, Window), 0)
      BY <2>3
    <2> QED BY <1>4, <2>4
  <1>6. w \in Seq(Byte) /\ Len(w) = Window /\ \A i \in 1..Len(w) : w[i] = bytes[off + i]
    <2>1. off + 1 \in Nat /\ off + 1 >= 1 /\ off + Window \in Int
      BY <1>1
    <2>2. w \in Seq(Byte)
      BY <1>1, <1>2, <2>1, PieceTyped
    <2>3. Len(w) = Window /\ \A i \in 1..Window : w[i] = bytes[off + i]
      <3> DEFINE lo == off + 1
                 hi == off + Window
      <3>1. lo \in Nat /\ lo >= 1 /\ hi \in Nat /\ hi <= Len(bytes) /\ lo <= hi + 1
            /\ hi - lo + 1 = Window
        BY <1>1, <1>2
      <3>2. \A i \in 1..Window : lo + i - 1 = off + i
        BY <1>1
      <3> HIDE DEF lo, hi, bytes
      <3>3. /\ Len(SubSeq(bytes, lo, hi)) = hi - lo + 1
            /\ \A i \in 1..(hi - lo + 1) : SubSeq(bytes, lo, hi)[i] = bytes[lo + i - 1]
        BY <1>1, <3>1
      <3>4. \A i \in 1..Window : SubSeq(bytes, lo, hi)[i] = bytes[off + i]
        BY <3>1, <3>2, <3>3
      <3> QED BY <3>1, <3>3, <3>4 DEF lo, hi
    <2> QED BY <2>2, <2>3
  <1>7. ASSUME StatementAt(bytes, off) = {}
        PROVE  WindowStatement = {}
    <2>1. off \in {0} \cup {st.end : st \in Stream[image]}
      BY <1>1, StartsAre, StreamIs
    <2>2. StopsAlike(image)
      BY DEF Searched, WithinLimits
    <2>3. StatementAt(w, 0) = {}
      BY <1>2, <1>7, <2>1, <2>2 DEF StopsAlike
    <2> QED BY <1>5, <2>3
  <1>8. ASSUME NEW q \in StatementAt(bytes, off)
        PROVE  \E r : /\ WindowStatement = {r} /\ FlowOf(r) = FlowOf(q)
                      /\ off + r.end = q.end
    <2> DEFINE r == [q EXCEPT !.end = q.end - off]
               st == StatementOf(off, q)
    <2>1. q \in Reading /\ q.end \in Nat
      BY <1>1, StatementTyped DEF Reading
    <2>2. q.end <= off + Len(w)
      <3>1. st \in Stream[image] /\ st.end = q.end /\ st.off = off
        BY <1>1, StreamIs, StreamTyped DEF StatementOf
      <3>2. st.end - st.off <= Window
        BY <3>1 DEF Searched, WithinLimits
      <3> QED BY <1>1, <1>6, <2>1, <3>1, <3>2
    <2> HIDE DEF w
    <2>3. WindowOf(w, bytes, off)
      BY <1>1, <1>2, <1>6 DEF WindowOf
    <2>4. AtMostOne(Offered(bytes, off))
      BY <1>1, OneOffered
    <2>5. StatementAt(w, 0) = {r} /\ off + (q.end - off) = q.end
      BY <2>2, <2>3, <2>4, StatementInPart
    <2>6. r.end = q.end - off /\ r.op = q.op /\ r.operands = q.operands /\ r.flags = q.flags
      BY <2>1 DEF Reading
    <2> HIDE DEF r
    <2>7. FlowOf(r) = FlowOf(q)
      BY <2>6 DEF FlowOf
    <2> QED BY <1>5, <2>5, <2>6, <2>7
  <1> QED BY <1>7, <1>8

\* What BodyTargetsExact says of the last scan.
Body  == {a \in Addresses : a + Window <= image.from + Len(image.bytes)}
First == {image.from + s : s \in FirstLabel(image, op.id)}
Found == IF op.scanned = "io" THEN op.jump ELSE {}

BodyAgrees == Found \cap Body = First \cap Body

IsLabel(st, id) == st.flow = [kind |-> "LABEL", id |-> id]

LEMMA FirstLabelIs ==
  ASSUME NEW im, NEW id, NEW s
  PROVE  s \in FirstLabel(im, id) <=>
             /\ \E st \in Stream[im] : IsLabel(st, id) /\ s = st.off
             /\ \A st \in Stream[im] : IsLabel(st, id) => s <= st.off
  <1> DEFINE hits == {st.off : st \in {t \in Stream[im] : IsLabel(t, id)}}
  <1>1. FirstLabel(im, id) = {u \in hits : \A v \in hits : u <= v}
    BY DEF FirstLabel, IsLabel
  <1> QED BY <1>1

(* The scan at an offset: no label it looks for lies behind it in whole    *)
(* windows, and in one it is on the stream and has counted its statements. *)
ScanAt ==
  /\ \A st \in Stream[image] :
         IsLabel(st, op.id) /\ InBody(st.off) => ~(st.off < off)
  /\ InBody(off) => /\ off \in Starts(image.bytes)
                    /\ Cardinality(SeenBefore(image.bytes, off)) = steps

ScanInv ==
  Searched =>
      /\ pc = "io" => ScanAt
      /\ pc \in {"io", "data"} => op.scanned = "no"
      /\ pc = "data" \/ op.scanned # "no" => BodyAgrees

\* Where no label looked for starts a whole window, the stream has no target there.
LEMMA NoTarget ==
  ASSUME PluginInv, \A st \in Stream[image] : IsLabel(st, op.id) => ~InBody(st.off)
  PROVE  First \cap Body = {}
  <1> SUFFICES ASSUME NEW a \in First, a \in Body PROVE FALSE
    OBVIOUS
  <1>1. image \in Images /\ image.from \in Nat /\ image.bytes \in Seq(Byte)
        /\ Len(image.bytes) \in Nat /\ Window \in Nat
    BY ImageTyped, PluginAssumption DEF PluginInv, TypeOK
  <1>2. PICK s \in FirstLabel(image, op.id) : a = image.from + s
    BY DEF First
  <1>3. PICK st \in Stream[image] : IsLabel(st, op.id) /\ s = st.off
    BY <1>2, FirstLabelIs
  <1>4. s \in Nat
    BY <1>1, <1>3, StreamIs, StreamTyped, StartsAre DEF StatementOf
  <1>5. InBody(s)
    BY <1>1, <1>2, <1>4 DEF Body, InBody
  <1> QED BY <1>3, <1>5

\* The stream while the io scan is under way.
LEMMA ScanTyped ==
  ASSUME PluginInv, Searched
  PROVE  /\ image \in Images /\ image.bytes \in Seq(Byte) /\ Len(image.bytes) \in Nat
         /\ image.from \in Nat /\ Window \in Nat \ {0} /\ off \in Nat
         /\ Stream[image] = StatementsOf(image.bytes)
         /\ Cardinality(Stream[image]) <= ScanMax
         /\ \A st \in Stream[image] : st.off \in Starts(image.bytes) /\ st.off \in Nat
  <1>1. /\ image \in Images /\ image.bytes \in Seq(Byte) /\ Len(image.bytes) \in Nat
        /\ image.from \in Nat /\ Window \in Nat \ {0} /\ off \in Nat
    BY ImageTyped, PluginAssumption DEF PluginInv, TypeOK
  <1>2. Stream[image] = StatementsOf(image.bytes)
    BY <1>1, StreamIs
  <1>3. \A st \in Stream[image] : st.off \in Starts(image.bytes) /\ st.off \in Nat
    BY <1>1, <1>2, StreamTyped, StartsAre DEF StatementOf
  <1>4. Cardinality(Stream[image]) <= ScanMax
    BY DEF Searched, WithinLimits
  <1> QED BY <1>1, <1>2, <1>3, <1>4

\* The scan finds its label: at the first of the stream, or behind whole windows.
LEMMA FoundAgrees ==
  ASSUME PluginInv, Searched, pc = "io", ScanAt, NEW r \in WindowStatement, IsTarget(r),
         op' = [op EXCEPT !.jump = {ScanBounds.base + off}, !.scanned = "io"],
         image' = image
  PROVE  BodyAgrees'
  <1> DEFINE a == image.from + off
  <1>1. /\ image \in Images /\ image.bytes \in Seq(Byte) /\ Len(image.bytes) \in Nat
        /\ image.from \in Nat /\ Window \in Nat \ {0} /\ off \in Nat
        /\ Stream[image] = StatementsOf(image.bytes)
        /\ \A st \in Stream[image] : st.off \in Starts(image.bytes) /\ st.off \in Nat
    BY ScanTyped
  <1>2. op'.id = op.id /\ Found' = {a}
    <2>1. ScanBounds.base = image.from /\ DOMAIN op = DOMAIN NoOp
      BY BoundsOfMap DEF PluginInv, OpWhole
    <2> QED BY <2>1 DEF Found, NoOp
  <1>3. First' = First /\ Body' = Body
    BY <1>2 DEF First, Body, Addresses
  <1>4. CASE ~InBody(off)
    <2>1. a \notin Body
      BY <1>1, <1>4 DEF Body, InBody
    <2>2. \A st \in Stream[image] : IsLabel(st, op.id) => ~InBody(st.off)
      <3> SUFFICES ASSUME NEW st \in Stream[image], IsLabel(st, op.id), InBody(st.off)
                   PROVE  FALSE
        OBVIOUS
      <3>1. ~(st.off < off)
        BY DEF ScanAt
      <3> QED BY <1>1, <1>4, <3>1 DEF InBody
    <2>3. First \cap Body = {}
      BY <2>2, NoTarget
    <2> QED BY <1>2, <1>3, <2>1, <2>3 DEF BodyAgrees
  <1>5. CASE InBody(off)
    <2>1. off \in Starts(image.bytes)
      BY <1>5 DEF ScanAt
    <2>2. PICK q \in StatementAt(image.bytes, off) : FlowOf(r) = FlowOf(q)
      <3>1. StatementAt(image.bytes, off) # {}
        BY <1>5, <2>1, BodyWindow
      <3>2. PICK q \in StatementAt(image.bytes, off) : TRUE
        BY <3>1
      <3>3. \E x : WindowStatement = {x} /\ FlowOf(x) = FlowOf(q)
        BY <1>5, <2>1, BodyWindow
      <3> QED BY <3>3
    <2> DEFINE this == StatementOf(off, q)
    <2>3. this \in Stream[image] /\ this.off = off /\ IsLabel(this, op.id)
      BY <1>1, <2>1, <2>2, StreamTyped DEF StatementOf, IsLabel, IsTarget
    <2> HIDE DEF this
    <2>4. \A st \in Stream[image] : IsLabel(st, op.id) => off <= st.off
      <3> SUFFICES ASSUME NEW st \in Stream[image], IsLabel(st, op.id), st.off < off
                   PROVE  FALSE
        BY <1>1
      <3>1. InBody(st.off)
        BY <1>1, <1>5 DEF InBody
      <3> QED BY <3>1 DEF ScanAt
    <2>5. off \in FirstLabel(image, op.id)
      BY <2>3, <2>4, FirstLabelIs
    <2>6. \A s \in FirstLabel(image, op.id) : s = off
      <3> TAKE s \in FirstLabel(image, op.id)
      <3>1. PICK st \in Stream[image] : IsLabel(st, op.id) /\ s = st.off
        BY FirstLabelIs
      <3>2. s <= off /\ off <= s /\ s \in Nat
        BY <1>1, <2>3, <2>4, <3>1, FirstLabelIs
      <3> QED BY <1>1, <3>2
    <2>7. First = {a}
      BY <2>5, <2>6 DEF First
    <2> QED BY <1>2, <1>3, <2>7 DEF BodyAgrees
  <1> QED BY <1>4, <1>5

\* The scan goes on behind a statement.
LEMMA ScanGoesOn ==
  ASSUME PluginInv, Searched, pc = "io", ScanAt, NEW r \in WindowStatement, ~IsTarget(r),
         off' = off + r.end, steps' = steps + 1, op' = op, image' = image
  PROVE  ScanAt'
  <1>1. /\ image \in Images /\ image.bytes \in Seq(Byte) /\ Len(image.bytes) \in Nat
        /\ Window \in Nat \ {0} /\ off \in Nat
        /\ Stream[image] = StatementsOf(image.bytes)
        /\ \A st \in Stream[image] : st.off \in Starts(image.bytes) /\ st.off \in Nat
    BY ScanTyped
  <1>2. r.end \in Nat
    BY WindowStatementTyped
  <1>3. CASE ~InBody(off)
    <2>1. ~InBody(off')
      BY <1>1, <1>2, <1>3 DEF InBody
    <2>2. \A st \in Stream[image] :
              IsLabel(st, op.id) /\ InBody(st.off) => ~(st.off < off')
      <3> SUFFICES ASSUME NEW st \in Stream[image], IsLabel(st, op.id), InBody(st.off),
                          st.off < off'
                   PROVE  FALSE
        OBVIOUS
      <3>1. ~(st.off < off)
        BY DEF ScanAt
      <3> QED BY <1>1, <1>3, <3>1 DEF InBody
    <2> QED BY <2>1, <2>2 DEF ScanAt, InBody
  <1>4. CASE InBody(off)
    <2>1. off \in Starts(image.bytes) /\ Cardinality(SeenBefore(image.bytes, off)) = steps
      BY <1>4 DEF ScanAt
    <2>2. PICK q \in StatementAt(image.bytes, off) :
              FlowOf(r) = FlowOf(q) /\ off + r.end = q.end
      <3>1. StatementAt(image.bytes, off) # {}
        BY <1>4, <2>1, BodyWindow
      <3>2. PICK q \in StatementAt(image.bytes, off) : TRUE
        BY <3>1
      <3>3. \E x : WindowStatement = {x} /\ FlowOf(x) = FlowOf(q) /\ off + x.end = q.end
        BY <1>4, <2>1, BodyWindow
      <3> QED BY <3>3
    <2> DEFINE this == StatementOf(off, q)
    <2>3. /\ SeenBefore(image.bytes, off') = SeenBefore(image.bytes, off) \cup {this}
          /\ Cardinality(SeenBefore(image.bytes, off')) = steps'
          /\ off' \in Starts(image.bytes)
      <3>1. off' = q.end
        BY <2>2
      <3>2. /\ SeenBefore(image.bytes, q.end) = SeenBefore(image.bytes, off) \cup {this}
            /\ Cardinality(SeenBefore(image.bytes, q.end))
                   = Cardinality(SeenBefore(image.bytes, off)) + 1
        BY <1>1, <2>1, NextSeen
      <3>3. q.end \in Starts(image.bytes)
        BY <1>1, <2>1, StartsAre
      <3> HIDE DEF this
      <3> QED BY <2>1, <3>1, <3>2, <3>3
    <2>4. ~IsLabel(this, op.id)
      BY <2>2 DEF StatementOf, IsLabel, IsTarget
    <2> HIDE DEF this
    <2>5. \A st \in Stream[image] :
              IsLabel(st, op.id) /\ InBody(st.off) => ~(st.off < off')
      <3> SUFFICES ASSUME NEW st \in Stream[image], IsLabel(st, op.id), InBody(st.off),
                          st.off < off'
                   PROVE  FALSE
        OBVIOUS
      <3>1. st \in SeenBefore(image.bytes, off')
        BY <1>1 DEF SeenBefore
      <3>2. st \in SeenBefore(image.bytes, off)
        BY <2>3, <2>4, <3>1
      <3>3. st.off < off
        BY <3>2 DEF SeenBefore
      <3> QED BY <3>3 DEF ScanAt
    <2> QED BY <2>3, <2>5 DEF ScanAt, InBody
  <1> QED BY <1>3, <1>4

\* The scan gives up: it is behind the whole windows, or the stream has stopped.
LEMMA GivenUpAgrees ==
  ASSUME PluginInv, Searched, pc = "io", ScanAt, ~IoScanning \/ WindowStatement = {}
  PROVE  First \cap Body = {}
  <1>1. /\ image \in Images /\ image.bytes \in Seq(Byte) /\ Len(image.bytes) \in Nat
        /\ Window \in Nat \ {0} /\ off \in Nat
        /\ Stream[image] = StatementsOf(image.bytes)
        /\ Cardinality(Stream[image]) <= ScanMax
        /\ \A st \in Stream[image] : st.off \in Starts(image.bytes) /\ st.off \in Nat
    BY ScanTyped
  <1>2. CASE ~InBody(off)
    <2>1. \A st \in Stream[image] : IsLabel(st, op.id) => ~InBody(st.off)
      <3> SUFFICES ASSUME NEW st \in Stream[image], IsLabel(st, op.id), InBody(st.off)
                   PROVE  FALSE
        OBVIOUS
      <3>1. ~(st.off < off)
        BY DEF ScanAt
      <3> QED BY <1>1, <1>2, <3>1 DEF InBody
    <2> QED BY <2>1, NoTarget
  <1>3. CASE InBody(off)
    <2>1. off \in Starts(image.bytes) /\ Cardinality(SeenBefore(image.bytes, off)) = steps
      BY <1>3 DEF ScanAt
    <2>2. StatementAt(image.bytes, off) = {}
      <3> SUFFICES ASSUME NEW q \in StatementAt(image.bytes, off) PROVE FALSE
        OBVIOUS
      <3>1. \E x : WindowStatement = {x}
        BY <1>3, <2>1, BodyWindow
      <3>2. steps \in Nat /\ steps < Cardinality(Stream[image])
        BY <1>1, <2>1, NextSeen
      <3>3. steps < ScanMax
        <4>1. Cardinality(Stream[image]) \in Nat /\ ScanMax \in Nat
          BY <1>1, StreamTyped, FS_CardinalityType, PluginAssumption
        <4> QED BY <1>1, <3>2, <4>1
      <3>4. off < ScanBounds.size
        <4>1. ScanBounds.size = Len(image.bytes)
          BY BoundsOfMap
        <4> QED BY <1>1, <1>3, <4>1 DEF InBody
      <3>5. image.io # "none"
        BY DEF Searched
      <3>6. IoScanning
        BY <3>3, <3>4, <3>5 DEF IoScanning
      <3> QED BY <3>1, <3>6
    <2>3. \A st \in Stream[image] : IsLabel(st, op.id) => ~InBody(st.off)
      <3> SUFFICES ASSUME NEW st \in Stream[image], IsLabel(st, op.id), InBody(st.off)
                   PROVE  FALSE
        OBVIOUS
      <3>1. ~(st.off < off)
        BY DEF ScanAt
      <3>2. st.off # off
        BY <1>1, <2>2, StreamTyped DEF StatementOf
      <3>3. off < st.off
        BY <1>1, <3>1, <3>2
      <3>4. StatementAt(image.bytes, off) # {}
        BY <1>1, <2>1, <3>3, StartsAre
      <3> QED BY <2>2, <3>4
    <2> QED BY <2>3, NoTarget
  <1> QED BY <1>2, <1>3

\* Nothing about the scan's result changes.
LEMMA AgreesStill ==
  ASSUME BodyAgrees, op.scanned # "io", op'.scanned # "io", op'.id = op.id, image' = image
  PROVE  BodyAgrees'
  BY DEF BodyAgrees, Found, First, Body, Addresses

\* A call that starts a scan: at the start of the map, with nothing seen.
LEMMA ScanStarts ==
  ASSUME PluginInv, Searched, image' = image, off' = 0, steps' = 0
  PROVE  ScanAt'
  <1>1. /\ image.bytes \in Seq(Byte)
        /\ \A st \in Stream[image] : st.off \in Nat
    BY ScanTyped
  <1>2. 0 \in Starts(image.bytes) /\ Cardinality(SeenBefore(image.bytes, 0)) = 0
    BY <1>1, StartsAre, NoneSeen
  <1>3. \A st \in Stream[image] : ~(st.off < 0)
    BY <1>1
  <1> QED BY <1>2, <1>3 DEF ScanAt

LEMMA ScanInvStep == PluginInv /\ ScanInv /\ [Next]_vars => ScanInv'
  <1> SUFFICES ASSUME PluginInv, ScanInv, [Next]_vars, Searched'
               PROVE  /\ pc' = "io" => ScanAt'
                      /\ pc' \in {"io", "data"} => op'.scanned = "no"
                      /\ pc' = "data" \/ op'.scanned # "no" => BodyAgrees'
    BY DEF ScanInv
  <1>1. image' = image
    BY DEF Next, Analyse, AnalyseInvalid, IoStep, IoGiveUp, DataStep, DataGiveUp, vars
  <1>2. /\ Searched
        /\ pc = "io" => ScanAt
        /\ pc \in {"io", "data"} => op.scanned = "no"
        /\ pc = "data" \/ op.scanned # "no" => BodyAgrees
    BY <1>1 DEF Searched, ScanInv
  <1>3. DOMAIN op = DOMAIN NoOp
    BY DEF PluginInv, OpWhole
  <1>4. CASE Analyse
    <2>1. off' = 0 /\ steps' = 0
      BY <1>4 DEF Analyse
    <2>2. PICK a, r : AnalyseStatement(a, r, FlowOf(r))
      BY <1>4 DEF Analyse
    <2>3. op'.scanned = "no" /\ pc' \in {"idle", "io"}
      BY <2>2 DEF AnalyseStatement, NoOp
    <2>4. ScanAt'
      BY <1>1, <1>2, <2>1, ScanStarts
    <2> QED BY <2>3, <2>4
  <1>5. CASE AnalyseInvalid
    BY <1>5 DEF AnalyseInvalid, NoOp
  <1>6. CASE IoStep
    <2>1. pc = "io" /\ ScanAt /\ op.scanned = "no"
      BY <1>2, <1>6 DEF IoStep, IoScanning
    <2>2. PICK r \in WindowStatement :
             IF IsTarget(r)
             THEN /\ op' = [op EXCEPT !.jump = {ScanBounds.base + off}, !.scanned = "io"]
                  /\ pc' = "idle"
                  /\ UNCHANGED <<off, steps>>
             ELSE /\ off' = off + r.end
                  /\ steps' = steps + 1
                  /\ UNCHANGED <<op, pc>>
      BY <1>6 DEF IoStep
    <2>3. CASE IsTarget(r)
      <3>1. /\ op' = [op EXCEPT !.jump = {ScanBounds.base + off}, !.scanned = "io"]
            /\ pc' = "idle"
        BY <2>2, <2>3
      <3>2. BodyAgrees'
        BY <1>1, <1>2, <2>1, <2>3, <3>1, FoundAgrees
      <3> QED BY <3>1, <3>2
    <2>4. CASE ~IsTarget(r)
      <3>1. off' = off + r.end /\ steps' = steps + 1 /\ op' = op /\ pc' = pc
        BY <2>2, <2>4
      <3>2. ScanAt'
        BY <1>1, <1>2, <2>1, <2>4, <3>1, ScanGoesOn
      <3> QED BY <2>1, <3>1, <3>2
    <2> QED BY <2>3, <2>4
  <1>7. CASE IoGiveUp
    <2>1. /\ pc = "io" /\ pc' = "data" /\ op' = op
          /\ ~IoScanning \/ WindowStatement = {}
      BY <1>7 DEF IoGiveUp
    <2>2. ScanAt /\ op.scanned = "no"
      BY <1>2, <2>1
    <2>3. First \cap Body = {}
      BY <1>2, <2>1, <2>2, GivenUpAgrees
    <2>4. BodyAgrees
      BY <2>2, <2>3 DEF BodyAgrees, Found
    <2>5. BodyAgrees'
      BY <1>1, <2>1, <2>2, <2>4, AgreesStill
    <2> QED BY <2>1, <2>2, <2>5
  <1>8. CASE DataStep
    <2>1. pc = "data" /\ op.scanned = "no" /\ BodyAgrees
      BY <1>2, <1>8 DEF DataStep, DataScanning
    <2>2. \/ \E j : op' = [op EXCEPT !.jump = j, !.scanned = "data"] /\ pc' = "idle"
          \/ op' = op /\ pc' = pc
      BY <1>8 DEF DataStep
    <2>3. /\ op'.id = op.id
          /\ \/ op'.scanned = "data" /\ pc' = "idle"
             \/ op'.scanned = "no" /\ pc' = "data"
      BY <1>3, <2>1, <2>2 DEF NoOp
    <2>4. BodyAgrees'
      BY <1>1, <2>1, <2>3, AgreesStill
    <2> QED BY <2>3, <2>4
  <1>9. CASE DataGiveUp
    <2>1. pc = "data" /\ op.scanned = "no" /\ BodyAgrees
      BY <1>2, <1>9 DEF DataGiveUp
    <2>2. op' = [op EXCEPT !.scanned = "failed"] /\ pc' = "idle"
      BY <1>9 DEF DataGiveUp
    <2>3. op'.id = op.id /\ op'.scanned = "failed"
      BY <1>3, <2>2 DEF NoOp
    <2>4. BodyAgrees'
      BY <1>1, <2>1, <2>3, AgreesStill
    <2> QED BY <2>2, <2>3, <2>4
  <1>10. CASE UNCHANGED vars
    BY <1>2, <1>10 DEF vars, ScanAt, InBody, BodyAgrees, Found, First, Body, Addresses
  <1> QED BY <1>4, <1>5, <1>6, <1>7, <1>8, <1>9, <1>10 DEF Next

(* mc7p_resolve_label: in a map within its limits the scan of the map      *)
(* finds the first LABEL of the id, before or behind the jump, or none     *)
(* when there is none, in every image up to its last Window bytes.         *)
THEOREM BodyTargetsExactHolds == Spec => []BodyTargetsExact
  <1>1. Init => ScanInv
    BY DEF Init, NoOp, ScanInv
  <1>2. ScanInv => BodyTargetsExact
    BY DEF ScanInv, Searched, BodyTargetsExact, BodyAgrees, Found, First, Body
  <1> QED BY <1>1, <1>2, PluginInit, PluginStep, ScanInvStep, PTL DEF Spec
=============================================================================
