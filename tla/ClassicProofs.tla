--------------------------- MODULE ClassicProofs ---------------------------
(***************************************************************************)
(* Proofs about ClassicBlock.  Every line of the listing and every op is   *)
(* what the decoder returned for some call; the rest is about two calls    *)
(* for one address, whose buffers and surroundings may differ.             *)
(***************************************************************************)
EXTENDS ClassicBlock, WellFoundedInduction, TLAPS

\* Where a line or an op comes from.
LinesDecoded ==
    \A e \in listing : e.at \in Offsets /\ \E j \in Junk : e = Line(e.at, j)
OpsDecoded ==
    \A o \in ops : /\ o.at \in Offsets
                   /\ \E j \in Junk, k \in Windows : o = Op(o.at, Buffer(k, o.at), j)

IInv ==
    /\ code \in Seq(Byte)
    /\ cursor \in Nat
    /\ todo \subseteq Offsets
    /\ LinesDecoded
    /\ OpsDecoded
----------------------------------------------------------------------------
\* Inside the block the memory is the code.
LEMMA MemoryIsCode ==
    ASSUME code \in Seq(Byte), NEW at \in Offsets, NEW j \in Junk,
           NEW i \in 1..Left(at)
    PROVE  Memory(at, j)[i] = code[at + i]
<1>1. Left(at) \in Nat /\ at \in Nat /\ Len(code) \in Nat
    BY DEF Left, Offsets
<1>2. SubSeq(code, at + 1, Len(code)) = [m \in 1..Left(at) |-> code[at + m]]
    BY <1>1 DEF Left, Offsets
<1>3. Len(SubSeq(code, at + 1, Len(code))) = Left(at)
    BY <1>1 DEF Left, Offsets
<1>4. SubSeq(code, at + 1, Len(code)) \in Seq(Byte)
    BY <1>1 DEF Left, Offsets
<1>5. <<j, j, j>> \in Seq(Byte)
    BY BlockAssumption
<1> QED BY <1>1, <1>2, <1>3, <1>4, <1>5 DEF Memory

(* Six bytes are enough: with the same first four bytes and lengths that   *)
(* are equal or both at least MaxOpSize the decoder returns the same.      *)
LEMMA SixBytesSuffice ==
    ASSUME NEW m1, NEW m2, NEW n1 \in Nat, NEW n2 \in Nat, NEW addr,
           n1 = n2 \/ (n1 >= MaxOpSize /\ n2 >= MaxOpSize),
           n1 >= 4,
           m1[1] = m2[1], m1[2] = m2[2], m1[3] = m2[3], m1[4] = m2[4]
    PROVE  Decode(m1, n1, addr) = Decode(m2, n2, addr)
<1>1. IsSixByte(m1, n1) <=> IsSixByte(m2, n2)
    BY DEF IsSixByte, MaxOpSize
<1>2. IsFourByte(m1, n1) <=> IsFourByte(m2, n2)
    BY DEF IsFourByte, MaxOpSize
<1>3. Size(m1, n1) = Size(m2, n2)
    BY <1>1, <1>2 DEF Size, MaxOpSize
<1>4. IsJump(m1, n1) <=> IsJump(m2, n2)
    BY DEF IsJump, MaxOpSize
<1>5. JumpTarget(m1, addr) = JumpTarget(m2, addr)
    BY DEF JumpTarget
<1> QED BY <1>3, <1>4, <1>5 DEF Decode

\* Below four bytes nothing jumps and no byte behind the third is looked at.
LEMMA ShortAgrees ==
    ASSUME NEW m1, NEW m2, NEW n \in 1..3, NEW addr,
           \A i \in 1..n : m1[i] = m2[i],
           n = 3 => m1[1] # 48
    PROVE  Decode(m1, n, addr) = Decode(m2, n, addr)
<1>1. ~IsSixByte(m1, n) /\ ~IsSixByte(m2, n)
    BY DEF IsSixByte
<1>2. ~IsFourByte(m1, n) /\ ~IsFourByte(m2, n)
    BY DEF IsFourByte
<1>3. m1[1] = m2[1] /\ (n >= 2 => m1[2] = m2[2])
    OBVIOUS
<1>4. Size(m1, n) = Size(m2, n)
    BY <1>1, <1>2, <1>3 DEF Size
<1>5. ~IsJump(m1, n) /\ ~IsJump(m2, n)
    BY DEF IsJump
<1> QED BY <1>3, <1>4, <1>5 DEF Decode

\* Two calls for one offset agree, whatever buffer and surroundings they get.
LEMMA CallsAgree ==
    ASSUME code \in Seq(Byte), NEW at \in Offsets, ~CutConstant(at),
           NEW j1 \in Junk, NEW j2 \in Junk, NEW k \in Windows, NEW addr
    PROVE  Decode(Memory(at, j1), Left(at), addr)
             = Decode(Memory(at, j2), Buffer(k, at), addr)
<1> DEFINE m1 == Memory(at, j1)
           m2 == Memory(at, j2)
<1>1. Left(at) \in Nat /\ Left(at) >= 1 /\ at \in Nat
    BY DEF Left, Offsets
<1>2. \A i \in 1..Left(at) : m1[i] = code[at + i] /\ m2[i] = code[at + i]
    BY MemoryIsCode
<1>3. k \in Nat /\ k >= 6
    BY WindowsAssumption, BlockAssumption DEF MaxOpSize
<1>4. Buffer(k, at) \in Nat
      /\ (Buffer(k, at) = Left(at) \/ (Buffer(k, at) >= 6 /\ Left(at) >= 6))
    BY <1>1, <1>3 DEF Buffer
<1> HIDE DEF m1, m2
<1>5. CASE Left(at) >= 4
    <2>1. m1[1] = m2[1] /\ m1[2] = m2[2] /\ m1[3] = m2[3] /\ m1[4] = m2[4]
        BY <1>1, <1>2, <1>5
    <2>2. Decode(m1, Left(at), addr) = Decode(m2, Buffer(k, at), addr)
        BY <1>1, <1>4, <1>5, <2>1, SixBytesSuffice DEF MaxOpSize
    <2> QED BY <2>2 DEF m1, m2
<1>6. CASE Left(at) < 4
    <2>1. Left(at) \in 1..3 /\ Buffer(k, at) = Left(at)
        BY <1>1, <1>4, <1>6
    <2>2. \A i \in 1..Left(at) : m1[i] = m2[i]
        BY <1>2
    <2>3. Left(at) = 3 => m1[1] # 48
        BY <1>1, <1>2 DEF CutConstant
    <2>4. Decode(m1, Left(at), addr) = Decode(m2, Left(at), addr)
        BY <2>1, <2>2, <2>3, ShortAgrees
    <2> QED BY <2>1, <2>4 DEF m1, m2
<1> QED BY <1>1, <1>5, <1>6

\* A size that is decoded is even, at most six, and fits but for a cut constant.
LEMMA SizeFits ==
    ASSUME NEW mem, NEW n \in Nat
    PROVE  /\ Size(mem, n) \in {Failed, 2, 4, 6}
           /\ Size(mem, n) <= n \/ n < 2 \/ (n = 3 /\ mem[1] = 48)
BY DEF Size, IsSixByte, IsFourByte, Failed

\* What is decoded for a line, apart from the fields of the record.
LEMMA LineFields ==
    ASSUME NEW at, NEW j
    PROVE  LET d == Decode(Memory(at, j), Left(at), Addr(at))
           IN  /\ Line(at, j).at = at
               /\ Line(at, j).size = (IF d.size = Failed THEN 2 ELSE d.size)
               /\ Line(at, j).valid = (d.size # Failed)
               /\ Line(at, j).jump = d.jump
BY DEF Line

\* A valid line is as long as the instruction that was decoded.
LEMMA ValidLine ==
    ASSUME NEW e, NEW j, e = Line(e.at, j), e.valid
    PROVE  /\ e.size = Size(Memory(e.at, j), Left(e.at))
           /\ Size(Memory(e.at, j), Left(e.at)) # Failed
<1>1. Decode(Memory(e.at, j), Left(e.at), Addr(e.at)).size = Size(Memory(e.at, j), Left(e.at))
    BY DEF Decode
<1>2. Size(Memory(e.at, j), Left(e.at)) # Failed
    <2>1. SUFFICES ASSUME Size(Memory(e.at, j), Left(e.at)) = Failed PROVE ~e.valid
        OBVIOUS
    <2>2. Line(e.at, j).valid = FALSE
        BY <1>1, <2>1 DEF Line
    <2> QED BY <2>2, Zenon
<1>3. Line(e.at, j).size = Size(Memory(e.at, j), Left(e.at))
    BY <1>1, <1>2 DEF Line
<1> QED BY <1>2, <1>3

LEMMA OpFields ==
    ASSUME NEW at, NEW n, NEW j
    PROVE  LET d == Decode(Memory(at, j), n, Addr(at))
           IN  /\ Op(at, n, j).at = at
               /\ Op(at, n, j).size = (IF d.size = Failed THEN 0 ELSE d.size)
               /\ Op(at, n, j).jump = d.jump
BY DEF Op
----------------------------------------------------------------------------
\* The invariant holds initially and every step preserves it.
LEMMA IInvInit == Init => IInv
BY BytesAssumption DEF Init, IInv, LinesDecoded, OpsDecoded

\* The lines and ops of an unchanged block stay what they are.
LEMMA CodeFrames ==
    ASSUME code' = code
    PROVE  /\ Offsets' = Offsets
           /\ \A at, j : Line(at, j)' = Line(at, j)
           /\ \A at, k, j : Op(at, Buffer(k, at), j)' = Op(at, Buffer(k, at), j)
<1>1. Offsets' = Offsets
    BY DEF Offsets
<1>2. ASSUME NEW at, NEW j PROVE Line(at, j)' = Line(at, j)
    BY DEF Line, Memory, Left
<1>3. ASSUME NEW at, NEW k, NEW j
      PROVE  Op(at, Buffer(k, at), j)' = Op(at, Buffer(k, at), j)
    BY DEF Op, Buffer, Memory, Left
<1> QED BY <1>1, <1>2, <1>3

LEMMA IInvStep == IInv /\ [Next]_vars => IInv'
<1> SUFFICES ASSUME IInv, [Next]_vars PROVE IInv'
    OBVIOUS
<1> USE DEF IInv
<1>1. CASE Disassemble
    <2>1. code' = code /\ ops' = ops /\ todo' = todo
        BY <1>1 DEF Disassemble
    <2>2. PICK j \in Junk : /\ listing' = listing \cup {Line(cursor, j)}
                            /\ cursor' = cursor + Line(cursor, j).size
        BY <1>1 DEF Disassemble
    <2>3. cursor \in Offsets
        BY <1>1 DEF Disassemble, Offsets
    <2>4. cursor' \in Nat
        <3>1. Left(cursor) \in Nat
            BY <2>3 DEF Left, Offsets
        <3>2. Size(Memory(cursor, j), Left(cursor)) \in {Failed, 2, 4, 6}
            BY <3>1, SizeFits
        <3>3. Line(cursor, j).size \in {2, 4, 6}
            BY <3>2 DEF Line, Decode, Failed
        <3> QED BY <2>2, <3>3
    <2>5. Line(cursor, j).at = cursor
        BY DEF Line
    <2>6. LinesDecoded'
        <3>1. ASSUME NEW e \in listing'
              PROVE  e.at \in Offsets /\ \E i \in Junk : e = Line(e.at, i)
            BY <2>2, <2>3, <2>5 DEF LinesDecoded
        <3> QED BY <3>1, <2>1, CodeFrames DEF LinesDecoded
    <2>7. OpsDecoded'
        BY <2>1, CodeFrames DEF OpsDecoded
    <2> QED BY <2>1, <2>4, <2>6, <2>7 DEF Offsets
<1>2. CASE Analyse
    <2>1. PICK at \in todo, k \in Windows, j \in Junk :
              /\ ops' = ops \cup {Op(at, Buffer(k, at), j)}
              /\ todo' = (todo \cup Successors(Op(at, Buffer(k, at), j)))
                             \ {o.at : o \in ops'}
              /\ UNCHANGED <<program, code, cursor, listing>>
        BY <1>2 DEF Analyse
    <2>2. Op(at, Buffer(k, at), j).at = at
        BY DEF Op
    <2>3. todo' \subseteq Offsets
        BY <2>1 DEF Successors
    <2>4. OpsDecoded'
        <3>1. ASSUME NEW o \in ops'
              PROVE  /\ o.at \in Offsets
                     /\ \E i \in Junk, h \in Windows : o = Op(o.at, Buffer(h, o.at), i)
            BY <2>1, <2>2 DEF OpsDecoded
        <3> QED BY <3>1, <2>1, CodeFrames DEF OpsDecoded
    <2>5. LinesDecoded'
        BY <2>1, CodeFrames DEF LinesDecoded
    <2> QED BY <2>1, <2>3, <2>4, <2>5 DEF Offsets
<1>3. CASE UNCHANGED vars
    <2>1. code' = code /\ cursor' = cursor /\ todo' = todo /\ listing' = listing /\ ops' = ops
        BY <1>3 DEF vars
    <2>2. LinesDecoded' /\ OpsDecoded'
        BY <2>1, CodeFrames DEF LinesDecoded, OpsDecoded
    <2> QED BY <2>1, <2>2 DEF Offsets
<1> QED BY <1>1, <1>2, <1>3 DEF Next

LEMMA IInvAlways == Spec => []IInv
BY IInvInit, IInvStep, PTL DEF Spec
----------------------------------------------------------------------------
LEMMA Agreement == IInv => AnalysisAgrees
<1> SUFFICES ASSUME IInv, NEW e \in listing, NEW o \in ops,
                    e.at = o.at, ~CutConstant(e.at)
             PROVE  o.size = (IF e.valid THEN e.size ELSE 0) /\ o.jump = e.jump
    BY DEF AnalysisAgrees
<1>1. e.at \in Offsets
    BY DEF IInv, LinesDecoded
<1>2. PICK j1 \in Junk : e = Line(e.at, j1)
    BY DEF IInv, LinesDecoded
<1>3. PICK j2 \in Junk, k \in Windows : o = Op(e.at, Buffer(k, e.at), j2)
    BY DEF IInv, OpsDecoded
<1> DEFINE d == Decode(Memory(e.at, j1), Left(e.at), Addr(e.at))
<1>4. d = Decode(Memory(e.at, j2), Buffer(k, e.at), Addr(e.at))
    BY <1>1, CallsAgree DEF IInv
<1>5. /\ e.size = (IF d.size = Failed THEN 2 ELSE d.size)
      /\ e.valid = (d.size # Failed)
      /\ e.jump = d.jump
    BY <1>2, LineFields
<1>6. o.size = (IF d.size = Failed THEN 0 ELSE d.size) /\ o.jump = d.jump
    BY <1>3, <1>4, OpFields
<1> HIDE DEF d
<1> QED BY <1>5, <1>6

(* Listing and analysis agree on every instruction of every block, for     *)
(* every address, and for all buffers that are large enough.               *)
THEOREM AgreementHolds == Spec => []AnalysisAgrees
BY Agreement, IInvAlways, PTL

\* No instruction is longer than what is left of the block, but a cut constant.
THEOREM WithinBlockHolds == Spec => []WithinBlock
<1>1. IInv => WithinBlock
    <2> SUFFICES ASSUME IInv, NEW e \in listing, e.valid
                 PROVE  e.at + e.size <= Len(code) \/ CutConstant(e.at)
        BY DEF WithinBlock
    <2>1. e.at \in Offsets /\ code \in Seq(Byte)
        BY DEF IInv, LinesDecoded
    <2>2. PICK j \in Junk : e = Line(e.at, j)
        BY DEF IInv, LinesDecoded
    <2> DEFINE n == Left(e.at)
               s == Size(Memory(e.at, j), n)
    <2>3. n \in Nat /\ n >= 1 /\ n = Len(code) - e.at /\ e.at \in Nat /\ Len(code) \in Nat
        BY <2>1 DEF Left, Offsets
    <2>4. e.size = s /\ s # Failed
        BY <2>2, ValidLine
    <2>5. s \in {Failed, 2, 4, 6} /\ (s <= n \/ n < 2 \/ (n = 3 /\ Memory(e.at, j)[1] = 48))
        BY <2>3, SizeFits
    <2>6. n >= 2
        BY <2>3, <2>4 DEF Size
    <2>7. Memory(e.at, j)[1] = code[e.at + 1]
        BY <2>1, <2>3, MemoryIsCode
    <2> HIDE DEF s
    <2>8. CASE s <= n
        BY <2>3, <2>4, <2>5, <2>8 DEF Failed
    <2>9. CASE n = 3 /\ Memory(e.at, j)[1] = 48
        BY <2>7, <2>9 DEF CutConstant
    <2> QED BY <2>3, <2>5, <2>6, <2>8, <2>9
<1> QED BY <1>1, IInvAlways, PTL
----------------------------------------------------------------------------
\* An address is one of the address space, however far back the jump.
LEMMA JumpTyped ==
    ASSUME code \in Seq(Byte), NEW at \in Offsets, NEW j \in Junk,
           NEW n \in Nat, n <= Left(at)
    PROVE  Decode(Memory(at, j), n, Addr(at)).jump \in 0..(AddrSpace - 1)
<1> DEFINE mem == Memory(at, j)
<1>1. \A x \in Int : x % AddrSpace \in 0..(AddrSpace - 1)
    BY AddrSpaceAssumption
<1>2. NoJump \in 0..(AddrSpace - 1)
    BY AddrSpaceAssumption DEF NoJump
<1>3. ASSUME IsJump(mem, n) PROVE JumpTarget(mem, Addr(at)) \in 0..(AddrSpace - 1)
    <2>1. n >= 4 /\ Left(at) \in Nat /\ at \in Nat
        BY <1>3 DEF IsJump, Left, Offsets
    <2>2. mem[3] = code[at + 3] /\ mem[4] = code[at + 4]
        BY <2>1, MemoryIsCode
    <2>3. at + 3 \in 1..Len(code) /\ at + 4 \in 1..Len(code)
        BY <2>1 DEF Left
    <2>4. code[at + 3] \in Byte /\ code[at + 4] \in Byte
        BY <2>3
    <2>5. mem[3] \in Nat /\ mem[4] \in Nat
        <3>1. \A b \in Byte : b \in Nat
            BY DEF Byte
        <3> QED BY <2>2, <2>4, <3>1, Zenon
    <2>6. Base + at \in Int
        BY <2>1, BlockAssumption
    <2>7. Addr(at) \in Int
        BY <1>1, <2>6 DEF Addr
    <2> HIDE DEF mem
    <2>8. Signed16(Word16(mem[3], mem[4])) \in Int
        BY <2>5 DEF Signed16, Word16
    <2>9. Addr(at) + Signed16(Word16(mem[3], mem[4])) \in Int
        BY <2>7, <2>8
    <2> QED BY <1>1, <2>9 DEF JumpTarget
<1> QED BY <1>2, <1>3 DEF Decode

\* Every line and every op is made of values of its types.
LEMMA LineTyped ==
    ASSUME code \in Seq(Byte), NEW at \in Offsets, NEW j \in Junk
    PROVE  Line(at, j) \in [at : Offsets, size : {2, 4, 6}, valid : BOOLEAN,
                            jump : 0..(AddrSpace - 1)]
<1> DEFINE d == Decode(Memory(at, j), Left(at), Addr(at))
<1>1. Left(at) \in Nat
    BY DEF Left, Offsets
<1>2. d.jump \in 0..(AddrSpace - 1)
    BY <1>1, JumpTyped
<1>3. d.size \in {Failed, 2, 4, 6}
    BY <1>1, SizeFits DEF Decode
<1>4. (IF d.size = Failed THEN 2 ELSE d.size) \in {2, 4, 6}
    BY <1>3
<1> HIDE DEF d
<1>5. Line(at, j) = [at |-> at, size |-> IF d.size = Failed THEN 2 ELSE d.size,
                     valid |-> d.size # Failed, jump |-> d.jump]
    BY DEF Line, d
<1> QED BY <1>2, <1>4, <1>5

LEMMA OpTyped ==
    ASSUME code \in Seq(Byte), NEW at \in Offsets, NEW j \in Junk, NEW k \in Windows
    PROVE  Op(at, Buffer(k, at), j) \in
               [at : Offsets, size : {0, 2, 4, 6}, jump : 0..(AddrSpace - 1),
                fail : 0..(AddrSpace - 1), eob : BOOLEAN]
<1> DEFINE n    == Buffer(k, at)
           d    == Decode(Memory(at, j), n, Addr(at))
           size == IF d.size = Failed THEN 0 ELSE d.size
<1>1. Left(at) \in Nat /\ at \in Nat
    BY DEF Left, Offsets
<1>2. n \in Nat /\ n <= Left(at)
    BY <1>1, BlockAssumption DEF Buffer
<1>3. d.jump \in 0..(AddrSpace - 1)
    BY <1>2, JumpTyped
<1>4. size \in {0, 2, 4, 6}
    <2>1. d.size \in {Failed, 2, 4, 6}
        BY <1>2, SizeFits DEF Decode
    <2> QED BY <2>1
<1>5. \A x \in Int : x % AddrSpace \in 0..(AddrSpace - 1)
    BY AddrSpaceAssumption
<1>6. (Addr(at) + size) % AddrSpace \in 0..(AddrSpace - 1)
    <2>1. Base + at \in Int
        BY <1>1, BlockAssumption
    <2>2. Addr(at) \in Int
        BY <1>5, <2>1 DEF Addr
    <2>3. size \in Int
        BY <1>4
    <2> DEFINE x == Addr(at) + size
    <2>4. x \in Int
        <3> HIDE DEF size
        <3> QED BY <2>2, <2>3
    <2> HIDE DEF x
    <2>5. x % AddrSpace \in 0..(AddrSpace - 1)
        BY <1>5, <2>4
    <2> QED BY <2>5 DEF x
<1>7. d.is_return \in BOOLEAN
    BY DEF Decode
<1>8. NoJump \in 0..(AddrSpace - 1)
    BY AddrSpaceAssumption DEF NoJump
<1> DEFINE fail == IF d.jump = NoJump THEN NoJump ELSE (Addr(at) + size) % AddrSpace
<1>9. fail \in 0..(AddrSpace - 1)
    BY <1>6, <1>8
<1>10. Op(at, n, j) = [at |-> at, size |-> size, jump |-> d.jump,
                       fail |-> fail, eob |-> d.is_return]
    BY DEF Op
<1> HIDE DEF d, size, n, fail
<1>11. Op(at, n, j) \in [at : Offsets, size : {0, 2, 4, 6}, jump : 0..(AddrSpace - 1),
                         fail : 0..(AddrSpace - 1), eob : BOOLEAN]
    BY <1>3, <1>4, <1>7, <1>9, <1>10
<1> QED BY <1>11 DEF n

(* The plugins' and rizin's variables keep their types; in particular all  *)
(* jump and fail addresses are of the address space, at which a jump       *)
(* backwards from a low address wraps (s7_decode_jump).                    *)
THEOREM ClassicTypeCorrect == Spec => []TypeOK
<1> DEFINE P == program \in Seq(Instruction)
<1>1. IInv /\ P => TypeOK
    <2> SUFFICES ASSUME IInv, P PROVE TypeOK
        OBVIOUS
    <2>1. listing \subseteq [at : Offsets, size : {2, 4, 6}, valid : BOOLEAN,
                             jump : 0..(AddrSpace - 1)]
        BY LineTyped DEF IInv, LinesDecoded
    <2>2. ops \subseteq [at : Offsets, size : {0, 2, 4, 6}, jump : 0..(AddrSpace - 1),
                         fail : 0..(AddrSpace - 1), eob : BOOLEAN]
        BY OpTyped DEF IInv, OpsDecoded
    <2> QED BY <2>1, <2>2 DEF TypeOK, IInv
<1>2. Init => P
    BY BlockAssumption DEF Init
<1>3. P /\ [Next]_vars => P'
    BY DEF Next, Disassemble, Analyse, vars
<1> HIDE DEF P
<1> QED BY <1>1, <1>2, <1>3, IInvAlways, PTL DEF Spec
----------------------------------------------------------------------------
(* What the analysis still owes: every address an op leads to was looked   *)
(* at or is queued, and so is the first.                                   *)
Seen == {o.at : o \in ops} \cup todo
FollowedUp == /\ \A o \in ops : Successors(o) \subseteq Seen
              /\ {0} \cap Offsets \subseteq Seen

(* The lines lie behind each other from the first on, so each of them is   *)
(* reached, and at even offsets.                                           *)
Reached(at) == at = 0 \/ \E e \in listing : e.at + e.size = at
LinesInRow == /\ cursor % 2 = 0 /\ Reached(cursor)
              /\ \A e \in listing : e.at % 2 = 0 /\ Reached(e.at)

LEMMA FollowedUpStep == FollowedUp /\ [Next]_vars => FollowedUp'
<1> SUFFICES ASSUME FollowedUp, [Next]_vars PROVE FollowedUp'
    OBVIOUS
<1>1. code' = code
    BY DEF Next, Disassemble, Analyse, vars
<1>2. Offsets' = Offsets /\ \A o : Successors(o)' = Successors(o)
    BY <1>1 DEF Offsets, Successors
<1>3. CASE Disassemble \/ UNCHANGED vars
    <2>1. ops' = ops /\ todo' = todo
        BY <1>3 DEF Disassemble, vars
    <2> QED BY <1>2, <2>1 DEF FollowedUp, Seen
<1>4. CASE Analyse
    <2>1. PICK op : /\ ops' = ops \cup {op}
                    /\ todo' = (todo \cup Successors(op)) \ {o.at : o \in ops'}
        BY <1>4 DEF Analyse
    <2>2. Seen \cup Successors(op) \subseteq Seen'
        BY <2>1 DEF Seen
    <2>3. \A o \in ops' : Successors(o) \subseteq Seen'
        BY <2>1, <2>2 DEF FollowedUp
    <2> QED BY <1>2, <2>2, <2>3 DEF FollowedUp
<1> QED BY <1>3, <1>4 DEF Next

\* A line has an even length.
LEMMA LineEven ==
    ASSUME NEW at \in Offsets, NEW j
    PROVE  Line(at, j).size \in {2, 4, 6} /\ Line(at, j).at = at
<1>1. Left(at) \in Nat
    BY DEF Left, Offsets
<1>2. Size(Memory(at, j), Left(at)) \in {Failed, 2, 4, 6}
    BY <1>1, SizeFits
<1> QED BY <1>2 DEF Line, Decode, Failed

LEMMA LinesInRowStep == IInv /\ LinesInRow /\ [Next]_vars => LinesInRow'
<1> SUFFICES ASSUME IInv, LinesInRow, [Next]_vars PROVE LinesInRow'
    OBVIOUS
<1>1. CASE Analyse \/ UNCHANGED vars
    <2>1. listing' = listing /\ cursor' = cursor
        BY <1>1 DEF Analyse, vars
    <2> QED BY <2>1 DEF LinesInRow, Reached
<1>2. CASE Disassemble
    <2>1. PICK j \in Junk : /\ listing' = listing \cup {Line(cursor, j)}
                            /\ cursor' = cursor + Line(cursor, j).size
        BY <1>2 DEF Disassemble
    <2>2. cursor \in Offsets /\ cursor \in Nat
        BY <1>2 DEF IInv, Disassemble, Offsets
    <2> DEFINE line == Line(cursor, j)
    <2>3. line.size \in {2, 4, 6} /\ line.at = cursor
        BY <2>2, LineEven
    <2> HIDE DEF line
    <2>4. cursor' % 2 = 0
        BY <2>1, <2>2, <2>3 DEF LinesInRow, line
    <2>5. \E e \in listing' : e.at + e.size = cursor'
        BY <2>1, <2>3 DEF line
    <2>6. ASSUME NEW e \in listing'
          PROVE  e.at % 2 = 0 /\ (e.at = 0 \/ \E p \in listing' : p.at + p.size = e.at)
        <3>1. CASE e \in listing
            BY <2>1, <3>1 DEF LinesInRow, Reached
        <3>2. CASE e = line
            BY <2>1, <2>3, <3>2 DEF LinesInRow, Reached
        <3> QED BY <2>1, <3>1, <3>2 DEF line
    <2> QED BY <2>4, <2>5, <2>6 DEF LinesInRow, Reached
<1> QED BY <1>1, <1>2 DEF Next

\* A block at an even address: instructions are words, so every address is even.
EvenAddresses == AddrSpace % 2 = 0 /\ Base % 2 = 0

\* Quotient and remainder are unique.
LEMMA RemainderUnique ==
    ASSUME NEW a \in Nat \ {0}, NEW q1 \in Int, NEW q2 \in Int,
           NEW r1 \in 0..(a - 1), NEW r2 \in 0..(a - 1), a * q1 + r1 = a * q2 + r2
    PROVE  r1 = r2
<1>1. ASSUME NEW m \in Int, NEW n \in Int, m < n
      PROVE  a * n >= a * m + a
    <2>1. PICK d \in Nat : n = m + 1 + d
        BY <1>1
    <2>2. a * n = a * m + a + a * d
        BY <2>1
    <2>3. a * d >= 0
        OBVIOUS
    <2> QED BY <2>2, <2>3
<1>2. CASE q1 < q2
    <2>1. a * q2 >= a * q1 + a
        BY <1>1, <1>2
    <2> QED BY <2>1
<1>3. CASE q2 < q1
    <2>1. a * q1 >= a * q2 + a
        BY <1>1, <1>3
    <2> QED BY <2>1
<1> QED BY <1>2, <1>3

LEMMA Remainder ==
    ASSUME NEW a \in Nat \ {0}, NEW x \in Int
    PROVE  \E q \in Int : x % a \in 0..(a - 1) /\ x = a * q + (x % a)
<1>1. x \div a \in Int /\ x % a \in 0..(a - 1) /\ x = a * (x \div a) + (x % a)
    OBVIOUS
<1> QED BY <1>1

\* The sum of an address and a size is the address of the sum, and never NoJump.
LEMMA AddrPlus ==
    ASSUME NEW at \in Nat, NEW size \in Nat
    PROVE  /\ (Addr(at) + size) % AddrSpace = Addr(at + size)
           /\ EvenAddresses /\ at % 2 = 0 => Addr(at) # NoJump
<1>1. AddrSpace \in Nat \ {0} /\ Base \in Nat
    BY AddrSpaceAssumption, BlockAssumption
<1> DEFINE x  == Base + at
           r  == x % AddrSpace
           y1 == r + size
           y2 == x + size
           r1 == y1 % AddrSpace
           r2 == y2 % AddrSpace
<1>2. r1 = (Addr(at) + size) % AddrSpace /\ r2 = Addr(at + size) /\ r = Addr(at)
    BY <1>1 DEF Addr
<1>3. x \in Int /\ r \in Int /\ y2 \in Int
    BY <1>1
<1> HIDE DEF x
<1>4. PICK q \in Int : r \in 0..(AddrSpace - 1) /\ x = AddrSpace * q + r
    BY <1>1, <1>3, Remainder
<1> HIDE DEF r
<1>5. PICK q1 \in Int : r1 \in 0..(AddrSpace - 1) /\ y1 = AddrSpace * q1 + r1
    <2>1. y1 \in Int
        BY <1>3
    <2> HIDE DEF y1
    <2> QED BY <1>1, <2>1, Remainder
<1>6. PICK q2 \in Int : r2 \in 0..(AddrSpace - 1) /\ y2 = AddrSpace * q2 + r2
    <2> HIDE DEF y2
    <2> QED BY <1>1, <1>3, Remainder
<1> HIDE DEF r1, r2
<1>7. r1 = r2
    <2>1. y2 = AddrSpace * (q + q1) + r1
        <3>1. AddrSpace * (q + q1) = AddrSpace * q + AddrSpace * q1
            BY <1>1, <1>4, <1>5
        <3> QED BY <1>1, <1>3, <1>4, <1>5, <3>1
    <2>2. q + q1 \in Int
        BY <1>4, <1>5
    <2> QED BY <1>1, <1>5, <1>6, <2>1, <2>2, RemainderUnique
<1>8. ASSUME EvenAddresses, at % 2 = 0
      PROVE  r # NoJump
    <2>1. PICK h \in Int : AddrSpace = 2 * h
        BY <1>1, <1>8 DEF EvenAddresses
    <2>2. AddrSpace * q = 2 * (h * q) /\ h * q \in Int
        BY <1>4, <2>1
    <2>3. x % 2 = 0
        BY <1>1, <1>8 DEF EvenAddresses, x
    <2> DEFINE hq == h * q
    <2> HIDE DEF hq
    <2>4. x = 2 * hq + r /\ hq \in Int
        BY <1>4, <2>2 DEF hq
    <2>5. r % 2 = 0
        BY <1>1, <1>3, <1>4, <2>3, <2>4
    <2> QED BY <2>1, <2>5 DEF NoJump
<1> QED BY <1>2, <1>7, <1>8

\* An op that decodes goes on behind itself, unless it returns.
LEMMA OpGoesOn ==
    ASSUME code \in Seq(Byte), NEW at \in Offsets, NEW j \in Junk, NEW k \in Windows,
           NEW o, o = Op(at, Buffer(k, at), j), o.size # 0, code[at + 1] \notin ReturnOps
    PROVE  /\ o.at = at /\ ~o.eob /\ o.size \in Nat
           /\ o.jump # NoJump => o.fail = (Addr(at) + o.size) % AddrSpace
<1> DEFINE n == Buffer(k, at)
           d == Decode(Memory(at, j), n, Addr(at))
<1>1. Left(at) \in Nat /\ Left(at) >= 1 /\ at \in Nat
    BY DEF Left, Offsets
<1>2. n \in Nat
    BY <1>1, BlockAssumption DEF Buffer
<1>3. d.size \in {Failed, 2, 4, 6}
    BY <1>2, SizeFits DEF Decode
<1>4. Memory(at, j)[1] = code[at + 1]
    BY <1>1, MemoryIsCode
<1>5. ~d.is_return
    BY <1>4 DEF Decode
<1>6. /\ o.at = at /\ o.eob = d.is_return /\ o.jump = d.jump
      /\ o.size = (IF d.size = Failed THEN 0 ELSE d.size)
      /\ o.fail = (IF d.jump = NoJump THEN NoJump ELSE (Addr(at) + o.size) % AddrSpace)
    BY DEF Op
<1> HIDE DEF d
<1>7. o.size \in Nat
    BY <1>3, <1>6 DEF Failed
<1> QED BY <1>5, <1>6, <1>7

\* Behind a cut constant there is no line: it is decoded with all that is left.
LEMMA CutIsLast ==
    ASSUME code \in Seq(Byte), NEW at \in Offsets, NEW j \in Junk, CutConstant(at)
    PROVE  Line(at, j).valid => at + Line(at, j).size \notin Offsets
<1> DEFINE m == Memory(at, j)
<1>1. Left(at) = 3 /\ at \in Nat /\ Len(code) = at + 3
    BY DEF CutConstant, Left, Offsets
<1>2. m[1] = 48
    BY <1>1, MemoryIsCode DEF CutConstant
<1> HIDE DEF m
<1>3. ~IsSixByte(m, 3)
    BY DEF IsSixByte
<1>4. TwoByteForms(48) = {}
    BY DEF TwoByteForms, LowByteOps, CounterByteOps, CallByteOps, MemoryBitOps,
           InputOutputOps, At, BitOps
<1>5. Size(m, 3) \in {Failed, 4}
    BY <1>2, <1>3, <1>4 DEF Size
<1>6. Line(at, j).valid => Line(at, j).size = 4
    <2> DEFINE e == Line(at, j)
    <2>1. e = Line(e.at, j) /\ e.at = at
        BY DEF Line
    <2> HIDE DEF e
    <2>2. e.valid => e.size = Size(m, 3) /\ Size(m, 3) # Failed
        BY <1>1, <2>1, ValidLine DEF m
    <2> QED BY <1>5, <2>2 DEF e
<1> QED BY <1>1, <1>6 DEF Offsets

\* A set of natural numbers has a least element.
LEMMA LeastElement ==
    ASSUME NEW T, T \subseteq Nat, T # {}
    PROVE  \E n \in T : \A m \in T : n <= m
<1> DEFINE R == OpToRel(<, Nat)
<1>1. IsWellFoundedOn(R, Nat)
    BY NatLessThanWellFounded
<1>2. \A x, y \in Nat : x < y => <<x, y>> \in R
    BY DEF OpToRel
<1> HIDE DEF R
<1>3. PICK n \in T : \A m \in T : <<m, n>> \notin R
    BY <1>1, WFMin
<1>4. ASSUME NEW m \in T, ~(n <= m) PROVE FALSE
    <2>1. m \in Nat /\ n \in Nat
        OBVIOUS
    <2>2. m < n
        BY <1>4, <2>1
    <2>3. <<m, n>> \in R
        BY <1>2, <2>1, <2>2, Zenon
    <2> QED BY <1>3, <2>3, Zenon
<1> QED BY <1>4

(* Every line up to the first that returns or does not decode was looked   *)
(* at: the least one that was not would be reached from one that was.      *)
LEMMA PrefixSeen ==
    ASSUME EvenAddresses, IInv, FollowedUp, LinesInRow, todo = {}
    PROVE  \A e \in Prefix : \E o \in ops : o.at = e.at
<1> DEFINE Missed == {at \in Offsets : /\ \E e \in Prefix : e.at = at
                                       /\ ~ \E o \in ops : o.at = at}
<1>1. Offsets \subseteq Nat
    BY DEF Offsets
<1>2. \A e \in Prefix : e \in listing /\ e.at \in Offsets
    BY DEF Prefix, IInv, LinesDecoded
<1>3. SUFFICES ASSUME Missed # {} PROVE FALSE
    BY <1>2
<1>4. PICK at \in Missed : \A m \in Missed : at <= m
    <2>1. Missed \subseteq Nat
        BY <1>1
    <2> HIDE DEF Missed
    <2> QED BY <1>3, <2>1, LeastElement
<1>5. at \in Offsets /\ at \in Nat /\ (~ \E o \in ops : o.at = at)
    BY <1>1
<1>6. PICK e \in Prefix : e.at = at
    OBVIOUS
<1>7. at # 0
    BY <1>5 DEF FollowedUp, Seen
<1>8. PICK p \in listing : p.at + p.size = at
    BY <1>2, <1>6, <1>7 DEF LinesInRow, Reached
<1>9. PICK j \in Junk : p = Line(p.at, j)
    BY DEF IInv, LinesDecoded
<1>10. p.at \in Offsets /\ p.at \in Nat /\ p.size \in {2, 4, 6} /\ p.at % 2 = 0
    <2>1. p.at \in Offsets /\ p.at % 2 = 0
        BY DEF IInv, LinesDecoded, LinesInRow
    <2>2. p.size \in {2, 4, 6}
        BY <1>9, <2>1, LineEven
    <2> QED BY <1>1, <2>1, <2>2
<1>11. p.at < at
    BY <1>5, <1>8, <1>10
<1>12. p.valid /\ code[p.at + 1] \notin ReturnOps
    <2>1. SUFFICES ASSUME ~p.valid \/ code[p.at + 1] \in ReturnOps PROVE FALSE
        OBVIOUS
    <2>2. at <= p.at
        BY <1>6, <2>1 DEF Prefix
    <2> QED BY <1>5, <1>10, <1>11, <2>2
<1>13. p \in Prefix
    <2>1. ASSUME NEW f \in listing, ~f.valid \/ code[f.at + 1] \in ReturnOps
          PROVE  p.at <= f.at
        <3>1. at <= f.at /\ f.at \in Nat
            BY <1>1, <1>6, <2>1 DEF Prefix, IInv, LinesDecoded
        <3> QED BY <1>5, <1>10, <1>11, <3>1
    <2> QED BY <2>1 DEF Prefix
<1>14. PICK o \in ops : o.at = p.at
    BY <1>4, <1>5, <1>10, <1>11, <1>13
<1>15. ~CutConstant(p.at)
    BY <1>5, <1>8, <1>9, <1>10, <1>12, CutIsLast DEF IInv
<1>16. o.size = p.size
    BY <1>12, <1>14, <1>15, Agreement DEF AnalysisAgrees
<1>17. at \in Successors(o)
    <2>1. PICK i \in Junk, k \in Windows : o = Op(p.at, Buffer(k, p.at), i)
        BY <1>14 DEF IInv, OpsDecoded
    <2>2. ~o.eob /\ (o.jump # NoJump => o.fail = (Addr(p.at) + o.size) % AddrSpace)
        <3>1. o.size # 0 /\ code \in Seq(Byte)
            BY <1>10, <1>16 DEF IInv
        <3> QED BY <1>10, <1>12, <2>1, <3>1, OpGoesOn
    <2>3. (Addr(p.at) + p.size) % AddrSpace = Addr(at)
        <3>1. p.size \in Nat /\ p.at \in Nat
            BY <1>10
        <3> QED BY <1>8, <3>1, AddrPlus, Zenon
    <2>4. Addr(at) # NoJump
        <3>1. at % 2 = 0
            BY <1>2, <1>6 DEF LinesInRow
        <3> QED BY <1>5, <3>1, AddrPlus
    <2>5. o.size # 0 /\ o.at + o.size = at
        BY <1>8, <1>10, <1>14, <1>16
    <2>6. o.jump # NoJump => o.fail = Addr(at)
        BY <1>16, <2>2, <2>3
    <2> HIDE DEF Missed
    <2> QED BY <1>5, <2>2, <2>4, <2>5, <2>6 DEF Successors
<1> QED BY <1>5, <1>17 DEF FollowedUp, Seen

(* The analysis misses nothing of a block at an even address: once nothing *)
(* is queued it has looked at every line of the listing up to the first    *)
(* that returns or does not decode (analysis_op_mc7, disassemble_mc7), and *)
(* at the targets of their jumps that lie in the block.                    *)
THEOREM NothingMissedHolds ==
    ASSUME EvenAddresses
    PROVE  Spec => []NothingMissed
<1>1. IInv /\ FollowedUp /\ LinesInRow => NothingMissed
    <2> SUFFICES ASSUME IInv, FollowedUp, LinesInRow, todo = {}, NEW e \in Prefix
                 PROVE  /\ \E o \in ops : o.at = e.at
                        /\ \A t \in Offsets :
                               e.jump # NoJump /\ Addr(t) = e.jump /\ ~CutConstant(e.at)
                                   => \E o \in ops : o.at = t
        BY DEF NothingMissed
    <2>1. PICK o \in ops : o.at = e.at
        BY PrefixSeen
    <2>2. ASSUME NEW t \in Offsets, e.jump # NoJump, Addr(t) = e.jump, ~CutConstant(e.at)
          PROVE  \E q \in ops : q.at = t
        <3>1. e \in listing
            BY DEF Prefix
        <3>2. o.jump = e.jump
            BY <2>1, <2>2, <3>1, Agreement DEF AnalysisAgrees
        <3>3. t \in Successors(o)
            BY <2>2, <3>2 DEF Successors
        <3> QED BY <3>3 DEF FollowedUp, Seen
    <2> QED BY <2>1, <2>2
<1>2. Init => FollowedUp /\ LinesInRow
    BY DEF Init, FollowedUp, LinesInRow, Seen, Reached
<1> QED BY <1>1, <1>2, IInvInit, IInvStep, FollowedUpStep, LinesInRowStep, PTL DEF Spec
----------------------------------------------------------------------------
(* The bytes of a program, instruction by instruction.  Flat is the        *)
(* function that FlattenSeq computes: the first k sequences joined.        *)
IsFlat(f, s, n) == f = [i \in 1..n |-> IF i = 1 THEN s[i] ELSE f[i-1] \o s[i]]
Flat(s, n) == CHOOSE f : IsFlat(f, s, n)

\* A set of natural numbers that holds 0 and with n also n + 1 holds all of them.
LEMMA Induction ==
    ASSUME NEW S, 0 \in S, \A n \in Nat : n \in S => n + 1 \in S
    PROVE  Nat \subseteq S
<1> DEFINE T == Nat \ S
<1> SUFFICES ASSUME T # {} PROVE FALSE
    OBVIOUS
<1>1. PICK n \in T : \A m \in T : n <= m
    <2>1. T \subseteq Nat
        OBVIOUS
    <2> HIDE DEF T
    <2> QED BY <2>1, LeastElement
<1>2. n \in Nat /\ n # 0
    OBVIOUS
<1>3. n - 1 \in Nat /\ n - 1 < n
    BY <1>2
<1>4. n - 1 \in S
    BY <1>1, <1>3
<1>5. (n - 1) + 1 \in S
    BY <1>3, <1>4
<1> QED BY <1>2, <1>5

LEMMA FlatExists ==
    ASSUME NEW s, NEW n \in Nat
    PROVE  \E f : IsFlat(f, s, n)
<1> DEFINE S == {m \in Nat : \E f : IsFlat(f, s, m)}
<1>1. 0 \in S
    <2> DEFINE f == [i \in 1..0 |-> s]
    <2>1. f = [i \in 1..0 |-> IF i = 1 THEN s[i] ELSE f[i-1] \o s[i]]
        OBVIOUS
    <2> QED BY <2>1 DEF IsFlat
<1>2. ASSUME NEW m \in Nat, m \in S
      PROVE  m + 1 \in S
    <2>1. PICK f : f = [i \in 1..m |-> IF i = 1 THEN s[i] ELSE f[i-1] \o s[i]]
        BY <1>2 DEF IsFlat
    <2> DEFINE g == [i \in 1..(m + 1) |->
                        IF i <= m THEN f[i] ELSE IF i = 1 THEN s[i] ELSE f[m] \o s[i]]
    <2>2. ASSUME NEW i \in 1..(m + 1)
          PROVE  g[i] = IF i = 1 THEN s[i] ELSE g[i-1] \o s[i]
        <3>1. CASE i = 1
            BY <2>1, <3>1
        <3>2. CASE i \in 2..m
            <4>1. i \in 1..m /\ i - 1 \in 1..m /\ i - 1 \in 1..(m + 1) /\ i # 1
                  /\ i <= m /\ i - 1 <= m
                BY <3>2
            <4>2. f[i] = f[i-1] \o s[i]
                BY <2>1, <4>1
            <4>3. g[i] = f[i] /\ g[i-1] = f[i-1]
                BY <4>1
            <4> HIDE DEF g
            <4> QED BY <4>1, <4>2, <4>3
        <3>3. CASE i = m + 1 /\ i # 1
            <4>1. i - 1 = m /\ m \in 1..(m + 1) /\ ~(i <= m) /\ m <= m
                BY <3>3
            <4>2. g[i] = f[m] \o s[i] /\ g[m] = f[m]
                BY <3>3, <4>1
            <4> HIDE DEF g
            <4> QED BY <3>3, <4>1, <4>2
        <3> QED BY <3>1, <3>2, <3>3
    <2>3. g = [i \in 1..(m + 1) |-> g[i]]
        OBVIOUS
    <2> HIDE DEF g
    <2>4. g = [i \in 1..(m + 1) |-> IF i = 1 THEN s[i] ELSE g[i-1] \o s[i]]
        BY <2>2, <2>3
    <2>5. IsFlat(g, s, m + 1)
        BY <2>4 DEF IsFlat
    <2> QED BY <2>5
<1> HIDE DEF S
<1>3. Nat \subseteq S
    BY <1>1, <1>2, Induction
<1> QED BY <1>3 DEF S

LEMMA FlatUnfold ==
    ASSUME NEW s, NEW n \in Nat, NEW i \in 1..n
    PROVE  Flat(s, n)[i] = IF i = 1 THEN s[i] ELSE Flat(s, n)[i-1] \o s[i]
<1>1. IsFlat(Flat(s, n), s, n)
    BY FlatExists DEF Flat
<1> DEFINE f == Flat(s, n)
<1>2. f = [k \in 1..n |-> IF k = 1 THEN s[k] ELSE f[k-1] \o s[k]]
    BY <1>1 DEF IsFlat
<1> HIDE DEF f
<1>3. f[i] = IF i = 1 THEN s[i] ELSE f[i-1] \o s[i]
    BY <1>2
<1> QED BY <1>3 DEF f

\* Sequences that begin alike are joined alike.
LEMMA FlatPrefix ==
    ASSUME NEW s, NEW t, NEW n \in Nat, NEW m \in 0..n, \A i \in 1..m : t[i] = s[i]
    PROVE  \A i \in 1..m : Flat(t, m)[i] = Flat(s, n)[i]
<1> DEFINE f == Flat(s, n)
           g == Flat(t, m)
           T == {i \in 1..m : g[i] # f[i]}
<1> SUFFICES ASSUME T # {} PROVE FALSE
    OBVIOUS
<1>1. \A i \in 1..n : f[i] = IF i = 1 THEN s[i] ELSE f[i-1] \o s[i]
    BY FlatUnfold
<1>2. \A i \in 1..m : g[i] = IF i = 1 THEN t[i] ELSE g[i-1] \o t[i]
    <2>1. m \in Nat
        OBVIOUS
    <2> QED BY <2>1, FlatUnfold
<1> HIDE DEF f, g
<1>3. PICK k \in T : \A i \in T : k <= i
    <2>1. T \subseteq Nat
        OBVIOUS
    <2> HIDE DEF T
    <2> QED BY <2>1, LeastElement
<1>4. k \in 1..m /\ k \in 1..n /\ g[k] # f[k]
    OBVIOUS
<1>5. CASE k = 1
    BY <1>1, <1>2, <1>4, <1>5
<1>6. CASE k # 1
    <2>1. k - 1 \in 1..m /\ k - 1 < k
        BY <1>4, <1>6
    <2>2. g[k-1] = f[k-1]
        <3>1. k - 1 \in Int /\ k \in Int /\ ~(k <= k - 1)
            BY <2>1
        <3>2. k - 1 \notin T
            BY <1>3, <3>1
        <3> QED BY <2>1, <3>2
    <2> QED BY <1>1, <1>2, <1>4, <1>6, <2>2
<1> QED BY <1>5, <1>6

\* The first i instructions of a program, as bytes.
Upto(p, i) == Bytes(SubSeq(p, 1, i))
Parts(p)   == [i \in DOMAIN p |-> p[i].bytes]

LEMMA BytesIsFlat ==
    ASSUME NEW p \in Seq(Instruction), NEW i \in 0..Len(p)
    PROVE  /\ i = 0 => Upto(p, i) = <<>>
           /\ i # 0 => Upto(p, i) = Flat(Parts(p), Len(p))[i]
<1> DEFINE q == SubSeq(p, 1, i)
           t == Parts(q)
<1>1. q \in Seq(Instruction) /\ Len(q) = i /\ DOMAIN q = 1..i
      /\ \A k \in 1..i : q[k] = p[k]
    OBVIOUS
<1> HIDE DEF q
<1>2. t = [k \in 1..i |-> q[k].bytes]
    BY <1>1 DEF Parts
<1>3. t \in Seq(Seq(Byte)) /\ Len(t) = i
    <2>1. \A k \in 1..i : q[k].bytes \in Seq(Byte)
        <3>1. \A k \in 1..i : q[k] \in Instruction
            BY <1>1
        <3> QED BY <3>1 DEF Instruction
    <2>2. i \in Nat /\ t \in [1..i -> Seq(Byte)]
        BY <1>2, <2>1
    <2> HIDE DEF t
    <2> QED BY <2>2
<1>4. Upto(p, i) = FlattenSeq(t)
    BY DEF Upto, Bytes, Parts, q
<1> HIDE DEF t
<1>5. CASE i = 0
    <2>1. t = <<>>
        BY <1>3, <1>5
    <2>2. FlattenSeq(t) = t
        BY <1>3, <1>5 DEF FlattenSeq
    <2> QED BY <1>4, <1>5, <2>1, <2>2
<1>6. CASE i # 0
    <2>1. FlattenSeq(t) = Flat(t, i)[i]
        BY <1>3, <1>6 DEF FlattenSeq, Flat, IsFlat
    <2>2. \A k \in 1..i : t[k] = Parts(p)[k]
        BY <1>1, <1>2 DEF Parts
    <2>3. i \in 1..i /\ i \in 0..Len(p) /\ Len(p) \in Nat
        BY <1>6
    <2>4. Flat(t, i)[i] = Flat(Parts(p), Len(p))[i]
        BY <2>2, <2>3, FlatPrefix
    <2> QED BY <1>4, <1>6, <2>1, <2>4
<1> QED BY <1>5, <1>6

\* One instruction more, and what lies before it stays where it is.
LEMMA UptoNext ==
    ASSUME NEW p \in Seq(Instruction), NEW i \in 1..Len(p),
           Upto(p, i - 1) \in Seq(Byte)
    PROVE  /\ p[i].bytes \in Seq(Byte)
           /\ Upto(p, i) = Upto(p, i - 1) \o p[i].bytes
           /\ Upto(p, i) \in Seq(Byte)
<1>1. p[i].bytes \in Seq(Byte) /\ Parts(p)[i] = p[i].bytes
    <2>1. p[i] \in Instruction
        OBVIOUS
    <2> QED BY <2>1 DEF Instruction, Parts
<1>2. i \in 0..Len(p) /\ i # 0 /\ i - 1 \in 0..Len(p) /\ Len(p) \in Nat
    OBVIOUS
<1>3. Upto(p, i) = Flat(Parts(p), Len(p))[i]
    BY <1>2, BytesIsFlat
<1>4. Upto(p, i) = Upto(p, i - 1) \o p[i].bytes
    <2>1. CASE i = 1
        <3>1. Upto(p, i - 1) = <<>>
            BY <1>2, <2>1, BytesIsFlat
        <3>2. Upto(p, i) = p[i].bytes
            BY <1>1, <1>2, <1>3, <2>1, FlatUnfold
        <3> DEFINE b == p[i].bytes
        <3>3. b \in Seq(Byte)
            BY <1>1
        <3> HIDE DEF b
        <3>4. <<>> \o b = b
            BY <3>3
        <3> QED BY <3>1, <3>2, <3>4 DEF b
    <2>2. CASE i # 1
        <3>1. i - 1 # 0
            BY <2>2
        <3>2. Upto(p, i - 1) = Flat(Parts(p), Len(p))[i - 1]
            BY <1>2, <3>1, BytesIsFlat
        <3>3. Flat(Parts(p), Len(p))[i] = Flat(Parts(p), Len(p))[i - 1] \o Parts(p)[i]
            BY <1>2, <2>2, FlatUnfold
        <3> QED BY <1>1, <1>3, <3>2, <3>3
    <2> QED BY <2>1, <2>2
<1> HIDE DEF Upto
<1> QED BY <1>1, <1>4

LEMMA UptoTyped ==
    ASSUME NEW p \in Seq(Instruction)
    PROVE  \A i \in 0..Len(p) : Upto(p, i) \in Seq(Byte)
<1> DEFINE S == {i \in Nat : i <= Len(p) => Upto(p, i) \in Seq(Byte)}
<1>1. 0 \in S
    <2>1. 0 \in 0..Len(p)
        OBVIOUS
    <2>2. Upto(p, 0) = <<>>
        BY <2>1, BytesIsFlat
    <2> HIDE DEF Upto
    <2>3. <<>> \in Seq(Byte)
        OBVIOUS
    <2> QED BY <2>2, <2>3
<1>2. ASSUME NEW i \in Nat, i \in S
      PROVE  i + 1 \in S
    <2>1. CASE i + 1 <= Len(p)
        <3>1. Upto(p, i) \in Seq(Byte) /\ (i + 1) \in 1..Len(p) /\ (i + 1) - 1 = i
            BY <1>2, <2>1
        <3> DEFINE k == i + 1
        <3>2. k \in 1..Len(p) /\ Upto(p, k - 1) \in Seq(Byte)
            BY <3>1
        <3> HIDE DEF k
        <3>3. Upto(p, k) \in Seq(Byte)
            BY <3>2, UptoNext
        <3> QED BY <3>3 DEF k
    <2>2. CASE ~(i + 1 <= Len(p))
        BY <2>2
    <2> QED BY <2>1, <2>2
<1> HIDE DEF S
<1>3. Nat \subseteq S
    BY <1>1, <1>2, Induction
<1> QED BY <1>3 DEF S

\* A sequence that goes on as another one does.
Begins(s, t) == Len(s) <= Len(t) /\ \A k \in 1..Len(s) : t[k] = s[k]

LEMMA UptoBegins ==
    ASSUME NEW p \in Seq(Instruction), NEW i \in 0..Len(p)
    PROVE  Begins(Upto(p, i), Bytes(p))
<1> DEFINE S == {m \in Nat : i + m <= Len(p) => Begins(Upto(p, i), Upto(p, i + m))}
<1>1. \A k \in 0..Len(p) : Upto(p, k) \in Seq(Byte)
    BY UptoTyped
<1>2. 0 \in S
    <2>1. i + 0 = i
        OBVIOUS
    <2>2. Begins(Upto(p, i), Upto(p, i))
        BY <1>1 DEF Begins
    <2> QED BY <2>1, <2>2
<1>3. ASSUME NEW m \in Nat, m \in S
      PROVE  m + 1 \in S
    <2>1. CASE i + (m + 1) <= Len(p)
        <3> DEFINE k == i + (m + 1)
        <3>1. k \in 1..Len(p) /\ k - 1 = i + m /\ i + m \in 0..Len(p)
            BY <2>1
        <3>2. Begins(Upto(p, i), Upto(p, k - 1))
            BY <1>3, <3>1
        <3> HIDE DEF k
        <3>3. Upto(p, k - 1) \in Seq(Byte) /\ Upto(p, i) \in Seq(Byte)
            BY <1>1, <3>1
        <3>4. Upto(p, k) = Upto(p, k - 1) \o p[k].bytes /\ p[k].bytes \in Seq(Byte)
            BY <3>1, <3>3, UptoNext
        <3> DEFINE a == Upto(p, i)
                   b == Upto(p, k - 1)
                   c == p[k].bytes
        <3>5. a \in Seq(Byte) /\ b \in Seq(Byte) /\ c \in Seq(Byte) /\ Begins(a, b)
            BY <3>2, <3>3, <3>4
        <3> HIDE DEF a, b, c
        <3>6. Begins(a, b \o c)
            <4>1. Len(b \o c) = Len(b) + Len(c) /\ \A n \in 1..Len(b) : (b \o c)[n] = b[n]
                BY <3>5
            <4>2. Len(a) \in Nat /\ Len(b) \in Nat /\ Len(c) \in Nat
                BY <3>5
            <4>3. Len(a) <= Len(b) /\ \A n \in 1..Len(a) : b[n] = a[n]
                BY <3>5 DEF Begins
            <4>4. \A n \in 1..Len(a) : n \in 1..Len(b)
                BY <4>2, <4>3
            <4> QED BY <4>1, <4>2, <4>3, <4>4 DEF Begins
        <3>7. Begins(Upto(p, i), Upto(p, k))
            BY <3>4, <3>6 DEF a, b, c
        <3>8. Begins(Upto(p, i), Upto(p, i + (m + 1)))
            BY <3>7 DEF k
        <3> QED BY <3>8
    <2>2. CASE ~(i + (m + 1) <= Len(p))
        BY <2>2
    <2> QED BY <2>1, <2>2
<1> HIDE DEF S
<1>4. Nat \subseteq S
    BY <1>2, <1>3, Induction
<1>5. Len(p) - i \in Nat /\ i + (Len(p) - i) = Len(p)
    OBVIOUS
<1>6. Begins(Upto(p, i), Upto(p, i + (Len(p) - i)))
    BY <1>4, <1>5 DEF S
<1>7. SubSeq(p, 1, Len(p)) = p
    OBVIOUS
<1> QED BY <1>5, <1>6, <1>7 DEF Upto

(* Where an instruction lies: from its start on the code is its bytes, and *)
(* behind them the next one starts; behind the last one the code ends.     *)
LEMMA InstructionAt ==
    ASSUME program \in Seq(Instruction), code = Bytes(program), NEW i \in DOMAIN program
    PROVE  LET b == program[i].bytes
           IN  /\ b \in Seq(Byte) /\ StartOf(i) \in Nat
               /\ StartOf(i + 1) = StartOf(i) + Len(b) /\ StartOf(i + 1) <= Len(code)
               /\ \A k \in 1..Len(b) : code[StartOf(i) + k] = b[k]
               /\ i = Len(program) => StartOf(i + 1) = Len(code)
<1> DEFINE a == Upto(program, i - 1)
           b == program[i].bytes
           c == Upto(program, i)
<1>1. i \in 1..Len(program) /\ i - 1 \in 0..Len(program) /\ i \in 0..Len(program)
    OBVIOUS
<1>2. a \in Seq(Byte)
    BY <1>1, UptoTyped
<1>3. b \in Seq(Byte) /\ c = a \o b /\ c \in Seq(Byte)
    BY <1>1, <1>2, UptoNext
<1>4. Begins(c, code)
    BY <1>1, UptoBegins
<1>5. StartOf(i) = Len(a) /\ StartOf(i + 1) = Len(c)
    <2>1. (i + 1) - 1 = i
        BY <1>1
    <2> QED BY <2>1 DEF StartOf, Upto
<1>6. i = Len(program) => c = code
    <2>1. SubSeq(program, 1, Len(program)) = program
        OBVIOUS
    <2> QED BY <2>1 DEF Upto
<1> HIDE DEF a, b, c
<1>7. Len(c) = Len(a) + Len(b) /\ \A k \in 1..Len(b) : c[Len(a) + k] = b[k] /\ Len(a) + k \in 1..Len(c)
    BY <1>2, <1>3
<1>8. \A k \in 1..Len(b) : code[Len(a) + k] = b[k]
    BY <1>4, <1>7 DEF Begins
<1>9. Len(a) \in Nat /\ Len(c) <= Len(code)
    BY <1>2, <1>4 DEF Begins
<1> QED BY <1>3, <1>5, <1>6, <1>7, <1>8, <1>9 DEF b
----------------------------------------------------------------------------
(* The forms of one operation are told apart by its first two bytes, so an *)
(* instruction decodes alike wherever it lies: alone and in a block.       *)
LEMMA OperandOps ==
    ASSUME NEW op \in {0, 1, 5, 9, 32, 48, 56, 65, 73, 81, 88, 89, 96, 104, 112, 121, 126,
                       186, 187, 190, 191, 251, 254, 255}
    PROVE  op \notin LowByteOps \cup CounterByteOps \cup CallByteOps
                     \cup MemoryBitOps \cup InputOutputOps
BY DEF LowByteOps, CounterByteOps, CallByteOps, MemoryBitOps, InputOutputOps, At

LEMMA TwoByteIs ==
    ASSUME NEW op, NEW x, x \in TwoByteForms(op)
    PROVE  /\ op \notin {48, 56, 88, 126, 190}
           /\ op \in BitOps \cup {65, 81, 121, 186, 187, 191} => x = 0
           /\ op = 89 => x = 0
           /\ op = 32 => x # 10
           /\ op = 96 => x \in Arithmetic
           /\ op = 104 => x \in SignShifts \cup Accumulator
           /\ op = 112 => x \in StatusWord
           /\ op = 251 => x \in TwoFB
           /\ op = 254 => x \in TwoFE
           /\ op = 255 => x \in StatusFF
BY OperandOps DEF TwoByteForms, BitOps

LEMMA FourByteIs ==
    ASSUME NEW op, NEW x, x \in FourByteForms(op)
    PROVE  \/ op \in BitOps \cup {65} /\ x \in BitAreas \cup BitAreasN
           \/ op \in {81, 89} /\ x \in MemoryBits \cup MemoryBitsN
           \/ op = 88
           \/ op = 112 /\ x \in Jumps70
           \/ op = 121 /\ x \in RegisterBits
           \/ op \in {126, 190}
           \/ op = 186 /\ x \in LoadsBA
           \/ op = 187 /\ x \in LoadsMem
           \/ op = 191 /\ x \in TimersBF \cup ParametersBF
           \/ op = 251 /\ x \in RegistersFB \cup BlocksFB \cup TimersFB \cup ParametersFB
           \/ op = 254 /\ x \in FourFE
           \/ op = 255 /\ x \in JumpsFF
BY DEF FourByteForms, BitLogicForms, BitLogicMemForms

LEMMA LowNibble ==
    ASSUME NEW h \in 0..15, NEW los, los \subseteq 0..15, NEW b \in At(h, los)
    PROVE  /\ b \in Int /\ b >= 16 * h /\ b <= 16 * h + 15
           /\ \E lo \in los : b % 16 = lo
<1>1. PICK lo \in los : b = 16 * h + lo
    BY DEF At
<1>2. lo \in 0..15
    OBVIOUS
<1>3. b % 16 = lo
    BY <1>1, <1>2
<1> QED BY <1>1, <1>2, <1>3

LEMMA SecondBytesDiffer ==
    /\ 0 \notin BitAreas \cup BitAreasN \cup MemoryBits \cup MemoryBitsN
                \cup RegisterBits \cup LoadsBA \cup LoadsMem \cup TimersBF \cup ParametersBF
    /\ StatusWord \cap Jumps70 = {}
    /\ TwoFB \cap (RegistersFB \cup BlocksFB \cup TimersFB \cup ParametersFB) = {}
    /\ TwoFE \cap FourFE = {} /\ TwoFE \cap SixFE = {} /\ FourFE \cap SixFE = {}
    /\ StatusFF \cap JumpsFF = {}
    /\ 5 \notin Arithmetic
    /\ (SignShifts \cup Accumulator) \cap (Logic16 \cup Logic32) = {}
<1>1. 0 \notin BitAreas \cup BitAreasN \cup MemoryBits \cup MemoryBitsN
                \cup RegisterBits \cup LoadsBA \cup LoadsMem
    BY DEF BitAreas, BitAreasN, MemoryBits, MemoryBitsN, RegisterBits, LoadsBA, LoadsMem
<1>2. 0 \notin TimersBF \cup ParametersBF
    <2>2. \A h \in 3..14 : 0 \notin At(h, ButSeven) /\ 0 \notin At(h, Parameter)
        BY DEF At, ButSeven, Parameter
    <2>3. 0 \notin At(5, {0, 1, 2, 3, 4, 5, 8, 12, 13, 14, 15})
        BY DEF At
    <2>4. 0 \notin TimersBF
        <3>1. \A h \in {3, 4, 6} : 0 \notin At(h, ButSeven)
            BY <2>2
        <3> QED BY <2>3, <3>1 DEF TimersBF
    <2>5. 0 \notin ParametersBF
        <3>1. 11..14 \subseteq 3..14
            OBVIOUS
        <3> QED BY <2>2, <3>1 DEF ParametersBF
    <2> QED BY <2>4, <2>5
<1>3. StatusWord \cap Jumps70 = {} /\ 5 \notin Arithmetic
    BY DEF StatusWord, Jumps70, Arithmetic, At
<1>4. TwoFB \cap RegistersFB = {} /\ TwoFB \cap BlocksFB = {}
    <2>1. TwoFB \cap RegistersFB = {}
        BY DEF TwoFB, RegistersFB, At
    <2>3. \A b \in BlocksFB : b \in Int /\ b >= 48 /\ b % 16 < 10
        <3>1. \A h \in 3..6 : \A b \in At(h, {0, 1, 2, 3, 8, 9}) : b \in Int /\ b >= 48 /\ b % 16 < 10
            <4> TAKE h \in 3..6
            <4> DEFINE los == {0, 1, 2, 3, 8, 9}
            <4>1. los \subseteq 0..15 /\ h \in 0..15 /\ \A lo \in los : lo < 10
                OBVIOUS
            <4> HIDE DEF los
            <4>2. \A b \in At(h, los) : b \in Int /\ b >= 16 * h /\ \E lo \in los : b % 16 = lo
                BY <4>1, LowNibble
            <4> QED BY <4>1, <4>2 DEF los
        <3>2. \A b \in At(7, {0, 1, 2, 3, 4, 6, 8, 9}) : b \in Int /\ b >= 48 /\ b % 16 < 10
            BY DEF At
        <3> QED BY <3>1, <3>2 DEF BlocksFB
    <2>4. \A b \in TwoFB : b < 48 \/ b % 16 >= 10
        BY DEF TwoFB
    <2>5. \A b \in TwoFB : b \in Int
        BY DEF TwoFB
    <2> QED BY <2>1, <2>3, <2>4, <2>5
<1>5. TwoFB \cap TimersFB = {} /\ TwoFB \cap ParametersFB = {}
    <2>1. \A b \in TimersFB \cup ParametersFB : b >= 128
        BY DEF TimersFB, ParametersFB, At, ButSeven, Parameter
    <2>2. \A b \in TwoFB : b < 128
        BY DEF TwoFB
    <2>3. TimersFB \cup ParametersFB \subseteq Int
        BY DEF TimersFB, ParametersFB, At, ButSeven, Parameter
    <2> QED BY <2>1, <2>2, <2>3
<1>6. TwoFE \cap FourFE = {} /\ TwoFE \cap SixFE = {} /\ FourFE \cap SixFE = {}
    <2>1. \A b \in Pointers : b \in 51..111
        <3>1. \A h \in 3..6 : \A b \in At(h, {3, 7, 11, 15}) : b \in 51..111
            BY DEF At
        <3> QED BY <3>1 DEF Pointers
    <2>2. \A b \in TwoFE : b \in Int /\ b \notin 51..111 /\ b \notin {2, 3, 10, 11}
        BY DEF TwoFE
    <2> QED BY <2>1, <2>2 DEF FourFE, SixFE
<1>7. StatusFF \cap JumpsFF = {}
    <2>1. \A b \in StatusFF : b \in Int /\ b % 16 # 8
        <3>1. \A h \in 0..15 : \A b \in At(h, 0..5) : b \in Int /\ b % 16 # 8
            <4> TAKE h \in 0..15
            <4> DEFINE los == 0..5
            <4>1. los \subseteq 0..15 /\ 8 \notin los
                OBVIOUS
            <4> HIDE DEF los
            <4>2. \A b \in At(h, los) : b \in Int /\ \E lo \in los : b % 16 = lo
                BY <4>1, LowNibble
            <4> QED BY <4>1, <4>2 DEF los
        <3>2. \A b \in At(15, {1, 3, 4, 5, 15}) : b \in Int /\ b % 16 # 8
            BY DEF At
        <3>3. {0, 1, 2, 4, 5, 6, 8, 10, 12, 14} \subseteq 0..15
            OBVIOUS
        <3> QED BY <3>1, <3>2, <3>3 DEF StatusFF
    <2>2. \A b \in JumpsFF : b % 16 = 8
        BY DEF JumpsFF
    <2> QED BY <2>1, <2>2
<1>8. (SignShifts \cup Accumulator) \cap (Logic16 \cup Logic32) = {}
    <2>1. (Logic16 \cup Logic32) \cap SignShifts = {}
        BY DEF SignShifts, Logic16, Logic32
    <2>2. 52 \notin Accumulator /\ 54 \notin Accumulator
        BY DEF Accumulator, At
    <2>3. 68 \notin Accumulator /\ 70 \notin Accumulator
        BY DEF Accumulator, At
    <2>4. 84 \notin Accumulator /\ 86 \notin Accumulator
        BY DEF Accumulator, At
    <2> QED BY <2>1, <2>2, <2>3, <2>4 DEF Logic16, Logic32
<1> QED BY <1>1, <1>2, <1>3, <1>4, <1>5, <1>6, <1>7, <1>8

LEMMA FourIsNotSix ==
    ASSUME NEW op, NEW x, x \in FourByteForms(op)
    PROVE  op \notin {32, 56, 96, 104} /\ ~(op = 254 /\ x \in SixFE)
<1>1. op \in BitOps \cup {65, 81, 88, 89, 112, 121, 126, 186, 187, 190, 191, 251, 254, 255}
    BY FourByteIs
<1>2. op \notin {32, 56, 96, 104}
    BY <1>1 DEF BitOps
<1>3. op = 254 => x \in FourFE
    BY FourByteIs DEF BitOps
<1> QED BY <1>2, <1>3, SecondBytesDiffer

LEMMA FormsDiffer ==
    ASSUME NEW op, NEW x, x \in TwoByteForms(op)
    PROVE  x \notin FourByteForms(op)
<1> SUFFICES ASSUME x \in FourByteForms(op) PROVE FALSE
    OBVIOUS
<1>1. CASE op \in BitOps \cup {65, 81, 89, 121, 186, 187, 191}
    <2>1. x = 0
        BY <1>1, TwoByteIs
    <2>2. x \in BitAreas \cup BitAreasN \cup MemoryBits \cup MemoryBitsN
                \cup RegisterBits \cup LoadsBA \cup LoadsMem \cup TimersBF \cup ParametersBF
        BY <1>1, FourByteIs DEF BitOps
    <2> QED BY <2>1, <2>2, SecondBytesDiffer
<1>2. CASE op \in {88, 126, 190}
    BY <1>2, TwoByteIs
<1>3. CASE op = 112
    BY <1>3, TwoByteIs, FourByteIs, SecondBytesDiffer DEF BitOps
<1>4. CASE op = 251
    BY <1>4, TwoByteIs, FourByteIs, SecondBytesDiffer DEF BitOps
<1>5. CASE op = 254
    BY <1>5, TwoByteIs, FourByteIs, SecondBytesDiffer DEF BitOps
<1>6. CASE op = 255
    BY <1>6, TwoByteIs, FourByteIs, SecondBytesDiffer DEF BitOps
<1>7. op \in BitOps \cup {65, 81, 88, 89, 112, 121, 126, 186, 187, 190, 191, 251, 254, 255}
    BY FourByteIs
<1> QED BY <1>1, <1>2, <1>3, <1>4, <1>5, <1>6, <1>7

\* What a form is that stands alone it is in any surroundings.
LEMMA ContextFree ==
    ASSUME NEW b \in Seq(Byte), Size(b, Len(b)) = Len(b),
           ~(b[1] = 104 /\ b[2] \in Logic16),
           NEW mem, NEW n \in Nat, Len(b) <= n, \A k \in 1..Len(b) : mem[k] = b[k]
    PROVE  /\ Size(mem, n) = Len(b)
           /\ IsJump(mem, n) <=> IsJump(b, Len(b))
           /\ IsJump(b, Len(b)) => Len(b) = 4
<1> DEFINE m == Len(b)
<1>1. m \in {2, 4, 6}
    <2>1. m \in Nat
        OBVIOUS
    <2> QED BY <2>1, SizeFits DEF Failed
<1>2. mem[1] = b[1] /\ mem[2] = b[2]
    BY <1>1
<1>3. CASE m = 2
    <2>1. b[2] \in TwoByteForms(b[1])
        BY <1>3 DEF Size, IsSixByte, IsFourByte, Failed
    <2>2. b[2] \notin FourByteForms(b[1])
        BY <2>1, FormsDiffer
    <2>3. ~IsSixByte(mem, n)
        BY <1>2, <2>1, TwoByteIs, SecondBytesDiffer DEF IsSixByte
    <2>4. ~IsFourByte(mem, n)
        BY <1>2, <2>1, <2>2, TwoByteIs, SecondBytesDiffer DEF IsFourByte
    <2>5. ~IsJump(mem, n)
        BY <1>2, <2>1, TwoByteIs, SecondBytesDiffer DEF IsJump
    <2>6. ~IsJump(b, m)
        BY <1>3 DEF IsJump
    <2> QED BY <1>2, <1>3, <2>1, <2>3, <2>4, <2>5, <2>6 DEF Size
<1>4. CASE m = 4
    <2>1. mem[3] = b[3] /\ mem[4] = b[4]
        BY <1>4
    <2>2. IsFourByte(b, 4) /\ ~(b[1] = 104 /\ b[2] \in Logic16)
        BY <1>4 DEF Size, IsSixByte, Failed
    <2>3. b[2] \in FourByteForms(b[1]) \/ b[1] = 48
        BY <2>2 DEF IsFourByte
    <2>4. ~IsSixByte(mem, n)
        <3>1. b[1] \notin {32, 56, 96, 104} /\ ~(b[1] = 254 /\ b[2] \in SixFE)
            BY <2>3, FourIsNotSix
        <3> QED BY <1>2, <3>1 DEF IsSixByte
    <2>5. IsFourByte(mem, n)
        BY <1>2, <1>4, <2>1, <2>2 DEF IsFourByte
    <2>6. IsJump(mem, n) <=> IsJump(b, m)
        BY <1>2, <1>4 DEF IsJump
    <2> QED BY <1>4, <2>4, <2>5, <2>6 DEF Size
<1>5. CASE m = 6
    <2>1. mem[3] = b[3] /\ mem[4] = b[4]
        BY <1>5
    <2>2. IsSixByte(b, 6)
        BY <1>5 DEF Size, Failed
    <2>3. IsSixByte(mem, n)
        BY <1>2, <1>5, <2>1, <2>2 DEF IsSixByte
    <2>4. b[1] \in {32, 56, 96, 104, 254}
        BY <2>2 DEF IsSixByte
    <2>5. ~IsJump(mem, n) /\ ~IsJump(b, m)
        BY <1>2, <2>4 DEF IsJump
    <2> QED BY <1>5, <2>3, <2>5 DEF Size
<1> QED BY <1>1, <1>3, <1>4, <1>5

\* A line at the start of an instruction is this instruction.
LEMMA LineAtStart ==
    ASSUME program \in Seq(Instruction), code = Bytes(program), code \in Seq(Byte),
           NEW i \in DOMAIN program, StartOf(i) \in Offsets, NEW j \in Junk,
           Ordinary(program[i]), program[i].whole \/ i = Len(program)
    PROVE  LET b == program[i].bytes
           IN  /\ program[i].whole => Line(StartOf(i), j).size = Len(b)
               /\ Line(StartOf(i), j).jump =
                      IF IsJump(b, Len(b))
                      THEN (Addr(StartOf(i)) + Signed16(Word16(b[3], b[4]))) % AddrSpace
                      ELSE NoJump
<1> DEFINE b   == program[i].bytes
           at  == StartOf(i)
           mem == Memory(at, j)
           n   == Left(at)
<1>1. /\ b \in Seq(Byte) /\ at \in Nat /\ at + Len(b) <= Len(code)
      /\ \A k \in 1..Len(b) : code[at + k] = b[k]
      /\ i = Len(program) => at + Len(b) = Len(code)
    BY InstructionAt
<1>2. program[i].whole => Size(b, Len(b)) = Len(b) /\ ~(b[1] = 104 /\ b[2] \in Logic16)
    BY DEF Ordinary
<1>3. /\ Line(at, j).size = (IF Size(mem, n) = Failed THEN 2 ELSE Size(mem, n))
      /\ Line(at, j).jump = (IF IsJump(mem, n) THEN JumpTarget(mem, Addr(at)) ELSE NoJump)
    BY LineFields DEF Decode
<1>4. \A k \in 1..n : mem[k] = code[at + k]
    BY MemoryIsCode
<1>5. n = Len(code) - at
    BY DEF Left
<1>6. at \in Offsets
    OBVIOUS
<1> HIDE DEF b, at, mem, n
<1>7. n \in Nat /\ Len(b) \in Nat /\ Len(b) <= n /\ \A k \in 1..Len(b) : mem[k] = b[k]
    <2>1. Len(code) \in Nat /\ Len(b) \in Nat
        BY <1>1
    <2>2. n \in Nat /\ Len(b) <= n
        BY <1>1, <1>5, <2>1
    <2> QED BY <1>1, <1>4, <2>1, <2>2
<1>8. CASE program[i].whole
    <2>1. /\ Size(mem, n) = Len(b) /\ (IsJump(mem, n) <=> IsJump(b, Len(b)))
          /\ (IsJump(b, Len(b)) => Len(b) = 4)
        BY <1>1, <1>2, <1>7, <1>8, ContextFree
    <2>2. IsJump(b, Len(b)) => mem[3] = b[3] /\ mem[4] = b[4]
        BY <1>7, <2>1
    <2>3. Len(b) # Failed
        BY <1>7 DEF Failed
    <2> QED BY <1>3, <2>1, <2>2, <2>3 DEF JumpTarget, b, at
<1>9. CASE ~program[i].whole
    <2>1. n = Len(b)
        BY <1>1, <1>5, <1>9
    <2>2. IsJump(mem, n) <=> IsJump(b, Len(b))
        BY <1>7, <2>1 DEF IsJump
    <2>3. IsJump(b, Len(b)) => mem[3] = b[3] /\ mem[4] = b[4]
        BY <1>7 DEF IsJump
    <2> QED BY <1>3, <1>9, <2>2, <2>3 DEF JumpTarget, b, at
<1> QED BY <1>8, <1>9

(* The listing goes from start to start, and once it is in a cut           *)
(* instruction it stays behind the start of that.                          *)
ProgramKept == program \in Programs /\ code = Bytes(program)
InTail(at)  == /\ program # <<>> /\ ~program[Len(program)].whole
               /\ at > StartOf(Len(program))
OnPath(at)  == (\E i \in 1..(Len(program) + 1) : at = StartOf(i)) \/ InTail(at)
InStep      == ProgramKept /\ OnPath(cursor) /\ \A e \in listing : OnPath(e.at)

LEMMA BehindTheLast ==
    ASSUME program \in Seq(Instruction), code = Bytes(program)
    PROVE  StartOf(Len(program) + 1) = Len(code)
<1>1. SubSeq(program, 1, Len(program)) = program /\ (Len(program) + 1) - 1 = Len(program)
    OBVIOUS
<1> QED BY <1>1 DEF StartOf

LEMMA NextOnPath ==
    ASSUME IInv, ProgramKept, Orderly(program), OnPath(cursor), cursor \in Offsets,
           NEW j \in Junk
    PROVE  OnPath(cursor + Line(cursor, j).size)
<1>1. program \in Seq(Instruction) /\ code \in Seq(Byte) /\ code = Bytes(program)
      /\ cursor \in Nat
    BY BlockAssumption DEF ProgramKept, IInv
<1>2. Line(cursor, j).size \in {2, 4, 6}
    BY LineEven
<1>3. CASE InTail(cursor)
    <2>1. StartOf(Len(program)) \in Nat
        <3>1. Len(program) \in DOMAIN program
            BY <1>1, <1>3 DEF InTail
        <3> QED BY <1>1, <3>1, InstructionAt
    <2>2. cursor + Line(cursor, j).size > StartOf(Len(program))
        BY <1>1, <1>2, <1>3, <2>1 DEF InTail
    <2> QED BY <1>3, <2>2 DEF InTail, OnPath
<1>4. ASSUME NEW i \in 1..(Len(program) + 1), cursor = StartOf(i)
      PROVE  OnPath(cursor + Line(cursor, j).size)
    <2>1. i \in DOMAIN program
        <3>1. SUFFICES ASSUME i = Len(program) + 1 PROVE FALSE
            BY <1>1
        <3>2. StartOf(i) = Len(code)
            BY <1>1, <3>1, BehindTheLast
        <3> QED BY <1>1, <1>4, <3>2 DEF Offsets
    <2>2. Ordinary(program[i]) /\ (program[i].whole \/ i = Len(program))
        BY <2>1 DEF Orderly
    <2>3. program[i].whole => Line(cursor, j).size = Len(program[i].bytes)
        BY <1>1, <1>4, <2>1, <2>2, LineAtStart
    <2>4. StartOf(i + 1) = StartOf(i) + Len(program[i].bytes) /\ StartOf(i) \in Nat
        BY <1>1, <2>1, InstructionAt
    <2>5. CASE program[i].whole
        <3>1. i + 1 \in 1..(Len(program) + 1)
            BY <1>1, <2>1
        <3> QED BY <1>4, <2>3, <2>4, <2>5, <3>1 DEF OnPath
    <2>6. CASE ~program[i].whole
        <3>1. i = Len(program) /\ program # <<>>
            BY <1>1, <2>1, <2>2, <2>6
        <3>2. cursor + Line(cursor, j).size > StartOf(Len(program))
            BY <1>2, <1>4, <2>4, <3>1
        <3> QED BY <2>6, <3>1, <3>2 DEF OnPath, InTail
    <2> QED BY <2>5, <2>6
<1> QED BY <1>3, <1>4 DEF OnPath

LEMMA StepInStep ==
    ASSUME IInv, InStep, Orderly(program), [Next]_vars
    PROVE  InStep'
<1>1. program' = program /\ code' = code
    BY DEF Next, Disassemble, Analyse, vars
<1>2. ProgramKept'
    BY <1>1 DEF ProgramKept, InStep
<1>3. \A at : OnPath(at)' <=> OnPath(at)
    BY <1>1 DEF OnPath, InTail, StartOf
<1>4. CASE Disassemble
    <2>1. PICK j \in Junk : /\ listing' = listing \cup {Line(cursor, j)}
                            /\ cursor' = cursor + Line(cursor, j).size
        BY <1>4 DEF Disassemble
    <2>2. cursor \in Offsets
        BY <1>4 DEF IInv, Disassemble, Offsets
    <2>3. OnPath(cursor')
        BY <2>1, <2>2, NextOnPath DEF InStep
    <2>4. Line(cursor, j).at = cursor
        BY LineFields
    <2>5. \A e \in listing' : OnPath(e.at)
        BY <2>1, <2>4 DEF InStep
    <2> QED BY <1>2, <1>3, <2>3, <2>5 DEF InStep
<1>5. CASE Analyse \/ UNCHANGED vars
    <2>1. listing' = listing /\ cursor' = cursor
        BY <1>5 DEF Analyse, vars
    <2> QED BY <1>2, <1>3, <2>1 DEF InStep
<1> QED BY <1>4, <1>5 DEF Next

LEMMA InStepInit == Init => InStep
<1> SUFFICES ASSUME Init PROVE InStep
    OBVIOUS
<1>1. program \in Seq(Instruction)
    BY BlockAssumption DEF Init
<1>2. StartOf(1) = 0
    <2>1. 0 \in 0..Len(program)
        BY <1>1
    <2>2. Upto(program, 0) = <<>>
        BY <1>1, <2>1, BytesIsFlat
    <2>3. 1 - 1 = 0 /\ Len(<<>>) = 0
        OBVIOUS
    <2> QED BY <2>2, <2>3 DEF StartOf, Upto
<1>3. 1 \in 1..(Len(program) + 1)
    BY <1>1
<1>4. OnPath(cursor)
    BY <1>2, <1>3 DEF Init, OnPath
<1> QED BY <1>4 DEF Init, InStep, ProgramKept

LEMMA InStepAlways ==
    ASSUME \A p \in Programs : Orderly(p)
    PROVE  Spec => [](IInv /\ InStep /\ Orderly(program))
<1>1. InStep => Orderly(program)
    BY DEF InStep, ProgramKept
<1>2. InStep /\ IInv /\ [Next]_vars => InStep'
    BY <1>1, StepInStep
<1> QED BY <1>1, <1>2, InStepInit, IInvAlways, PTL DEF Spec

(* The listing never gets out of step with the program it lists: every     *)
(* line begins where an instruction begins, for every program whose        *)
(* instructions decode when they stand alone.                              *)
THEOREM ListingInStepHolds ==
    ASSUME \A p \in Programs : Orderly(p)
    PROVE  Spec => []ListingInStep
<1>1. IInv /\ InStep /\ Orderly(program) => ListingInStep
    <2> SUFFICES ASSUME IInv, InStep, NEW e \in listing, e.at \notin Starts
                 PROVE  ~program[Len(program)].whole /\ e.at > StartOf(Len(program))
        BY DEF ListingInStep
    <2>1. program \in Seq(Instruction) /\ code = Bytes(program) /\ code \in Seq(Byte)
        BY BlockAssumption DEF InStep, ProgramKept, IInv
    <2>2. e.at \in Offsets
        BY DEF IInv, LinesDecoded
    <2>3. CASE InTail(e.at)
        BY <2>3 DEF InTail
    <2>4. ASSUME NEW i \in 1..(Len(program) + 1), e.at = StartOf(i)
          PROVE  FALSE
        <3>1. i \notin DOMAIN program
            BY <2>4 DEF Starts
        <3>2. i = Len(program) + 1
            BY <2>1, <3>1
        <3>3. StartOf(i) = Len(code)
            BY <2>1, <3>2, BehindTheLast
        <3> QED BY <2>1, <2>2, <2>4, <3>3 DEF Offsets
    <2> QED BY <2>3, <2>4 DEF InStep, OnPath
<1> QED BY <1>1, InStepAlways, PTL

(* Every jump of the listing goes where its displacement says, and no      *)
(* other instruction jumps, for every such program and address space.      *)
THEOREM TargetsExactHolds ==
    ASSUME \A p \in Programs : Orderly(p)
    PROVE  Spec => []TargetsExact
<1>1. IInv /\ InStep /\ Orderly(program) => TargetsExact
    <2> SUFFICES ASSUME IInv, InStep, Orderly(program),
                        NEW e \in listing, NEW i \in DOMAIN program, e.at = StartOf(i)
                 PROVE  {e.jump} \ {NoJump} =
                          {(Addr(e.at) + d) % AddrSpace : d \in program[i].to} \ {NoJump}
        BY DEF TargetsExact
    <2>1. program \in Seq(Instruction) /\ code = Bytes(program) /\ code \in Seq(Byte)
        BY BlockAssumption DEF InStep, ProgramKept, IInv
    <2>2. PICK j \in Junk : e = Line(e.at, j)
        BY DEF IInv, LinesDecoded
    <2>3. e.at \in Offsets
        BY DEF IInv, LinesDecoded
    <2>4. Ordinary(program[i]) /\ (program[i].whole \/ i = Len(program))
        BY DEF Orderly
    <2> DEFINE b == program[i].bytes
               v == Signed16(Word16(b[3], b[4]))
    <2>5. e.jump = IF IsJump(b, Len(b)) THEN (Addr(e.at) + v) % AddrSpace ELSE NoJump
        BY <2>1, <2>2, <2>3, <2>4, LineAtStart
    <2>6. program[i].to = IF IsJump(b, Len(b)) THEN {v} ELSE {}
        BY <2>4 DEF Ordinary
    <2> HIDE DEF b, v
    <2>7. CASE IsJump(b, Len(b))
        BY <2>5, <2>6, <2>7
    <2>8. CASE ~IsJump(b, Len(b))
        BY <2>5, <2>6, <2>8
    <2> QED BY <2>7, <2>8
<1> QED BY <1>1, InStepAlways, PTL
=============================================================================
