---------------------------- MODULE ClassicBlock ----------------------------
(***************************************************************************)
(* A block of classic MC7 in rizin.  The disassembler plugin is called for *)
(* one address after the other, each time with all the bytes that are left *)
(* of the block.  The analysis plugin is called for the addresses that the *)
(* control flow reaches, in any order, with a buffer of rizin's choosing.  *)
(* They keep nothing of their own: listing and ops are what rizin has      *)
(* after their calls.  The instructions the block consists of are known to *)
(* the properties only.                                                    *)
(***************************************************************************)
EXTENDS ClassicDecoder, SequencesExt

CONSTANTS
    Programs,    \* sequences of instructions: [bytes, to, whole], to the displacement of
                 \* a jump, whole when no byte of it is missing
    Base,        \* the address of the block
    Windows,     \* lengths of the buffers rizin passes to the analysis
    Junk         \* bytes that may lie behind the block

Instruction == [bytes : Seq(Byte), to : SUBSET Int, whole : BOOLEAN]

ASSUME BlockAssumption ==
    /\ Programs \subseteq Seq(Instruction)
    /\ Base \in 0..(AddrSpace - 1)
    /\ Junk \subseteq Byte /\ Junk # {}
    /\ Windows \subseteq Nat

Bytes(instructions) == FlattenSeq([i \in DOMAIN instructions |-> instructions[i].bytes])

ASSUME BytesAssumption == \A p \in Programs : Bytes(p) \in Seq(Byte)

\* archinfo_mc7: RZ_ANALYSIS_ARCHINFO_MAX_OP_SIZE
MaxOpSize == 6

\* External: rizin never passes less than the largest instruction, but at the end.
ASSUME WindowsAssumption == \A k \in Windows : k >= MaxOpSize

VARIABLES
    program,     \* the instructions of the block
    code,        \* their bytes
    cursor,      \* how far the listing is
    listing,     \* the lines of the listing: [at, size, valid, jump]
    ops,         \* the RzAnalysisOps: [at, size, jump, fail, eob]
    todo         \* offsets the analysis still has to look at

vars == <<program, code, cursor, listing, ops, todo>>
----------------------------------------------------------------------------
Addr(at) == (Base + at) % AddrSpace
Left(at) == Len(code) - at
Offsets == 0..(Len(code) - 1)

\* External: the buffer of the analysis ends with the block.
Buffer(k, at) == IF k < Left(at) THEN k ELSE Left(at)

\* What lies in memory from an offset on; the first byte behind the block may be read.
Memory(at, junk) == SubSeq(code, at + 1, Len(code)) \o <<junk, junk, junk>>

\* Mutant: the length of a line is whatever the decoder returns.
LineAsDecoded(at, junk) ==
    LET d == Decode(Memory(at, junk), Left(at), Addr(at))
    IN  [at    |-> at,
         size  |-> d.size,
         valid |-> d.size # Failed,
         jump  |-> d.jump]

\* disassemble_mc7: what does not decode is two bytes "invalid".
Line(at, junk) ==
    LET d == Decode(Memory(at, junk), Left(at), Addr(at))
    IN  [at    |-> at,
         size  |-> IF d.size = Failed THEN 2 ELSE d.size,
         valid |-> d.size # Failed,
         jump  |-> d.jump]

Disassemble ==
    /\ cursor < Len(code)
    /\ \E junk \in Junk :
           /\ listing' = listing \cup {Line(cursor, junk)}
           /\ cursor' = cursor + Line(cursor, junk).size
    /\ UNCHANGED <<program, code, ops, todo>>
----------------------------------------------------------------------------
\* Mutant: what does not decode is skipped like in the listing.
OpSkipping(at, n, junk) ==
    LET d == Decode(Memory(at, junk), n, Addr(at))
        size == IF d.size = Failed THEN 2 ELSE d.size
    IN  [at   |-> at, size |-> size, jump |-> d.jump,
         fail |-> IF d.jump = NoJump THEN NoJump ELSE (Addr(at) + size) % AddrSpace,
         eob  |-> d.is_return]

\* Mutant: a jump does not go on behind itself.
OpWithoutFail(at, n, junk) ==
    LET d == Decode(Memory(at, junk), n, Addr(at))
        size == IF d.size = Failed THEN 0 ELSE d.size
    IN  [at   |-> at, size |-> size, jump |-> d.jump,
         fail |-> NoJump, eob  |-> d.is_return]

(* analysis_op_mc7: every jump is a CJMP; an op that does not decode is    *)
(* left as rizin made it, with size 0.                                     *)
Op(at, n, junk) ==
    LET d == Decode(Memory(at, junk), n, Addr(at))
        size == IF d.size = Failed THEN 0 ELSE d.size
    IN  [at   |-> at,
         size |-> size,
         jump |-> d.jump,
         fail |-> IF d.jump = NoJump THEN NoJump ELSE (Addr(at) + size) % AddrSpace,
         eob  |-> d.is_return]

(* External: rizin goes on at the jump and at the fail address of a jump,  *)
(* and behind an instruction that is none, unless it ends the block.       *)
Successors(op) ==
    LET next == IF op.size = 0 \/ op.eob THEN {}
                ELSE IF op.jump # NoJump THEN {op.fail} \ {NoJump}
                ELSE {Addr(op.at + op.size)}
    IN  {o \in Offsets : Addr(o) \in next \cup ({op.jump} \ {NoJump})}

\* Mutant: an address is queued again after it was looked at.
AnalyseAgain ==
    \E at \in todo, k \in Windows, junk \in Junk :
        \E op \in {Op(at, Buffer(k, at), junk)} :
            /\ ops' = ops \cup {op}
            /\ todo' = (todo \ {at}) \cup Successors(op)
            /\ UNCHANGED <<program, code, cursor, listing>>

Analyse ==
    \E at \in todo, k \in Windows, junk \in Junk :
        \E op \in {Op(at, Buffer(k, at), junk)} :
            /\ ops' = ops \cup {op}
            /\ todo' = (todo \cup Successors(op)) \ {o.at : o \in ops'}
            /\ UNCHANGED <<program, code, cursor, listing>>
----------------------------------------------------------------------------
Init ==
    /\ program \in Programs
    /\ code = Bytes(program)
    /\ cursor = 0 /\ listing = {}
    /\ ops = {} /\ todo = {0} \cap Offsets

Next == Disassemble \/ Analyse

\* rizin prints the block to its end and looks at every address it has queued.
Fairness == WF_vars(Disassemble) /\ WF_vars(Analyse)

Spec == Init /\ [][Next]_vars /\ Fairness
----------------------------------------------------------------------------
(* Properties.                                                             *)

\* Type invariant: the variables keep their types.
TypeOK ==
    /\ program \in Seq(Instruction)
    /\ code \in Seq(Byte)
    /\ cursor \in Nat
    /\ listing \subseteq [at : Offsets, size : {2, 4, 6}, valid : BOOLEAN,
                          jump : 0..(AddrSpace - 1)]
    /\ ops \subseteq [at : Offsets, size : {0, 2, 4, 6}, jump : 0..(AddrSpace - 1),
                      fail : 0..(AddrSpace - 1), eob : BOOLEAN]
    /\ todo \subseteq Offsets

\* A 16-bit constant of which the block has three bytes: the fourth is what lies behind.
CutConstant(at) == Left(at) = 3 /\ code[at + 1] = 48

(* Listing and analysis agree on every instruction, whatever buffer the    *)
(* analysis was given: it has the same length and jumps to the same        *)
(* address, and what does not decode decodes in neither.                   *)
AnalysisAgrees ==
    \A e \in listing, o \in ops :
        e.at = o.at /\ ~CutConstant(e.at) =>
            o.size = (IF e.valid THEN e.size ELSE 0) /\ o.jump = e.jump

(* No instruction goes beyond the end of the block, but for a constant of  *)
(* which a byte is missing: the decoder reads and counts the byte behind.  *)
WithinBlock ==
    \A e \in listing :
        e.valid => e.at + e.size <= Len(code) \/ CutConstant(e.at)

(* The programs of which the listing should be that of their instructions: *)
(* each decodes to its own length when it stands alone, has the            *)
(* displacement of its last two bytes and is none of the word operations,  *)
(* which decode at the end of a buffer only; the last may be cut off.      *)
Ordinary(instruction) ==
    LET b == instruction.bytes
    IN  /\ instruction.whole => /\ Size(b, Len(b)) = Len(b)
                                /\ ~(b[1] = 104 /\ b[2] \in Logic16)
        /\ instruction.to = IF IsJump(b, Len(b)) THEN {Signed16(Word16(b[3], b[4]))} ELSE {}

Orderly(p) == \A i \in DOMAIN p : Ordinary(p[i]) /\ (p[i].whole \/ i = Len(p))

StartOf(i) == Len(Bytes(SubSeq(program, 1, i - 1)))
Starts == {StartOf(i) : i \in DOMAIN program}

(* The listing is in step with the program: each line begins where one of  *)
(* the instructions begins that the block consists of.  A cut one at its   *)
(* end may be printed as several.                                          *)
ListingInStep ==
    \A e \in listing :
        \/ e.at \in Starts
        \/ ~program[Len(program)].whole /\ e.at > StartOf(Len(program))

(* A jump goes to the address its displacement gives, forwards, backwards  *)
(* and across the end of the address space, and nothing else is a jump; a  *)
(* target equal to S7_INVALID_JUMP is lost.                                *)
TargetsExact ==
    \A e \in listing, i \in DOMAIN program :
        e.valid /\ e.at = StartOf(i) =>
            {e.jump} \ {NoJump} = {(Addr(e.at) + d) % AddrSpace : d \in program[i].to} \ {NoJump}

\* The listing up to the first line that returns or does not decode.
Prefix ==
    LET ends == {e.at : e \in {e \in listing : ~e.valid \/ code[e.at + 1] \in ReturnOps}}
    IN  {e \in listing : \A at \in ends : e.at <= at}

(* The analysis misses nothing: when it is done it has looked at every     *)
(* line of the listing up to the first return, and at the target of every  *)
(* jump among them that lies in the block.                                 *)
NothingMissed ==
    todo = {} /\ cursor >= Len(code) =>
        \A e \in Prefix :
            /\ \E o \in ops : o.at = e.at
            /\ \A t \in Offsets :
                   e.jump # NoJump /\ Addr(t) = e.jump /\ ~CutConstant(e.at)
                       => \E o \in ops : o.at = t

(* Listing and analysis come to an end, also in a block that jumps in      *)
(* circles: every call consumes bytes or an address.                       *)
Finishes == <>[](cursor >= Len(code) /\ todo = {})
=============================================================================
