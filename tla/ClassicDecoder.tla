--------------------------- MODULE ClassicDecoder ---------------------------
(***************************************************************************)
(* simatic_s7_decode_instruction: the length of one instruction of classic *)
(* MC7, the address it jumps to and whether it returns.  mem is what lies  *)
(* in memory from the instruction on and n the number of its bytes the     *)
(* caller says there are.  The decoder reads a byte more than that in one  *)
(* place, so mem may be longer than n.                                     *)
(***************************************************************************)
EXTENDS ClassicCodes, Sequences

CONSTANT AddrSpace      \* addresses are counted modulo this; 2^64 in the code

ASSUME AddrSpaceAssumption == AddrSpace \in Nat \ {0}

NoJump == AddrSpace - 1         \* S7_INVALID_JUMP
Failed == -1

Word16(hi, lo) == 256 * hi + lo                 \* s7_ut16

\* Mutant: displacements are not negative.
Unsigned16(v) == v

Signed16(v) == IF v >= 32768 THEN v - 65536 ELSE v
----------------------------------------------------------------------------
\* s7_decode_cmp, s7_decode_4bit, s7_decode_static and what is always two bytes long.
TwoByteForms(op) ==
    CASE op \in LowByteOps \cup CounterByteOps \cup CallByteOps
                \cup MemoryBitOps \cup InputOutputOps -> Byte
      [] op = 32 -> Byte \ {10}
      [] op \in BitOps \cup {65, 81, 89, 121, 186, 187, 191} -> {0}
      [] op \in {33, 49, 57} -> Compares
      [] op \in {41, 97, 105, 113} -> 0..15
      [] op = 96 -> Arithmetic
      [] op = 100 -> 0..32
      [] op = 101 -> {0, 1}
      [] op = 104 -> SignShifts \cup Accumulator
      [] op = 112 -> StatusWord
      [] op = 251 -> TwoFB
      [] op = 254 -> TwoFE
      [] op = 255 -> StatusFF
      [] OTHER -> {}

\* Forms with a 16-bit operand that need its bytes to be there.
FourByteForms(op) ==
    BitLogicForms(op) \cup BitLogicMemForms(op) \cup
    CASE op = 112 -> Jumps70
      [] op = 121 -> RegisterBits
      [] op = 126 -> Loads7E
      [] op = 186 -> LoadsBA
      [] op = 187 -> LoadsMem
      [] op = 190 -> LoadsBE
      [] op = 191 -> TimersBF \cup ParametersBF
      [] op = 251 -> RegistersFB \cup BlocksFB \cup TimersFB \cup ParametersFB
      [] op = 254 -> FourFE
      [] op = 255 -> JumpsFF
      [] OTHER -> {}

\* Mutant: the size without the operation is compared with the whole instruction's.
IsFourByteCounted(mem, n) ==
    \/ n >= 3 /\ mem[2] \in FourByteForms(mem[1])
    \/ n >= 3 /\ mem[1] = 48 /\ Literal16(mem[2], Word16(mem[3], mem[4]))
    \/ n \in 4..5 /\ mem[1] = 104 /\ mem[2] \in Logic16

(* A 16-bit constant is read when two bytes of its three are there, and    *)
(* the word operations are tried only when fewer than six bytes are left.  *)
IsFourByte(mem, n) ==
    \/ n >= 4 /\ mem[2] \in FourByteForms(mem[1])
    \/ n >= 3 /\ mem[1] = 48 /\ Literal16(mem[2], Word16(mem[3], mem[4]))
    \/ n \in 4..5 /\ mem[1] = 104 /\ mem[2] \in Logic16

\* Mutant: a byte more is asked for than the instruction has.
IsSixByteAndMore(mem, n) ==
    /\ n > 6
    /\ \/ mem[1] = 32 /\ mem[2] = 10 /\ Registers200A(mem[3], mem[4])
       \/ mem[1] = 56 /\ Literal32(mem[2], mem[3], mem[4])
       \/ mem[1] = 96 /\ mem[2] = 5
       \/ mem[1] = 104 /\ mem[2] \in Logic32
       \/ mem[1] = 254 /\ mem[2] \in SixFE

IsSixByte(mem, n) ==
    /\ n >= 6
    /\ \/ mem[1] = 32 /\ mem[2] = 10 /\ Registers200A(mem[3], mem[4])
       \/ mem[1] = 56 /\ Literal32(mem[2], mem[3], mem[4])
       \/ mem[1] = 96 /\ mem[2] = 5
       \/ mem[1] = 104 /\ mem[2] \in Logic32
       \/ mem[1] = 254 /\ mem[2] \in SixFE

Size(mem, n) ==
    IF n < 2 THEN Failed
    ELSE IF IsSixByte(mem, n) THEN 6
    ELSE IF IsFourByte(mem, n) THEN 4
    ELSE IF mem[2] \in TwoByteForms(mem[1]) THEN 2 ELSE Failed

\* s7_decode_jump and s7_decode_FF
IsJump(mem, n) ==
    /\ n >= 4
    /\ \/ mem[1] = 112 /\ mem[2] \in Jumps70
       \/ mem[1] = 255 /\ mem[2] \in JumpsFF

JumpTarget(mem, addr) == (addr + Signed16(Word16(mem[3], mem[4]))) % AddrSpace

\* BEC and every X and XN, BLD, BE and BEU.
ReturnOps == {5, 16, 101}

Decode(mem, n, addr) ==
    [size      |-> Size(mem, n),
     jump      |-> IF IsJump(mem, n) THEN JumpTarget(mem, addr) ELSE NoJump,
     is_return |-> Size(mem, n) > 0 /\ mem[1] \in ReturnOps]
=============================================================================
