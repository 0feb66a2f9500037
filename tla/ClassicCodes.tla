---------------------------- MODULE ClassicCodes ----------------------------
(***************************************************************************)
(* The instruction codes of classic MC7, the bytecode of the S7-300 and    *)
(* S7-400.  An instruction is two, four or six bytes long; its first byte  *)
(* is the operation and its second says which form of it this is.  The     *)
(* definitions give, for the operations of one routine of simatic.c, the   *)
(* second bytes of each form.  The text that the routines print, and the   *)
(* operands that only go into it, are left out.                            *)
(***************************************************************************)
EXTENDS Integers

Byte == 0..255

\* The bytes with the high nibble h and a low nibble of los.
At(h, los) == {16 * h + lo : lo \in los}

\* Low nibbles that several rows of the tables have in common.
ButSeven == 0..15 \ {7}
Parameter == {0, 1, 2, 3, 4, 5, 6, 8, 9, 10, 11, 13, 15}
----------------------------------------------------------------------------
(* Operations whose second byte is an operand, whatever it is.             *)

LowByteOps == At(0, {2, 4, 10, 11, 12}) \cup At(1, {0, 1, 2, 3, 4, 9, 10, 11, 12, 13})
              \cup At(2, {4, 8, 12}) \cup At(3, {4, 12, 13})
CounterByteOps == At(4, {2, 4, 10, 11, 12}) \cup At(5, {2, 3, 4, 5, 10, 11, 12})
CallByteOps == {108, 116, 117, 124}
MemoryBitOps == 128..183
InputOutputOps == 184..185 \cup 188..189 \cup 192..247 \cup 248..249 \cup 252..253
----------------------------------------------------------------------------
(* Operations on a bit: the second byte is an area and a bit.              *)

BitAreas == 16..103             \* INSTR_IS_BITLOGIC
BitAreasN == 144..231           \* INSTR_IS_BITLOGIC_N
BitOps == {0, 1, 5, 9, 73}
BitLogicForms(op) ==
    IF op \in BitOps THEN BitAreas \cup BitAreasN
    ELSE IF op = 65 THEN BitAreas ELSE {}

MemoryBits == {b \in 49..110 : b % 8 \notin {0, 7}}     \* INSTR_IS_BITLOGIC_MEM
MemoryBitsN == {b \in 177..238 : b % 8 \notin {0, 7}}   \* INSTR_IS_BITLOGIC_MEM_N

\* s7_decode_bitlogic_mem: "+" takes a constant, and "=" has no negated form.
BitLogicMemForms(op) ==
    CASE op = 81 -> MemoryBits \cup MemoryBitsN
      [] op = 88 -> {0} \cup MemoryBits \cup MemoryBitsN
      [] op = 89 -> MemoryBits \cup {b \in MemoryBitsN : b % 16 >= 9}
      [] OTHER -> {}

\* s7_decode_79: the same on an area addressed by AR1 or AR2.
RegisterBits == {b \in 16..109 : b % 8 \in 0..5}
                \cup {b \in 144..237 : b % 8 \in {0, 1, 2, 4, 5}}
----------------------------------------------------------------------------
(* Loads and transfers, and the calls and blocks of BE.                    *)

Loads7E == {b \in 1..103 : b % 8 \notin {0, 4}}
LoadsMem == 48..110 \cup 176..238
LoadsBA == 48..102 \cup 176..230
LoadsBE == {b \in 17..111 : b % 16 \notin {0, 4, 8, 12}}
----------------------------------------------------------------------------
(* Constants.                                                              *)

Compares == {32, 64, 96, 128, 160, 192}

\* s7_decode_lit16: a counter value is below 1000, a time has a valid base.
Literal16(b, value) ==
    \/ b \in {2, 3, 5, 6, 7, 10}
    \/ b = 8 /\ value < 4096
    \/ b = 12 /\ value <= 14745

\* s7_memory_loc
PointerAreas == {0} \cup 128..135

\* s7_decode_lit32: a pointer has an area, and a bit address below 8.
Literal32(b, hi, lo) ==
    \/ b \in {1, 2, 3, 5, 6, 7, 9, 11}
    \/ b = 4 /\ hi \in PointerAreas /\ lo < 8

Logic16 == {52, 68, 84}         \* AW, OW, XOW
Logic32 == {54, 70, 86}         \* AD, OD, XOD
----------------------------------------------------------------------------
(* Operations that are spelled by both bytes.                              *)

Arithmetic == {0, 1, 2, 3, 4, 6, 7, 8, 9, 10, 11, 13, 14, 15}
              \cup At(1, {0, 1, 2, 3, 4, 8, 9, 10, 11, 12})

SignShifts == {b \in Byte : b % 16 = 1}
Accumulator ==
    At(0, {6, 7, 8, 10, 12, 13, 14}) \cup At(1, {2, 3, 7, 8, 10, 11, 12, 13, 14})
    \cup At(2, {2, 3, 4, 5, 7, 8, 12, 13, 14}) \cup At(3, {7, 10, 11, 12, 13, 14})
    \cup At(4, {7, 14}) \cup At(5, {7, 12, 13, 14, 15})

StatusWord == {2, 6, 7}
Jumps70 == {8, 9, 11}
----------------------------------------------------------------------------
(* The operations BF, FB, FE and FF.                                       *)

TimersBF == (UNION {At(h, ButSeven) : h \in {3, 4, 6}})
            \cup At(5, {0, 1, 2, 3, 4, 5, 8, 12, 13, 14, 15})
ParametersBF == UNION {At(h, Parameter) : h \in 11..14}

TwoFB == {0, 60, 61, 76, 77, 124}
RegistersFB == At(0, {1, 2, 3, 5, 6, 7, 9, 11, 12, 13, 14, 15})
               \cup At(1, {0, 1, 2, 3, 4, 5, 8, 9, 10, 11, 12, 13})
               \cup At(2, {0, 1, 2, 4, 5, 8, 9, 10, 12, 13})
BlocksFB == (UNION {At(h, {0, 1, 2, 3, 8, 9}) : h \in 3..6})
            \cup At(7, {0, 1, 2, 3, 4, 6, 8, 9})
TimersFB == At(8, 0..5) \cup At(9, {0, 1, 2, 4, 5}) \cup At(10, ButSeven)
            \cup At(11, Parameter) \cup At(12, {1, 2, 3, 5, 6, 7})
ParametersFB == At(13, {0, 2, 8}) \cup At(14, ButSeven)
                \cup At(15, Parameter)

TwoFE == 192..207 \cup {1, 4, 5, 6, 8, 9, 12, 13, 14}
Pointers == UNION {At(h, {3, 7, 11, 15}) : h \in 3..6}
FourFE == {2, 10} \cup Pointers
SixFE == {3, 11}

StatusFF == (UNION {At(h, 0..5) : h \in {0, 1, 2, 4, 5, 6, 8, 10, 12, 14}})
            \cup At(15, {1, 3, 4, 5, 15})
JumpsFF == {16 * h + 8 : h \in 0..15 \ {3}}

\* s7_decode_200A: a bit of a data block, or one with an address register.
Registers200A(hi, lo) ==
    \/ hi = 5 /\ lo \in At(12, 0..15)
    \/ hi = 254 /\ lo \in Pointers
=============================================================================
