------------------------------ MODULE Words64 ------------------------------
(***************************************************************************)
(* Unsigned 64-bit words, as the decoder, the assembler and the plugin     *)
(* manipulate them.  A word is the SET OF ITS 1-BITS, a subset of 0..63:   *)
(* shifting renames the members (and drops those that leave the word),     *)
(* `|' is union, `&' with a mask is intersection, and a C cast to a        *)
(* narrower type keeps the low members.  So no operation can silently use  *)
(* more width than the C type has, and TLC never meets a 64-bit integer.   *)
(***************************************************************************)
EXTENDS Integers, Sequences, FiniteSetsExt

Bits64 == 0..63
Word   == SUBSET Bits64
Byte   == 0..255

\* U64_MAX, the value of an immediate with header 3.
AllOnes == Bits64

\* The 1-bits of a small natural number (a byte, an enumerator, a tiny value).
BitsOf(n) == {b \in 0..30 : (n \div 2^b) % 2 = 1}

ShiftLeft(w, k)  == {b + k : b \in w} \cap Bits64
ShiftRight(w, k) == {b - k : b \in {c \in w : c >= k}}

\* The low n bits of a word: `w & ((1 << n) - 1)'.
LowBits(w, n) == {b \in w : b < n}

\* rd_be: the big-endian value of at most 8 payload bytes.
BigEndian(bytes) ==
    UNION {ShiftLeft(BitsOf(bytes[i]), 8 * (Len(bytes) - i)) : i \in DOMAIN bytes}

\* `v |= U64_MAX << k': the sign extension of a negative payload of k bits.
SignExtend(w, k) == w \cup {b \in Bits64 : b >= k}

\* The (int) cast keeps 32 bits; bit 31 is the sign.
IntIsNegative(w) == 31 \in w

\* The (unsigned long long) cast of an int.
Widened(w) == IF IntIsNegative(w) THEN SignExtend(w, 32) ELSE w

\* The number bits k..k+7 of a word stand for, and the one of bits 0..30.
ByteAt(w, k) ==
    LET bit(i) == IF k + i \in w THEN 2^i ELSE 0
    IN  bit(0) + bit(1) + bit(2) + bit(3) + bit(4) + bit(5) + bit(6) + bit(7)

IntValue(w) == ByteAt(w, 0) + 256 * ByteAt(w, 8) + 65536 * ByteAt(w, 16)
               + 16777216 * ByteAt(w \ {31}, 24)
=============================================================================
