--------------------------- MODULE MCClassicBlock ---------------------------
(***************************************************************************)
(* Instances of ClassicBlock: programs of one or two instructions, with    *)
(* the cut beginning of another one behind them.  The instructions are     *)
(* those of unit/test_simatic.c, at least one of each routine.             *)
(***************************************************************************)
EXTENDS ClassicBlock

Plain(bytes) == [bytes |-> bytes, to |-> {}, whole |-> TRUE]
Jump(op, form, d) ==
    [bytes |-> <<op, form, (d % 65536) \div 256, d % 256>>, to |-> {d}, whole |-> TRUE]

TwoByte == {
    <<0, 0>>, <<2, 18>>, <<16, 24>>, <<32, 18>>, <<33, 128>>, <<41, 15>>, <<88, 0, 18, 52>>,
    <<96, 15>>, <<100, 32>>, <<101, 1>>, <<104, 45>>, <<104, 241>>, <<112, 2>>, <<128, 18>>,
    <<192, 144>>, <<251, 124>>, <<254, 194>>, <<255, 255>>}
FourByte == {
    <<5, 16, 18, 52>>, <<9, 144, 18, 52>>, <<48, 8, 9, 153>>, <<48, 12, 57, 153>>,
    <<81, 49, 18, 52>>, <<89, 185, 18, 52>>, <<121, 16, 18, 52>>, <<126, 66, 18, 52>>,
    <<186, 177, 18, 52>>, <<190, 33, 18, 52>>, <<191, 48, 18, 52>>, <<251, 208, 18, 52>>,
    <<254, 51, 18, 52>>}
SixByte == {
    <<32, 10, 254, 55, 18, 52>>, <<56, 4, 132, 0, 145, 160>>, <<96, 5, 18, 52, 86, 120>>,
    <<104, 54, 18, 52, 86, 120>>, <<254, 3, 132, 0, 145, 160>>}
JumpTo == {Jump(112, 11, d) : d \in {-4, 0, 4, 8}} \cup {Jump(255, 248, d) : d \in {-4, 5, 6}}
          \cup {Jump(112, 8, -32768)}
Word == {Plain(<<104, 52, 18, 52>>)}     \* AW W#16#1234

Cut == {<<0>>, <<0, 16, 18>>, <<48, 12>>, <<48, 12, 57>>, <<254, 3, 132, 0, 145>>}

Instructions == {Plain(b) : b \in TwoByte \cup FourByte \cup SixByte} \cup JumpTo
CutInstructions == {[Plain(b) EXCEPT !.whole = FALSE] : b \in Cut}

MCPrograms ==
    {<<a>> : a \in Instructions} \cup {<<a, b>> : a, b \in Instructions}
    \cup {<<a, c>> : a \in Instructions, c \in CutInstructions}
    \cup {<<a, b, c>> : a, b \in JumpTo \cup {Plain(<<101, 1>>)},
                         c \in {Plain(<<5, 16, 18, 52>>), Jump(112, 9, -4)}}

MCWordPrograms ==
    {<<a>> : a \in Word} \cup {<<a, b>> : a \in Word, b \in Instructions}
    \cup {<<b, a>> : a \in Word, b \in Instructions}
=============================================================================
