------------------------- MODULE MCStatementDecoder -------------------------
(* Model-checking instances of StatementDecoder over rows of the real      *)
(* operator table.                                                         *)
EXTENDS StatementDecoder, MCIsa, SequencesExt

\* Every blob of up to four bytes over opcodes and operand headers that
\* collide: \h00 is NOP and the immediate 0, \h20 LD_BOOL and the header of a
\* one-byte integer, \h6E a negated JMP and a memory header, \h90 the second
\* byte of JMP_BOOL and a memory header, \h30 a trimmed real.
ByteCodes == SeqOf({0, 32, 48, 104, 110, 144, 248}, 4)

\* Jump lists and multiplexers: a type, a selector, a length that is tiny, all
\* ones, an integer or no immediate at all, and up to three targets.
LenOperands == {<<0>>, <<1>>, <<2>>, <<3>>, <<32, 2>>, <<36, 1, 0, 0, 0, 1>>,
            <<35, 128, 0, 0, 0>>, <<64, 4>>}
Targets == SeqOf({0, 104}, 3)
MultiCodes ==
    {<<223>> \o t \o <<0>> \o n \o s :
        t \in {<<0>>, <<63>>}, n \in LenOperands, s \in Targets}
    \cup {<<249, b, 1, 0, 1, 64, 4>> \o n \o s :
            b \in {96, 99}, n \in LenOperands, s \in Targets}

\* Coded types, conditions, blocks and returns.
ParamCodes ==
    {<<a, 7>> \o s : a \in 240..248, s \in SeqOf({0, 66, 224, 5, 161}, 3)}
    \cup {<<221>> \o s : s \in SeqOf({0, 8, 31, 32}, 2)}
    \cup {<<248, b, x, t>> \o s : b \in {80, 81}, x \in {0, 9}, t \in {1, 28},
            s \in SeqOf({2, 68, 232}, 2)}
    \cup {<<248, 88>> \o s : s \in SeqOf({0, 1}, 3)}
    \cup {<<a, 1, 108>> \o s : a \in 20..23, s \in SeqOf({0, 2}, 2)}

StreamCodes == ByteCodes \cup ParamCodes

\* Rows that overlap, as those of a regenerated table may, added to the real
\* ones: the longest match wins, then flags, then the lowest number.
OverlapCond    == Op("other", <<16>>, <<FlagParam(Flag.Cond, 0, 0)>>)
OverlapCondENO == Op("other", <<16>>, <<FlagParam(Flag.Cond, 0, 0), FlagParam(Flag.ENO, 0, 1)>>)
OverlapIdent   == Op("other", <<16>>, <<FlagParam(Flag.ENO, 0, 1), Ident(OT.UDInt, Mode.Id)>>)
OverlapLonger  == Op("other", <<16, 0>>, <<>>)

MixedRows ==
    [n \in DOMAIN IsaRows \cup 301..304 |->
        CASE n = 301 -> OverlapCond  [] n = 302 -> OverlapCondENO
          [] n = 303 -> OverlapIdent [] n = 304 -> OverlapLonger
          [] OTHER -> IsaRows[n]]
MixedCodes == MultiCodes \cup SeqOf({0, 16, 17, 19, 32}, 3)
=============================================================================
