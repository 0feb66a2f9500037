------------------------------- MODULE MCIsa -------------------------------
(***************************************************************************)
(* Rows of the generated operator table (mc7p_ops, mc7p_params,            *)
(* mc7p_type_codings in mc7plus_isa.c) for the model-checking instances:   *)
(* every parameter kind, the flow operators, one- and two-byte codes, a    *)
(* code byte shared by several operators, a coded type and both repeating  *)
(* operators JL and MUX.                                                   *)
(***************************************************************************)
EXTENDS IsaCodes

NoParam == [kind |-> "type", byte |-> 0, bit |-> 0, flag |-> 0, pairs |-> <<>>,
            ref |-> FALSE, predef |-> 0, mode |-> 0]

TypeParam == NoParam
CondParam == [NoParam EXCEPT !.kind = "cond"]
FlagParam(flag, byte, bit) ==
    [NoParam EXCEPT !.kind = "flag", !.flag = flag, !.byte = byte, !.bit = bit]
CodingParam(byte, bit, pairs) ==
    [NoParam EXCEPT !.kind = "coding", !.byte = byte, !.bit = bit,
                    !.pairs = pairs]
Ident(predef, mode) ==
    [NoParam EXCEPT !.kind = "ident", !.predef = predef, !.mode = mode]
RefIdent(mode) == [Ident(OT.Undef, mode) EXCEPT !.ref = TRUE]

Op(class, code, params) ==
    [class |-> class, code |-> code, params |-> params, multi |-> FALSE]
MultiOp(class, code, params) ==
    [Op(class, code, params) EXCEPT !.multi = TRUE]

NOP      == Op("other", <<0>>, <<>>)
LD_BOOL  == Op("other", <<32>>, <<Ident(OT.Bool, Mode.Src)>>)
ST_BLOCK == Op("other", <<248, 80>>,
               <<FlagParam(Flag.NoInt, 1, 0), Ident(OT.Bool, Mode.Array),
                 TypeParam, RefIdent(Mode.Src)>>)
MOVE ==
    Op("MOVE", <<224>>,
       <<FlagParam(Flag.Cond, 0, 0), FlagParam(Flag.ENO, 0, 1), TypeParam,
         RefIdent(Mode.Dest), RefIdent(Mode.Src)>>)
MOVE_N_BOOL ==
    Op("MOVE", <<240, 7>>,
       <<FlagParam(Flag.Cond, 0, 0), FlagParam(Flag.ENO, 0, 1),
         CodingParam(0, 2, <<<<OT.Bool, 0>>, <<40, 1>>>>),
         RefIdent(Mode.Dest), RefIdent(Mode.Src)>>)
MUX ==
    MultiOp("other", <<249, 96>>,
            <<FlagParam(Flag.Cond, 1, 0), FlagParam(Flag.ENO, 1, 1),
              TypeParam, RefIdent(Mode.Src), TypeParam, RefIdent(Mode.Dest),
              Ident(OT.UDInt, Mode.Len), RefIdent(Mode.Src)>>)
LABEL    == Op("LABEL", <<104>>, <<Ident(OT.UDInt, Mode.Id)>>)
JMP      == Op("JMP", <<108>>,
               <<FlagParam(Flag.Cond, 0, 0), FlagParam(Flag.Negated, 0, 1),
                 Ident(OT.UDInt, Mode.Id)>>)
JMP_BOOL == Op("JMP_", <<248, 144>>,
               <<FlagParam(Flag.Negated, 1, 0), Ident(OT.Bool, Mode.Src),
                 Ident(OT.UDInt, Mode.Id)>>)
JL       == MultiOp("other", <<223>>,
                    <<TypeParam, RefIdent(Mode.Src), Ident(OT.UDInt, Mode.Len),
                      Ident(OT.UDInt, Mode.Id)>>)
JMP_STW  == Op("JMP_", <<221>>, <<CondParam, Ident(OT.UDInt, Mode.Id)>>)
CALL     == Op("CALL", <<248, 88>>,
               <<FlagParam(Flag.Cond, 1, 0), Ident(OT.UDInt, Mode.Id),
                 TypeParam, Ident(4, Mode.Src)>>)
RET      == Op("RET", <<20>>,
               <<FlagParam(Flag.Cond, 0, 0), FlagParam(Flag.Negated, 0, 1),
                 Ident(OT.Bool, Mode.Src)>>)

\* The rows by operator number.
IsaRows ==
    [n \in {1, 2, 16, 44, 47, 54, 254, 255, 256, 257, 263, 266, 275} |->
        CASE n = 1   -> NOP      [] n = 2   -> LD_BOOL  [] n = 16  -> ST_BLOCK
          [] n = 44  -> MOVE     [] n = 47  -> MOVE_N_BOOL
          [] n = 54  -> MUX
          [] n = 254 -> LABEL    [] n = 255 -> JMP      [] n = 256 -> JMP_BOOL
          [] n = 257 -> JL       [] n = 263 -> JMP_STW  [] n = 266 -> CALL
          [] n = 275 -> RET]
=============================================================================
