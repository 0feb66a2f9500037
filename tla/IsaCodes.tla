------------------------------ MODULE IsaCodes ------------------------------
(***************************************************************************)
(* The enumerators and the small lookup tables of mc7plus_isa.h and        *)
(* mc7plus_isa.c that the decoder, the flow classifier and the analysis    *)
(* plugin name.  The 466-row operator table is a constant of the modules   *)
(* that use it; MCIsa holds the rows the model-checking instances need.    *)
(***************************************************************************)
EXTENDS Integers, Sequences

\* MC7P_OT_*: operand data types.
OT == [Void |-> 0, Bool |-> 1, Byte |-> 2, Word |-> 4, DWord |-> 6, DInt |-> 7,
       Real |-> 8, String |-> 19, Pointer |-> 20, Any |-> 22, LReal |-> 48,
       LWord |-> 51, UDInt |-> 54, WString |-> 62, Undef |-> 255]

\* MC7P_AREA_*: memory areas.
Area == [Input |-> 2, Output |-> 3, Memory |-> 4, Data |-> 5, XData |-> 6,
         Local |-> 7, PInput |-> 8, POutput |-> 9, Father |-> 12, H0 |-> 13,
         TSLocal |-> 77, TSFather |-> 78, TSH0 |-> 79, DBRetain |-> 143,
         DBVolatile |-> 144, DBA |-> 145, OB_N |-> 147, FC_N |-> 148,
         FB_N |-> 149, PIPI |-> 150, PIPQ |-> 151, OB_C |-> 152,
         FC_C |-> 153, FB_C |-> 154]

\* MC7P_SCOPE_*: where a slot or a pointer lives.
Scope == [NativeLocal |-> 5, NativeGlobal |-> 6, NativeCall |-> 7,
          NativeBlock |-> 8, NativeSystem |-> 10]

\* MC7P_RANGE_*: the width of a slot.
SlotRange == [Pointer |-> 1, SlotBit |-> 2, Slot8 |-> 3, Slot16 |-> 4, Slot32 |-> 5,
              Slot64 |-> 6, SlotReal |-> 7]

\* MC7P_MODE_*: what a parameter is used for.
Mode == [Local32 |-> 1, Local |-> 2, Len |-> 3, Id |-> 4, Pointer |-> 5,
         Dest |-> 6, Src |-> 7, Direct |-> 10, SysPtr |-> 11, Block |-> 14,
         Array |-> 16]

\* MC7P_FLAG_*: wire flags of a statement.
Flag == [Negated |-> 1, Cond |-> 2, ENO |-> 3, Write |-> 4, NoInt |-> 5,
         STW |-> 6]

(* type_from_byte over mc7p_type_byte_to_ot: the set is empty for -1.      *)
TypeByteToOT ==
    <<2, 4, 6, 51, 52, 53, 54, 49, 55, 5, 7, 50, 56, 57, 58, 59,
      1, 40, 8, 48, 38, 60, 20, 22, 3, 61, 19, 62, -1, -1, -1, -1,
      9, 12, 11, 10, -1, 64, 66, 65, 14, 67>>

\* Mutant: the -1 of an unassigned type byte is taken for a type.
TypeFromByteUnchecked(b) ==
    {TypeByteToOT[i] : i \in {b + 1} \cap DOMAIN TypeByteToOT}

TypeFromByte(b) ==
    {TypeByteToOT[i] : i \in {b + 1} \cap DOMAIN TypeByteToOT} \ {-1}

(* mc7p_relcond_to_cond for a byte below 32, no condition above.           *)
CondFromByte(b) ==
    IF b >= 32 THEN {}
    ELSE {IF b < 8 THEN b + 9 ELSE IF b < 16 THEN b - 7 ELSE b + 1}
=============================================================================
