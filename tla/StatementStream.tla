--------------------------- MODULE StatementStream ---------------------------
(***************************************************************************)
(* What mc7p_decode_code promises, with no opcode in sight: a blob of a    *)
(* given length is cut, from its start, into adjacent statements of at     *)
(* least one byte; decoding stops when the blob is used up, when no        *)
(* statement is recognised (the cut position is the error position), or,   *)
(* truncated, when memory runs out.  StatementDecoder implements it.       *)
(***************************************************************************)
EXTENDS Integers, Sequences

CONSTANT Lengths        \* the lengths a blob may have

VARIABLES
    length,             \* bytes in the blob
    cuts,               \* the statements so far, as [sac, len] records
    status              \* "cutting", "whole", "failed" or "truncated"

vars == <<length, cuts, status>>

\* The offset at which the last of a sequence of statements ends.
EndOf(s) == IF s = <<>> THEN 0 ELSE s[Len(s)].sac + s[Len(s)].len

Init == /\ length \in Lengths
        /\ cuts = <<>>
        /\ status = "cutting"

Cut == /\ status = "cutting"
       /\ \E n \in 1..(length - EndOf(cuts)) :
              cuts' = Append(cuts, [sac |-> EndOf(cuts), len |-> n])
       /\ UNCHANGED <<length, status>>

Stop == /\ status = "cutting"
        /\ status' \in IF EndOf(cuts) = length THEN {"whole"}
                                               ELSE {"failed", "truncated"}
        /\ UNCHANGED <<length, cuts>>

Next == Cut \/ Stop

Spec == Init /\ [][Next]_vars
=============================================================================
