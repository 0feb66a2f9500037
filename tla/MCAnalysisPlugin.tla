-------------------------- MODULE MCAnalysisPlugin --------------------------
(* Model-checking instances of AnalysisPlugin: small maps of code, a       *)
(* window of 8 bytes in place of 64.                                       *)
EXTENDS AnalysisPlugin, MCIsa

Map(from, bytes) == [bytes |-> bytes, from |-> from, io |-> "map"]

\* Two blocks in one map, both with a LABEL 0; jumps lead to either side of it.
TwoBlocks == <<108, 0, 104, 0, 104, 0, 110, 0, 20, 1>>

\* A jump back and a jump ahead over more statements than a scan may look at;
\* the last one names the label -1.
FarJumps == <<104, 2, 0, 0, 0, 0, 108, 1, 108, 2, 104, 1, 108, 3>>

\* A jump list that is longer than the window, and a label behind it.
LongList == <<108, 1, 223, 0, 0, 32, 5, 0, 0, 1, 1, 2, 104, 1, 20, 1>>

\* A jump list whose LEN, the real \h30 \h68, a window cuts: there the list is
\* empty and a LABEL follows, in the map neither is a statement.
CutList == <<108, 0, 223, 0, 35, 0, 0, 0, 0, 48, 104, 0, 0, 0, 0, 0, 0, 0>>

\* Bytes that are no statement, in the map and in every window, and a label behind.
Stopped == <<108, 1, 255, 104, 1, 104, 1, 20, 1, 0, 0, 0>>

\* In the last bytes of a map: a label whose id is cut off, and a MOVE of 2.0,
\* \h30 \h68, whose cut reads as 0.0 with a LABEL behind it.
TailLabel == <<108, 32, 5, 0, 104, 32, 5>>
CutReal   == <<108, 0, 224, 8, 0, 48, 104, 0>>

\* LD_BOOL, MOVE and MOVE_N_BOOL of inputs, outputs, slots.
Accesses ==
    {<<32, 100, 1, 32, 104, 1>>, <<224, 1, 72, 4, 136, 3>>, <<240, 7, 100, 1, 104, 2>>}

MCImages ==
    {Map(0, TwoBlocks), Map(2, FarJumps), Map(0, LongList), Map(1, TailLabel),
     Map(0, CutReal), Map(0, CutList), Map(0, Stopped)}
    \cup {Map(0, code) : code \in Accesses}
    \cup {[bytes |-> TwoBlocks, from |-> f, io |-> "nomap"] : f \in {0, 1}}
    \cup {[bytes |-> FarJumps, from |-> 0, io |-> "none"]}

MCDataLens == {2, 3, 6}
=============================================================================
