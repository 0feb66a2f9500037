--------------------------- MODULE AnalysisPlugin ---------------------------
(***************************************************************************)
(* The rizin analysis plugin: analysis_op_mc7plus and the label scans      *)
(* under it.  rizin calls it for one address at a time, in an order of its *)
(* own, with a buffer of its own choosing; between two calls remain the    *)
(* flags and the cross-references.  A jump names a label, so each one      *)
(* scans the code: through rizin's IO from the start of the map, in        *)
(* windows that shrink where a read fails, and, when that finds nothing,   *)
(* in the buffer behind the jump.                                          *)
(*                                                                         *)
(* One step is one call up to its scan (Analyse, AnalyseInvalid) or one    *)
(* iteration of a scan.  Addresses are numbers; rizin's flag, map and read *)
(* functions are external.                                                 *)
(***************************************************************************)
EXTENDS AccessRefs

CONSTANTS
    Images,      \* code in memory: [bytes, from, io], io "map", "nomap", "none"
    DataLens,    \* lengths of the buffers rizin passes
    Window,      \* MC7P_LABEL_SCAN_WINDOW
    ScanMax,     \* MC7P_LABEL_SCAN_MAX
    ScanBytes    \* MC7P_LABEL_SCAN_BYTES

ASSUME PluginAssumption ==
    /\ Images \subseteq [bytes : Seq(Byte), from : Nat, io : {"map", "nomap", "none"}]
    /\ DataLens \subseteq Nat \ {0}
    /\ Window \in Nat \ {0} /\ ScanMax \in Nat /\ ScanBytes \in Nat \ {0}

(* No two rows of mc7p_ops begin a statement alike: their codes differ in  *)
(* a byte that both have, whatever flags and coded types it carries.       *)
ASSUME RowsApartAssumption == RowsApart

VARIABLES
    image,       \* the code under analysis
    labelFlags,  \* rizin's flags for labels: [name, addr]
    refFlags,    \* rizin's flags for variables: [name, addr]
    xrefs,       \* rizin's data references: <<from, to>>
    seen,        \* history: the labels analysed, [addr, id]
    op,          \* the RzAnalysisOp of the last call
    data,        \* its buffer
    off, steps,  \* the scan's offset and statement count
    pc           \* "idle", "io" or "data"

vars == <<image, labelFlags, refFlags, xrefs, seen, op, data, off, steps, pc>>
----------------------------------------------------------------------------
\* External: memory is readable where the image lies, and only there.
CanRead(a, n) == a >= image.from /\ a + n <= image.from + Len(image.bytes)
MemoryAt(a, n) == SubSeq(image.bytes, a - image.from + 1, a - image.from + n)
Addresses == image.from..(image.from + Len(image.bytes) - 1)

\* External: setting a flag moves one that has the name already.
FlagSet(flags, name, addr) ==
    {f \in flags : f.name # name} \cup {[name |-> name, addr |-> addr]}

\* Mutant: every label has the plain name.
FlagLabelPlain(id, addr) ==
    IF IsNegativeLong(id) THEN labelFlags ELSE FlagSet(labelFlags, <<id>>, addr)

\* mc7p_flag_label: the address is part of the name when the label's is taken.
FlagLabel(id, addr) ==
    LET taken == \E f \in labelFlags : f.name = <<id>> /\ f.addr # addr
    IN  IF IsNegativeLong(id) THEN labelFlags
        ELSE FlagSet(labelFlags, IF taken THEN <<id, addr>> ELSE <<id>>, addr)

\* mc7p_flag_access for each value in turn: the last of a name stays.
FlagAccesses(values) ==
    LET last == {i \in DOMAIN values :
                     \A j \in DOMAIN values : j > i => values[j].name # values[i].name}
    IN  {f \in refFlags : \A i \in DOMAIN values : values[i].name # f.name}
        \cup {[name |-> values[i].name, addr |-> values[i].base] : i \in last}
----------------------------------------------------------------------------
NoOp == [addr |-> 0, size |-> 0, op |-> -1, operands |-> <<>>, eob |-> FALSE,
         kind |-> "NONE", id |-> NoLabel, jump |-> {}, fail |-> {},
         values |-> <<>>, scanned |-> "no"]

IsJump(kind) == kind \in {"JMP", "CJMP"}

\* mc7p_fill_analysis_access decodes the statement's bytes once more.
AccessesOf(bytes) ==
    LET st == StatementAt(bytes, 0)
    IN  IF st = {} THEN <<>>
        ELSE LET r == CHOOSE r \in st : TRUE
             IN  AnalysisAccess(Ops[r.op], r.operands)

(* A call for address a with a buffer of n bytes; r is the statement there *)
(* and flow what mc7p_flow_one says of it.                                 *)
AnalyseStatement(a, r, flow) ==
    \E values \in {AccessesOf(SubSeq(data', 1, r.end))} :
        /\ op' = [NoOp EXCEPT
                    !.addr = a, !.size = r.end, !.op = r.op, !.operands = r.operands,
                    !.eob = IsJump(flow.kind) \/ flow.kind = "RET",
                    !.kind = flow.kind, !.id = flow.id, !.values = values,
                    !.fail = IF flow.kind = "CJMP" THEN {a + r.end} ELSE {}]
        /\ refFlags' = FlagAccesses(values)
        /\ xrefs' = xrefs \cup {<<a, values[i].base>> : i \in DOMAIN values}
        /\ IF flow.kind = "LABEL"
           THEN /\ labelFlags' = FlagLabel(flow.id, a)
                /\ seen' = seen \cup {[addr |-> a, id |-> flow.id]}
           ELSE UNCHANGED <<labelFlags, seen>>
        /\ pc' = IF IsJump(flow.kind) /\ ~IsNegativeLong(flow.id)
                 THEN "io" ELSE "idle"

Analyse ==
    /\ pc = "idle"
    /\ \E a \in Addresses, n \in DataLens :
           /\ CanRead(a, n)
           /\ data' = MemoryAt(a, n)
           /\ \E r \in StatementAt(data', 0) : AnalyseStatement(a, r, FlowOf(r))
    /\ off' = 0 /\ steps' = 0
    /\ UNCHANGED image

\* Nothing decodes there: the op is left as rizin made it.
AnalyseInvalid ==
    /\ pc = "idle"
    /\ \E a \in Addresses, n \in DataLens :
           /\ CanRead(a, n)
           /\ data' = MemoryAt(a, n)
           /\ StatementAt(data', 0) = {}
    /\ op' = NoOp
    /\ UNCHANGED <<image, labelFlags, refFlags, xrefs, seen, off, steps, pc>>
----------------------------------------------------------------------------
\* Mutant: the scan starts at the jump, not at the start of the map.
ScanBoundsForward ==
    [base |-> op.addr, size |-> image.from + Len(image.bytes) - op.addr]

(* mc7p_io_scan_bounds: the map around the jump, or everything from 0 when *)
(* rizin knows no map, cut to ScanBytes.                                   *)
ScanBounds ==
    LET mapped == image.io = "map" /\ image.from <= op.addr
        from   == IF mapped THEN image.from ELSE 0
        to     == IF mapped THEN image.from + Len(image.bytes) - 1
                            ELSE op.addr + ScanBytes - 1
    IN  [base |-> from, size |-> Min({to - from + 1, ScanBytes})]

\* mc7p_read_scan_window: the window, or the largest of its halves that reads.
ScanWindow(a) ==
    LET sizes == {Window \div 2^k : k \in 0..30} \ {0}
        fits  == {n \in sizes : CanRead(a, n)}
    IN  {n \in fits : \A m \in fits : m <= n}

\* Mutant: the statements are counted after the test.
IoScanningOneMore ==
    pc = "io" /\ image.io # "none" /\ off < ScanBounds.size /\ steps <= ScanMax

IoScanning == pc = "io" /\ image.io # "none" /\ off < ScanBounds.size /\ steps < ScanMax

\* What the scan decodes in the window at its offset.
WindowStatement ==
    LET a == ScanBounds.base + off
    IN  UNION {StatementAt(MemoryAt(a, n), 0) : n \in ScanWindow(a)}

IsTarget(r) == FlowOf(r) = [kind |-> "LABEL", id |-> op.id]

IoStep ==
    /\ IoScanning
    /\ \E r \in WindowStatement :
           IF IsTarget(r)
           THEN /\ op' = [op EXCEPT !.jump = {ScanBounds.base + off}, !.scanned = "io"]
                /\ pc' = "idle"
                /\ UNCHANGED <<off, steps>>
           ELSE /\ off' = off + r.end
                /\ steps' = steps + 1
                /\ UNCHANGED <<op, pc>>
    /\ UNCHANGED <<image, labelFlags, refFlags, xrefs, seen, data>>

IoGiveUp ==
    /\ pc = "io"
    /\ ~IoScanning \/ WindowStatement = {}
    /\ off' = op.size /\ steps' = 0
    /\ pc' = "data"
    /\ UNCHANGED <<image, labelFlags, refFlags, xrefs, seen, op, data>>

DataScanning == pc = "data" /\ off < Len(data) /\ steps < ScanMax

(* mc7p_resolve_label, the scan of the buffer.  mc7p_flow_one returns the  *)
(* offset of the statement's end, and that is added to the offset.         *)
DataStep ==
    /\ DataScanning
    /\ \E r \in StatementAt(data, off) :
           IF IsTarget(r)
           THEN /\ op' = [op EXCEPT !.jump = {op.addr + off}, !.scanned = "data"]
                /\ pc' = "idle"
                /\ UNCHANGED <<off, steps>>
           ELSE /\ off' = off + r.end
                /\ steps' = steps + 1
                /\ UNCHANGED <<op, pc>>
    /\ UNCHANGED <<image, labelFlags, refFlags, xrefs, seen, data>>

DataGiveUp ==
    /\ pc = "data"
    /\ ~DataScanning \/ StatementAt(data, off) = {}
    /\ op' = [op EXCEPT !.scanned = "failed"]
    /\ pc' = "idle"
    /\ UNCHANGED <<image, labelFlags, refFlags, xrefs, seen, data, off, steps>>
----------------------------------------------------------------------------
Init ==
    /\ image \in Images
    /\ labelFlags = {} /\ refFlags = {} /\ xrefs = {} /\ seen = {}
    /\ op = NoOp /\ data = <<>> /\ off = 0 /\ steps = 0
    /\ pc = "idle"

Next == Analyse \/ AnalyseInvalid \/ IoStep \/ IoGiveUp \/ DataStep \/ DataGiveUp

Spec == Init /\ [][Next]_vars
----------------------------------------------------------------------------
(* Properties.                                                             *)

\* The complete stream of an image: its statements as decoded one after the other.
Stream ==
    [im \in Images |->
        LET at[k \in 0..Len(im.bytes)] ==
                IF k = 0 THEN {0}
                ELSE {r.end : r \in UNION {StatementAt(im.bytes, s) : s \in at[k - 1]}}
            starts == UNION {at[k] : k \in 0..Len(im.bytes)}
        IN  UNION {{[off |-> s, end |-> r.end, flow |-> FlowOf(r)] :
                        r \in StatementAt(im.bytes, s)} : s \in starts}]

\* The offset of the first LABEL id in the complete stream, {} when it has none.
FirstLabel(im, id) ==
    LET label == [kind |-> "LABEL", id |-> id]
    IN  UNION {{s \in hits : \A u \in hits : s <= u} :
               hits \in {{st.off : st \in {t \in Stream[im] : t.flow = label}}}}

(* Where the stream stops before the last Window bytes, a window stops too.*)
(* Not so where it cuts a real LEN that then counts 0: the list, too long  *)
(* for the image, is a statement without labels.                           *)
StopsAlike(im) ==
    \A s \in {0} \cup {st.end : st \in Stream[im]} :
        s + Window <= Len(im.bytes) /\ StatementAt(im.bytes, s) = {} =>
            StatementAt(SubSeq(im.bytes, s + 1, s + Window), 0) = {}

\* Every statement of the image fits a window, and the image the scan's limits.
WithinLimits(im) ==
    /\ Len(im.bytes) <= ScanBytes /\ StopsAlike(im)
    /\ \E all \in {Stream[im]} :
           /\ \A st \in all : st.end - st.off <= Window
           /\ Cardinality(all) <= ScanMax

Flow == [kind : {"NONE", "LABEL", "JMP", "CJMP", "CALL", "RET"}, id : Word]
LabelFlag == [name : {<<id>> : id \in {l.id : l \in seen}}
                     \cup {<<l.id, l.addr>> : l \in seen}, addr : Addresses]

(* Type invariant: the plugin's and rizin's variables keep their types, a  *)
(* label flag names a label analysed, and a scan is under way only for a   *)
(* jump that names a label.                                                *)
TypeOK ==
    /\ image \in Images
    /\ labelFlags \subseteq LabelFlag
    /\ \A f \in refFlags : f.addr \in Word
    /\ \A x \in xrefs : x[1] \in Addresses /\ x[2] \in Word
    /\ \A l \in seen : l.addr \in Addresses /\ l.id \in Word
    /\ op.size \in 0..Len(data) /\ [kind |-> op.kind, id |-> op.id] \in Flow
    /\ op.jump \subseteq Addresses
    /\ data \in Seq(Byte) /\ off \in Nat /\ steps \in 0..ScanMax
    /\ pc \in {"idle", "io", "data"}
    /\ pc # "idle" => IsJump(op.kind) /\ ~IsNegativeLong(op.id) /\ op.jump = {}

(* What the scan of a map within its limits finds, seen up to the last     *)
(* Window bytes: the first LABEL of the id in the complete stream, whether *)
(* it lies before or behind the jump.  In those last bytes the windows     *)
(* shrink, and a statement may be cut.                                     *)
BodyTargetsExact ==
    (pc = "data" \/ op.scanned # "no") /\ image.io = "map" /\ WithinLimits(image) =>
        LET body  == {a \in Addresses : a + Window <= image.from + Len(image.bytes)}
            first == {image.from + s : s \in FirstLabel(image, op.id)}
            found == IF op.scanned = "io" THEN op.jump ELSE {}
        IN  found \cap body = first \cap body

(* Every label analysed, in whatever order and however often, has a flag   *)
(* with its own id at its own address, also where several blocks in one    *)
(* map number their labels alike.                                          *)
LabelsKeepFlags ==
    \A l \in seen :
        ~IsNegativeLong(l.id) =>
            \E f \in labelFlags : f.addr = l.addr /\ f.name[1] = l.id

\* The operands of the last statement that are variables with a known use.
UsedOperands(row) ==
    LET params == OwnParams(row)
    IN  {i \in DOMAIN params \cap DOMAIN op.operands :
            params[i].kind = "ident" /\ IsRef(op.operands[i])
            /\ ModeAccess(params[i].mode) # {}}

ValueOf(a, m) ==
    \E i \in DOMAIN op.values : op.values[i].acc = a /\ op.values[i].access = m

(* The accesses that mc7p_fill_access_from_params reports are those of the *)
(* operands: an operand is written when its parameter is a DEST and read   *)
(* otherwise, and nothing else is written.  A CODING parameter shifts the  *)
(* operands against the parameters, so rows with one are left out.         *)
AccessesFollowModes ==
    op.op \in DOMAIN Ops /\ ParamsOf(Ops[op.op], "coding") = {} =>
        LET row     == Ops[op.op]
            used    == UsedOperands(row)
            mode(i) == CHOOSE m \in ModeAccess(OwnParams(row)[i].mode) : TRUE
        IN  used # {} =>
                /\ \A i \in used : ValueOf(op.operands[i], mode(i))
                /\ \A k \in DOMAIN op.values : op.values[k].access = "w" =>
                       \E i \in used : mode(i) = "w"
                                       /\ op.values[k].acc = op.operands[i]
----------------------------------------------------------------------------
(* What comments in the plugin say and the code does not do.               *)

(* "Resolve a label by scanning the complete mapped code stream from its   *)
(* start": within the limits the scan finds the first LABEL of the id in   *)
(* the stream, or fails when there is none.                                *)
CompleteStreamScanned ==
    (pc = "data" \/ op.scanned # "no") /\ image.io = "map" /\ WithinLimits(image) =>
        (IF op.scanned = "io" THEN op.jump ELSE {})
            = {image.from + s : s \in FirstLabel(image, op.id)}

(* "Scan forward from off for the LABEL statement": the scan of the buffer *)
(* looks at the statements behind the jump, one after the other.           *)
StatementsBehind(bytes, from) ==
    LET at[k \in 0..Len(bytes)] ==
            IF k = 0 THEN {from}
            ELSE {r.end : r \in UNION {StatementAt(bytes, s) : s \in at[k - 1]}}
    IN  UNION {at[k] : k \in 0..Len(bytes)}

DataScanOnStatements ==
    pc = "data" => off \in StatementsBehind(data, op.size)

(* MC7P_REF_CLASS_* and the area, scope and range fields keep the          *)
(* variables apart: flags at one address differ in the width at most.      *)
ReferencesDistinct ==
    \A f, g \in refFlags :
        f.addr = g.addr => f.name[1] = g.name[1] /\ f.name[2] = g.name[2]
=============================================================================
