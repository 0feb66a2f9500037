------------------------------ MODULE BlockFile ------------------------------
(***************************************************************************)
(* The pp block loader (plugin_bin.c): mc7_load_buffer reads the header of *)
(* a block field by field, with the two time stamps going through the      *)
(* loops of S7Date, and mc7_sections lays the sections out behind it.  A   *)
(* file that check_buffer accepted may still end inside its header, and    *)
(* memory may be missing for the block and for each section.  What the     *)
(* header is printed as (mc7_info, mc7_structure) is left out.             *)
(***************************************************************************)
EXTENDS S7Date

CONSTANT Files      \* [len, data, stamps, sizes]: what a file holds

ASSUME FileAssumption ==
    Files \subseteq [len : Nat \ {0, 1}, data : BOOLEAN,
                     stamps : {<<s, t>> : s, t \in Stamps},
                     sizes : [1..4 -> Nat]]

VARIABLES
    file,           \* the file given to the plugin
    load,           \* "new", "reading", "dating", "loaded", "refused", "gone"
    offset,         \* the reader's offset
    field,          \* the field of mc7_block_t that is read next
    dates,          \* the block's dates, as far as they are read
    asked,          \* 0, the section added next, 5 at the end, 6 if one failed
    at,             \* mc7_sections' offset
    sections        \* the sections listed

fileVars == <<load, offset, field, dates, asked, at, sections>>

loadVars == <<vars, file, fileVars>>

BlockSize == 36     \* MC7_BLOCK_SIZE, also the entry point

\* Mutant: the block's number is read as one byte.
FieldsOneShort == <<2, 1, 1, 1, 1, 1, 4, 4, 6, 6, 2, 2, 2, 2>>

\* The widths of the fields in mc7_parse_block's order; a stamp is 4 and 2 bytes.
Fields == <<2, 1, 1, 1, 1, 2, 4, 4, 6, 6, 2, 2, 2, 2>>
FirstStamp == 9

LoadInit ==
    /\ file \in Files
    /\ stamp = file.stamps[1] /\ year = 1984 /\ day = 1 + stamp.days
    /\ i = 0 /\ date = {} /\ pc = "years"
    /\ load = "new" /\ offset = 0 /\ field = 1 /\ dates = <<>>
    /\ asked = 0 /\ at = 0 /\ sections = <<>>
----------------------------------------------------------------------------
\* RZ_NEW0 of the block, which may fail.
NewBlock ==
    /\ load = "new"
    /\ load' \in {"reading", "refused"}
    /\ UNCHANGED <<vars, file, offset, field, dates, asked, at, sections>>

\* rz_buf_read_*_offset: the field is there; a stamp's days are counted next.
ReadField ==
    /\ load = "reading" /\ field \in DOMAIN Fields
    /\ offset + Fields[field] <= file.len
    /\ offset' = offset + Fields[field]
    /\ IF field \in {FirstStamp, FirstStamp + 1}
       THEN LET s == file.stamps[field - FirstStamp + 1]
            IN  /\ stamp' = s /\ year' = 1984 /\ day' = 1 + s.days
                /\ i' = 0 /\ date' = {} /\ pc' = "years"
                /\ load' = "dating" /\ field' = field
       ELSE field' = field + 1 /\ UNCHANGED <<vars, load>>
    /\ UNCHANGED <<file, dates, asked, at, sections>>

\* The file ends before the field does: the block is freed.
FieldMissing ==
    /\ load = "reading" /\ field \in DOMAIN Fields
    /\ offset + Fields[field] > file.len
    /\ load' = "refused"
    /\ UNCHANGED <<vars, file, offset, field, dates, asked, at, sections>>

\* mc7_days_since_1984_to_date, one iteration.
CountDays ==
    /\ load = "dating" /\ Next
    /\ UNCHANGED <<file, fileVars>>

DateRead ==
    /\ load = "dating" /\ pc = "done"
    /\ dates' = Append(dates, CHOOSE d \in date : TRUE)
    /\ load' = "reading" /\ field' = field + 1
    /\ UNCHANGED <<vars, file, offset, asked, at, sections>>

Loaded ==
    /\ load = "reading" /\ field > Len(Fields)
    /\ load' = "loaded"
    /\ UNCHANGED <<vars, file, offset, field, dates, asked, at, sections>>
----------------------------------------------------------------------------
\* mc7_sections of a loaded block.
AskSections ==
    /\ load = "loaded" /\ asked = 0
    /\ asked' = 1 /\ at' = BlockSize
    /\ UNCHANGED <<vars, file, load, offset, field, dates, sections>>

SectionOf(k) ==
    [kind |-> k, addr |-> at, size |-> file.sizes[k],
     data |-> k > 2 \/ file.data]

\* Mutant: the offset moves on for a section that was added only by one.
AddSectionAtOne ==
    /\ asked \in 1..4
    /\ sections' = IF file.sizes[asked] = 0 THEN sections
                   ELSE Append(sections, SectionOf(asked))
    /\ at' = at + (IF file.sizes[asked] = 0 THEN 0 ELSE 1) /\ asked' = asked + 1
    /\ UNCHANGED <<vars, file, load, offset, field, dates>>

\* mc7_bin_section_add: an empty section is left out, and is no failure.
AddSection ==
    /\ asked \in 1..4
    /\ sections' = IF file.sizes[asked] = 0 THEN sections
                   ELSE Append(sections, SectionOf(asked))
    /\ at' = at + file.sizes[asked] /\ asked' = asked + 1
    /\ UNCHANGED <<vars, file, load, offset, field, dates>>

\* No memory for the section: the list ends with the one before it.
SectionFails ==
    /\ asked \in 1..4 /\ file.sizes[asked] > 0
    /\ asked' = 6
    /\ UNCHANGED <<vars, file, load, offset, field, dates, at, sections>>

\* mc7_destroy
Destroy ==
    /\ load = "loaded" /\ asked \in {0, 5, 6}
    /\ load' = "gone" /\ dates' = <<>>
    /\ UNCHANGED <<vars, file, offset, field, asked, at, sections>>

LoadNext ==
    \/ NewBlock \/ ReadField \/ FieldMissing \/ CountDays \/ DateRead \/ Loaded
    \/ AskSections \/ AddSection \/ SectionFails \/ Destroy

LoadSpec == LoadInit /\ [][LoadNext]_loadVars

\* A call that has begun runs to its end on the thread that made it.
LoadCall == NewBlock \/ ReadField \/ FieldMissing \/ CountDays \/ DateRead \/ Loaded

LoadFairSpec == LoadSpec /\ WF_loadVars(LoadCall)
----------------------------------------------------------------------------
(* A block is loaded when and only when its 0x24 header bytes are there,   *)
(* and then both dates are those of their own stamps: the fields are read  *)
(* in order, and nothing of one stamp's loops is left in the other's.      *)
HeaderExact ==
    /\ load \in {"loaded", "gone"} => offset = BlockSize
    /\ load = "refused" /\ offset > 0 => file.len < BlockSize
    /\ \A k \in DOMAIN dates :
           LET d == dates[k]
           IN  DaysBefore(d.year) + DaysBeforeMonth(d.year, d.month) + d.day - 1
                   = file.stamps[k].days
    /\ load = "loaded" => Len(dates) = 2

\* Where the last section ends, and the header's sizes before section k.
EndOf(secs) == IF secs = <<>> THEN BlockSize
               ELSE secs[Len(secs)].addr + secs[Len(secs)].size

SizesBefore(f, k) ==
    (IF k > 1 THEN f.sizes[1] ELSE 0) + (IF k > 2 THEN f.sizes[2] ELSE 0)
        + (IF k > 3 THEN f.sizes[3] ELSE 0) + (IF k > 4 THEN f.sizes[4] ELSE 0)

(* The sections lie one behind the other from the entry point on, in the   *)
(* header's order and none empty; unless memory was missing they are as    *)
(* long as the header's sizes together.                                    *)
SectionsTile ==
    /\ \A k \in DOMAIN sections :
           LET s == sections[k]
           IN  /\ s.size > 0
               /\ s.addr = IF k = 1 THEN BlockSize
                           ELSE sections[k - 1].addr + sections[k - 1].size
               /\ k > 1 => s.kind > sections[k - 1].kind
    /\ asked = 5 => EndOf(sections) = BlockSize + SizesBefore(file, 5)

(* Loading ends, in a block or in a refusal: a date of any stamp is found. *)
LoadEnds == <>(load \in {"loaded", "refused", "gone"})
=============================================================================
