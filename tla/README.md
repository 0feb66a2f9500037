# Verification of rz-libmc7p

rz-libmc7p is a rizin/Cutter plugin for the byte code of Siemens S7 controllers: a decoder, an
assembler and an analysis for MC7+ (S7-1200/1500), and the older decoder and container loader for
classic MC7 (S7-300/400). This directory models its core in TLA+, checks the models with TLC and
proves the most important properties with TLAPS. `PROJECT.json` ties every definition to the lines it
stands for; the sources are named relative to the repository.

## The system

| part | source | state it keeps | operations |
|---|---|---|---|
| statement decoder | `src/mc7plus.c` 95-1279 | the position, the list so far, per candidate the reader, operands, pending type and repeat count; an arena | `mc7p_decode_code`, `mc7p_free_list` |
| one-statement entry points | `src/mc7plus.c` 1664-1821 | none between calls | `mc7p_disassemble_one`, `mc7p_decode_one_statement`, `mc7p_flow_one` |
| arena | `src/mc7plus.c` 34-93 | a chain of blocks | `arena_alloc`, `arena_free_all` |
| operator table | `src/mc7plus_isa.c`, `.h` | constant; `g_first`, an index built on first use | lookups |
| renderer | `src/mc7plus.c` 1280-1655 | none | `mc7p_render_statement` |
| analysis plugin | `src/plugin_arch_mc7plus.c` 1489-2107 | none of its own; rizin's flags and references | `analysis_op_mc7plus` |
| disassembly plugin, tokenizer | `src/plugin_arch_mc7plus.c` 146-348, 1403-1473 | none | `disassemble_mc7plus`, `mc7p_fill_toks` |
| assembler | `src/mc7plus_asm.c` | none between calls | `mc7p_assemble_one` |
| pp block loader | `src/plugin_bin.c` | the block header | `mc7_load_buffer`, `mc7_sections`, `mc7_destroy` |
| classic decoder | `src/simatic.c` | none | `simatic_s7_decode_instruction` |
| classic plugins | `src/plugin_{analysis,arch,asm}.c` | none of their own | `disassemble_mc7`, `analysis_op_mc7` |

The plugin calls the decoder three times for a statement (`mc7p_disassemble_one` for its text and
length, `mc7p_flow_one` for its control flow, `mc7p_decode_one_statement` for its operands) and relies
on their taking the same decision. A jump names a label, not an address: for each jump the plugin
scans the code for the LABEL statement, first through rizin's IO from the start of the map and, when
that finds nothing, in the buffer it was called with. rizin calls the plugin for one address at a
time, in its own order, repeatedly, with a buffer that may end anywhere; what survives between two
calls are rizin's flags and references. The classic plugins share one decoder in the same way: the
listing calls it with all that is left of a block, the analysis with a buffer of rizin's choosing.
The assembler reads the text the renderer writes, and what it writes the decoder reads: Cutter shows a
statement as text, lets the user edit the line and patches the bytes.

Nothing here is concurrent but the lazy index `g_first`. What is hard is data-driven: bytes that mean
an opcode or an operand header depending on where a cut falls, operators that compete for a
statement, repeat counts taken from the input, an allocation that fails anywhere, windows and buffers
that end inside a statement, numbers at the edge of a type, a length that the decoder takes from what
is left of the buffer. `hazards` in `PROJECT.json` lists them at
their lines.

What makes each part correct:

* decoder: the statements partition the blob; the best candidate wins, whatever the order; counts are
  honoured; the result says what happened; memory is owned by exactly one party; every call returns.
* entry points: they agree with the decoder.
* analysis plugin: a jump's target is the label of its name, wherever the label lies; no label loses
  its flag; accesses have the direction their parameters have; variables have addresses of their own.
* assembler: an accepted line is one whole statement that means what the line says; a statement's own
  text assembles to it again; the two encodings of one operator are the same.
* block loader: a header is read whole or refused; the date loops end inside their table and each date
  is that of its own stamp; the sections lie one behind the other.
* classic decoder and plugins: no instruction goes over the end; listing and analysis see the same
  instructions, at the places where they were put; a jump's target is exact.

## Modules

| module | stands for |
|---|---|
| `Words64` | unsigned 64-bit words as the sets of their 1-bits |
| `IsaCodes` | enumerators and small lookup tables of `mc7plus_isa.*` |
| `OperandDecoder` | the operand decoders: `decode_immediate`, `_immediate_long_ref`, `_memory`, `_native`, `_db`, `_indirect`, `_ident` |
| `OperatorTable` | the table as a constant, its masks and first-byte index, the operand of one parameter |
| `StatementAt` | `decode_best_at` as one decision, and `mc7p_flow_one` |
| `StatementDecoder` | `mc7p_decode_code` step by step, with its caller's `mc7p_free_list` |
| `StatementStream` | the abstract promise: a blob is cut into adjacent statements until it is used up, nothing is recognised or memory is out |
| `AccessRefs` | reference addresses, flag names and access directions of operands |
| `AnalysisPlugin` | `analysis_op_mc7plus` and the label scans |
| `OperandText` | an operand as text: `render_access` and `mc7p_parse_operand` |
| `OperandEncoder` | the operand encoders of `mc7plus_asm.c` |
| `Assembler` | `mc7p_assemble_one` beside `mc7p_disassemble_one` |
| `S7Date` | the time stamps of a block header, loop by loop |
| `BlockFile` | the block loader, with `S7Date` running inside it |
| `ClassicCodes`, `ClassicDecoder` | `simatic_s7_decode_instruction`: its code tables, and length, jump and return of an instruction |
| `ClassicBlock` | the two classic plugins on a block |
| `MCIsa`, `MCStatementDecoder`, `MCAnalysisPlugin`, `MCAssembler`, `MCS7Date`, `MCBlockFile`, `MCClassicBlock` | instances for TLC |
| `OperandDecoderProofs`, `StatementAtProofs`, `StatementDecoderProofs`, `AnalysisPluginProofs`, `OperandReadBackProofs`, `AssemblerProofs`, `BlockFileProofs`, `ClassicProofs` | theorems |

`AnalysisPlugin` and `StatementDecoder` both extend `StatementAt`; `AnalysisPlugin` uses it for the
three entry points, `StatementDecoder` is compared with it (`OneAtATime`) and takes the same decision
one loop iteration at a time. `Assembler` extends it too, so that what is assembled is read back by the
model of the real decoder. `BlockFile` extends `S7Date` and takes its steps.

### StatementDecoder

One step is one iteration of one of three nested loops. `pos`, `stmts` are `pos` and `list` of
`mc7p_decode_code`; `num`, `best` and `tried` the loop over candidates of `decode_best_at` (`tried` is
a history variable: all candidates at this position that decoded); `pidx`, `rep`, `rpos`, `pending`,
`multiple`, `operands` the locals of `decode_params` and its reader; `heap` says whether the arena
holds a block; `out`, `result`, `errPos` are what the caller sees.

| action | code |
|---|---|
| `PickCandidate` | `decode_best_at`: the next index entry whose code bits match, reader and operand list reset |
| `SkipFlag`, `TakeOperand`, `SkipRepeated` | `decode_params`: one parameter, or one repetition of the last parameter of JL or MUX |
| `RejectCandidate` | an operand that cannot be read, or one too many |
| `OperandAllocFails` | an allocation under `decode_params` fails, which drops the candidate as well |
| `FinishCandidate` | the comparison with the best candidate |
| `Commit`, `CommitAllocFails` | the statement is appended, or the loop is left with 0 for want of memory |
| `Fail`, `Finish` | nothing decodes; the blob is used up |
| `FreeList` | the caller's `mc7p_free_list` |

An operand decoder is an operator that returns a set: `{}` for NULL, else the reader's new position
and the access. So errors need no status of their own. Numbers are words of 64 bits, and `number`
fields keep the bits the C type keeps. The `int` cast of a repeat count is
`IntIsNegative`/`IntValue`; every negative count behaves like -1, as in `multiple_count >= 0`.
The `constants` argument never reaches the reader (`decode_best_at` zeroes it), hence
`ReaderConstants == <<>>`.

### AnalysisPlugin

`labelFlags`, `refFlags`, `xrefs` are rizin's; `op`, `data` belong to the call under way; `off`,
`steps` to its scan. `Analyse` is a call up to its scan, `AnalyseInvalid` one where nothing decodes,
`IoStep` and `DataStep` one iteration of `mc7p_resolve_label_io` and `mc7p_resolve_label`, `IoGiveUp`
and `DataGiveUp` their ends. `seen` is a history variable. Assumed of rizin: a read succeeds when all
of it lies in the image; setting a flag moves one of the same name; the buffer passed in is the memory
at the address.

`op->src`, `op->dst`, `op->direction` repeat what is in `values`; `op->type` and `op->val` depend on
the statement alone. They are left out.

### Assembler

`line` is a line of text: an operator's name, its flags, its operands' texts; `bytes` the statement
assembled from it or shown by it. A text is a record of what its characters say (`OperandText`): its
form, the name, width letter, number and place in it. Splitting a line at blanks and folding its case
are abstracted, the number of bytes an output buffer has room for is left out. `Init` is a statement that is
shown, or a line that is typed; `Assemble` is `mc7p_assemble_one`, `Disassemble` is
`mc7p_disassemble_one`. A line the assembler refuses just stays.

`EncodeOperand` is `mc7p_encode_operand`, a set that is `{}` where C returns -1. Headers are composed
by or-ing small numbers and casting to a byte, as in the code (`Header`), so that a length too long for
its bits really spills. `AssembleOne` tries `mc7p_assemble_selected` (MOVE, arithmetic, LD_CMP), the
table, and the last resort, in that order. `ShortcutAssumption` says of the table that the rows of the
operators with an encoding of their own (`mc7plus_isa.c:49`, `:173`, `:204`, `:226`) have the flags, the
types and the modes that are written into `mc7p_assemble_selected`.

The properties speak of lines the code can assemble at all (`Proper`), and these are the cases left out:

* an operand of another kind than its parameter (`mc7plus_asm.c:879` takes what it gets), or `@PSYS`
  where the decoder knows none;
* a JL or MUX whose count is not the number of targets in the line: it is assembled (`:980` compares
  operands with parameters one to one) though it does not decode;
* a slot or pointer number of 2^30 or more, a data block above 16383 with an offset: their headers spill
  (`FitsHeader`).

`RowAssumption` says of every row that its own code is found by its first byte, that the bits of its flags and of its
coded types (the byte behind the code too) are bits nothing else uses, that a count is a UDInt and that no string type
is asked for where an address is forced. `LastResortAssumption` says which of the operators that `mc7p_assemble_one`
spells out at its end have operands: RET only. Both were compared with all 466 rows.

What the properties leave out, each a definition named for it:

* a number typed where the types ask for a Bool becomes 0 (`mc7plus_asm.c:640`), since only `TRUE` and `FALSE` set
  `bool_value` (`NumberForBool`);
* a coded type whose code stands for another type as well, as in STR_LEN, comes back as the first of them
  (`SharedCode`);
* the base of an indirect operand that is global or the caller's comes back as local, for the header knows two kinds
  of base (`:826`, `OtherBase`);
* a count prints 32 bits but is assembled with all 64 (`:672`, `LongCount`);
* the ranges of a data block without a name print as plain `DB` (`mc7plus.c:1545`), and a Bool that is neither 0 nor 1
  prints as `TRUE` (`:1425`): both lost in the text, so `ShownReadsBack` names them.

Other things the model showed and that no text of the repository speaks about: `%I0.0` as a byte operand comes back
as `%IB0`, a header of 3 as label shows 4294967295, `NOP 5` drops its operand, and unknown flags are ignored.

### BlockFile and S7Date

`load` is how far `mc7_load_buffer` is, `offset` and `field` are the reader's, `dates` the block's two
dates, `asked`, `at` and `sections` the locals of `mc7_sections`. `ReadField` reads one field of
`mc7_parse_block`; at a stamp it hands over to `S7Date` (`CountDays`, `DateRead`), whose variables
`year`, `day` and `i` are the locals of `mc7_days_since_1984_to_date`, one step an iteration of its loops.
The two reads of a stamp (four bytes and two) are one step: both refuse the block when they fail.
`FieldMissing` and `NewBlock` free the block; `SectionFails` is a missing section, after which the list is
handed out as it is. The calendar in the properties is in closed form (`DaysBefore`, `DaysBeforeMonth`),
not a loop.

### ClassicDecoder and ClassicBlock

The C code is 2500 lines of switches; what they decide is a length (2, 4, 6 or none), a jump and a
return. `ClassicCodes` holds the sets of first and second bytes each routine accepts, `ClassicDecoder`
the conditions on the bytes that must be there: the C code compares the number of bytes that are left
with a different bound in each routine. The decoder reads one byte behind its buffer in one place
(a 16-bit constant with one of its two bytes left, `simatic.c:254`), hence `mem` and `n` are separate and
`Junk` is what may lie there.

`Disassemble` is `disassemble_mc7` for one line; what does not decode is two bytes `invalid`. `Analyse` is
`analysis_op_mc7` for one queued address with one of the buffer lengths of `Windows`. rizin's walk
(`Successors`) is external: on at the jump and the fail address, or behind the instruction, unless it
returns.

## Runs

Six runs pass: `DecoderStreams` and `DecoderMulti` on the decoder, `Plugin` on the analysis plugin,
`Assembler`, `Dates` on the block loader, `Classic` on the classic plugins. Six refute what a comment, a
declaration or a test says; see Findings.

* **DecoderStreams**: all blobs of up to 4 bytes over seven bytes that are opcodes and operand headers
  at once, and blobs for coded types, conditions, blocks, calls and returns; at most one failed
  allocation, at any point. Four bytes are enough for two statements behind one another, for a failure
  behind a success and for a candidate that loses. A second failure adds nothing: each ends the
  candidate or the call.
* **DecoderMulti**: JL and MUX with every kind of length operand (tiny, one byte, all ones, above 2^31
  both ways, not an immediate) and zero to three targets; `MaxOperands = 6` in place of 1024, so that
  the limit is met. The generated table has no two rows that compete for a statement, so five
  overlapping rows stand for a regenerated one; `FirstCap = 3` in place of 512 fills an index slot.
* **Plugin**: `Window = 8` stands for 64 bytes, `ScanMax = 6` for 4096 statements, `ScanBytes = 32` for
  4 MiB; buffers of 2, 3 and 6 bytes. The images have two blocks that share a label number, a jump
  back and a jump beyond the limit, a jump list longer than the window and one whose LEN a window cuts,
  bytes no operator begins with, a label and a real cut at the
  end of the map, accesses, a map rizin does not know and no IO at all.
* **Assembler**: seventeen rows of the real table, with every kind of parameter and the families that are
  encoded twice. The typed operands take every form at the sizes where a header changes: numbers around one, two,
  four and eight bytes and around -1, offsets in bits and bytes, block numbers around 16383, slot numbers up to 2^29.
  MOVE takes every form with a Bool, a Word and an LWord, with the other types numbers and indirect operands; MREF
  takes addresses of three lengths. The shown statements have the forms the assembler never writes, too. Two steps
  are enough: a line, its bytes, their text; `Settled` asks for the next assembly, `ShownReadsBack` for the reading
  of the text.
* **Dates**: days around each month's end of early 1984, around the leap day, around each year's end to
  the second leap year, as first and as second stamp; files that end in each byte of the header and one
  behind; sections that are empty, small and of the largest size, and no memory anywhere.
* **Classic**: every pair of 45 instructions, at least one of each routine of `simatic.c`, with jumps
  backwards, onto themselves, forwards and across the end of the address space (`AddrSpace = 2^20`,
  `Base = AddrSpace - 6`), triples of jumps and returns, blocks that end in each kind of
  cut instruction. Two instructions are enough, since a length depends on what is left of the block
  but not on what comes before. `Windows` are 6, the least rizin passes (`archinfo_mc7`), and 9.
  Word operations with a constant are in `ClassicContext` only.

`CHECK_DEADLOCK FALSE` is set where the system ends: the decoder, the loader, the classic block, and the
assembler with a line it refuses. The analysis plugin never does.

### Fairness

`FairSpec` of the decoder is weak fairness of `DecodeCode`, and `LoadFairSpec` of the loader that of `LoadCall`: loops
on the thread of the call, which wait for nobody. `FreeList`, `AskSections` and `Destroy` have none, for a caller may
keep the block. `Classic` has weak fairness of `Disassemble` and of `Analyse`: rizin prints a block to its end and
works off its queue. The plugin's specification has none: rizin may stop calling. The assembler's has none: a user may
stop typing.

### Findings

* `DecoderDangling`: `mc7p_decode_code` frees the arena (`src/mc7plus.c:1208`) and still hands out the
  list that lay in it. The header says the operands are "owned by the list".
* `PluginBuffer`: `mc7p_flow_one` returns the absolute end of a statement where its header says the
  length, and `mc7p_resolve_label` adds it to its offset (`src/plugin_arch_mc7plus.c:1525`).
* `PluginTail`: windows are halved until they read, so the last bytes of a map are decoded from
  prefixes: a label there may be missed, and a trimmed real whose cut is shorter exposes its own bytes
  as statements. "Scanning the complete mapped code stream" does not hold there.
* `PluginRefs`: the class of a reference address is or-ed into a base that has those bits set, so the
  classes do not keep variables apart; an input and an output share an address.
* `DateTime`: the time of day is computed from the days (`src/plugin_bin.c:160`).
* `ClassicContext`: the 16-bit operations with a constant (`AW W#16#1234`) are looked for in the `else` of
  `if (size > 5)` only (`src/simatic.c:2178`), so they decode at the end of a buffer and nowhere else. The test
  (`unit/test_simatic.c:2531`) passes exactly four bytes. In a block the listing goes on in the operand.

## Theorems

What TLC checks on small instances is proved here for every operator table, blob, limit and number of failed
allocations (`TableAssumption`, `MultiAssumption`, `CodeAssumption`, `DecoderAssumption`), for every image and buffer
length (`PluginAssumption`, `RowsApartAssumption`), for every stamp and file (`StampAssumption`, `FileAssumption`),
and for every classic program, address space, buffer length of at least six and byte behind the block
(`BlockAssumption`, `BytesAssumption`, `WindowsAssumption`, `AddrSpaceAssumption`), for every program shown and every
line typed (`AssemblerAssumption`, `ShortcutAssumption`, `RowAssumption`, `LastResortAssumption`).

What is assumed of a table was compared with all 466 rows of `mc7p_ops`: flags and coded types lie in the row's own
code bytes (`CodeAssumption`) and share no bit (`RowAssumption`), a repeated parameter comes last (`MultiAssumption`),
and any two rows with a code differ in a byte that both have, whatever its flag bits (`RowsApartAssumption`). The rows
the runs use satisfy them too, and TLC evaluates them there. `DecoderMulti` has rows that compete, for the theorems of
the decoder ask for no such thing.

* **OperandDecoderProofs**: every operand an IDENT parameter reads takes at least one byte, ends inside the blob
  (`DecodeIdentAdvances`) and is a well-formed access (`DecodeIdentTyped`). One lemma per decoder, over lemmas about
  `CanTake`, `Bytes` and the words. `DecodeIdentSingle`: it reads at most one. `DecodeIdentInPart`: an operand that
  ends inside a part of the bytes is the same operand there.
* **StatementAtProofs**: the recursive functions of `StatementAt` (`read` in `ReadTimes` and `ReadParams`)
  are unfolded. Such a function is a CHOOSE, so that one with the equations exists has to be shown first
  (`ReadsExist`, `StepsExist`), by induction on its domain; after that the equations are facts. Then
  `StatementTyped`: the statement at a place of any blob, under any table, is an operator of the table that
  ends behind its place and inside the blob, with operands that are accesses.
* **StatementDecoderProofs**: the inductive invariant `Inv` is `TypeOK`, `Progress`, `SelectionOptimal` and
  `StatementsTile`. `Progress` says that the reader of a candidate is behind its code and that each candidate that
  decoded ends behind the position and inside the blob: without it neither the partition nor the position's type is
  inductive, and it is where `DecodeIdentAdvances` enters. `OutcomeExact` and `BlocksAccountedFor` have an inductive
  part of their own (`AnswerHolds`) on top. `OperandsPaidFor` is inductive with `Inv`: `DecodeIdentAdvances` again
  says that an operand takes a byte, and the parameters that take none are counted (`CodedAfter`). `StreamImplemented`
  shows that initial states map to initial states and every step to a `Cut`, a `Stop` or a stutter. `OneAtATimeHolds`
  compares the loops with the one decision of `StatementAt`: `InHand` says that the operands in hand are those
  `ReadParams` has after as many parameters, `Heard` that every operator before the current one was heard or has no
  reading, `BestOfTried` that the best is a maximum; at a commit all were heard, and the best is the statement.
  Determinism of the operand decoders enters here, since the loop takes one operand where `ReadTimes` collects a set.
  `MultiCountHolds` rests on `Counting`: the count in hand is the value of the operand a LEN parameter read, as long
  as no later one can change it (`MultiAssumption`: one LEN parameter, and the repeated one comes last, as in each row
  with `HasMultipleParameter`).
* **AnalysisPluginProofs**: `PluginTypeCorrect` from `PluginInv`, which is `TypeOK`, `InMemory` (the scan's offset and
  the buffer lie in the image) and `OpWhole` (the op under way has all its fields, and its address); it uses
  `StatementTyped` for the three entry points and every window of a scan. `FlagsHold` from `FlagInv`, which is
  `LabelsKeepFlags` with `FlagsAtHome`: a flag whose name holds an address lies there. Then the flag that
  `mc7p_flag_label` moves was already at the label's own address, and is nobody else's. The proof asks nothing of the
  decoder. `AccessesFollowModesHolds` follows the two walks over a statement, the decoder's over the parameters and
  the plugin's over the operands, in step (`ParamsFollowed`): each operand is its own parameter's (`OwnParamIs`), so
  the mode looked up for it is its own. Its inductive part `ValuesInv` says so of the op of the last call.
  `BodyTargetsExactHolds` compares what a scan reads through windows with the image read as a whole. Its invariant
  `ScanInv` says of a scan in whole windows that its offset is the start of a statement of the stream or the place
  where the stream stops, that it has counted the statements before, and that none of them is the LABEL it looks for;
  once the map is given up there was none. Two lemmas carry a step over: `StatementInPart`, that a statement of the
  whole image inside the window is the window's statement too, and `RowsApartAssumption`, that no other row can begin
  there. The converse, that where the image has no statement the window has none, is false: a window that cuts a real
  reads a shorter one, and a jump list whose LEN is cut to 0 is a whole statement. The proof found it, the image
  `CutList` shows it, and `StopsAlike` leaves it out.
* **OperandReadBackProofs**: what the encoder of an operand writes, the decoder of operands reads, wherever it
  stands in a blob, as an operand that denotes the same; and nothing else reads there (`IdentKept`, one lemma a form:
  `ImmediateKept`, `MemoryKept`, `NativeKept`, `DbKept`, `IndirectKept`). It rests on arithmetic of bytes and words
  (`BytesOfWord`, `HeaderSum`: a header composed by or-ing, where its numbers fit, is the sum of its fields) and on
  what each decoder does with a given first byte (`SlotFormReads` and the like). The other half is about text: what
  `render_access` prints of a decoded operand, `mc7p_parse_operand` reads as the same (`ShownMemory`, `ShownDb`,
  `ShownSlot`, `ShownImmediate`, `ShownIndirect`); `IdentDecoded` lists what a decoded operand may look like.
* **AssemblerProofs**: `AssemblerTypeCorrect` follows an operand on both of its ways. From text to bytes: what is
  parsed of any text is `Encodable` (`OperandParsed`), each encoder writes bytes only, since a number takes one to
  eight of them (`ByteLengthTyped`) and a header is cut to one, and `Flat` unfolds the function by which the operands
  are joined. From bytes to text: `StatementTyped` says that a statement's operands are accesses, and every access has
  a text (`OperandPrinted`). `ShortcutsAgreeHolds` is about two ways to one encoding: the row's flags set the same
  bits (`ShortcutCode`), and the type that `mc7p_operand_ref_type` finds by counting the type operands of the line is
  the one `mc7p_assemble_selected` takes by its place, whatever else the line holds (`ShortcutRefType`).
  `WholeStatementHolds` and `MeaningKeptHolds` say that the decoder is the assembler's inverse. First the code bytes:
  they match the row and give back flags and coded types (`CodeRead`, `FlagsKept`, `CodedKept`), since their bits are
  nobody else's. Then the operands: a walk along the parameters has, after each of them, read just the operands
  written so far and stands behind them (`WalkOne`, `WalkAll`). Last the choice: with `RowsApartAssumption` no other
  row begins there, so the row's statement is the one found, as long as the bytes (`ReadBack`). Whatever way
  `mc7p_assemble_one` took, it is a row's encoding (`ProperLineRead`). `ShownReadsBackHolds` goes the other way: the
  operands of a statement are what an operand decoder makes (`StatementMade`), and each of these prints as a text that
  is parsed as the same (`ShownOne`). `SettledHolds` puts the ways one behind the other: a line is assembled, its
  bytes are read, printed, parsed and assembled again. That the operands denote the same does not suffice, since a
  form has encodings of several lengths: it is shown form by form that an encoder looks only at what its operand
  denotes and at the type of a number, which decides whether it may be written but not its bytes (`OperandKept`, where
  the operand read again is the line's own place or number). The rest of the row is the same because the flags shown
  set the same bits, a coded type that shares its code with none comes back as itself, and the types of the line,
  counted, refer as before (`ShownLine`, `RowAgain`).
* **BlockFileProofs**: `HeaderHolds` from `HeaderInv`. `Reading` ties the reader's offset to the field's place in the
  header, so that a loaded block has read all 36 bytes; `Looped` is the invariant of the stamp's loops,
  kept inside a load since each stamp starts them afresh; `Dated` says that the dates read so far are
  those of their own stamps. `SectionsHold` from `SectionsInv`: the sections so far end where the
  next one is laid, at the sum of the header's sizes. `LoopsHold` is `DaysConserved` under the loader's specification.
  The invariant of the loops is `TypeOK`, `DaysConserved` and `DateExact` of `S7Date`. `DaysConserved`
  carries the sum of what was taken off, in closed form, so that the step over a year needs
  `DaysBefore(y + 1) = DaysBefore(y) + DaysInYear(y)`, which follows from the divisions by 4, 100 and 400;
  its last conjunct bounds the days left by the year's, which keeps `i` inside the table.
* **ClassicProofs**: `IInv` says that every line and every op is what the decoder returned for some call.
  `AgreementHolds` then is a statement about two calls for one address: `SixBytesSuffice` (with
  the same first four bytes, lengths of six and more decode alike), and lemmas for the buffers that end
  with the block, shorter than that. It is here that `AnalysisAgrees` needs rizin to pass at least six
  bytes. `WithinBlockHolds` follows from what each length needs, `ClassicTypeCorrect` from the remainder by
  the size of the address space. `NothingMissedHolds` says that the analysis, once its queue is empty, has
  visited every place that flow leads to: it assumes `EvenAddresses`, since a jump distance is counted in
  words and an odd size of the address space would wrap onto odd places.
  `ListingInStepHolds` and `TargetsExactHolds` are about programs put together from instructions. Their
  hypothesis `Orderly` asks only of each instruction by itself: that it decodes, alone, as all of its own bytes,
  and is not one of the word operations of finding `ClassicContext`. `ContextFree` then shows that it decodes
  alike in any surroundings, from what the routines' code sets have in common (`FormsDiffer`: what a
  four-byte routine accepts, no six-byte routine does); `InstructionAt` finds the bytes of the i-th
  instruction in the flattened program. TLC confirms that every program of `MCClassicBlock` is `Orderly`.

Every safety property of the passing runs is stated by a theorem. Only model-checked is liveness (`Terminates`,
`LoadEnds`, `Finishes`), for TLAPS does not reason about fairness and ENABLED.

The library's induction rules take an operator as a parameter, which the installed provers cannot instantiate.
Where a proof needs induction over a number it uses `Induction`, stated of a set: a set of
numbers that holds 0 and is closed under the next holds them all. `UNION` of a sum of sets is
parenthesised where it occurs, since its parse differs from tool to tool.

## Not modelled

* the tokenizer and the disassembly plugin: they colour spans of characters, and a text here is
  what it says. For the same reason the digits of reals, prefixed numbers, strings and the renderer's
  string buffer are one form each (the assembler reads none of them) or left out;
* the assembler inside `plugin_arch_mc7plus.c` (352-1401): an older copy that is not the one called;
* the arena's placement, growth and alignment: whether memory is held is modelled, not where;
* the race on `g_first` (two threads decode for the first time): rizin calls from one thread;
* `mc7_check_buffer` is a precondition on files; `mc7_info`, `mc7_entries`, `mc7_structure` copy or print;
* the text of classic instructions;
* the table generators, the command-line tool, the tests and scripts. The tests were read for what they
  expect: their byte strings are the instructions of `MCClassicBlock` and the forms of `MCAssembler`.

## Plan

1. (done) The decoder with its abstract stream, the entry points, the analysis plugin, the time stamps.
2. (done) The assembler against the decoder; the block loader; the classic decoder and plugins; their theorems
   where they speak of every input.
3. (done) `OneAtATime`, `MultiCountHonoured`, the plugin's types, and `ListingInStep`, `TargetsExact` and
   `NothingMissed` for every classic program. The assembler's types and its two encodings. The accesses of an op, and
   the scan of the map. That the encoder and the decoder agree, form by form.
4. (done) That a line's bytes read back, keep its meaning, print as what they stand for and settle, for every line.
5. Left: `Arena`: placement, growth and alignment; `LazyIndex`: two first callers of the
   decoder.
