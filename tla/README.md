# Verification of dmg-forensic

TLA+ models of the Apple disk-image readers and of the koly auditor in this
repository, TLC configurations that check them on small instances, and theorems
about them that TLAPS checks for every instance.

Paths are relative to the root of the repository. Line numbers of every
definition are in the `map` of `PROJECT.json`.

## 1. The system

| Part | Code | State | Operations |
|---|---|---|---|
| UDIF reader `DmgReader<R>` | `core/src/lib.rs` | file size, sector count, partitions and their runs (fixed at open), a cursor | `open`, `read`, `seek` |
| Metadata parsing | `core/src/lib.rs` `parse_plist`, `parse_mish` | two flags and a key, during open | one pass over XML events |
| Block codecs | `core/src/lib.rs` `decompress`, `LimitWriter` | an output buffer with a cap | one call per block; four third-party decoders and ADC |
| ADC decoder | `core/src/lib.rs` `adc_decompress`, `copy_back` | input position, output | token loop, byte loop |
| Shared source `DmgSource<R>` | `core/src/vfs.rs` | one `DmgReader` behind a `Mutex`, the recorded length | `len`, `read_at` from any thread |
| `SparseImageReader<R>` | `core/src/sparse.rs` | inverted band table, sizes, a cursor | `open`, `read`, `seek` |
| `SparseBundleReader` | `core/src/sparse.rs` | sizes, a cursor; the band files stay on disk | `open`, `read` (one file per call), `seek` |
| Info.plist parsing | `core/src/sparse.rs` `parse_info_plist` | a key and an element, during open | one pass over XML events |
| koly auditor | `forensic/src/lib.rs` | none | `audit_trailer`, `audit`, `audit_reader`, `audit_path` |
| `dmg4n6` | `cli/src` | none | `info`, `audit`, lines of output, exit code |
| Fuzz targets | `fuzz/fuzz_targets` | bytes still to be read | open, seek to 0, read in a loop up to a cap |

How they interact. A caller (a filesystem parser, `dmg4n6`, a fuzz driver) owns a
reader and calls it through `Read + Seek`. `DmgSource` is the one concurrent
part: threads share a reader, and with it its cursor, through a mutex. The
auditor and the reader read the same trailer with separate code (ADR 0003), on
purpose. The container file, the bundle directory and the third-party decoders
are the environment: the first two may fail any call, the bundle and an audited
file may be changed by another program, a decoder may fail or panic.

What is hard here, and what makes each part correct:

* **DmgReader** computes with fields it does not control, mixing checked,
  saturating, plain and narrowing arithmetic. Correct: on an undamaged image it
  is a virtual disk with exact bytes, however the calls are split; on any image
  it never leaves the file, never reports an end of data that is none, and never
  serves for one byte of the disk what belongs to another.
* **DmgSource** must hide the shared cursor: each `read_at` is one atomic read of
  its own window, it is whole or fails, and it returns, although a decoder may
  have poisoned the mutex.
* **Block decoding** must end, keep every codec's output within what the reader
  of the block reckons with, however the decoder portions it, and in ADC decode
  what the tokens stand for.
* **SparseImageReader** inverts a table that may name a band twice, never or
  beyond the disk, over a file that may end inside a slot.
* **SparseBundleReader** reads a band in several system calls beside whoever
  writes the bundle.
* **The auditor** must agree with the reader on what keeps an image from opening,
  on a file that changes under its hands, and what it prints must be the whole of
  what it found whenever it exits with 0.
* **The fuzz targets** must end on every input and leave no block of a small disk
  unread.

The `hazards` of `PROJECT.json` list the places in the code, with the properties
that watch them.

## 2. The modules

| Module | Models | Composes |
|---|---|---|
| `MachineInts` | u64, usize and i64 arithmetic of widths `MaxWord`, `MaxSize`: checked, saturating, narrowing | |
| `BlockCodecs` | what decoding a block may yield under a cap, and whether it can fail: the contract between `decompress` and the reader | `MachineInts` |
| `DiskBytes` | a byte of a buffer, named by where it comes from: a zero, a file offset, a position of a decoded block, or not written by the call | |
| `VirtualDisk` | **abstract**: what a `Read + Seek` virtual disk promises; `ChangingSpec` is the same beside a program that changes the container | |
| `Udif` | the pure part of `DmgReader`: outcomes of open, resolution of a sector, the outcomes of a read or seek | `BlockCodecs`, `DiskBytes` |
| `UdifContents` | **reference**: the bytes an image's runs give for each byte of the disk, in unbounded arithmetic; what an undamaged image is | `Udif` |
| `DmgReader` | one reader and its caller | `UdifContents`; implements `VirtualDisk` |
| `PlistEvents` | the events of the XML reader | |
| `BlkxPlist` | `parse_plist`, one XML event per step, with `parse_mish`; what a plist's tree holds, as the reference | `PlistEvents` |
| `ImageSource` | **abstract**: threads that read a fixed byte stream at their own offsets | |
| `DmgSource` | `read_at` step by step on several threads | `UdifContents`; implements `ImageSource` |
| `Bands` | the read window and the seek that both sparse readers share | |
| `SparseImage` | `SparseImageReader` and its caller | `Bands`; implements `VirtualDisk` |
| `InfoPlist` | `parse_info_plist` as a function of the events; what the pairs of an Info.plist say, as the reference | `PlistEvents` |
| `SparseBundle` | `SparseBundleReader`, its caller and a program that changes the bundle | `Bands`, `InfoPlist`; implements `VirtualDisk` (`ChangingSpec`) |
| `Adc` | the ADC decoder, token by token and byte by byte | |
| `Decompress` | `decompress` and `LimitWriter`: the loop of each codec under its cap | `BlockCodecs`, `Adc` |
| `BlockReference` | **reference**: the expansion of an ADC block, token by token; the contract of `BlockCodecs` as an invariant | `Decompress` |
| `KolyAudit` | the anomalies of a trailer, with the values they were found by and their severity | `Udif` |
| `Dmg4n6` | `info` and `audit` on a file that may grow or be cut, the reader and the auditor side by side, and the lines printed | `KolyAudit` |
| `FuzzDriver` | the loop that the fuzz targets share | `MachineInts` |
| `FuzzOpen`, `FuzzSparse` | that loop, or any other caller, over a reader | `FuzzDriver` with `DmgReader`, `SparseImage` |
| `UdifProofs`, `DmgReaderProofs`, `DmgSourceProofs`, `DecompressProofs`, `BlkxPlistProofs`, `Dmg4n6Proofs`, `SparseProofs`, `SparseBundleProofs` | theorems | the module each is about; `DmgReaderProofs` and `SparseProofs` go on to `FuzzOpen` and `FuzzSparse` |
| `MC*` | the instances of the runs | |

### How state and actions correspond to the code

**Images.** A model of an image (`Image` in `Udif`) is the record of what
`DmgReader::open` keeps of a file, with the facts that decide how open ends
(`magic`, `plistOk`, the plist's place). A run carries, besides its fields,
what decoding its block would yield: `plain` bytes, after which the block ends
properly (`intact`) or is corrupt. The bytes themselves are left out. A byte of
a buffer is the place it comes from, so a wrong byte is a byte of a wrong origin.

**DmgReader.** `Open`, `Read`, `SeekStart`, `SeekEnd`, `SeekCurrent` are the
methods. A read is resolved as in the code: the first partition whose hull has
the sector (`ServedBy`), the first of its runs that covers it, the saturated
offset (`BytesIntoRun`), the size of the slice, then `ServeFill`, `ServeRaw` or
`ServeBlock`, then `Advance`, the plain addition that ends the method.
`OverflowChecks` chooses between the build that panics there and the one that
wraps. `DecodedLengths` (in `BlockCodecs`) says what each codec does at its cap:
the stream decoders are cut (`take`), xz fails (`LimitWriter`), ADC finishes its
token.

**Decompress.** That contract, shown of the code. `TakeRead` is one portion that
`read_to_end` draws through `take(cap)`, `TakeEnd` its end and `StreamFails` a
decoder that reports corruption, at the damage or on reading ahead. `XzWrites` is
one `LimitWriter::write`, of a portion as large as the decoder likes, `XzEnds` and
`XzFails` the ends of `xz_decompress`. `AdcStep` is a step of `Adc`. Only the
number of bytes a third-party decoder has yielded is kept, `got`.

**DmgSource.** The program counter of a thread is its place in `read_at`:
`Bound` (before the lock), `Lock`, `SeekToOffset`, one `ReadTurn` per turn of the
loop, `Finish`. `Return` drops the guard with every way out. `DecoderPanics` is a
third-party decoder unwinding through the guard: the mutex is poisoned, the
cursor stays. `lock().unwrap_or_else(PoisonError::into_inner)` is a `Lock` that
does not look at the flag.

**BlkxPlist.** `EnterBlkx`, `EnterData`, `RememberKey`, `TakeBlock`,
`RefuseBlock` and `LeaveBlkx` are the arms of the `match` that change a flag, the
key or the result, `Ignore` is all others, `Eof` and `Damaged` the ends. The
document is the tree its events come from, and the parser never looks at it.
Texts are strings; `Mish` says which are base64 and of what, names that happen
to be base64 of a few bytes included. Its result is the `plistOk` and the
`partitions` of a `Udif` image.

**SparseBundle.** `Open` scans the events of Info.plist (`ParseInfoPlist`) and is
compared, as the `Disks` of `VirtualDisk`, with what its pairs say (`Describes`).
`Read` begins, `OpenBand`, `ProbeLength` and one `Copy` per
system call of `read_exact` follow, `Fail` is any of them failing, or the end of
a file that was longer when it was probed. Between any two of them the other
program may `Overwrite` or `Truncate` a band file in place, or `Unlink` or
replace it, in which case the open handle keeps the old file. `seen` is a history
variable: the values each byte of the disk has had since the call began.

**Adc.** A byte of the output is the position in the input of the literal it
stems from. `More` is the loop's condition, `Literal`, `LongMatch`, `ShortMatch`
and `Truncated` its branches, `CopyByte` one turn of `copy_back`.

**Dmg4n6.** The file changes (`Change`: it grows, or is cut) between `MeasureFile`
and `AuditReader`, the seek and the read of `audit_reader`. The anomalies it
returns become lines (`Report`), which `PrintLine` prints one by one; `PrintFails`
is the `?` of a `writeln!`, after which the lines already out stay. The exit code
is 0, 2, or 101 where `eprintln!` panics because stderr is closed too. `RunInfo`
judges the same file with `DmgReader`'s `OpenOutcomes`.

**FuzzOpen, FuzzSparse.** The caller is decided at the start: the fuzz target
(`phase` "open", "seek", "read", "done") or a free one (`FreeCaller`), which makes
any calls in any order. The free part is the specification of the reader itself.
`AfterOpen`, `AfterSeek` and `AfterRead` are what the target does with a reply.

Definitions marked `Fault:` are what a plausible slip would make of the
definition that follows them. They are used by no specification: each property
of each run is violated when the slip takes the definition's place (the pairs
are the `mutants` of `PROJECT.json`), so none holds for want of anything to fail.

## 3. The runs

| Run | Checks | Instance |
|---|---|---|
| `dmg_malformed` | `TypeOK`, `StaysInFile`, `NoSpuriousEof`, `BytesComeFromCoveringRun`, `FuzzedDiskIsReadWhole`, `FuzzingNeverPanics`, `FuzzingEnds` | a four-bit u64, sectors of 2 bytes, containers of up to 8; headers, run geometry, block placement, decoded lengths, lists of runs and of partitions with gaps and overlaps, disks up to the end of u64; any caller, and `fuzz_open` with a buffer of 4 and a cap of 6 |
| `dmg_sound` | `OnlyIoFails`, `ImplementsVirtualDisk` | a five-bit u64; disks of 3 and 4 sectors cut into one to three runs and one or two partitions in every order; overflow checks off |
| `dmg_source` | `TypeOK`, `CursorBelongsToHolder`, `StaysInWindow`, `CompleteOrFail`, `OnlyDecodersPanic`, `AnswersFromOwnWindow`, `EveryCallReturns`, `ImplementsImageSource` | two threads, two calls each, one decoder panic; two sound images and five damaged ones |
| `sparse_image` | `TypeOK`, `BytesComeFromOwnBand`, `ImplementsVirtualDisk`, `FuzzedDiskIsReadWhole`, `FuzzingEnds` | a table of three slots, all tables over small bands, files cut at and inside a slot; any caller, and `fuzz_sparse` with a buffer of 5 and a cap of 7 |
| `sparse_bundle` | `TypeOK`, `ImplementsVirtualDisk` | two band files, full, short, overlong or missing; two changes by the other program |
| `blkx_plist` | `TypeOK`, `PartitionsAreBlkxBlocks`, `ExtractsAllPartitions` | a blkx array of two entries before or after a section with data of its own, ten kinds of block, other fields around the data; documents whose names break `Named`, of which only `TypeOK` speaks; a ten-bit usize |
| `decompress` | `TypeOK`, `OutputIsBounded`, `DecodesToPrefix`, `DecodesAsTheReaderIsTold`, `DecodingEnds` | ADC: all blocks of up to four bytes over eight byte values, of six over four, and longer ones with matches of 67; the other codecs: up to eight bytes, sound or corrupt, in all portions; caps below, at and above them |
| `dmg4n6` | `TypeOK`, `ReportIsExact`, `NoFalseAssurance`, `NoFalseAlarm` | trailers around the end of the file and of a four-bit u64; the file changes once; every line may fail to be written |
| `dmg_short_block`, `dmg_overflow`, `dmg_past_end`, `adc_cap` | one statement of the repository each, **violated** | as `dmg_malformed` and `decompress` |

What they show. On undamaged images the UDIF reader, and on every file that opens
the two sparse readers, are virtual disks: the state of the code maps to that of
`VirtualDisk` and each step to one of its steps. On damaged images the UDIF
reader keeps four weaker promises, which are enough for `DmgSource` to keep
nearly all of its own: an answer is whole or an error, and holds nothing from
outside the caller's window except bytes that a short block left unwritten.

The contract on which the model of the reader rests, that a block decodes to one
of `DecodedLengths` or fails only if `DecodeCanFail`, is itself checked against the
decoding loops (`DecodesAsTheReaderIsTold`). Malformed images can overflow the
cursor (`dmg_overflow`), but not under `fuzz_open`, whose cap keeps it far below
the end of u64 (`FuzzingNeverPanics`): that fuzz target could not find it.

### Why the bounds are enough

* *Integers.* The code uses 64-bit values in comparisons, sums, and products with
  the sector size. Fifteen or thirty-one in place of `u64::MAX` keeps the order
  of the values that matter: zero, inside the file, its end, past it, the point
  where the product saturates and the point where the sum does. Sectors of two
  bytes still have an inside.
* *Images.* Two runs and two partitions give every relation between intervals
  (before, touching, overlapping, containing, with a gap); a third changes
  nothing that `find` does with the first that fits.
* *Threads.* The state shared is one cursor and one mutex; interference needs a
  second thread, and a second call of each to meet a poisoned mutex and a cursor
  that another call left.
* *Bundles.* A window lies in one band; the second band is there for what must
  not show. Two changes suffice to make the probe and the copy see three moments.
* *Plists.* The scan's state is two flags and a key. A second entry meets the flag
  that the first leaves, the section after the array and the one before it meet
  the key and the other flag.
* *ADC.* A match can only refer to what precedes it: a literal, a match and a
  second match are the chain. Eight byte values have every token form at its
  smallest and, where it fits, its largest.
* *Audits.* One change between the measurement and the reading is what the auditor
  can meet; before or after the two it is another file. A trailer of two
  pointers and a version gives reports of none to three lines, so a report can
  fail before, between and after lines.
* *Fuzz targets.* A cap that is no multiple of the buffer, buffers that end inside
  sectors and bands, and disks below, at and above the cap.
* The theorems of section 5 have none of these bounds.

Bounds by name: `MaxCalls`, `MaxPanics` (DmgSource), `MaxEdits` (SparseBundle),
`MaxChanges` (Dmg4n6); `FuzzCap` and `FuzzBufLen` are the 16 MiB and the 64 KiB of
the fuzz targets; `Blocks`, `Inputs`, `Caps` are the blocks decoded; `ReadLens`, `SeekStarts`, `SeekDeltas`, `Offsets`,
`BufLens` are the arguments of callers. Deadlock is not checked in `dmg_source`
(every thread has made its calls), `decompress` and `adc_cap` (the block is
decoded), `blkx_plist` (the plist is read), and the runs on `FuzzOpen` and
`FuzzSparse` (the target is done with its input), which end.

### Fairness

`DmgSource!FairSpec` is weak fairness of each thread's steps inside `read_at`:
the operating system runs a runnable thread, and the loop has no other wait than
the mutex. With a bounded number of calls, the mutex is eventually free for good,
so that weak fairness of `Lock` is enough; `std::sync::Mutex` promises no order
among its waiters and none is assumed. Calls themselves are not fair: nobody has
to call. `Decompress!FairSpec` is weak fairness of the next step of straight-line
code over decoders that hand out a byte or end. `FuzzSpec` is weak fairness of the
fuzz target's next step, which is a call that returns or the code between two; of
other callers nothing is assumed.

### Where the code and its documents differ

* A block that decodes shorter than its run is served as if whole: `read` returns
  `Ok(n)` having written less (`core/src/lib.rs:291-303`; run `dmg_short_block`).
* `self.position += to_read as u64` is not saturating (`core/src/lib.rs:302`,
  against the comment at line 227; run `dmg_overflow`). `DmgSource` cannot reach
  it (`OnlyDecodersPanic`).
* A read is not bounded by the disk (`core/src/lib.rs:233`; run `dmg_past_end`),
  as those of the sparse readers are.
* ADC passes its cap by up to 127 bytes (`core/src/lib.rs:391`, against the
  comment at line 341; run `adc_cap`).
* A value of `band-size` or `size` in another element than `<integer>`, or an empty
  one, is passed over (`core/src/sparse.rs:345`), against the comment at line 302:
  "Any non-integer value under a size key is a loud error". Alone it makes `open`
  report a missing key, which is loud; beside an integer of the same key the bundle
  opens. No run shows this one. `sparse_bundle` leaves the case out: its Info.plists
  have such values only where no integer stands beside them, and are refused. The
  theorems have every Info.plist, with `Describes` counting, as the code does, the
  last integer of a key and no other value.

## 4. Not modelled

* The third-party decoders (zlib, bzip2, xz, LZFSE), the XML parser and base64:
  not in the repository. `Decompress` and `DecoderPanics` say what the code around
  them relies on: decoders hand out their bytes in portions, and end, fail or panic.
* An Info.plist that is cut off between two events without an XML error. The code
  reads it like the same pairs properly closed, which are modelled.
* Which error a bad block makes of `DmgReader::open`: `Udif` has `bad_plist` for
  every plist that is refused. `BlkxPlist` keeps `BadPlist` and `BadMish` apart.
* XML text that a comment or an entity splits in two, attributes and nesting
  other than a plist's. `DmgReader` takes what `parse_plist` returns as input;
  every image record is one it can return.
* 32-bit targets, where `available_in_run as usize` loses bits and is 0 for a run of
  4 GiB: the definitions have the cast (`AsSize`), but the runs of the readers have
  `MaxSize = MaxWord`, and so assume the theorems marked "64-bit" in section 5.
* The category and the evidence of an anomaly, which only consumers of the
  `Observation` trait outside the repository read, the wording of notes and
  errors, argument text, CI.
* A UDIF or sparse container that changes while it is open, other than by
  failing a call, and an audited file that is rewritten in place without changing
  its length.
* The `bands/` directory of a sparse bundle as such: a bundle without it is one
  whose bands are all absent.

## 5. Proofs

`tlapm` checks the theorems for all values of the constants. In the table,
"64-bit" stands for `MaxSize = MaxWord`, a target whose usize is as wide as u64.

| Module | Theorems | Under |
|---|---|---|
| `UdifProofs` | `SoundRunIsFound` | |
| `DmgReaderProofs` | `TypeCorrect`, `StaysInFileHolds` | |
| | `NoSpuriousEofHolds`, `BytesComeFromCoveringRunHolds` | 64-bit |
| | `OnlyIoFailsHolds` | 64-bit, `SeeksAreSafe` |
| | `ImplementsVirtualDiskHolds` | 64-bit, `SeeksAreSafe`, `UndamagedFiles` |
| | `FuzzingNeverPanicsHolds` | |
| | `FuzzedDiskIsReadWholeHolds` | 64-bit |
| `DmgSourceProofs` | `SourceTypeCorrect`, `CursorBelongsToHolderHolds`, `StaysInWindowHolds`, `OnlyDecodersPanicHolds` | |
| | `CompleteOrFailHolds`, `AnswersFromOwnWindowHolds`, `ImplementsImageSourceHolds` | 64-bit |
| `DecompressProofs` | `DecompressTypeCorrect`, `OutputIsBoundedHolds`, `DecodesToPrefixHolds`, `DecodesAsTheReaderIsToldHolds` | |
| `BlkxPlistProofs` | `ParserTypeCorrect`, `PartitionsAreBlkxBlocksHolds`, `ExtractsAllPartitionsHolds` | |
| `Dmg4n6Proofs` | `Dmg4n6TypeCorrect`, `ReportIsExactHolds`, `NoFalseAssuranceHolds`, `NoFalseAlarmHolds` | |
| `SparseProofs` | `SparseTypeCorrect`, `BytesComeFromOwnBandHolds`, `ImplementsVirtualDiskHolds`, `FuzzedSparseDiskIsReadWhole` | |
| `SparseBundleProofs` | `InfoPlistIsReadAsSaid` | |
| | `SparseBundleTypeCorrect`, `ImplementsVirtualDiskHolds` | `NoFileIsApart` |

### What is assumed

* The named assumptions of the modules: the constants have their types, a sector
  has a positive size, `NoFile` is the value of no file or disk. Those that say
  something about the world are: no file ends at `u64::MAX` (`UdifAssumption`);
  the fields of a sparse header are u32, so that no product of them saturates
  (`SparseAssumption`); the cap and the buffer of a fuzz target fit u64 together
  (`FuzzAssumption`).
* `SeeksAreSafe`: with overflow checks, no caller passes `i64::MIN`, which
  `(-n) as u64` cannot negate (`core/src/lib.rs:316`).
* `UndamagedFiles`: every file is `Sound`, the definition of `UdifContents`. The
  theorems without it hold of every file.
* `NoFileIsApart`: the value for no file is none of the contents a file can have.
* `SlackAssumption`: the reader reckons with at least the 127 bytes by which ADC
  passes its cap (`AdcSlack`), which `adc_cap` shows to be what it takes.
* `LiteralsAssumption`: the names that the parsers compare with are strings.
* `Named`, a condition inside the two properties of the property list: sections
  have different names, and no key is empty, `blkx`, or the base64 of a block. The
  proof needs each part. A text in the place of a key is looked at as any other:
  the parser would take a key that is a block for one, where an empty `<data/>`
  left `in_data` set, and would enter the array again after a second `blkx`. An
  empty key leaves the one before it in force.
* `Pair`, likewise: a key of Info.plist is not empty. An empty one would have its
  value taken for that of the key before it.

### The arguments

**One UDIF read.** `UdifProofs` reduces it to `ReadOutcomesAreGood`: every
outcome moves the cursor by what it returns, returns no more than it was asked
for, takes nothing from outside the file, panics only past the end of the disk,
and, where casts are exact, writes only bytes that a covering run gives. Its
heart is `OffsetIsExact`: a run that `run_for` found contains the cursor, and
then the saturated offset is the exact one, or the run ends beyond u64.
`DmgReader`'s types are inductive as they stand, and its other properties follow
from the lemma step by step.

**Undamaged images.** Every sector lies in exactly one visible run and no two
partitions reserve the same sectors, so the first partition whose hull has the
sector is the one whose run holds it (`SoundServing`, and `SoundRunIsFound` of
every byte), whatever their order. That
run ends on the disk, so no offset is cut or saturates, and the outcome is the
disk's bytes or an I/O error (`SoundReadIsExact`).

**Shared source.** `CursorBelongsToHolder` alone is not inductive: that a turn
moves the cursor by what it returns holds only below the end of the disk, so
`IInv` adds that a thread's progress stays in its window (`StaysInWindow`), and
then the cursor cannot overflow (`OnlyDecodersPanic`). `AInv`, on top of it, says
of every thread in the loop that what it has filled comes from its own window,
and of every answer that it is whole; `WInv`, that beyond what is filled the
buffer is untouched and, on a sound image, that what is filled was written. With
the three, a thread's return is an `Answers` or `Fails` of `ImageSource`, and all
its other steps stutter.

**Block decoding.** The types say that a byte of ADC output stems from a position
already read. `OutputIsBounded` is inductive once a match is said to leave room:
the output and the bytes left of the match together stay below the cap and 127.

**What a block decodes to.** `Expansion` is a recursive function over the tokens.
`ReferenceInv` says that between two tokens the decoder stands at an expansion of
the block: the same place, the same bytes. During a match, the bytes still to
be copied continue it (`Continues`), because each copied byte is the one an
offset back, which is what `Periodic` says of all of them at once. The cap only
ends the decoder early, at a prefix of the expansion (`OutputIsPrefix` says it of
every moment, the middle of a match included), and `AdcAsTold` and
`OthersAsTold` compare where it ends with the contract.

**Property list.** A state of the parser is what the scan of the events so far
makes of the texts taken so far. `ParserInv` says it forwards: what is still to
be read takes the result from here to what the scan of the whole document gives
(`Follows`), so one step is one unfolding of the scan. The scan of a whole
document is then found along its tree: field by field (nothing but data is
taken), entry by entry, and section by section (nothing outside blkx), with the
key and the flags at each seam.

**Auditor.** `AuditInv`: what stands on stdout is the beginning of the report and
`toPrint` the rest of it, and the report lists exactly the offences of the
trailer that was read (`AuditIsExact`, check by check). `NoFalseAssurance` and
`NoFalseAlarm` then compare the offences with the outcomes of open.

**Sparse image.** The inverted table and the table agree (`InvertedFacts`): a band
has the last slot that names it, and a last one exists because slots are bounded.
A window stays in one band, where the place of a byte is linear in the cursor
(`WindowFacts`), and the slots that `div_ceil` counts are those that begin in the
file (`StoredSlotsFacts`). So each read is a step of `VirtualDisk`
(`ServedBytes`).

**Sparse bundle.** The file that the reader has open was the band's until its
name was gone, and nobody changes it after that. Hence `HandleShows`: each byte
it shows now is one that the bundle has shown since the call began. `Copying`
says the same of the bytes copied so far, and of the zeros that the reader owes
past the length it probed, though the file may have grown since. Opening the
band, probing and copying stutter, the last of them answers, and a change by the
other program is one of the virtual disk's.

**Info.plist.** The scan of the events of a pair sets the value its key calls for,
if its element is the right one, and leaves the scan at rest (`PairRead`). Pair by
pair, what has been found is the last value given so far, or the scan has
failed. At the end of the pairs this is `Said` and `NumberSaid`, so the disk that
`Open` takes is the one that `Described` has.

**Fuzz targets.** The count of the loop and the cursor of the reader move
together: before each turn the cursor and the count add up to the goal
(`OnItsWay`), which is below the cap.

### Model-checked only

Every invariant and every refinement that a passing run checks is stated by a
theorem. Only liveness is not: `EveryCallReturns`, `DecodingEnds` and
`FuzzingEnds` rest on weak fairness, which the installed provers do not reach.

Where a proof is by induction over data (the events of a document, the pairs of
Info.plist, the tokens of a block), it takes a least counterexample of a
well-founded order (`WFMin`, in the lemma `ClosedUnderSuccessor`), since the
induction rules of the library take an operator. Recursive functions are
unfolded by lemmas such as `JoinedUnfolds` and `AfterUnfolds`.

## 6. Plan

Done, in this order: `MachineInts`, `DiskBytes`, `Udif`, `UdifContents`,
`VirtualDisk`, `DmgReader` (the core of the repository), `DmgSource` with
`ImageSource`, the sparse readers, ADC, the auditor, the property lists; the
decoding of blocks under their caps as the contract the reader rests on, the
auditor's report on a changing file, and the fuzz targets; the proofs of section
5.

Left: for the three liveness properties, the safety half of their argument, that
each step of a decoding, of a fuzz target and of a thread in `read_at` lowers a
measure. A 32-bit target is the one configuration of the code that no run has;
the operators of `MachineInts` take it (`MaxSize < MaxWord`), and what the
theorems promise there is the part of the table without "64-bit".
