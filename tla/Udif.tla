------------------------------- MODULE Udif --------------------------------
(***************************************************************************)
(* The pure part of DmgReader (core/src/lib.rs): which image files open,   *)
(* how a virtual position is resolved to a partition and a run, and the    *)
(* set of outcomes of one read or seek call.                               *)
(*                                                                         *)
(* An image is the record of what DmgReader::open keeps of a file, with    *)
(* the facts of the file that decide the outcome of open.  The partitions  *)
(* are what parse_plist returned.  A run says what decoding its block      *)
(* would yield: `plain` bytes, after which the block ends properly         *)
(* (intact) or the decoder reports corruption.                             *)
(***************************************************************************)
EXTENDS BlockCodecs, DiskBytes, Sequences, FiniteSetsExt

CONSTANTS
  Files,           \* the image files considered
  SectorSize,      \* bytes per sector (512)
  KolySize,        \* bytes of the koly trailer (512)
  MaxRunBytes,     \* cap on the decoded size of one block (64 MiB)
  OverflowChecks   \* built with overflow-checks (debug and fuzz builds)

FillKinds == {"zero", "ignore"}
MarkerKinds == {"comment", "term"}
Kinds == FillKinds \cup {"raw"} \cup BlockKinds \cup MarkerKinds \cup {"other"}

BlkxRun ==
  [kind : Kinds, sectorStart : Word, sectorCount : Word,
   dataOffset : Word, dataLength : Word, plain : Nat, intact : BOOLEAN]

Partition == [dataOffset : Word, sectorBase : Word, runs : Seq(BlkxRun)]

Image ==
  [size : 0..MaxSize, magic : BOOLEAN, xmlOffset : Word, xmlLength : Word,
   plistOk : BOOLEAN, sectorCount : Word, partitions : Seq(Partition)]

ASSUME UdifAssumption ==
  /\ SectorSize \in Nat \ {0}
  /\ KolySize \in Nat \ {0}
  /\ MaxRunBytes \in Nat
  /\ AdcSlack \in Nat
  /\ OverflowChecks \in BOOLEAN
  /\ Files \subseteq Image
  \* a file offset is an i64 in the kernel: no file ends at u64::MAX
  /\ \A f \in Files : f.size < MaxWord

-----------------------------------------------------------------------------
(* Opening *)

(* The results open can have for f.  The file is read through seeks and    *)
(* reads that may fail at every step.                                      *)
OpenOutcomes(f) ==
  {"io"} \cup
  IF f.size < KolySize THEN {"too_small"}
  ELSE IF ~f.magic THEN {"not_a_dmg"}
  ELSE IF ~Fits(f.xmlOffset + f.xmlLength) \/ f.xmlOffset + f.xmlLength > f.size
       THEN {"bad_plist"}
  ELSE IF ~f.plistOk THEN {"bad_plist"}
  ELSE {"ok"}

OpenStatuses == {"ok", "io", "too_small", "not_a_dmg", "bad_plist"}

DiskSize(f) == SatMul(f.sectorCount, SectorSize)

-----------------------------------------------------------------------------
(* Resolving a sector *)

Visible(run) == run.kind \notin MarkerKinds

RunEnd(run) == SatAdd(run.sectorStart, run.sectorCount)

(* Fault: the end of the runs taken for their last sector. *)
BelowTotalSectorsSlip(part, s) ==
  \E i \in DOMAIN part.runs : Visible(part.runs[i]) /\ s <= RunEnd(part.runs[i])

(* s < total_sectors(), the largest end of a visible run. *)
BelowTotalSectors(part, s) ==
  \E i \in DOMAIN part.runs : Visible(part.runs[i]) /\ s < RunEnd(part.runs[i])

ContainsSector(part, vsec) ==
  /\ vsec >= part.sectorBase
  /\ BelowTotalSectors(part, vsec - part.sectorBase)

(* Fault: the same, for one run. *)
CoversSlip(run, local) ==
  Visible(run) /\ local >= run.sectorStart /\ local <= RunEnd(run)

Covers(run, local) ==
  /\ Visible(run)
  /\ local >= run.sectorStart
  /\ local < RunEnd(run)

(* Indices of the partitions with vsec, and of the runs that cover local; *)
(* `find` takes the least.                                                 *)
PartitionsWith(f, vsec) ==
  {i \in DOMAIN f.partitions : ContainsSector(f.partitions[i], vsec)}
RunsCovering(part, local) ==
  {i \in DOMAIN part.runs : Covers(part.runs[i], local)}

-----------------------------------------------------------------------------
(* One read call *)

FailureAfter(status, pos, buf) ==
  [status |-> status, pos |-> pos, n |-> 0, buf |-> buf]

Failure(status, pos, len) == FailureAfter(status, pos, UntouchedBuffer(len))

(* `self.position += to_read as u64`, unsaturated: it panics under         *)
(* overflow checks and wraps without them.                                 *)
Advance(pos, n, buf) ==
  IF Fits(pos + n)
  THEN [status |-> "ok", pos |-> pos + n, n |-> n, buf |-> buf]
  ELSE IF OverflowChecks
  THEN [status |-> "panic", pos |-> pos, n |-> 0, buf |-> buf]
  ELSE [status |-> "ok", pos |-> pos + n - (MaxWord + 1), n |-> n, buf |-> buf]

(* Fault: a read that always starts at a sector's first byte. *)
BytesIntoRunSlip(part, run, pos) ==
  SatMul((pos \div SectorSize) - part.sectorBase - run.sectorStart, SectorSize)

BytesIntoRun(part, run, pos) ==
  SatAdd(SatMul((pos \div SectorSize) - part.sectorBase - run.sectorStart,
                SectorSize),
         pos % SectorSize)

AvailableInRun(run, into) == SatSub(SatMul(run.sectorCount, SectorSize), into)

(* Zero and ignore runs fill the slice. *)
ServeFill(pos, toRead, len) ==
  {Advance(pos, toRead, [i \in 1..len |-> IF i <= toRead THEN ZeroByte ELSE StaleByte])}

RawBytes(p, n, len) ==
  [i \in 1..len |-> IF i <= n THEN FileByte(p + i - 1) ELSE StaleByte]

(* Fault: the offset is compared with the file, not the end of the slice. *)
ServeRawSlip(f, part, run, pos, into, toRead, len) ==
  LET p == part.dataOffset + run.dataOffset + into
  IN  IF Fits(p) /\ p <= f.size
      THEN {Advance(pos, toRead, RawBytes(p, toRead, len))}
      ELSE {Failure("err", pos, len)}

(* A raw run is copied from the file if the bytes lie inside it; the copy  *)
(* may fail with a part of them written.                                   *)
ServeRaw(f, part, run, pos, into, toRead, len) ==
  LET p == part.dataOffset + run.dataOffset + into
  IN  IF Fits(p) /\ SatAdd(p, toRead) <= f.size
      THEN {Advance(pos, toRead, RawBytes(p, toRead, len))} \cup
           {FailureAfter("io", pos, RawBytes(p, n, len)) : n \in 0..toRead}
      ELSE {Failure("err", pos, len)}

(* A block is decoded whole and the slice copied from it.  A block shorter *)
(* than its run leaves the rest of the slice as it was, and to_read is     *)
(* still what the call returns.                                            *)
CopyDecoded(pos, block, start, decoded, toRead, len) ==
  IF start >= decoded THEN Failure("err", pos, len)
  ELSE Advance(pos, toRead,
               [i \in 1..len |-> IF i <= toRead /\ start + i <= decoded
                                 THEN DecodedByte(block, start + i)
                                 ELSE StaleByte])

ServeBlock(f, part, run, pos, into, toRead, len) ==
  LET block == part.dataOffset + run.dataOffset
      expected == SatMulSize(AsSize(run.sectorCount), SectorSize)
  IN  IF \/ ~Fits(block) \/ ~Fits(block + run.dataLength)
         \/ block + run.dataLength > f.size
         \/ expected > MaxRunBytes
      THEN {Failure("err", pos, len)}
      ELSE {Failure("io", pos, len)}
           \cup {o \in {Failure("err", pos, len)} : DecodeCanFail(run, expected)}
           \cup {CopyDecoded(pos, block, AsSize(into), n, toRead, len) :
                   n \in DecodedLengths(run, expected)}

(* Fault: what is left of the run is served, however small the buffer. *)
ServeRunSlip(f, part, run, pos, len) ==
  LET into == BytesIntoRun(part, run, pos)
      toRead == AsSize(AvailableInRun(run, into))
  IN  IF run.kind \in FillKinds THEN ServeFill(pos, toRead, len)
      ELSE ServeRaw(f, part, run, pos, into, toRead, len)

ServeRun(f, part, run, pos, len) ==
  LET into == BytesIntoRun(part, run, pos)
      toRead == Lesser(len, AsSize(AvailableInRun(run, into)))
  IN  CASE run.kind \in FillKinds -> ServeFill(pos, toRead, len)
        [] run.kind = "raw" -> ServeRaw(f, part, run, pos, into, toRead, len)
        [] run.kind \in BlockKinds -> ServeBlock(f, part, run, pos, into, toRead, len)
        [] OTHER -> {Failure("err", pos, len)}

(* The first run of the first partition that has the sector: the empty set *)
(* when no partition has it, or none of that partition's runs covers it.   *)
ServedBy(f, vsec) ==
  LET parts == PartitionsWith(f, vsec)
      part == f.partitions[Min(parts)]
      runs == RunsCovering(part, vsec - part.sectorBase)
  IN  IF parts = {} THEN {}
      ELSE IF runs = {} THEN {}
      ELSE {[part |-> part, run |-> part.runs[Min(runs)]]}

ServeSector(f, pos, len) ==
  LET serving == ServedBy(f, pos \div SectorSize)
  IN  IF serving = {} THEN {Failure("err", pos, len)}
      ELSE UNION {ServeRun(f, pr.part, pr.run, pos, len) : pr \in serving}

ReadOutcomes(f, pos, len) ==
  IF len = 0 \/ pos >= DiskSize(f)
  THEN {Advance(pos, 0, UntouchedBuffer(len))}
  ELSE ServeSector(f, pos, len)

-----------------------------------------------------------------------------
(* One seek call: `(-n) as u64` overflows for i64::MIN. *)

SeekFrom(base, d) == IF d >= 0 THEN SatAdd(base, d) ELSE SatSub(base, -d)

SeekOutcome(pos, base, d) ==
  IF d = MinDelta /\ OverflowChecks THEN [status |-> "panic", pos |-> pos]
  ELSE [status |-> "ok", pos |-> SeekFrom(base, d)]
=============================================================================
