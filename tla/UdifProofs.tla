----------------------------- MODULE UdifProofs -----------------------------
(***************************************************************************)
(* Facts about one read call of DmgReader, for every image and every width *)
(* of the machine integers; then, where usize is as wide as u64, about one *)
(* on an undamaged image: it fails only for the container, and what it     *)
(* returns is the disk's.                                                  *)
(*                                                                         *)
(* The argument for undamaged images: every sector of the disk lies in a   *)
(* visible run, no two partitions reserve the same sector, so the first    *)
(* partition that has the sector is the one whose run holds it             *)
(* (SoundServing); that run ends on the disk, and none of its offsets is   *)
(* cut or saturates.                                                       *)
(***************************************************************************)
EXTENDS UdifContents, FiniteSetTheorems, WellFoundedInduction, TLAPS

-----------------------------------------------------------------------------
(* Arithmetic *)

(* Multiplication by a number of bytes is monotone. *)
LEMMA TimesMonotone ==
  ASSUME NEW a \in Nat, NEW b \in Nat, NEW s \in Nat, a <= b
  PROVE  a * s <= b * s
<1>1. PICK d \in Nat : b = a + d
  BY b - a \in Nat
<1>2. b * s = a * s + d * s
  BY <1>1
<1>3. d * s \in Nat /\ a * s \in Nat
  OBVIOUS
<1>. QED  BY <1>2, <1>3

(* A position is its sector's first byte and an offset inside the sector. *)
LEMMA SectorOfPosition ==
  ASSUME NEW pos \in Nat, NEW s \in Nat \ {0}
  PROVE  /\ pos \div s \in Nat
         /\ pos % s \in 0..s - 1
         /\ pos = (pos \div s) * s + (pos % s)
  BY Z3

(* A narrowing cast is exact on values of the narrow type. *)
LEMMA AsSizeExact ==
  ASSUME NEW n \in 0..MaxSize
  PROVE  AsSize(n) = n
  BY WordAssumption, Z3 DEF AsSize

LEMMA AsSizeType ==
  ASSUME NEW n \in Nat
  PROVE  AsSize(n) \in 0..MaxSize
  BY WordAssumption, Z3 DEF AsSize

(* `find` finds an index that satisfies its predicate. *)
LEMMA MinIsMember ==
  ASSUME NEW S \in SUBSET Nat, S # {}
  PROVE  Min(S) \in S
<1>. DEFINE Less == {ss \in Nat \X Nat : ss[1] < ss[2]}
<1>1. IsWellFoundedOn(Less, Nat)
  BY NatLessThanWellFounded DEF OpToRel
<1>2. PICK m \in S : \A k \in S : <<k, m>> \notin Less
  <2>. HIDE DEF Less
  <2>. QED  BY <1>1, WFMin
<1>3. ASSUME NEW k \in S
      PROVE  m <= k
  <2>1. k \in Nat /\ m \in Nat /\ <<k, m>> \notin Less
    BY <1>2
  <2>2. k < m => <<k, m>> \in Less
    BY <2>1
  <2>. QED  BY <2>1, <2>2
<1>. QED  BY <1>3 DEF Min
-----------------------------------------------------------------------------
(* Resolving a sector *)

(* The run that serves a sector is a run of the image, of a partition that *)
(* starts no later than the sector, and it covers the sector.              *)
LEMMA ServedByCovers ==
  ASSUME NEW f \in Image, NEW vsec \in Nat, NEW pr \in ServedBy(f, vsec)
  PROVE  /\ pr.part \in Partition /\ pr.run \in BlkxRun
         /\ vsec >= pr.part.sectorBase
         /\ Covers(pr.run, vsec - pr.part.sectorBase)
         /\ \E i \in DOMAIN f.partitions :
              /\ pr.part = f.partitions[i]
              /\ \E j \in DOMAIN f.partitions[i].runs : pr.run = f.partitions[i].runs[j]
<1>. DEFINE parts == PartitionsWith(f, vsec)
            i == Min(parts)
            part == f.partitions[i]
            runs == RunsCovering(part, vsec - part.sectorBase)
            j == Min(runs)
<1>1. parts # {} /\ runs # {} /\ pr = [part |-> part, run |-> part.runs[j]]
  BY DEF ServedBy
<1>2. f.partitions \in Seq(Partition)
  BY DEF Image
<1>3. i \in DOMAIN f.partitions /\ ContainsSector(part, vsec)
  <2>1. parts \in SUBSET Nat
    BY <1>2 DEF PartitionsWith
  <2>2. i \in parts
    BY <1>1, <2>1, MinIsMember
  <2>. QED  BY <2>2 DEF PartitionsWith
<1>4. part \in Partition
  BY <1>2, <1>3
<1>5. part.runs \in Seq(BlkxRun)
  BY <1>4 DEF Partition
<1>6. j \in DOMAIN part.runs /\ Covers(part.runs[j], vsec - part.sectorBase)
  <2>1. runs \in SUBSET Nat
    BY <1>5 DEF RunsCovering
  <2>2. j \in runs
    BY <1>1, <2>1, MinIsMember
  <2>. QED  BY <2>2 DEF RunsCovering
<1>7. part.runs[j] \in BlkxRun
  BY <1>5, <1>6
<1>8. pr.part = part /\ pr.run = part.runs[j]
  BY <1>1
<1>9. vsec >= part.sectorBase
  BY <1>3 DEF ContainsSector
<1>. HIDE DEF i, part, j, runs, parts
<1>. QED  BY <1>3, <1>4, <1>6, <1>7, <1>8, <1>9 DEF part

(* The saturated offset arithmetic of read is exact for the run that       *)
(* serves a position: the offset is the true one, it lies inside the run,  *)
(* and at least one byte of the run is left.                               *)
LEMMA OffsetIsExact ==
  ASSUME NEW part \in Partition, NEW run \in BlkxRun, NEW pos \in Word,
         pos \div SectorSize >= part.sectorBase,
         Covers(run, (pos \div SectorSize) - part.sectorBase)
  PROVE  LET into == BytesIntoRun(part, run, pos)
         IN  /\ into \in 0..pos
             /\ FirstByte(part, run) \in Nat
             /\ pos = FirstByte(part, run) + into
             /\ into < run.sectorCount * SectorSize
             /\ AvailableInRun(run, into) \in Word
             /\ AvailableInRun(run, into) <= run.sectorCount * SectorSize - into
             /\ pos < MaxWord => AvailableInRun(run, into) >= 1
<1>. DEFINE s == SectorSize
            v == pos \div s
            r == pos % s
            base == part.sectorBase
            k == v - base - run.sectorStart
            count == run.sectorCount
<1>1. s \in Nat \ {0} /\ MaxWord \in Nat /\ pos \in Nat /\ pos <= MaxWord
  BY UdifAssumption, WordAssumption DEF Word
<1>2. v \in Nat /\ r \in 0..s - 1 /\ pos = v * s + r
  BY <1>1, SectorOfPosition
<1>3. /\ base \in Nat /\ run.sectorStart \in Nat /\ count \in Nat
      /\ v >= base
      /\ v - base >= run.sectorStart
      /\ v - base < SatAdd(run.sectorStart, count)
  BY <1>1 DEF Partition, BlkxRun, Word, Covers, RunEnd
<1>4. k \in Nat /\ k < count /\ v = (base + run.sectorStart) + k
  BY <1>1, <1>2, <1>3 DEF SatAdd
<1>. DEFINE first == base + run.sectorStart
<1>5. first \in Nat /\ first * s \in Nat /\ k * s \in Nat /\ count * s \in Nat
  BY <1>1, <1>3, <1>4
<1>. HIDE DEF k, v, r, count, base, s, first
<1>6. v * s = first * s + k * s
  BY <1>1, <1>3, <1>4, <1>5 DEF first
<1>7. k * s + s <= count * s
  <2>1. (k + 1) * s <= count * s
    BY <1>1, <1>3, <1>4, TimesMonotone DEF base, count
  <2>2. (k + 1) * s = k * s + s
    BY <1>1, <1>4
  <2>. QED  BY <2>1, <2>2
<1>8. BytesIntoRun(part, run, pos) = k * s + r
  <2>1. k * s + r <= MaxWord /\ k * s <= MaxWord
    BY <1>1, <1>2, <1>5, <1>6
  <2>2. BytesIntoRun(part, run, pos) = SatAdd(SatMul(k, s), r)
    BY DEF BytesIntoRun, k, v, r, base, s
  <2>. QED  BY <2>1, <2>2 DEF SatAdd, SatMul
<1>9. FirstByte(part, run) = first * s
  BY DEF FirstByte, first, base, s
<1>. DEFINE into == k * s + r
<1>10. into \in 0..pos /\ pos = first * s + into /\ into < count * s
  BY <1>1, <1>2, <1>5, <1>6, <1>7
<1>11. AvailableInRun(run, into) = SatSub(SatMul(count, s), into)
  BY DEF AvailableInRun, count, s
<1>. HIDE DEF into
<1>12. /\ AvailableInRun(run, into) \in Word
       /\ AvailableInRun(run, into) <= count * s - into
       /\ pos < MaxWord => AvailableInRun(run, into) >= 1
  BY <1>1, <1>5, <1>10, <1>11 DEF SatSub, SatMul, Word
<1>. QED  BY <1>5, <1>8, <1>9, <1>10, <1>12 DEF count, s, into
(* The declared size saturates at the end of u64. *)
LEMMA DiskSizeType ==
  ASSUME NEW f \in Files
  PROVE  DiskSize(f) \in Word
<1>1. f.sectorCount \in Word
  BY UdifAssumption DEF Image
<1>2. f.sectorCount \in Nat /\ SectorSize \in Nat /\ MaxWord \in Nat
  BY <1>1, UdifAssumption, WordAssumption DEF Word
<1>3. f.sectorCount * SectorSize \in Nat
  BY <1>2
<1>. QED  BY <1>2, <1>3 DEF DiskSize, SatMul, Word

-----------------------------------------------------------------------------
(* The outcomes of one call *)

(* What holds of an outcome o of read at pos with a buffer of len bytes,   *)
(* on any target and of any image.                                         *)
GoodOutcome(f, pos, len, o) ==
  /\ o.status \in {"ok", "err", "io", "panic"}
  /\ o.pos \in Word
  /\ o.n \in 0..len
  /\ o.buf \in [1..len -> Cell]
  /\ o.status # "ok" => o.n = 0 /\ o.pos = pos
  /\ Fits(pos + len) => o.status # "panic" /\ o.pos = pos + o.n
  /\ \A i \in 1..len : o.buf[i].src = "file" => o.buf[i].at < f.size

(* What holds besides where usize is as wide as u64: a call that succeeds  *)
(* inside the disk returns bytes, and each is the disk's or left as it was. *)
GoodBytes(f, pos, len, o) ==
  o.status = "ok" =>
    /\ len > 0 /\ pos < DiskSize(f) => o.n >= 1
    /\ \A i \in 1..o.n : o.buf[i] # StaleByte => o.buf[i] \in CellsAt(f, pos + i - 1)

(* The four cells have the type of a cell. *)
LEMMA CellTypes ==
  /\ ZeroByte \in Cell /\ StaleByte \in Cell
  /\ \A p \in Nat : FileByte(p) \in Cell
  /\ \A b, i \in Nat : DecodedByte(b, i) \in Cell
  BY DEF ZeroByte, StaleByte, FileByte, DecodedByte, Cell

LEMMA UntouchedBufferType ==
  ASSUME NEW len \in Nat
  PROVE  UntouchedBuffer(len) \in [1..len -> Cell]
  BY CellTypes DEF UntouchedBuffer

(* A call that fails changes nothing and serves nothing. *)
LEMMA FailureIsGood ==
  ASSUME NEW f \in Image, NEW pos \in Word, NEW len \in 0..MaxSize,
         NEW status \in {"err", "io"}
  PROVE  /\ GoodOutcome(f, pos, len, Failure(status, pos, len))
         /\ GoodBytes(f, pos, len, Failure(status, pos, len))
<1>1. len \in Nat /\ pos \in Nat
  BY WordAssumption DEF Word
<1>2. UntouchedBuffer(len) \in [1..len -> Cell]
  BY <1>1, UntouchedBufferType
<1>3. \A i \in 1..len : UntouchedBuffer(len)[i].src # "file"
  BY DEF UntouchedBuffer, StaleByte
<1>. QED  BY <1>1, <1>2, <1>3 DEF GoodOutcome, GoodBytes, Failure, FailureAfter

(* Nor does one that fails with a part of the file's bytes written. *)
LEMMA FailureAfterIsGood ==
  ASSUME NEW f \in Image, NEW pos \in Word, NEW len \in 0..MaxSize,
         NEW buf \in [1..len -> Cell],
         \A i \in 1..len : buf[i].src = "file" => buf[i].at < f.size
  PROVE  GoodOutcome(f, pos, len, FailureAfter("io", pos, buf))
<1>1. len \in Nat /\ pos \in Nat
  BY WordAssumption DEF Word
<1>. QED  BY <1>1 DEF GoodOutcome, FailureAfter

(* The bytes of a raw slice lie inside the file. *)
LEMMA RawBytesAreInside ==
  ASSUME NEW f \in Image, NEW p \in Nat, NEW len \in Nat, NEW n \in Nat,
         p + n <= f.size, f.size \in Nat
  PROVE  /\ RawBytes(p, n, len) \in [1..len -> Cell]
         /\ \A i \in 1..len : RawBytes(p, n, len)[i].src = "file"
                               => RawBytes(p, n, len)[i].at < f.size
<1>1. RawBytes(p, n, len) \in [1..len -> Cell]
  BY CellTypes DEF RawBytes
<1>2. ASSUME NEW i \in 1..len, RawBytes(p, n, len)[i].src = "file"
      PROVE  RawBytes(p, n, len)[i].at < f.size
  <2>1. i <= n /\ RawBytes(p, n, len)[i].at = p + i - 1
    BY <1>2 DEF RawBytes, FileByte, StaleByte
  <2>. QED  BY <2>1
<1>. QED  BY <1>1, <1>2

(* The cursor moves by what is returned, unless that leaves u64. *)
LEMMA AdvanceIsGood ==
  ASSUME NEW f \in Image, NEW pos \in Word, NEW len \in 0..MaxSize, NEW n \in 0..len,
         NEW buf \in [1..len -> Cell],
         \A i \in 1..len : buf[i].src = "file" => buf[i].at < f.size
  PROVE  /\ GoodOutcome(f, pos, len, Advance(pos, n, buf))
         /\ Advance(pos, n, buf).status = "ok" => Advance(pos, n, buf).n = n
         /\ Advance(pos, n, buf).buf = buf
<1>1. /\ len \in Nat /\ pos \in Nat /\ n \in Nat /\ MaxWord \in Nat
      /\ pos <= MaxWord /\ n <= len /\ len <= MaxWord
  BY WordAssumption DEF Word
<1>. DEFINE o == Advance(pos, n, buf)
<1>2. CASE Fits(pos + n)
  <2>1. o = [status |-> "ok", pos |-> pos + n, n |-> n, buf |-> buf]
    BY <1>2 DEF Advance
  <2>. HIDE DEF o
  <2>. QED  BY <1>1, <1>2, <2>1 DEF GoodOutcome, Fits, Word, o
<1>3. CASE ~Fits(pos + n) /\ OverflowChecks
  <2>1. o = [status |-> "panic", pos |-> pos, n |-> 0, buf |-> buf]
    BY <1>3 DEF Advance
  <2>2. ~Fits(pos + len)
    BY <1>1, <1>3 DEF Fits
  <2>. QED  BY <1>1, <1>3, <2>1, <2>2 DEF GoodOutcome, Word
<1>4. CASE ~Fits(pos + n) /\ ~OverflowChecks
  <2>1. o = [status |-> "ok", pos |-> pos + n - (MaxWord + 1), n |-> n, buf |-> buf]
    BY <1>4 DEF Advance
  <2>2. ~Fits(pos + len)
    BY <1>1, <1>4 DEF Fits
  <2>3. pos + n - (MaxWord + 1) \in Word
    BY <1>1, <1>4 DEF Fits, Word
  <2>. QED  BY <1>1, <1>4, <2>1, <2>2, <2>3 DEF GoodOutcome
<1>. QED  BY <1>2, <1>3, <1>4

(* A run of image f that serves position pos. *)
Serving(f, part, run, pos) ==
  /\ part \in Partition /\ run \in BlkxRun
  /\ pos \div SectorSize >= part.sectorBase
  /\ Covers(run, (pos \div SectorSize) - part.sectorBase)
  /\ \E i \in DOMAIN f.partitions :
       /\ part = f.partitions[i]
       /\ \E j \in DOMAIN f.partitions[i].runs : run = f.partitions[i].runs[j]

LEMMA ServingTypes ==
  ASSUME NEW f, NEW part, NEW run, NEW pos \in Word, Serving(f, part, run, pos)
  PROVE  /\ part.dataOffset + run.dataOffset \in Nat
         /\ run.sectorCount * SectorSize \in Nat
         /\ BytesIntoRun(part, run, pos) \in 0..pos
         /\ BytesIntoRun(part, run, pos) \in Nat
<1>1. part \in Partition /\ run \in BlkxRun
  BY DEF Serving
<1>2. part.dataOffset \in Word /\ run.dataOffset \in Word /\ run.sectorCount \in Word
  BY <1>1 DEF Partition, BlkxRun
<1>3. SectorSize \in Nat /\ Word \subseteq Nat
  BY UdifAssumption, WordAssumption DEF Word
<1>4. BytesIntoRun(part, run, pos) \in 0..pos
  BY OffsetIsExact DEF Serving
<1>5. /\ part.dataOffset \in Nat /\ run.dataOffset \in Nat /\ run.sectorCount \in Nat
      /\ pos \in Nat
  BY <1>2, <1>3
<1>. QED  BY <1>3, <1>4, <1>5

(* The length of the slice that a serving run fills: the buffer's, or what *)
(* is left of the run.  It is not 0 on a target whose usize is u64.        *)
LEMMA SliceLength ==
  ASSUME NEW f \in Image, NEW pos \in Word, NEW len \in 0..MaxSize,
         NEW part, NEW run, Serving(f, part, run, pos)
  PROVE  LET into == BytesIntoRun(part, run, pos)
             toRead == Lesser(len, AsSize(AvailableInRun(run, into)))
         IN  /\ into \in 0..pos
             /\ toRead \in 0..len
             /\ into + toRead <= run.sectorCount * SectorSize
             /\ MaxSize = MaxWord /\ len > 0 /\ pos < MaxWord => toRead >= 1
<1>. DEFINE into == BytesIntoRun(part, run, pos)
            avail == AvailableInRun(run, into)
            size == run.sectorCount * SectorSize
<1>1. /\ into \in 0..pos /\ into < size
      /\ avail \in Word /\ avail <= size - into
      /\ pos < MaxWord => avail >= 1
  BY OffsetIsExact DEF Serving
<1>2. size \in Nat /\ pos \in Nat /\ len \in Nat /\ avail \in Nat
  BY <1>1, UdifAssumption, WordAssumption DEF Serving, BlkxRun, Word
<1>. HIDE DEF into, avail, size
<1>3. AsSize(avail) \in 0..avail /\ (MaxSize = MaxWord => AsSize(avail) = avail)
  <2>1. AsSize(avail) \in Nat /\ AsSize(avail) <= avail
    BY <1>2, WordAssumption, Z3 DEF AsSize
  <2>2. MaxSize = MaxWord => AsSize(avail) = avail
    BY <1>1, AsSizeExact DEF Word
  <2>. QED  BY <2>1, <2>2, <1>2
<1>4. Lesser(len, AsSize(avail)) \in 0..len /\ Lesser(len, AsSize(avail)) <= avail
  BY <1>2, <1>3 DEF Lesser
<1>5. MaxSize = MaxWord /\ len > 0 /\ pos < MaxWord => Lesser(len, AsSize(avail)) >= 1
  BY <1>1, <1>2, <1>3 DEF Lesser
<1>6. into + Lesser(len, AsSize(avail)) <= size
  BY <1>1, <1>2, <1>4
<1>. QED  BY <1>1, <1>4, <1>5, <1>6 DEF into, avail, size

(* Each byte of that slice is one of the disk's bytes under the run. *)
LEMMA SliceOfRun ==
  ASSUME NEW f \in Image, NEW pos \in Word, NEW part, NEW run,
         Serving(f, part, run, pos),
         NEW i \in Nat \ {0},
         BytesIntoRun(part, run, pos) + i <= run.sectorCount * SectorSize
  PROVE  LET block == part.dataOffset + run.dataOffset
             into == BytesIntoRun(part, run, pos)
         IN  /\ run.kind \in FillKinds => ZeroByte \in CellsAt(f, pos + i - 1)
             /\ run.kind = "raw" => FileByte(block + into + i - 1) \in CellsAt(f, pos + i - 1)
             /\ run.kind \in BlockKinds =>
                  DecodedByte(block, into + i) \in CellsAt(f, pos + i - 1)
<1>. DEFINE b == pos + i - 1
            into == BytesIntoRun(part, run, pos)
            first == FirstByte(part, run)
            size == run.sectorCount * SectorSize
            block == part.dataOffset + run.dataOffset
<1>1. into \in 0..pos /\ first \in Nat /\ pos = first + into /\ pos \in Nat
  BY OffsetIsExact, WordAssumption DEF Serving, Word
<1>2. size \in Nat /\ block \in Nat
  BY ServingTypes
<1>. HIDE DEF into, first, size, block
<1>3. b - first = into + i - 1 /\ first <= b /\ b < first + size
  BY <1>1, <1>2 DEF into, size
<1>4. ASSUME run.kind \in FillKinds \cup {"raw"} \cup BlockKinds
      PROVE  CellOf(part, run, b) \in CellsAt(f, b)
  <2>1. HoldsByte(part, run, b)
    BY <1>3, <1>4 DEF HoldsByte, first, size
  <2>2. PICK p \in DOMAIN f.partitions :
          /\ part = f.partitions[p]
          /\ \E q \in DOMAIN f.partitions[p].runs : run = f.partitions[p].runs[q]
    BY DEF Serving
  <2>3. PICK q \in DOMAIN f.partitions[p].runs : run = f.partitions[p].runs[q]
    BY <2>2
  <2>. HIDE DEF b
  <2>. QED  BY <2>1, <2>2, <2>3 DEF CellsAt
<1>5. /\ run.kind \in FillKinds => CellOf(part, run, b) = ZeroByte
      /\ run.kind = "raw" => CellOf(part, run, b) = FileByte(block + (b - first))
      /\ run.kind \in BlockKinds => CellOf(part, run, b) = DecodedByte(block, (b - first) + 1)
  <2>. HIDE DEF b
  <2>. QED
    BY Zenon DEF CellOf, FillKinds, BlockKinds, StreamKinds, block, first
<1>6. block + (b - first) = block + into + i - 1 /\ (b - first) + 1 = into + i
  BY <1>1, <1>2, <1>3
<1>. QED  BY <1>4, <1>5, <1>6 DEF into, block

(* Fill runs. *)
LEMMA ServeFillIsGood ==
  ASSUME NEW f \in Image, NEW pos \in Word, NEW len \in 0..MaxSize,
         NEW part, NEW run, Serving(f, part, run, pos), run.kind \in FillKinds,
         NEW toRead \in 0..len,
         BytesIntoRun(part, run, pos) + toRead <= run.sectorCount * SectorSize,
         NEW o \in ServeFill(pos, toRead, len)
  PROVE  /\ GoodOutcome(f, pos, len, o)
         /\ o.status = "ok" => o.n = toRead
         /\ \A i \in 1..o.n : o.buf[i] # StaleByte => o.buf[i] \in CellsAt(f, pos + i - 1)
<1>. DEFINE slice == [i \in 1..len |-> IF i <= toRead THEN ZeroByte ELSE StaleByte]
<1>1. o = Advance(pos, toRead, slice)
  BY DEF ServeFill
<1>2. slice \in [1..len -> Cell]
  BY CellTypes
<1>3. \A i \in 1..len : slice[i].src = "file" => slice[i].at < f.size
  BY DEF ZeroByte, StaleByte
<1>. HIDE DEF slice
<1>4. /\ GoodOutcome(f, pos, len, o)
      /\ o.status = "ok" => o.n = toRead
      /\ o.buf = slice
  BY <1>1, <1>2, <1>3, AdvanceIsGood
<1>5. o.n \in 0..toRead
  BY <1>4, WordAssumption DEF GoodOutcome
<1>6. ASSUME NEW i \in 1..o.n
      PROVE  o.buf[i] \in CellsAt(f, pos + i - 1)
  <2>1. /\ i \in Nat \ {0} /\ i \in 1..len /\ i <= toRead
        /\ BytesIntoRun(part, run, pos) + i <= run.sectorCount * SectorSize
    <3>1. BytesIntoRun(part, run, pos) \in Nat /\ run.sectorCount * SectorSize \in Nat
      BY SliceLength, UdifAssumption, WordAssumption DEF Serving, BlkxRun, Word
    <3>. QED  BY <1>5, <3>1, WordAssumption
  <2>2. ZeroByte \in CellsAt(f, pos + i - 1)
    BY <2>1, SliceOfRun
  <2>3. o.buf[i] = ZeroByte
    BY <1>4, <2>1 DEF slice
  <2>. QED  BY <2>2, <2>3
<1>. QED  BY <1>4, <1>6

(* Raw runs: the bounds check keeps the copied bytes inside the file. *)
LEMMA ServeRawIsGood ==
  ASSUME NEW f \in Files, NEW pos \in Word, NEW len \in 0..MaxSize,
         NEW part, NEW run, Serving(f, part, run, pos), run.kind = "raw",
         NEW toRead \in 0..len,
         BytesIntoRun(part, run, pos) + toRead <= run.sectorCount * SectorSize,
         NEW o \in ServeRaw(f, part, run, pos, BytesIntoRun(part, run, pos), toRead, len)
  PROVE  /\ GoodOutcome(f, pos, len, o)
         /\ o.status = "ok" => o.n = toRead
         /\ o.status = "ok" => \A i \in 1..o.n :
              o.buf[i] # StaleByte => o.buf[i] \in CellsAt(f, pos + i - 1)
<1>. DEFINE into == BytesIntoRun(part, run, pos)
            p == part.dataOffset + run.dataOffset + into
            slice == RawBytes(p, toRead, len)
<1>1. /\ f \in Image /\ f.size \in Nat /\ f.size < MaxWord
      /\ MaxWord \in Nat /\ MaxSize \in Nat /\ len \in Nat /\ toRead \in Nat
      /\ run.sectorCount * SectorSize \in Nat
  <2>1. f \in Image /\ f.size \in 0..MaxSize /\ f.size < MaxWord
    BY UdifAssumption DEF Image
  <2>. QED  BY <2>1, ServingTypes, WordAssumption
<1>2. into \in Nat /\ p \in Nat
  BY ServingTypes
<1>. HIDE DEF into, p
<1>3. CASE ~(Fits(p) /\ SatAdd(p, toRead) <= f.size)
  <2>1. o = Failure("err", pos, len)
    BY <1>3 DEF ServeRaw, p, into
  <2>. QED  BY <1>1, <2>1, FailureIsGood DEF Failure, FailureAfter
<1>4. CASE Fits(p) /\ SatAdd(p, toRead) <= f.size
  <2>1. \/ \E n \in 0..toRead : o = FailureAfter("io", pos, RawBytes(p, n, len))
        \/ o = Advance(pos, toRead, slice)
    BY <1>4 DEF ServeRaw, p, into
  <2>2. p + toRead <= f.size
    BY <1>1, <1>2, <1>4 DEF SatAdd
  <2>3. CASE \E n \in 0..toRead : o = FailureAfter("io", pos, RawBytes(p, n, len))
    <3>1. PICK n \in 0..toRead : o = FailureAfter("io", pos, RawBytes(p, n, len))
      BY <2>3
    <3>2. n \in Nat /\ p + n <= f.size
      BY <1>1, <1>2, <2>2
    <3>. DEFINE written == RawBytes(p, n, len)
    <3>3. /\ written \in [1..len -> Cell]
          /\ \A i \in 1..len : written[i].src = "file" => written[i].at < f.size
      BY <1>1, <1>2, <3>2, RawBytesAreInside
    <3>4. o = FailureAfter("io", pos, written) /\ o.status = "io"
      BY <3>1 DEF FailureAfter
    <3>. HIDE DEF written
    <3>5. GoodOutcome(f, pos, len, o)
      BY <1>1, <3>3, <3>4, FailureAfterIsGood
    <3>. QED  BY <3>4, <3>5
  <2>4. CASE o = Advance(pos, toRead, slice)
    <3>2. slice \in [1..len -> Cell]
      BY <1>1, <1>2, <2>2, RawBytesAreInside
    <3>3. ASSUME NEW i \in 1..len, slice[i].src = "file"
          PROVE  slice[i].at < f.size
      BY <1>1, <1>2, <2>2, <3>3, RawBytesAreInside
    <3>. HIDE DEF slice
    <3>4. /\ GoodOutcome(f, pos, len, o)
          /\ o.status = "ok" => o.n = toRead
          /\ o.buf = slice
      BY <1>1, <2>4, <3>2, <3>3, AdvanceIsGood
    <3>5. ASSUME o.status = "ok", NEW i \in 1..o.n
          PROVE  o.buf[i] \in CellsAt(f, pos + i - 1)
      <4>1. i \in Nat \ {0} /\ i \in 1..len /\ i <= toRead /\ o.buf[i] = slice[i]
        BY <1>1, <3>4, <3>5
      <4>2. into + i <= run.sectorCount * SectorSize
        BY <1>1, <1>2, <4>1 DEF into
      <4>3. FileByte(part.dataOffset + run.dataOffset + into + i - 1)
              \in CellsAt(f, pos + i - 1)
        BY <1>1, <4>1, <4>2, SliceOfRun DEF into
      <4>4. o.buf[i] = FileByte(p + i - 1)
        BY <4>1 DEF slice, RawBytes
      <4>. QED  BY <4>3, <4>4 DEF p
    <3>. QED  BY <3>4, <3>5
  <2>. QED  BY <2>1, <2>3, <2>4
<1>. QED  BY <1>3, <1>4

(* Block runs: where usize is u64, what is copied is the decoded byte of   *)
(* the place that is read.                                                 *)
LEMMA ServeBlockIsGood ==
  ASSUME NEW f \in Files, NEW pos \in Word, NEW len \in 0..MaxSize,
         NEW part, NEW run, Serving(f, part, run, pos), run.kind \in BlockKinds,
         NEW toRead \in 0..len,
         BytesIntoRun(part, run, pos) + toRead <= run.sectorCount * SectorSize,
         NEW o \in ServeBlock(f, part, run, pos, BytesIntoRun(part, run, pos), toRead, len)
  PROVE  /\ GoodOutcome(f, pos, len, o)
         /\ o.status = "ok" => o.n = toRead
         /\ MaxSize = MaxWord /\ o.status = "ok" => \A i \in 1..o.n :
              o.buf[i] # StaleByte => o.buf[i] \in CellsAt(f, pos + i - 1)
<1>. DEFINE into == BytesIntoRun(part, run, pos)
            block == part.dataOffset + run.dataOffset
            start == AsSize(into)
            slice(n) == [i \in 1..len |-> IF i <= toRead /\ start + i <= n
                                          THEN DecodedByte(block, start + i)
                                          ELSE StaleByte]
<1>1. /\ f \in Image /\ f.size \in Nat
      /\ MaxWord \in Nat /\ MaxSize \in Nat /\ len \in Nat /\ toRead \in Nat
      /\ run.sectorCount * SectorSize \in Nat
  <2>1. f \in Image /\ f.size \in 0..MaxSize /\ f.size < MaxWord
    BY UdifAssumption DEF Image
  <2>. QED  BY <2>1, ServingTypes, WordAssumption
<1>2. into \in 0..pos /\ into \in Nat /\ block \in Nat
  BY ServingTypes
<1>3. start \in Nat
  BY <1>1, <1>2, AsSizeType
<1>4. MaxSize = MaxWord => start = into
  BY <1>1, <1>2, AsSizeExact DEF Word
<1>5. \/ o = Failure("err", pos, len)
      \/ o = Failure("io", pos, len)
      \/ \E n : o = CopyDecoded(pos, block, start, n, toRead, len)
  BY DEF ServeBlock
<1>. HIDE DEF into, block, start
<1>6. CASE o = Failure("err", pos, len) \/ o = Failure("io", pos, len)
  <2>1. o.status # "ok"
    BY <1>6 DEF Failure, FailureAfter
  <2>. QED  BY <1>1, <1>6, <2>1, FailureIsGood
<1>7. ASSUME NEW n, o = CopyDecoded(pos, block, start, n, toRead, len)
      PROVE  /\ GoodOutcome(f, pos, len, o)
             /\ o.status = "ok" => o.n = toRead
             /\ MaxSize = MaxWord /\ o.status = "ok" => \A i \in 1..o.n :
                  o.buf[i] # StaleByte => o.buf[i] \in CellsAt(f, pos + i - 1)
  <2>1. o = Failure("err", pos, len) \/ o = Advance(pos, toRead, slice(n))
    BY <1>7 DEF CopyDecoded
  <2>2. slice(n) \in [1..len -> Cell]
    BY <1>1, <1>2, <1>3, CellTypes
  <2>3. \A i \in 1..len : slice(n)[i].src # "file"
    BY DEF DecodedByte, StaleByte
  <2>4. \A i \in 1..len : slice(n)[i] # StaleByte =>
           i <= toRead /\ slice(n)[i] = DecodedByte(block, start + i)
    OBVIOUS
  <2>. HIDE DEF slice
  <2>5. CASE o = Advance(pos, toRead, slice(n))
    <3>1. /\ GoodOutcome(f, pos, len, o)
          /\ o.status = "ok" => o.n = toRead
          /\ o.buf = slice(n)
      BY <1>1, <2>2, <2>3, <2>5, AdvanceIsGood
    <3>2. ASSUME MaxSize = MaxWord, o.status = "ok", NEW i \in 1..o.n,
                 o.buf[i] # StaleByte
          PROVE  o.buf[i] \in CellsAt(f, pos + i - 1)
      <4>1. i \in Nat \ {0} /\ i \in 1..len /\ i <= toRead
        BY <1>1, <3>1, <3>2
      <4>2. into + i <= run.sectorCount * SectorSize
        BY <1>1, <1>2, <4>1 DEF into
      <4>3. DecodedByte(block, into + i) \in CellsAt(f, pos + i - 1)
        BY <1>1, <4>1, <4>2, SliceOfRun DEF into, block
      <4>4. o.buf[i] = DecodedByte(block, start + i)
        BY <2>4, <3>1, <3>2, <4>1
      <4>. QED  BY <1>4, <3>2, <4>3, <4>4
    <3>. QED  BY <3>1, <3>2
  <2>6. CASE o = Failure("err", pos, len)
    BY <1>6, <2>6
  <2>. QED  BY <2>1, <2>5, <2>6
<1>. QED  BY <1>5, <1>6, <1>7

(* Every outcome that read can have is a good one. *)
LEMMA ReadOutcomesAreGood ==
  ASSUME NEW f \in Files, NEW pos \in Word, NEW len \in 0..MaxSize,
         NEW o \in ReadOutcomes(f, pos, len)
  PROVE  /\ GoodOutcome(f, pos, len, o)
         /\ MaxSize = MaxWord => GoodBytes(f, pos, len, o)
<1>. DEFINE vsec == pos \div SectorSize
<1>1. f \in Image /\ SectorSize \in Nat \ {0} /\ pos \in Nat /\ pos <= MaxWord
  BY UdifAssumption, WordAssumption DEF Word
<1>2. DiskSize(f) \in Word
  <2>1. f.sectorCount \in Nat
    BY <1>1, WordAssumption DEF Image, Word
  <2>2. f.sectorCount * SectorSize \in Nat
    BY <1>1, <2>1
  <2>. QED  BY <2>2, WordAssumption DEF DiskSize, SatMul, Word
<1>3. CASE len = 0 \/ pos >= DiskSize(f)
  <2>1. o = Advance(pos, 0, UntouchedBuffer(len))
    BY <1>3 DEF ReadOutcomes
  <2>2. UntouchedBuffer(len) \in [1..len -> Cell] /\ 0 \in 0..len
    BY UntouchedBufferType, WordAssumption
  <2>3. \A i \in 1..len : UntouchedBuffer(len)[i].src # "file"
    BY DEF UntouchedBuffer, StaleByte
  <2>4. GoodOutcome(f, pos, len, o) /\ (o.status = "ok" => o.n = 0)
    BY <1>1, <2>1, <2>2, <2>3, AdvanceIsGood
  <2>5. ~(len > 0 /\ pos < DiskSize(f))
    BY <1>1, <1>2, <1>3, WordAssumption DEF Word
  <2>. QED  BY <2>4, <2>5 DEF GoodBytes
<1>4. CASE ~(len = 0 \/ pos >= DiskSize(f))
  <2>1. o \in ServeSector(f, pos, len) /\ pos < MaxWord
    BY <1>1, <1>2, <1>4, WordAssumption DEF ReadOutcomes, Word
  <2>2. CASE o = Failure("err", pos, len)
    BY <1>1, <2>2, FailureIsGood
  <2>3. CASE o # Failure("err", pos, len)
    <3>1. PICK pr \in ServedBy(f, vsec) : o \in ServeRun(f, pr.part, pr.run, pos, len)
      BY <2>1, <2>3 DEF ServeSector
    <3>. DEFINE part == pr.part
                run == pr.run
                into == BytesIntoRun(part, run, pos)
                toRead == Lesser(len, AsSize(AvailableInRun(run, into)))
    <3>2. vsec \in Nat
      BY <1>1, SectorOfPosition
    <3>3. Serving(f, part, run, pos)
      BY <1>1, <3>1, <3>2, ServedByCovers DEF Serving
    <3>4. /\ toRead \in 0..len
          /\ into + toRead <= run.sectorCount * SectorSize
          /\ MaxSize = MaxWord => toRead >= 1
      BY <1>1, <1>4, <2>1, <3>3, SliceLength
    <3>5. \/ run.kind \in FillKinds /\ o \in ServeFill(pos, toRead, len)
          \/ run.kind = "raw" /\ o \in ServeRaw(f, part, run, pos, into, toRead, len)
          \/ run.kind \in BlockKinds /\ o \in ServeBlock(f, part, run, pos, into, toRead, len)
      BY <2>3, <3>1, Zenon DEF ServeRun
    <3>. HIDE DEF part, run, toRead
    <3>6. /\ GoodOutcome(f, pos, len, o)
          /\ o.status = "ok" => o.n = toRead
          /\ MaxSize = MaxWord /\ o.status = "ok" => \A i \in 1..o.n :
               o.buf[i] # StaleByte => o.buf[i] \in CellsAt(f, pos + i - 1)
      BY <1>1, <3>3, <3>4, <3>5, ServeFillIsGood, ServeRawIsGood, ServeBlockIsGood
    <3>. QED  BY <3>4, <3>6 DEF GoodBytes
  <2>. QED  BY <2>2, <2>3
<1>. QED  BY <1>3, <1>4

-----------------------------------------------------------------------------
(* Undamaged images *)

(* A set of numbers with a bound has a largest one. *)
LEMMA MaxIsLargest ==
  ASSUME NEW n \in Nat, NEW S, S \subseteq 0..n, S # {}
  PROVE  Max(S) \in S /\ \A y \in S : y <= Max(S)
<1>. DEFINE D == {n - x : x \in S}
<1>1. D \in SUBSET Nat
  <2>. SUFFICES ASSUME NEW x \in S PROVE n - x \in Nat
    OBVIOUS
  <2>1. x \in 0..n
    OBVIOUS
  <2>. QED  BY <2>1
<1>2. PICK z : z \in S
  OBVIOUS
<1>3. n - z \in D
  BY <1>2
<1>4. Min(D) \in D /\ \A y \in D : Min(D) <= y
  <2>. DEFINE Less == {ss \in Nat \X Nat : ss[1] < ss[2]}
  <2>1. IsWellFoundedOn(Less, Nat)
    BY NatLessThanWellFounded DEF OpToRel
  <2>2. PICK m \in D : \A k \in D : <<k, m>> \notin Less
    <3>. HIDE DEF Less, D
    <3>. QED  BY <1>1, <1>3, <2>1, WFMin
  <2>3. ASSUME NEW k \in D
        PROVE  m <= k
    <3>. HIDE DEF D
    <3>1. k \in Nat /\ m \in Nat /\ <<k, m>> \notin Less
      BY <1>1, <2>2
    <3>2. k < m => <<k, m>> \in Less
      BY <3>1
    <3>. QED  BY <3>1, <3>2
  <2>. HIDE DEF D
  <2>. QED  BY <2>3 DEF Min
<1>5. PICK x \in S : Min(D) = n - x
  BY <1>4
<1>6. \A y \in S : x >= y
  <2>. SUFFICES ASSUME NEW y \in S PROVE x >= y
    OBVIOUS
  <2>1. n - y \in D
    OBVIOUS
  <2>2. n - x <= n - y
    BY <1>4, <1>5, <2>1
  <2>3. x \in Nat /\ y \in Nat
    OBVIOUS
  <2>. QED  BY <2>2, <2>3
<1>7. Max(S) \in S /\ \A y \in S : Max(S) >= y
  BY <1>6 DEF Max
<1>8. \A y \in S : y \in Int
  OBVIOUS
<1>. QED  BY <1>7, <1>8

-----------------------------------------------------------------------------
(* The partition that has a sector *)

LEMMA PartitionTypes ==
  ASSUME NEW f \in Files, NEW i \in DOMAIN f.partitions
  PROVE  /\ f.partitions \in Seq(Partition) /\ DOMAIN f.partitions \subseteq Nat
         /\ f.partitions[i] \in Partition
         /\ f.partitions[i].sectorBase \in Nat /\ f.partitions[i].dataOffset \in Nat
         /\ DOMAIN f.partitions[i].runs \subseteq Nat
         /\ \A j \in DOMAIN f.partitions[i].runs :
              /\ f.partitions[i].runs[j] \in BlkxRun
              /\ f.partitions[i].runs[j].sectorStart \in 0..MaxWord
              /\ f.partitions[i].runs[j].sectorCount \in 0..MaxWord
              /\ f.partitions[i].runs[j].sectorStart \in Nat
              /\ f.partitions[i].runs[j].sectorCount \in Nat
<1>1. f.partitions \in Seq(Partition)
  BY UdifAssumption DEF Image
<1>2. f.partitions[i] \in Partition /\ DOMAIN f.partitions \subseteq Nat
  BY <1>1
<1>3. /\ f.partitions[i].runs \in Seq(BlkxRun)
      /\ f.partitions[i].sectorBase \in Word /\ f.partitions[i].dataOffset \in Word
  BY <1>2 DEF Partition
<1>4. /\ DOMAIN f.partitions[i].runs \subseteq Nat
      /\ \A j \in DOMAIN f.partitions[i].runs : f.partitions[i].runs[j] \in BlkxRun
  BY <1>3
<1>5. MaxWord \in Nat
  BY WordAssumption
<1>6. Word = 0..MaxWord /\ Word \subseteq Nat
  BY <1>5 DEF Word
<1>7. /\ f.partitions[i].sectorBase \in Nat /\ f.partitions[i].dataOffset \in Nat
      /\ \A run \in BlkxRun : run.sectorStart \in Word /\ run.sectorCount \in Word
  BY <1>3, <1>6 DEF BlkxRun
<1>8. \A j \in DOMAIN f.partitions[i].runs :
        /\ f.partitions[i].runs[j].sectorStart \in Word
        /\ f.partitions[i].runs[j].sectorCount \in Word
  BY <1>4, <1>7
<1>. QED  BY <1>1, <1>2, <1>4, <1>6, <1>7, <1>8

(* A partition reserves the sectors from its base to the end of any of its *)
(* visible runs.                                                           *)
LEMMA ExtentReachesRuns ==
  ASSUME NEW f \in Files, NEW i \in DOMAIN f.partitions,
         NEW j \in DOMAIN f.partitions[i].runs, Visible(f.partitions[i].runs[j]),
         NEW s \in Nat, s >= f.partitions[i].sectorBase,
         s - f.partitions[i].sectorBase
           < f.partitions[i].runs[j].sectorStart + f.partitions[i].runs[j].sectorCount
  PROVE  s \in Extent(f.partitions[i])
<1>. DEFINE part == f.partitions[i]
            visible == {k \in DOMAIN part.runs : Visible(part.runs[k])}
            ends == {0} \cup {part.runs[k].sectorStart + part.runs[k].sectorCount : k \in visible}
            end == part.runs[j].sectorStart + part.runs[j].sectorCount
<1>1. /\ part.sectorBase \in Nat /\ MaxWord \in Nat
      /\ \A k \in DOMAIN part.runs : /\ part.runs[k].sectorStart \in 0..MaxWord
                                     /\ part.runs[k].sectorCount \in 0..MaxWord
  BY PartitionTypes, WordAssumption
<1>2. ends \subseteq 0..MaxWord + MaxWord /\ MaxWord + MaxWord \in Nat
  <2>1. \A k \in DOMAIN part.runs :
          part.runs[k].sectorStart + part.runs[k].sectorCount \in 0..MaxWord + MaxWord
    BY <1>1
  <2>. HIDE DEF part
  <2>. QED  BY <1>1, <2>1
<1>3. end \in ends
  OBVIOUS
<1>4. Extent(part) = part.sectorBase..(part.sectorBase - 1 + Max(ends))
  BY Zenon DEF Extent
<1>. HIDE DEF ends
<1>5. Max(ends) \in ends /\ end <= Max(ends)
  <2>. HIDE DEF end
  <2>. QED  BY <1>2, <1>3, MaxIsLargest
<1>6. Max(ends) \in Nat /\ end \in Nat
  <2>. HIDE DEF end
  <2>1. Max(ends) \in 0..MaxWord + MaxWord /\ end \in 0..MaxWord + MaxWord
    BY <1>2, <1>3, <1>5
  <2>. QED  BY <1>2, <2>1
<1>. QED  BY <1>1, <1>4, <1>5, <1>6

(* What is below the end of some visible run is reserved. *)
LEMMA ContainedIsReserved ==
  ASSUME NEW f \in Files, NEW i \in DOMAIN f.partitions, NEW s \in Nat,
         ContainsSector(f.partitions[i], s)
  PROVE  s \in Extent(f.partitions[i])
<1>. DEFINE part == f.partitions[i]
<1>1. /\ s >= part.sectorBase
      /\ \E j \in DOMAIN part.runs : Visible(part.runs[j])
                                     /\ s - part.sectorBase < RunEnd(part.runs[j])
  BY DEF ContainsSector, BelowTotalSectors
<1>2. PICK j \in DOMAIN part.runs : Visible(part.runs[j])
                                    /\ s - part.sectorBase < RunEnd(part.runs[j])
  BY <1>1
<1>3. /\ part.sectorBase \in Nat /\ part.runs[j].sectorStart \in Nat
      /\ part.runs[j].sectorCount \in Nat /\ MaxWord \in Nat
  BY PartitionTypes, WordAssumption
<1>4. s - part.sectorBase < part.runs[j].sectorStart + part.runs[j].sectorCount
  BY <1>2, <1>3 DEF RunEnd, SatAdd
<1>. QED  BY <1>1, <1>2, <1>4, ExtentReachesRuns

(* A sector of the disk is served, by a sound run that ends on the disk.   *)
LEMMA SoundServing ==
  ASSUME NEW f \in Files, Sound(f), NEW pos \in Word, pos < DiskSize(f)
  PROVE  \E pr : /\ ServedBy(f, pos \div SectorSize) = {pr}
                 /\ Serving(f, pr.part, pr.run, pos)
                 /\ SoundRun(f, pr.part, pr.run)
                 /\ FirstByte(pr.part, pr.run) + pr.run.sectorCount * SectorSize <= DiskSize(f)
                 /\ DiskSize(f) < MaxWord
<1>. DEFINE s == pos \div SectorSize
            holding == {ij \in VisibleRuns(f) :
                          s \in SectorsOf(f.partitions[ij[1]],
                                          f.partitions[ij[1]].runs[ij[2]])}
<1>1. /\ pos \in Nat /\ MaxWord \in Nat /\ SectorSize \in Nat \ {0}
      /\ f.sectorCount \in Nat /\ f \in Image
  BY UdifAssumption, WordAssumption DEF Image, Word
<1>2. /\ f.sectorCount * SectorSize \in Nat
      /\ DiskSize(f) = f.sectorCount * SectorSize /\ DiskSize(f) < MaxWord
  BY <1>1 DEF Sound, DiskSize, SatMul
<1>3. s \in Nat /\ s <= pos /\ s < f.sectorCount
  <2>1. s \in Nat /\ pos % SectorSize \in Nat /\ pos = s * SectorSize + (pos % SectorSize)
    <3>1. /\ s \in Nat /\ pos % SectorSize \in 0..SectorSize - 1
          /\ pos = s * SectorSize + (pos % SectorSize)
      BY <1>1, SectorOfPosition
    <3>2. \A r \in 0..SectorSize - 1 : r \in Nat
      BY <1>1
    <3>. QED  BY <3>1, <3>2, Zenon
  <2>2. s * 1 <= s * SectorSize
    BY <1>1, <2>1, TimesMonotone
  <2>3. ~(f.sectorCount <= s)
    <3>1. f.sectorCount <= s => f.sectorCount * SectorSize <= s * SectorSize
      BY <1>1, <2>1, TimesMonotone
    <3>. HIDE DEF s
    <3>. QED  BY <1>1, <1>2, <2>1, <3>1
  <2>. HIDE DEF s
  <2>. QED  BY <1>1, <2>1, <2>2, <2>3
<1>. HIDE DEF s
<1>4. holding # {}
  <2>1. Cardinality(holding) = 1
    <3>1. s \in 0..f.sectorCount - 1
      BY <1>1, <1>3
    <3>. QED  BY <3>1, Zenon DEF Sound, TilesTheDisk
  <2>. QED  BY <2>1, FS_EmptySet
<1>5. PICK ij \in holding : TRUE
  BY <1>4
<1>. DEFINE i == ij[1]
            j == ij[2]
            part == f.partitions[i]
            local == s - part.sectorBase
<1>6. /\ i \in DOMAIN f.partitions /\ j \in DOMAIN part.runs /\ Visible(part.runs[j])
      /\ s \in SectorsOf(part, part.runs[j])
  BY <1>5 DEF VisibleRuns
<1>. HIDE DEF i, j, holding
<1>7. /\ part.sectorBase \in Nat /\ DOMAIN f.partitions \subseteq Nat
      /\ DOMAIN part.runs \subseteq Nat /\ part \in Partition
      /\ \A k \in DOMAIN part.runs :
           /\ part.runs[k] \in BlkxRun
           /\ part.runs[k].sectorStart \in Nat /\ part.runs[k].sectorCount \in Nat
  BY <1>6, PartitionTypes
<1>8. /\ local \in Nat /\ s >= part.sectorBase /\ local < MaxWord
      /\ part.runs[j].sectorStart <= local
      /\ local < part.runs[j].sectorStart + part.runs[j].sectorCount
  BY <1>1, <1>2, <1>3, <1>6, <1>7 DEF SectorsOf
<1>9. Covers(part.runs[j], local) /\ ContainsSector(part, s)
  <2>1. local < RunEnd(part.runs[j])
    BY <1>1, <1>6, <1>7, <1>8 DEF RunEnd, SatAdd
  <2>. QED  BY <1>6, <1>8, <2>1 DEF Covers, ContainsSector, BelowTotalSectors
<1>10. PartitionsWith(f, s) # {} /\ Min(PartitionsWith(f, s)) = i
  <2>1. i \in PartitionsWith(f, s) /\ PartitionsWith(f, s) \in SUBSET Nat
    BY <1>6, <1>7, <1>9 DEF PartitionsWith
  <2>2. Min(PartitionsWith(f, s)) \in PartitionsWith(f, s)
    BY <2>1, MinIsMember
  <2>3. PICK k : k = Min(PartitionsWith(f, s)) /\ k \in DOMAIN f.partitions
                 /\ ContainsSector(f.partitions[k], s)
    BY <2>2 DEF PartitionsWith
  <2>4. s \in Extent(f.partitions[k]) /\ s \in Extent(part)
    BY <1>3, <1>6, <1>9, <2>3, ContainedIsReserved
  <2>5. k = i
    BY <1>6, <2>3, <2>4 DEF Sound, TilesTheDisk
  <2>. QED  BY <2>1, <2>3, <2>5
<1>. DEFINE runs == RunsCovering(part, local)
            m == Min(runs)
            run == part.runs[m]
<1>11. runs # {} /\ m \in DOMAIN part.runs /\ Covers(run, local)
  <2>1. j \in runs /\ runs \in SUBSET Nat
    BY <1>6, <1>7, <1>9 DEF RunsCovering
  <2>2. m \in runs
    BY <2>1, MinIsMember
  <2>. QED  BY <2>1, <2>2 DEF RunsCovering
<1>12. ServedBy(f, s) = {[part |-> part, run |-> run]}
  BY <1>10, <1>11, Zenon DEF ServedBy
<1>. HIDE DEF runs, m
<1>13. Serving(f, part, run, pos)
  BY <1>6, <1>7, <1>8, <1>11 DEF Serving, s
<1>14. SoundRun(f, part, run)
  <2>1. <<i, m>> \in VisibleRuns(f)
    BY <1>6, <1>11 DEF VisibleRuns, Covers
  <2>. QED  BY <2>1 DEF Sound
<1>15. FirstByte(part, run) + run.sectorCount * SectorSize <= DiskSize(f)
  <2>1. /\ run.sectorStart \in Nat /\ run.sectorCount \in Nat
        /\ run.sectorStart <= local /\ local < run.sectorStart + run.sectorCount
        /\ Visible(run)
    <3>1. run.sectorStart \in Nat /\ run.sectorCount \in Nat
      BY <1>7, <1>11
    <3>2. Visible(run) /\ local >= run.sectorStart /\ local < SatAdd(run.sectorStart, run.sectorCount)
      BY <1>11 DEF Covers, RunEnd
    <3>. QED  BY <1>1, <1>8, <3>1, <3>2 DEF SatAdd
  <2>. DEFINE last == part.sectorBase + run.sectorStart + run.sectorCount - 1
              first == part.sectorBase + run.sectorStart
  <2>2. /\ last \in Nat /\ last >= part.sectorBase
        /\ last - part.sectorBase < run.sectorStart + run.sectorCount
    BY <1>7, <1>8, <2>1
  <2>3. last \in Extent(part)
    <3>. HIDE DEF last
    <3>. QED  BY <1>6, <1>11, <2>1, <2>2, ExtentReachesRuns
  <2>4. last < f.sectorCount
    <3>. HIDE DEF last
    <3>. QED  BY <1>6, <2>3 DEF Sound, TilesTheDisk
  <2>5. first + run.sectorCount <= f.sectorCount /\ first \in Nat
    BY <1>1, <1>7, <2>1, <2>4
  <2>. HIDE DEF first
  <2>6. (first + run.sectorCount) * SectorSize <= f.sectorCount * SectorSize
    BY <1>1, <2>1, <2>5, TimesMonotone
  <2>7. (first + run.sectorCount) * SectorSize = first * SectorSize + run.sectorCount * SectorSize
    BY <1>1, <2>1, <2>5
  <2>. QED  BY <1>2, <2>6, <2>7 DEF FirstByte, first
<1>. HIDE DEF part, run
<1>16. PICK pr : pr = [part |-> part, run |-> run]
  OBVIOUS
<1>. QED  BY <1>2, <1>12, <1>13, <1>14, <1>15, <1>16 DEF s

-----------------------------------------------------------------------------
(* The disk of an undamaged image *)

(* A byte lies among whole sectors exactly when its sector does. *)
LEMMA ByteOfSectors ==
  ASSUME NEW b \in Nat, NEW d \in Nat \ {0}, NEW first \in Nat, NEW count \in Nat
  PROVE  (first * d <= b /\ b < first * d + count * d)
           <=> (b \div d \in first..(first + count - 1))
<1>. DEFINE s == b \div d
            e == first + count
<1>1. s \in Nat /\ b % d \in 0..d - 1 /\ b = s * d + (b % d)
  BY SectorOfPosition
<1>2. e * d = first * d + count * d /\ e \in Nat
  OBVIOUS
<1>3. \A r \in 0..d - 1 : r \in Nat /\ r < d
  OBVIOUS
<1>. HIDE DEF s, e
<1>4. first <= s => first * d <= s * d
  BY <1>1, TimesMonotone
<1>5. s + 1 <= first => (s + 1) * d <= first * d
  BY <1>1, TimesMonotone
<1>6. e <= s => e * d <= s * d
  BY <1>1, <1>2, TimesMonotone
<1>7. s + 1 <= e => (s + 1) * d <= e * d
  BY <1>1, <1>2, TimesMonotone
<1>8. (s + 1) * d = s * d + d /\ s * d \in Nat /\ first * d \in Nat /\ e * d \in Nat
  BY <1>1, <1>2
<1>9. first * d <= b <=> first <= s
  BY <1>1, <1>3, <1>4, <1>5, <1>8
<1>10. b < e * d <=> s < e
  BY <1>1, <1>2, <1>3, <1>6, <1>7, <1>8
<1>11. s \in first..(first + count - 1) <=> (first <= s /\ s < e)
  BY <1>1 DEF e
<1>. QED  BY <1>2, <1>9, <1>10, <1>11 DEF s

(* An image has finitely many runs. *)
LEMMA FinitelyManyRuns ==
  ASSUME NEW f \in Files
  PROVE  IsFiniteSet(VisibleRuns(f))
<1>. DEFINE parts == DOMAIN f.partitions
            pairs == [i \in parts |-> {i} \X DOMAIN f.partitions[i].runs]
            families == {{i} \X DOMAIN f.partitions[i].runs : i \in parts}
<1>1. IsFiniteSet(parts)
  <2>1. f.partitions \in Seq(Partition)
    BY UdifAssumption DEF Image
  <2>2. PICK n \in Nat : parts = 1..n
    BY <2>1
  <2>. QED  BY <2>2, FS_Interval
<1>2. IsFiniteSet(families)
  <2>1. pairs \in Surjection(parts, families)
    BY DEF Surjection
  <2>. HIDE DEF parts, families, pairs
  <2>. QED  BY <1>1, <2>1, FS_Surjection
<1>3. ASSUME NEW T \in families
      PROVE  IsFiniteSet(T)
  <2>1. PICK i \in parts : T = {i} \X DOMAIN f.partitions[i].runs
    OBVIOUS
  <2>2. f.partitions[i].runs \in Seq(BlkxRun)
    BY <2>1, PartitionTypes DEF Partition
  <2>3. PICK n \in Nat : DOMAIN f.partitions[i].runs = 1..n
    BY <2>2
  <2>4. IsFiniteSet({i})
    BY FS_Singleton, Zenon
  <2>5. IsFiniteSet(1..n)
    BY FS_Interval
  <2>. HIDE DEF families
  <2>. QED  BY <2>1, <2>3, <2>4, <2>5, FS_Product
<1>4. IsFiniteSet(UNION families)
  <2>. HIDE DEF families
  <2>. QED  BY <1>2, <1>3, FS_UNION
<1>5. VisibleRuns(f) \in SUBSET UNION families
  BY DEF VisibleRuns
<1>. HIDE DEF families
<1>. QED  BY <1>4, <1>5, FS_Subset

(* An undamaged image gives every byte of its disk one value. *)
LEMMA SoundImageFixesEveryByte ==
  ASSUME NEW f \in Files, Sound(f), NEW b \in 0..DiskSize(f) - 1
  PROVE  \E c : CellsAt(f, b) = {c}
<1>. DEFINE s == b \div SectorSize
            partOf(ij) == f.partitions[ij[1]]
            runOf(ij) == f.partitions[ij[1]].runs[ij[2]]
            holding == {ij \in VisibleRuns(f) : s \in SectorsOf(partOf(ij), runOf(ij))}
<1>1. /\ SectorSize \in Nat \ {0} /\ f.sectorCount \in Nat /\ MaxWord \in Nat
  BY UdifAssumption, WordAssumption DEF Image, Word
<1>2. DiskSize(f) = f.sectorCount * SectorSize /\ DiskSize(f) \in Nat /\ b \in Nat
  <2>1. f.sectorCount * SectorSize \in Nat
    BY <1>1
  <2>2. DiskSize(f) = f.sectorCount * SectorSize
    BY <1>1, <2>1 DEF Sound, DiskSize, SatMul
  <2>. QED  BY <2>1, <2>2
<1>3. s \in 0..f.sectorCount - 1
  <2>1. 0 * SectorSize = 0
    BY <1>1
  <2>2. b < 0 * SectorSize + f.sectorCount * SectorSize /\ 0 * SectorSize <= b
    BY <1>2, <2>1
  <2>3. s \in 0..(0 + f.sectorCount - 1)
    BY <1>1, <1>2, <2>2, ByteOfSectors
  <2>. HIDE DEF s
  <2>. QED  BY <1>1, <2>3
<1>4. PICK ij : holding = {ij}
  <2>1. Cardinality(holding) = 1
    BY <1>3, Zenon DEF Sound, TilesTheDisk
  <2>2. IsFiniteSet(holding)
    <3>1. holding \in SUBSET VisibleRuns(f)
      OBVIOUS
    <3>. HIDE DEF holding
    <3>. QED  BY <3>1, FinitelyManyRuns, FS_Subset
  <2>. QED  BY <2>1, <2>2, FS_Singleton
<1>5. ASSUME NEW i \in DOMAIN f.partitions, NEW j \in DOMAIN f.partitions[i].runs
      PROVE  HoldsByte(f.partitions[i], f.partitions[i].runs[j], b) <=> <<i, j>> = ij
  <2>. DEFINE part == f.partitions[i]
              run == part.runs[j]
              first == part.sectorBase + run.sectorStart
  <2>1. first \in Nat /\ run.sectorCount \in Nat
    BY PartitionTypes
  <2>2. SectorsOf(part, run) = first..(first + run.sectorCount - 1)
    BY DEF SectorsOf
  <2>3. FirstByte(part, run) = first * SectorSize
    BY DEF FirstByte
  <2>. HIDE DEF first
  <2>4. (first * SectorSize <= b /\ b < first * SectorSize + run.sectorCount * SectorSize)
          <=> s \in SectorsOf(part, run)
    BY <1>1, <1>2, <2>1, <2>2, ByteOfSectors
  <2>5. run.kind \in FillKinds \cup {"raw"} \cup BlockKinds <=> <<i, j>> \in VisibleRuns(f)
    <3>1. <<i, j>> \in VisibleRuns(f) <=> Visible(run)
      BY DEF VisibleRuns
    <3>2. <<i, j>> \in VisibleRuns(f) => SoundRun(f, part, run)
      BY DEF Sound
    <3>3. SoundRun(f, part, run) => run.kind \in FillKinds \cup {"raw"} \cup BlockKinds
      BY DEF SoundRun
    <3>4. run.kind \in FillKinds \cup {"raw"} \cup BlockKinds => Visible(run)
      BY DEF Visible, FillKinds, BlockKinds, StreamKinds, MarkerKinds
    <3>. HIDE DEF part, run
    <3>. QED  BY <3>1, <3>2, <3>3, <3>4
  <2>6. HoldsByte(part, run, b)
          <=> (<<i, j>> \in VisibleRuns(f) /\ s \in SectorsOf(part, run))
    <3>. HIDE DEF part, run, s
    <3>. QED  BY <2>3, <2>4, <2>5 DEF HoldsByte
  <2>7. <<i, j>> \in holding
          <=> (<<i, j>> \in VisibleRuns(f) /\ s \in SectorsOf(part, run))
    <3>. HIDE DEF s
    <3>. QED  OBVIOUS
  <2>. HIDE DEF holding, s
  <2>. QED  BY <1>4, <2>6, <2>7
<1>6. /\ ij[1] \in DOMAIN f.partitions /\ ij[2] \in DOMAIN f.partitions[ij[1]].runs
      /\ ij = <<ij[1], ij[2]>>
  <2>1. ij \in VisibleRuns(f)
    BY <1>4
  <2>. QED  BY <2>1 DEF VisibleRuns
<1>. DEFINE c == CellOf(partOf(ij), runOf(ij), b)
<1>7. c \in CellsAt(f, b)
  <2>1. HoldsByte(partOf(ij), runOf(ij), b)
    BY <1>5, <1>6
  <2>. QED  BY <1>6, <2>1 DEF CellsAt
<1>8. ASSUME NEW d \in CellsAt(f, b)
      PROVE  d = c
  <2>1. PICK i \in DOMAIN f.partitions :
          \E j \in DOMAIN f.partitions[i].runs :
            /\ HoldsByte(f.partitions[i], f.partitions[i].runs[j], b)
            /\ d = CellOf(f.partitions[i], f.partitions[i].runs[j], b)
    BY <1>8 DEF CellsAt
  <2>2. PICK j \in DOMAIN f.partitions[i].runs :
          /\ HoldsByte(f.partitions[i], f.partitions[i].runs[j], b)
          /\ d = CellOf(f.partitions[i], f.partitions[i].runs[j], b)
    BY <2>1
  <2>3. <<i, j>> = ij
    BY <1>5, <2>2
  <2>4. i = ij[1] /\ j = ij[2]
    BY <2>3
  <2>. QED  BY <2>2, <2>4
<1>. HIDE DEF c
<1>. QED  BY <1>7, <1>8

(* On an undamaged image the two `find`s of read (lib.rs:214-223) resolve  *)
(* every byte of the disk: the first partition whose hull has the byte's   *)
(* sector has a run that covers it, the first such run is the one that     *)
(* holds the byte, the saturating arithmetic gives the byte's true offset  *)
(* in that run, and no other run of the image would give another value.    *)
THEOREM SoundRunIsFound ==
  ASSUME NEW f \in Files, Sound(f), NEW b \in 0..DiskSize(f) - 1
  PROVE  \E pr :
           /\ ServedBy(f, b \div SectorSize) = {pr}
           /\ HoldsByte(pr.part, pr.run, b)
           /\ BytesIntoRun(pr.part, pr.run, b) = b - FirstByte(pr.part, pr.run)
           /\ CellsAt(f, b) = {CellOf(pr.part, pr.run, b)}
<1>1. /\ b \in Nat /\ b \in Word /\ b < DiskSize(f) /\ f \in Image
  BY DiskSizeType, UdifAssumption, WordAssumption DEF Word
<1>2. PICK pr : /\ ServedBy(f, b \div SectorSize) = {pr}
                /\ Serving(f, pr.part, pr.run, b)
                /\ SoundRun(f, pr.part, pr.run)
  BY <1>1, SoundServing
<1>. DEFINE part == pr.part
            run == pr.run
            into == BytesIntoRun(part, run, b)
            first == FirstByte(part, run)
<1>3. /\ into \in 0..b /\ first \in Nat /\ b = first + into
      /\ into < run.sectorCount * SectorSize /\ run.sectorCount * SectorSize \in Nat
  BY <1>1, <1>2, OffsetIsExact, ServingTypes DEF Serving
<1>4. run.kind \in FillKinds \cup {"raw"} \cup BlockKinds
  BY <1>2 DEF SoundRun
<1>. HIDE DEF part, run, into, first
<1>5. first <= b /\ b < first + run.sectorCount * SectorSize /\ into = b - first
  BY <1>1, <1>3
<1>6. HoldsByte(part, run, b)
  BY <1>4, <1>5 DEF HoldsByte, first
<1>7. CellOf(part, run, b) \in CellsAt(f, b)
  <2>1. PICK i \in DOMAIN f.partitions :
          /\ part = f.partitions[i]
          /\ \E j \in DOMAIN f.partitions[i].runs : run = f.partitions[i].runs[j]
    BY <1>2 DEF Serving, part, run
  <2>2. PICK j \in DOMAIN f.partitions[i].runs : run = f.partitions[i].runs[j]
    BY <2>1
  <2>. QED  BY <1>6, <2>1, <2>2 DEF CellsAt
<1>8. CellsAt(f, b) = {CellOf(part, run, b)}
  BY <1>7, SoundImageFixesEveryByte
<1>. QED  BY <1>2, <1>5, <1>6, <1>8 DEF part, run, into, first

-----------------------------------------------------------------------------
(* The outcomes of one call *)

(* A call that returns n bytes has written n bytes of the disk, no more,   *)
(* and moved the cursor by n, not past the end.                            *)
ExactBytes(f, pos, len, o) ==
  /\ o.status \in {"ok", "io"}
  /\ o.status = "ok" =>
       /\ o.pos = pos + o.n
       /\ o.n > 0 => pos + o.n <= DiskSize(f)
       /\ \A i \in 1..o.n : o.buf[i] # StaleByte
       /\ \A i \in 1..len : i > o.n => o.buf[i] = StaleByte

(* A slice whose first n cells are written is served exactly. *)
LEMMA AdvanceIsExact ==
  ASSUME NEW f, NEW pos \in Word, NEW len \in Nat, NEW n \in 0..len, NEW buf,
         pos + n <= MaxWord, n > 0 => pos + n <= DiskSize(f),
         \A i \in 1..n : buf[i] # StaleByte,
         \A i \in 1..len : i > n => buf[i] = StaleByte
  PROVE  ExactBytes(f, pos, len, Advance(pos, n, buf))
<1>1. Advance(pos, n, buf) = [status |-> "ok", pos |-> pos + n, n |-> n, buf |-> buf]
  BY DEF Advance, Fits
<1>. QED  BY <1>1 DEF ExactBytes

LEMMA IoFailureIsExact ==
  ASSUME NEW f, NEW pos, NEW len, NEW buf
  PROVE  ExactBytes(f, pos, len, FailureAfter("io", pos, buf))
  BY DEF ExactBytes, FailureAfter

(* Written cells are told from cells that were not. *)
LEMMA WrittenCells ==
  /\ ZeroByte # StaleByte
  /\ \A p : FileByte(p) # StaleByte
  /\ \A b, i : DecodedByte(b, i) # StaleByte
<1>1. /\ ZeroByte.src = "zero" /\ StaleByte.src = "stale"
      /\ \A p : FileByte(p).src = "file"
      /\ \A b, i : DecodedByte(b, i).src = "decoded"
  BY DEF ZeroByte, StaleByte, FileByte, DecodedByte
<1>. QED  BY <1>1

LEMMA SoundFill ==
  ASSUME NEW f, NEW pos \in Word, NEW len \in Nat, NEW n \in 0..len,
         pos + n <= MaxWord, pos + n <= DiskSize(f),
         NEW o \in ServeFill(pos, n, len)
  PROVE  ExactBytes(f, pos, len, o)
<1>. DEFINE slice == [i \in 1..len |-> IF i <= n THEN ZeroByte ELSE StaleByte]
<1>1. o = Advance(pos, n, slice)
  BY DEF ServeFill
<1>2. /\ \A i \in 1..n : slice[i] # StaleByte
      /\ \A i \in 1..len : i > n => slice[i] = StaleByte
  BY WrittenCells
<1>. HIDE DEF slice
<1>. QED  BY <1>1, <1>2, AdvanceIsExact

(* The bytes of a sound raw run lie in the file. *)
LEMMA SoundRaw ==
  ASSUME NEW f \in Files, NEW pos \in Word, NEW len \in Nat, NEW n \in 0..len,
         pos + n <= MaxWord, pos + n <= DiskSize(f),
         NEW part, NEW run, NEW into \in Nat,
         part.dataOffset + run.dataOffset \in Nat,
         part.dataOffset + run.dataOffset + into + n <= f.size,
         NEW o \in ServeRaw(f, part, run, pos, into, n, len)
  PROVE  ExactBytes(f, pos, len, o)
<1>. DEFINE p == part.dataOffset + run.dataOffset + into
            slice == RawBytes(p, n, len)
<1>1. f.size \in Nat /\ f.size < MaxWord /\ MaxWord \in Nat
  <2>1. f \in Image /\ f.size < MaxWord
    BY UdifAssumption
  <2>. QED  BY <2>1, WordAssumption DEF Image
<1>2. p \in Nat /\ p + n <= f.size
  OBVIOUS
<1>3. \/ \E k \in 0..n : o = FailureAfter("io", pos, RawBytes(p, k, len))
      \/ o = Advance(pos, n, slice)
  <2>1. Fits(p) /\ SatAdd(p, n) <= f.size
    <3>. HIDE DEF p
    <3>. QED  BY <1>1, <1>2 DEF Fits, SatAdd
  <2>. QED  BY <2>1 DEF ServeRaw
<1>4. /\ \A i \in 1..n : slice[i] # StaleByte
      /\ \A i \in 1..len : i > n => slice[i] = StaleByte
  BY WrittenCells DEF RawBytes
<1>. HIDE DEF slice, p
<1>. QED  BY <1>3, <1>4, AdvanceIsExact, IoFailureIsExact

(* A sound block decodes to exactly the bytes of its run. *)
LEMMA SoundBlock ==
  ASSUME MaxSize = MaxWord,
         NEW f \in Files, NEW pos \in Word, NEW len \in Nat, NEW n \in 0..len,
         pos + n <= MaxWord, pos + n <= DiskSize(f),
         NEW part, NEW run \in BlkxRun, run.kind \in BlockKinds, SoundRun(f, part, run),
         part.dataOffset + run.dataOffset \in Nat,
         run.sectorCount * SectorSize \in 0..MaxWord,
         NEW into \in 0..MaxWord, into < run.sectorCount * SectorSize,
         into + n <= run.sectorCount * SectorSize,
         NEW o \in ServeBlock(f, part, run, pos, into, n, len)
  PROVE  ExactBytes(f, pos, len, o)
<1>. DEFINE bytes == run.sectorCount * SectorSize
            block == part.dataOffset + run.dataOffset
            expected == SatMulSize(AsSize(run.sectorCount), SectorSize)
            slice == [i \in 1..len |-> IF i <= n /\ into + i <= bytes
                                       THEN DecodedByte(block, into + i)
                                       ELSE StaleByte]
<1>1. /\ f.size \in Nat /\ f.size < MaxWord /\ MaxWord \in Nat /\ bytes \in Nat
      /\ run.dataLength \in Nat /\ run.sectorCount \in 0..MaxWord
      /\ run.plain \in Nat
  <2>1. f \in Image /\ f.size < MaxWord
    BY UdifAssumption
  <2>2. f.size \in Nat /\ MaxWord \in Nat
    BY <2>1, WordAssumption DEF Image
  <2>. QED  BY <2>1, <2>2 DEF BlkxRun, Word
<1>2. /\ bytes <= MaxRunBytes /\ block + run.dataLength <= f.size
      /\ run.intact /\ run.plain = bytes
  BY Zenon DEF SoundRun, BlockKinds, StreamKinds, FillKinds
<1>3. AsSize(into) = into /\ AsSize(run.sectorCount) = run.sectorCount
  BY <1>1, AsSizeExact
<1>4. expected = bytes
  BY <1>1, <1>3 DEF SatMulSize
<1>5. /\ Fits(block) /\ Fits(block + run.dataLength)
      /\ ~(block + run.dataLength > f.size) /\ ~(bytes > MaxRunBytes)
  <2>1. block \in Nat
    OBVIOUS
  <2>. HIDE DEF block
  <2>2. MaxRunBytes \in Nat
    BY UdifAssumption
  <2>. QED  BY <1>1, <1>2, <2>1, <2>2 DEF Fits
<1>6. ~DecodeCanFail(run, bytes) /\ DecodedLengths(run, bytes) \subseteq {bytes}
  <2>1. /\ run.intact /\ run.plain = bytes /\ bytes <= bytes /\ bytes >= bytes
        /\ ~(run.plain > bytes)
    BY <1>1, <1>2
  <2>. HIDE DEF bytes
  <2>2. ~DecodeCanFail(run, bytes)
    BY <2>1, Zenon DEF DecodeCanFail
  <2>3. CASE run.kind \in StreamKinds
    <3>1. run.kind # "lzma"
      BY <2>3 DEF StreamKinds
    <3>2. DecodedLengths(run, bytes) = IF run.plain >= bytes THEN {bytes}
                                       ELSE {k \in {run.plain} : run.intact}
      BY <2>3, <3>1 DEF DecodedLengths
    <3>. QED  BY <2>1, <2>2, <3>2
  <2>4. CASE run.kind \notin StreamKinds /\ run.kind = "lzma"
    <3>1. DecodedLengths(run, bytes) = {k \in {run.plain} : run.intact /\ k <= bytes}
      BY <2>4 DEF DecodedLengths
    <3>. QED  BY <2>1, <2>2, <3>1
  <2>5. CASE run.kind \notin StreamKinds /\ run.kind # "lzma"
    <3>1. DecodedLengths(run, bytes) = IF run.plain <= bytes THEN {run.plain}
                                       ELSE bytes..Lesser(run.plain, bytes + AdcSlack)
      BY <2>5 DEF DecodedLengths
    <3>. QED  BY <2>1, <2>2, <3>1
  <2>. QED  BY <2>2, <2>3, <2>4, <2>5
<1>7. \/ o = FailureAfter("io", pos, UntouchedBuffer(len))
      \/ o = CopyDecoded(pos, block, into, bytes, n, len)
  <2>. HIDE DEF bytes, block, expected
  <2>1. o \in {Failure("io", pos, len)}
              \cup {e \in {Failure("err", pos, len)} : DecodeCanFail(run, bytes)}
              \cup {CopyDecoded(pos, block, into, k, n, len) :
                      k \in DecodedLengths(run, bytes)}
    BY <1>3, <1>4, <1>5 DEF ServeBlock, block, expected
  <2>. QED  BY <1>6, <2>1 DEF Failure
<1>8. CopyDecoded(pos, block, into, bytes, n, len) = Advance(pos, n, slice)
  BY <1>1 DEF CopyDecoded
<1>9. /\ \A i \in 1..n : slice[i] # StaleByte
      /\ \A i \in 1..len : i > n => slice[i] = StaleByte
  <2>1. \A i \in 1..n : i <= n /\ into + i <= bytes /\ i \in 1..len
    <3>. HIDE DEF bytes
    <3>1. into + n <= bytes
      BY DEF bytes
    <3>. QED  BY <1>1, <3>1
  <2>2. \A i \in 1..len : i > n => ~(i <= n)
    OBVIOUS
  <2>. HIDE DEF bytes
  <2>. QED  BY <2>1, <2>2, WrittenCells
<1>. HIDE DEF slice
<1>. QED  BY <1>7, <1>8, <1>9, AdvanceIsExact, IoFailureIsExact

(* Every outcome that read can have of an undamaged image. *)
LEMMA SoundReadIsExact ==
  ASSUME MaxSize = MaxWord,
         NEW f \in Files, Sound(f), NEW pos \in Word, NEW len \in 0..MaxSize,
         NEW o \in ReadOutcomes(f, pos, len)
  PROVE  ExactBytes(f, pos, len, o)
<1>1. /\ pos \in Nat /\ pos <= MaxWord /\ len \in Nat /\ MaxWord \in Nat
      /\ DiskSize(f) \in Word /\ f \in Image /\ SectorSize \in Nat \ {0}
  BY UdifAssumption, WordAssumption, DiskSizeType DEF Word
<1>2. CASE len = 0 \/ pos >= DiskSize(f)
  <2>1. o = Advance(pos, 0, UntouchedBuffer(len))
    BY <1>2 DEF ReadOutcomes
  <2>2. \A i \in 1..len : UntouchedBuffer(len)[i] = StaleByte
    BY DEF UntouchedBuffer
  <2>. QED  BY <1>1, <2>1, <2>2, AdvanceIsExact
<1>3. CASE ~(len = 0 \/ pos >= DiskSize(f))
  <2>1. o \in ServeSector(f, pos, len) /\ pos < DiskSize(f)
    BY <1>1, <1>3 DEF ReadOutcomes, Word
  <2>2. PICK pr : /\ ServedBy(f, pos \div SectorSize) = {pr}
                  /\ Serving(f, pr.part, pr.run, pos)
                  /\ SoundRun(f, pr.part, pr.run)
                  /\ FirstByte(pr.part, pr.run) + pr.run.sectorCount * SectorSize <= DiskSize(f)
                  /\ DiskSize(f) < MaxWord
    BY <2>1, SoundServing
  <2>. DEFINE part == pr.part
              run == pr.run
              into == BytesIntoRun(part, run, pos)
              n == Lesser(len, AsSize(AvailableInRun(run, into)))
              bytes == run.sectorCount * SectorSize
              block == part.dataOffset + run.dataOffset
  <2>3. o \in ServeRun(f, part, run, pos, len)
    BY <2>1, <2>2, Zenon DEF ServeSector
  <2>4. /\ into \in 0..pos /\ n \in 0..len /\ into + n <= bytes
    BY <1>1, <2>2, SliceLength
  <2>5. /\ FirstByte(part, run) \in Nat /\ pos = FirstByte(part, run) + into /\ into < bytes
    BY <2>2, OffsetIsExact DEF Serving
  <2>6. block \in Nat /\ bytes \in Nat /\ run \in BlkxRun
    BY <2>2, ServingTypes DEF Serving
  <2>7. FirstByte(part, run) + bytes <= DiskSize(f) /\ SoundRun(f, part, run)
    BY <2>2
  <2>8. \/ run.kind \in FillKinds /\ o \in ServeFill(pos, n, len)
        \/ run.kind = "raw" /\ o \in ServeRaw(f, part, run, pos, into, n, len)
        \/ run.kind \in BlockKinds /\ o \in ServeBlock(f, part, run, pos, into, n, len)
    BY <2>3, <2>7, Zenon DEF ServeRun, SoundRun
  <2>. HIDE DEF part, run, into, n, bytes, block
  <2>9. /\ pos + n <= DiskSize(f) /\ pos + n <= MaxWord
        /\ into \in Nat /\ into \in 0..MaxWord /\ bytes \in 0..MaxWord /\ n \in Nat
    BY <1>1, <2>4, <2>5, <2>6, <2>7 DEF Word
  <2>10. CASE run.kind \in FillKinds /\ o \in ServeFill(pos, n, len)
    BY <1>1, <2>4, <2>9, <2>10, SoundFill
  <2>11. CASE run.kind = "raw" /\ o \in ServeRaw(f, part, run, pos, into, n, len)
    <3>1. block + bytes <= f.size
      BY <2>7, <2>11, Zenon DEF SoundRun, FillKinds, BlockKinds, StreamKinds, block, bytes
    <3>2. f.size \in Nat
      BY <1>1, WordAssumption DEF Image
    <3>3. block + into + n <= f.size
      BY <2>4, <2>6, <2>9, <3>1, <3>2
    <3>. QED  BY <1>1, <2>4, <2>6, <2>9, <2>11, <3>3, SoundRaw DEF block
  <2>12. CASE run.kind \in BlockKinds /\ o \in ServeBlock(f, part, run, pos, into, n, len)
    BY <1>1, <2>4, <2>5, <2>6, <2>7, <2>9, <2>12, SoundBlock DEF block, bytes
  <2>. QED  BY <2>8, <2>10, <2>11, <2>12
<1>. QED  BY <1>2, <1>3
=============================================================================
