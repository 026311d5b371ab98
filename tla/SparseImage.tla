---------------------------- MODULE SparseImage ----------------------------
(***************************************************************************)
(* One SparseImageReader<R> and its caller (core/src/sparse.rs): open, any *)
(* sequence of read and seek calls.  A file is what open reads of it: its  *)
(* size and the fields of its header, with the band table, which maps a    *)
(* stored slot to the virtual band it holds, plus one (0: an unused slot). *)
(***************************************************************************)
EXTENDS Bands

CONSTANTS
  Files,        \* the files considered
  HeaderSize,   \* bytes before the first band (4096)
  SectorSize,   \* bytes per sector (512)
  MaxSlots,     \* entries of the band table (1008)
  NoFile, ReadLens, SeekStarts, SeekDeltas

Slots == 0..(MaxSlots - 1)

SparseFile ==
  [size : Word, magic : BOOLEAN, sectorsPerBand : Word, totalSectors : Word,
   table : [Slots -> Word]]

ASSUME SparseAssumption ==
  /\ HeaderSize \in Nat /\ SectorSize \in Nat \ {0} /\ MaxSlots \in Nat
  /\ Files \subseteq SparseFile
  /\ NoFile \notin Files
  \* the header's fields are u32: the size of the disk and the place of a
  \* slot are far below u64::MAX
  /\ \A f \in Files :
       /\ f.totalSectors * SectorSize <= MaxWord
       /\ HeaderSize + (MaxSlots + 1) * f.sectorsPerBand * SectorSize <= MaxWord
  /\ ReadLens \subseteq 0..MaxSize
  /\ SeekStarts \subseteq Word
  /\ SeekDeltas \subseteq Delta

VARIABLES
  file,       \* the file the reader was opened on, or NoFile
  bandSlot,   \* the inverted table: virtual band -> slot
  position,
  reply,      \* what the last call returned
  buffer      \* the slice passed to the last call, after it

vars == <<file, bandSlot, position, reply, buffer>>

BandSize(f) == SatMul(f.sectorsPerBand, SectorSize)
VirtualSize(f) == SatMul(f.totalSectors, SectorSize)

(* Slots stored after the header; the last may be cut short. *)
StoredSlots(f) == (SatSub(f.size, HeaderSize) + BandSize(f) - 1) \div BandSize(f)

OpenOutcomes(f) ==
  {"io"} \cup
  IF f.size < HeaderSize THEN {"bad_header"}
  ELSE IF ~f.magic THEN {"not_sparse"}
  ELSE IF f.sectorsPerBand = 0 THEN {"bad_header"}
  ELSE IF StoredSlots(f) > MaxSlots THEN {"bad_header"}
  ELSE {"ok"}

SlotsOf(f, band) == {s \in 0..(StoredSlots(f) - 1) : f.table[s] = band + 1}

(* Fault: a zero entry is taken for a band. *)
InvertSlip(f) ==
  [band \in {SatSub(f.table[s], 1) : s \in 0..(StoredSlots(f) - 1)} |->
     Max({s \in 0..(StoredSlots(f) - 1) : SatSub(f.table[s], 1) = band})]

(* The slots are inserted in order: the last one that names a band stays. *)
Invert(f) ==
  [band \in {f.table[s] - 1 : s \in {t \in 0..(StoredSlots(f) - 1) : f.table[t] # 0}} |->
     Max(SlotsOf(f, band))]

-----------------------------------------------------------------------------
Reply(op, status, len, n) == [op |-> op, status |-> status, len |-> len, n |-> n]

Init ==
  /\ file = NoFile
  /\ bandSlot = <<>>
  /\ position = 0
  /\ reply = Reply("none", "ok", 0, 0)
  /\ buffer = UntouchedBuffer(0)

Open(f) ==
  /\ file = NoFile
  /\ \E status \in OpenOutcomes(f) :
       /\ reply' = Reply("open", status, 0, 0)
       /\ IF status = "ok"
          THEN file' = f /\ bandSlot' = Invert(f)
          ELSE UNCHANGED <<file, bandSlot>>
  /\ position' = 0
  /\ buffer' = UntouchedBuffer(0)

(* An empty buffer, or a cursor at or past the end of the disk. *)
ReadNothing(len) ==
  /\ file # NoFile
  /\ len = 0 \/ position >= VirtualSize(file)
  /\ reply' = Reply("read", "ok", len, 0)
  /\ buffer' = UntouchedBuffer(len)
  /\ UNCHANGED <<file, bandSlot, position>>

(* Where the byte at pos of a stored band lies in the file. *)
PlaceOf(f, slots, pos) ==
  SatAdd(SatAdd(HeaderSize, SatMul(slots[pos \div BandSize(f)], BandSize(f))),
         pos % BandSize(f))

(* How many of the n bytes at pos, n within one band, the file has. *)
StoredHere(f, slots, pos, n) ==
  IF pos \div BandSize(f) \in DOMAIN slots
  THEN Lesser(SatSub(f.size, PlaceOf(f, slots, pos)), n)
  ELSE 0

StoredBytes(f, slots, pos, n) ==
  [i \in 1..n |-> FileByte(PlaceOf(f, slots, pos) + i - 1)]

(* Zeros stand for a band without a slot and for what lies beyond the end  *)
(* of the file.                                                            *)
ReadBand(len) ==
  LET n == Window(position, len, BandSize(file), VirtualSize(file))
      avail == StoredHere(file, bandSlot, position, n)
  IN  /\ file # NoFile
      /\ len > 0 /\ position < VirtualSize(file)
      /\ position' = position + n
      /\ reply' = Reply("read", "ok", len, n)
      /\ buffer' = Filled(StoredBytes(file, bandSlot, position, avail) \o Zeros(n - avail), len)
      /\ UNCHANGED <<file, bandSlot>>

(* The container is asked only for bytes it has; the seek or the read may  *)
(* fail, the read after it has written some of them.                       *)
ReadFails(len) ==
  LET n == Window(position, len, BandSize(file), VirtualSize(file))
      avail == StoredHere(file, bandSlot, position, n)
  IN  /\ file # NoFile
      /\ len > 0 /\ position < VirtualSize(file)
      /\ \E k \in 0..(avail - 1) :
           buffer' = Filled(StoredBytes(file, bandSlot, position, k), len)
      /\ reply' = Reply("read", "io", len, 0)
      /\ UNCHANGED <<file, bandSlot, position>>

Read(len) == ReadNothing(len) \/ ReadBand(len) \/ ReadFails(len)

SeekTo(pos) ==
  /\ file # NoFile
  /\ position' = pos
  /\ reply' = Reply("seek", "ok", 0, 0)
  /\ buffer' = UntouchedBuffer(0)
  /\ UNCHANGED <<file, bandSlot>>

Next ==
  \/ \E f \in Files : Open(f)
  \/ \E len \in ReadLens : Read(len)
  \/ \E n \in SeekStarts : SeekTo(n)
  \/ \E d \in SeekDeltas :
       SeekTo(SeekWithin(VirtualSize(file), d)) \/ SeekTo(SeekWithin(position, d))

Spec == Init /\ [][Next]_vars

-----------------------------------------------------------------------------
TypeOK ==
  /\ file \in Files \cup {NoFile}
  /\ position \in Word
  /\ file # NoFile => DOMAIN bandSlot \subseteq Word /\ \A b \in DOMAIN bandSlot : bandSlot[b] \in Slots
  /\ reply \in [op : {"none", "open", "read", "seek"},
                status : {"ok", "io", "bad_header", "not_sparse"},
                len : 0..MaxSize, n : 0..MaxSize]
  /\ reply.n <= reply.len
  /\ buffer \in [1..reply.len -> Cell]

(* Byte p of the file is stored for byte b of the disk: read off the band  *)
(* table from the file's side, slot by slot.                               *)
StoredFor(f, p, b) ==
  LET bandSize == f.sectorsPerBand * SectorSize
      slot == (p - HeaderSize) \div bandSize
  IN  /\ HeaderSize <= p /\ p < f.size
      /\ f.table[slot] # 0
      /\ b = (f.table[slot] - 1) * bandSize + ((p - HeaderSize) % bandSize)

(* Whatever the table says (a band named twice, a band beyond the disk, a  *)
(* last slot cut short), a byte served from the file is stored there for   *)
(* the very byte of the disk it is served as, also when the read fails.    *)
BytesComeFromOwnBand ==
  [][reply'.op = "read" =>
       \A i \in DOMAIN buffer' :
         buffer'[i].src = "file" => StoredFor(file, buffer'[i].at, position + i - 1)]_vars

(* The disk a file holds: of two slots that name a band the last counts. *)
ByteOf(f, b) ==
  LET bandSize == f.sectorsPerBand * SectorSize
      named == {s \in Slots : /\ HeaderSize + s * bandSize < f.size
                              /\ f.table[s] = b \div bandSize + 1}
      place == HeaderSize + Max(named) * bandSize + (b % bandSize)
  IN  IF named = {} THEN ZeroByte
      ELSE IF place >= f.size THEN ZeroByte
      ELSE FileByte(place)

DiskOf(f) ==
  [size |-> VirtualSize(f), bytes |-> [b \in 0..(VirtualSize(f) - 1) |-> {ByteOf(f, b)}]]

ASSUME NoFileIsNoDisk ==
  \A f \in Files : "ok" \in OpenOutcomes(f) => NoFile # DiskOf(f)

VD == INSTANCE VirtualDisk WITH
        disk <- IF file = NoFile THEN NoFile ELSE DiskOf(file), pos <- position,
        NoDisk <- NoFile,
        Disks <- {DiskOf(f) : f \in {g \in Files : "ok" \in OpenOutcomes(g)}}

(* Every file that opens, damaged or not, is a virtual disk: the same      *)
(* bytes however the calls are split, an end at the declared size, and no  *)
(* failure but the container's own.                                        *)
ImplementsVirtualDisk == VD!Spec
=============================================================================
