---------------------------- MODULE UdifContents ----------------------------
(***************************************************************************)
(* What the bytes of an image's virtual disk are, stated without the       *)
(* reader's algorithm and in unbounded arithmetic: the reference that the  *)
(* reader is compared with.                                                *)
(***************************************************************************)
EXTENDS Udif

FirstByte(part, run) == (part.sectorBase + run.sectorStart) * SectorSize

HoldsByte(part, run, b) ==
  /\ run.kind \in FillKinds \cup {"raw"} \cup BlockKinds
  /\ FirstByte(part, run) <= b
  /\ b < FirstByte(part, run) + run.sectorCount * SectorSize

(* The byte a run gives for byte b of the disk. *)
CellOf(part, run, b) ==
  LET block == part.dataOffset + run.dataOffset
      offset == b - FirstByte(part, run)
  IN  CASE run.kind \in FillKinds -> ZeroByte
        [] run.kind = "raw" -> FileByte(block + offset)
        [] OTHER -> DecodedByte(block, offset + 1)

(* Every byte that some run of the image gives for byte b. *)
CellsAt(f, b) ==
  UNION {{CellOf(f.partitions[i], f.partitions[i].runs[j], b) :
            j \in {k \in DOMAIN f.partitions[i].runs :
                     HoldsByte(f.partitions[i], f.partitions[i].runs[k], b)}} :
           i \in DOMAIN f.partitions}

DiskOf(f) ==
  [size |-> DiskSize(f), bytes |-> [b \in 0..DiskSize(f) - 1 |-> CellsAt(f, b)]]

-----------------------------------------------------------------------------
(* Sound images: what a DMG that no tool would call damaged satisfies. *)

Openable(f) ==
  /\ f.size >= KolySize /\ f.magic /\ f.plistOk
  /\ f.xmlOffset + f.xmlLength <= f.size

(* The visible runs of an image, as pairs of indices. *)
VisibleRuns(f) ==
  {ij \in UNION {{i} \X DOMAIN f.partitions[i].runs : i \in DOMAIN f.partitions} :
     Visible(f.partitions[ij[1]].runs[ij[2]])}

SectorsOf(part, run) ==
  LET first == part.sectorBase + run.sectorStart
  IN  first..(first + run.sectorCount - 1)

(* The sectors that a partition reserves, from its base to its last run.   *)
Extent(part) ==
  part.sectorBase..(part.sectorBase - 1 +
                    Max({0} \cup {part.runs[j].sectorStart + part.runs[j].sectorCount :
                                   j \in {k \in DOMAIN part.runs : Visible(part.runs[k])}}))

(* Every sector of the disk lies in one visible run, and no run reaches    *)
(* past the disk.  Partitions do not reach into each other.                *)
TilesTheDisk(f) ==
  /\ \A s \in 0..f.sectorCount - 1 :
       Cardinality({ij \in VisibleRuns(f) :
                      s \in SectorsOf(f.partitions[ij[1]],
                                     f.partitions[ij[1]].runs[ij[2]])}) = 1
  /\ \A i \in DOMAIN f.partitions :
       /\ \A s \in Extent(f.partitions[i]) : s < f.sectorCount
       /\ \A k \in DOMAIN f.partitions \ {i} :
            Extent(f.partitions[i]) \cap Extent(f.partitions[k]) = {}

SoundRun(f, part, run) ==
  LET bytes == run.sectorCount * SectorSize
      block == part.dataOffset + run.dataOffset
  IN  \/ run.kind \in FillKinds
      \/ run.kind = "raw" /\ block + bytes <= f.size
      \/ /\ run.kind \in BlockKinds
         /\ bytes <= MaxRunBytes /\ block + run.dataLength <= f.size
         /\ run.intact /\ run.plain = bytes

Sound(f) ==
  /\ Openable(f)
  /\ f.sectorCount * SectorSize < MaxWord
  /\ TilesTheDisk(f)
  /\ \A ij \in VisibleRuns(f) :
       SoundRun(f, f.partitions[ij[1]], f.partitions[ij[1]].runs[ij[2]])
=============================================================================
