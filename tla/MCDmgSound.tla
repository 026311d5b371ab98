----------------------------- MODULE MCDmgSound -----------------------------
(***************************************************************************)
(* Undamaged images of a disk of up to four sectors, every way to cut it   *)
(* into runs and partitions: one run per kind, two and three runs in any   *)
(* order of the table, empty runs, terminators and comments, partitions in *)
(* either order.                                                           *)
(***************************************************************************)
EXTENDS DmgReader

Shapes == {"zero", "raw", "zlib", "lzma", "adc"}

RunAt(kind, start, count, offset) ==
  [kind |-> kind, sectorStart |-> start, sectorCount |-> count, dataOffset |-> offset,
   dataLength |-> 2, plain |-> 2 * count, intact |-> TRUE]

Comment == RunAt("comment", 0, 9, 0)
Terminator(s) == RunAt("term", s, 0, 0)

ImageWith(sectorCount, partitions) ==
  [size |-> 18, magic |-> TRUE, xmlOffset |-> 12, xmlLength |-> 4, plistOk |-> TRUE,
   sectorCount |-> sectorCount, partitions |-> partitions]

Part(base, offset, runs) == [dataOffset |-> offset, sectorBase |-> base, runs |-> runs]

(* Two runs that meet at sector `cut`, listed in either order. *)
TwoRuns ==
  {ImageWith(4, <<Part(0, 1, runs)>>) :
     runs \in UNION {
       { <<RunAt(k, 0, cut, 0), RunAt(m, cut, 4 - cut, 5), Terminator(4)>>,
         <<Comment, RunAt(m, cut, 4 - cut, 5), RunAt(k, 0, cut, 0)>> } :
       cut \in 1..3, k \in Shapes, m \in {"raw", "zlib"}}}

(* Two partitions that meet at sector `cut`, in either order; the second   *)
(* may start with an empty run.                                            *)
TwoPartitions ==
  {ImageWith(4, parts) :
     parts \in UNION {
       { <<Part(0, 1, <<RunAt(k, 0, cut, 0)>>),
           Part(cut, 2, <<RunAt("raw", 0, 0, 0), RunAt(m, 0, 4 - cut, 3)>>)>>,
         <<Part(cut, 2, <<RunAt(m, 0, 4 - cut, 3), Terminator(4 - cut)>>),
           Part(0, 1, <<RunAt(k, 0, cut, 0)>>)>> } :
       cut \in 1..3, k \in Shapes, m \in {"raw", "bzip2"}}}

ThreeRuns ==
  {ImageWith(3, <<Part(0, 0, <<RunAt(k, 1, 1, 0), RunAt(m, 2, 1, 2), RunAt(n, 0, 1, 4)>>)>>) :
     k \in {"raw", "adc"}, m \in {"ignore", "raw"}, n \in {"lzfse", "raw"}}

MCFiles == {f \in TwoRuns \cup TwoPartitions \cup ThreeRuns : Sound(f)}

(* The families above leave out no image, and each image fixes every byte. *)
ASSUME FamiliesAreSound ==
  /\ MCFiles = TwoRuns \cup TwoPartitions \cup ThreeRuns
  /\ \A f \in MCFiles : \A b \in 0..DiskSize(f) - 1 : Cardinality(CellsAt(f, b)) = 1

MCReadLens == {0, 1, 3, 9}
MCSeekStarts == {0, 5, 31}
MCSeekDeltas == {-16, -3, 0, 15}
=============================================================================
