-------------------------- MODULE MCDmgMalformed ----------------------------
(***************************************************************************)
(* Malformed and well-formed images in a four-bit u64: sectors of two      *)
(* bytes, a container of at most eight.  Fields of koly, mish and run take *)
(* the values around which the reader's arithmetic changes: zero, inside   *)
(* the file, at its end, past it, and up to the saturation point.          *)
(***************************************************************************)
EXTENDS FuzzOpen

NaturalRun ==
  [kind |-> "zero", sectorStart |-> 0, sectorCount |-> 2, dataOffset |-> 0,
   dataLength |-> 0, plain |-> 0, intact |-> TRUE]

ImageWith(sectorCount, partitions) ==
  [size |-> 8, magic |-> TRUE, xmlOffset |-> 4, xmlLength |-> 2, plistOk |-> TRUE,
   sectorCount |-> sectorCount, partitions |-> partitions]

OneRun(sectorCount, sectorBase, dataOffset, run) ==
  ImageWith(sectorCount,
    << [dataOffset |-> dataOffset, sectorBase |-> sectorBase, runs |-> <<run>>] >>)

(* Files that open refuses, and one that has no partition. *)
Headers ==
  [size : {1, 2, 8}, magic : BOOLEAN, xmlOffset : {4, 15}, xmlLength : {2, 5},
   plistOk : BOOLEAN, sectorCount : {2}, partitions : {<<>>}]

(* Where a run may lie, and how large a disk it may claim. *)
Geometries ==
  {OneRun(total, base, 0,
          [NaturalRun EXCEPT !.kind = kind, !.sectorStart = start, !.sectorCount = count]) :
     total \in {1, 4, 8, 15}, base \in {0, 1, 7}, start \in {0, 1, 6, 14},
     count \in {0, 1, 2, 8, 15}, kind \in {"zero", "raw", "other"}}

(* Where its bytes may lie in the container. *)
Placements ==
  {OneRun(4, base, dataOffset,
          [NaturalRun EXCEPT !.kind = kind, !.sectorCount = count, !.dataOffset = runOffset,
                             !.dataLength = length, !.plain = 2 * count]) :
     base \in {0, 1}, dataOffset \in {0, 3, 15}, count \in {2, 8},
     runOffset \in {0, 3, 15}, length \in {0, 2, 6}, kind \in {"raw", "bzip2"}}

(* What its block may decode to. *)
Blocks ==
  {OneRun(total, 0, 1,
          [NaturalRun EXCEPT !.kind = kind, !.dataLength = 2, !.sectorCount = count,
                             !.plain = plain, !.intact = intact]) :
     total \in {2, 7}, count \in {1, 2, 4}, kind \in {"zlib", "lzma", "adc"},
     plain \in {0, 1, 3, 4, 7}, intact \in BOOLEAN}

RunPool ==
  { [NaturalRun EXCEPT !.kind = "ignore", !.sectorCount = 3],
    [NaturalRun EXCEPT !.kind = "raw", !.sectorStart = 1, !.dataOffset = 2],
    [NaturalRun EXCEPT !.kind = "zlib", !.sectorStart = 1, !.dataLength = 4, !.plain = 3],
    [NaturalRun EXCEPT !.kind = "comment", !.sectorCount = 9],
    [NaturalRun EXCEPT !.kind = "lzfse", !.sectorStart = 3, !.plain = 4],
    [NaturalRun EXCEPT !.kind = "zero", !.sectorStart = 5, !.sectorCount = 15] }

Terminator == [NaturalRun EXCEPT !.kind = "term", !.sectorStart = 4, !.sectorCount = 0]

(* Runs that overlap, leave gaps or end with the terminator. *)
RunLists ==
  {ImageWith(6, << [dataOffset |-> 1, sectorBase |-> 0, runs |-> <<r, s, Terminator>>] >>) :
     r \in RunPool, s \in RunPool}

(* Partitions that overlap, touch or leave gaps. *)
PartitionLists ==
  {ImageWith(6, << [dataOffset |-> 1, sectorBase |-> base, runs |-> <<r>>],
                   [dataOffset |-> 2, sectorBase |-> 2, runs |-> <<s>>] >>) :
     r \in RunPool, s \in RunPool, base \in {0, 3}}

(* A disk up to the end of u64 that can be read from its start, and a run  *)
(* that claims to reach further.                                           *)
TallDisks ==
  {ImageWith(8, << [dataOffset |-> 1, sectorBase |-> 0, runs |-> <<r, s>>] >>) :
     r \in {[NaturalRun EXCEPT !.kind = "ignore", !.sectorCount = 3]},
     s \in {[NaturalRun EXCEPT !.kind = kind, !.sectorStart = 2, !.sectorCount = 15] :
              kind \in {"zero", "raw"}}}

MCFiles == Headers \cup Geometries \cup Placements \cup Blocks
           \cup RunLists \cup PartitionLists \cup TallDisks
MCReadLens == {0, 1, 5}
MCSeekStarts == {0, 3, 15}
MCSeekDeltas == {-8, -1, 0, 2}
=============================================================================
