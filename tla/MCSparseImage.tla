--------------------------- MODULE MCSparseImage ----------------------------
(***************************************************************************)
(* Sparse images with a header of two bytes, bands of two or four and a    *)
(* table of three slots: every table over small band numbers, files cut at *)
(* and inside the last band, one band too many, disks that end inside a    *)
(* band or at the end of the word.                                         *)
(***************************************************************************)
EXTENDS FuzzSparse

Tables == [Slots -> {0, 1, 3}]

FileOf(size, spb, total, table) ==
  [size |-> size, magic |-> TRUE, sectorsPerBand |-> spb, totalSectors |-> total,
   table |-> table]

SmallBands == {FileOf(size, 1, 3, table) : size \in {2, 5, 8}, table \in Tables}

WideBands == {FileOf(size, 2, total, table) :
                size \in {6, 9}, total \in {3, 15}, table \in [Slots -> {0, 1, 8}]}

Headers == [size : {1, 2, 9, 20}, magic : BOOLEAN, sectorsPerBand : {0, 1, 3},
            totalSectors : {0, 2}, table : {[s \in Slots |-> s + 1]}]

MCFiles == SmallBands \cup WideBands \cup Headers
MCReadLens == {0, 1, 5}
MCSeekStarts == {0, 3, 31}
MCSeekDeltas == {-16, -1, 0, 15}
=============================================================================
