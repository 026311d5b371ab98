------------------------------ MODULE MCDmg4n6 ------------------------------
(***************************************************************************)
(* Files of one to eight bytes in a four-bit u64, a trailer of two bytes:  *)
(* every pointer and length of the plist around the end of the file and    *)
(* the end of u64, and some of the data fork.                              *)
(***************************************************************************)
EXTENDS Dmg4n6

ImageWith(size, magic, offset, length, plistOk) ==
  [size |-> size, magic |-> magic, xmlOffset |-> offset, xmlLength |-> length,
   plistOk |-> plistOk, sectorCount |-> 1, partitions |-> <<>>]

MCFiles ==
  {ImageWith(size, TRUE, offset, length, plistOk) :
     size \in {1, 2, 8}, offset \in {1, 6, 9, 15},
     length \in {0, 2, 7, 15}, plistOk \in BOOLEAN}
    \cup {ImageWith(size, FALSE, 1, 2, TRUE) : size \in {1, 2, 8}}

MCKolys ==
  [image : MCFiles, version : {4}, forkOffset : {0}, forkLength : {0}]
    \cup [image : {f \in MCFiles : f.magic /\ f.plistOk /\ f.xmlOffset = 1 /\ f.xmlLength < 9},
          version : {0, 4}, forkOffset : {0, 6, 15}, forkLength : {0, 2, 15}]
=============================================================================
