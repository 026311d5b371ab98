---------------------------- MODULE MCDmgSource -----------------------------
(***************************************************************************)
(* Two threads on one DmgSource in a five-bit u64: two sound images, one   *)
(* whose block decodes short, one with a gap, one with overlapping runs,   *)
(* and two that lead a bare read to the end of u64.                        *)
(***************************************************************************)
EXTENDS DmgSource

RunAt(kind, start, count, offset, plain) ==
  [kind |-> kind, sectorStart |-> start, sectorCount |-> count, dataOffset |-> offset,
   dataLength |-> 2, plain |-> plain, intact |-> TRUE]

ImageWith(sectorCount, base, runs) ==
  [size |-> 12, magic |-> TRUE, xmlOffset |-> 8, xmlLength |-> 2, plistOk |-> TRUE,
   sectorCount |-> sectorCount,
   partitions |-> << [dataOffset |-> 1, sectorBase |-> base, runs |-> runs] >>]

Mixed == ImageWith(4, 0, << RunAt("raw", 2, 2, 3, 0), RunAt("zlib", 0, 1, 0, 2),
                            RunAt("zero", 1, 1, 0, 0) >>)
Blocks == ImageWith(3, 0, << RunAt("adc", 0, 2, 0, 4), RunAt("lzma", 2, 1, 3, 2) >>)

ShortBlock == ImageWith(3, 0, << RunAt("bzip2", 0, 2, 0, 3), RunAt("raw", 2, 1, 1, 0) >>)
Gap == ImageWith(4, 0, << RunAt("raw", 0, 1, 0, 0), RunAt("lzfse", 2, 2, 3, 4) >>)
Overlap == ImageWith(3, 0, << RunAt("raw", 1, 2, 0, 0), RunAt("ignore", 0, 3, 0, 0) >>)
Endless == ImageWith(16, 0, << RunAt("zlib", 0, 14, 0, 2), RunAt("zero", 14, 31, 0, 0) >>)
LateRun == ImageWith(16, 15, << RunAt("zero", 0, 31, 0, 0) >>)

SoundFiles == {Mixed, Blocks}
DamagedFiles == {ShortBlock, Gap, Overlap, Endless, LateRun}
MCFiles == SoundFiles \cup DamagedFiles

ASSUME SoundFilesAreSound == SoundFiles = {f \in MCFiles : Sound(f)}

MCOffsets == {1, 30}
MCBufLens == {0, 5}
=============================================================================
