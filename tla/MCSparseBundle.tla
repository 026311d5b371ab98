--------------------------- MODULE MCSparseBundle ---------------------------
(***************************************************************************)
(* Bundles of bands of three bytes: full, short, empty, overlong and       *)
(* missing band files, a disk that ends inside a band, one that reaches    *)
(* far beyond the files, and every way Info.plist is refused.              *)
(***************************************************************************)
EXTENDS SparseBundle

MCNumbers == [t \in {"0", "3", "4", "5", "15"} |->
                CASE t = "0" -> 0 [] t = "3" -> 3 [] t = "4" -> 4 [] t = "5" -> 5
                  [] OTHER -> 15]

Says(key, tag, text) == [key |-> key, tag |-> tag, text |-> text]
Type == Says("diskimage-bundle-type", "string", BundleType)
Sparse == Says("diskimage-bundle-type", "string", "com.apple.diskimage.sparse")
Noise == <<Says("bundle-backingstore-version", "integer", "1"), Says("pad", "string", ""),
           Says("note", "string", "x"), Says("hot", "other", "")>>

Saying(pairs) == [found |-> TRUE, wellFormed |-> TRUE, pairs |-> pairs]
GoodPairs(bandSize, size) ==
  <<Says("band-size", "integer", bandSize)>> \o Noise \o
  <<Type, Says("size", "integer", size)>> \o Noise

GoodInfos ==
  { Saying(GoodPairs("3", "5")), Saying(GoodPairs("4", "15")),
    \* an earlier value, and a bundle type of another type, are no value
    Saying(<<Sparse, Says("size", "integer", "4"), Says("band-size", "integer", "4")>>
           \o GoodPairs("3", "5") \o <<Says("diskimage-bundle-type", "integer", "x")>>) }

BadInfos ==
  { [Saying(GoodPairs("3", "5")) EXCEPT !.found = FALSE],
    [Saying(GoodPairs("3", "5")) EXCEPT !.wellFormed = FALSE],
    Saying(GoodPairs("3", "5") \o <<Sparse>>), Saying(GoodPairs("0", "5")),
    Saying(GoodPairs("", "5")), Saying(GoodPairs("3", "")),
    \* a size that is no integer, and none beside it
    Saying(<<Says("band-size", "integer", "3"), Type, Says("size", "string", "15")>>),
    Saying(<<Says("band-size", "string", "4"), Type, Says("size", "integer", "5")>>),
    Saying(GoodPairs("3", "x")), Saying(GoodPairs("x", "5")) }

Bytes(from, to) == [i \in 1..(to - from) |-> FileByte(from + i - 1)]

MCInfos == BadInfos \cup GoodInfos

MCFiles ==
  {[b \in 0..1 |-> IF b = 0 THEN first ELSE second] :
     first \in {NoFile, Bytes(0, 2), Bytes(0, 5)}, second \in {NoFile, Bytes(6, 8)}}

MCNames == {0, 1}
MCNewBytes == {FileByte(9)}
MCReadLens == {0, 4}
MCSeekStarts == {1, 15}
MCSeekDeltas == {-8, 7}
=============================================================================
