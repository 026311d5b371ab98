---------------------------- MODULE MCDecompress ----------------------------
(***************************************************************************)
(* ADC: every block of up to four bytes from: literals of one and two      *)
(* bytes, a literal longer than any block, short matches of 3 and 4 bytes, *)
(* one with a far offset, long matches of 4 and 67; every byte is also an  *)
(* offset.  Blocks of six bytes have room for two matches after a literal, *)
(* and the longest ones for a match of 67 and one more token.              *)
(* The other codecs: blocks below, at and above every cap, sound or not.   *)
(***************************************************************************)
EXTENDS BlockReference

MCInputs == UNION {[1..n -> {0, 1, 4, 64, 127, 128, 129, 255}] : n \in 0..4}
            \cup [1..6 -> {0, 1, 64, 129}]
            \cup {<<129, 0, 1, long, 0, offset>> \o token :
                    long \in {64, 127}, offset \in {0, 1, 2},
                    token \in {<<>>, <<128, 9>>, <<0, 1>>, <<7, 1>>, <<255, 2, 3>>}}
MCCaps == {0, 1, 3, 6, 70}
MCBlocks == {b \in [kind : BlockKinds \cup {"other"}, plain : 0..8, intact : BOOLEAN] :
               b.kind # "adc"}
=============================================================================
