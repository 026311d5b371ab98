----------------------------- MODULE Decompress -----------------------------
(***************************************************************************)
(* decompress and LimitWriter (core/src/lib.rs): the decoding of one block *)
(* under the cap of its run.  The stream decoders (zlib, bzip2, LZFSE) are *)
(* read to their end through `take(cap)`, the xz decoder writes into a     *)
(* LimitWriter, and ADC is the repository's own.                           *)
(*                                                                         *)
(* The third-party decoders are external: block says what one would yield, *)
(* in portions of any size.                                                *)
(***************************************************************************)
EXTENDS BlockCodecs, Adc

CONSTANTS
  Blocks,   \* the blocks of the third-party decoders that are considered
  Inputs,   \* the ADC blocks considered: sequences of bytes
  Caps      \* the sizes of the runs they are decoded for

Block == [kind : BlockKinds \cup {"other"}, plain : Nat, intact : BOOLEAN]

(* What an ADC block yields is up to its bytes, and it is never corrupt. *)
AdcBlock == [kind |-> "adc", plain |-> 0, intact |-> TRUE]

ASSUME DecompressAssumption ==
  /\ Blocks \subseteq {b \in Block : b.kind # "adc"}
  /\ Inputs \subseteq Seq(0..255)
  /\ Caps \subseteq Nat
  /\ AdcSlack \in Nat

VARIABLES
  block,    \* the block being decoded
  got,      \* the bytes decoded so far: the length of the output
  status    \* "decoding", "ok" or "err"

vars == <<adcVars, block, got, status>>

Init ==
  /\ AdcInit
  /\ block \in Blocks \cup {AdcBlock}
  /\ input \in IF block = AdcBlock THEN Inputs ELSE {<<>>}
  /\ cap \in Caps
  /\ got = 0
  /\ status = "decoding"

Decoding(kinds) == status = "decoding" /\ block.kind \in kinds

EndWith(result) ==
  /\ status' = result
  /\ UNCHANGED <<adcVars, block, got>>

-----------------------------------------------------------------------------
(* Take::read_to_end over a stream decoder *)

(* Fault: the decoder is read without the limit. *)
TakeReadUncapped ==
  /\ Decoding(StreamKinds)
  /\ \E n \in 1..block.plain - got : got' = got + n
  /\ UNCHANGED <<adcVars, block, status>>

(* The decoder is asked for no more than is left of the cap. *)
TakeRead ==
  /\ Decoding(StreamKinds)
  /\ \E n \in 1..Lesser(block.plain, cap) - got : got' = got + n
  /\ UNCHANGED <<adcVars, block, status>>

(* Fault: the limit is not the end, the decoder is asked for its own. *)
TakeEndLooksFurther ==
  /\ Decoding(StreamKinds)
  /\ got = block.plain /\ block.intact
  /\ EndWith("ok")

(* The output ends with the cap, whatever the decoder has left or would    *)
(* report, or with the stream.                                             *)
TakeEnd ==
  /\ Decoding(StreamKinds)
  /\ got = cap \/ (got = block.plain /\ block.intact)
  /\ EndWith("ok")

StreamFails ==
  /\ Decoding(StreamKinds)
  /\ ~block.intact /\ got < cap
  /\ EndWith("err")

-----------------------------------------------------------------------------
(* xz_decompress into a LimitWriter *)

(* Fault: the write is compared with the limit, not what it adds up to. *)
WriteAlone(n) ==
  IF n > cap
  THEN EndWith("err")
  ELSE /\ got' = got + n
       /\ UNCHANGED <<adcVars, block, status>>

(* Fault: a block that fills the limit is taken to exceed it. *)
WriteBelow(n) ==
  IF got + n >= cap
  THEN EndWith("err")
  ELSE /\ got' = got + n
       /\ UNCHANGED <<adcVars, block, status>>

(* LimitWriter::write *)
Write(n) ==
  IF got + n > cap
  THEN EndWith("err")
  ELSE /\ got' = got + n
       /\ UNCHANGED <<adcVars, block, status>>

XzWrites ==
  /\ Decoding({"lzma"})
  /\ \E n \in 1..block.plain - got : Write(n)

XzEnds ==
  /\ Decoding({"lzma"})
  /\ got = block.plain /\ block.intact
  /\ EndWith("ok")

XzFails ==
  /\ Decoding({"lzma"})
  /\ ~block.intact
  /\ EndWith("err")

-----------------------------------------------------------------------------
AdcStep ==
  /\ Decoding({"adc"})
  /\ AdcNext
  /\ got' = Len(out')
  /\ status' = IF done' THEN "ok" ELSE status
  /\ UNCHANGED block

NotSupported ==
  /\ Decoding({"other"})
  /\ EndWith("err")

Next ==
  \/ TakeRead \/ TakeEnd \/ StreamFails
  \/ XzWrites \/ XzEnds \/ XzFails
  \/ AdcStep \/ NotSupported

Spec == Init /\ [][Next]_vars

(* Straight-line code over decoders that hand out a byte or end: a step    *)
(* that can be taken is taken.                                             *)
FairSpec == Spec /\ WF_vars(Next)

-----------------------------------------------------------------------------
(* The state of each decoder; of ADC also that it reads no token past the  *)
(* end of the block and outputs nothing but literals it has read.          *)
TypeOK ==
  /\ AdcTypeOK
  /\ block \in Blocks \cup {AdcBlock} /\ cap \in Caps
  /\ input \in Inputs \cup {<<>>}
  /\ got \in Nat
  /\ status \in {"decoding", "ok", "err"}

(* No codec's output outgrows the cap of its run, at any moment of the     *)
(* decoding and whatever the block holds: ADC's by less than one token,    *)
(* and the others' not at all.                                             *)
OutputIsBounded ==
  got <= IF block.kind = "adc" /\ cap > 0 THEN cap + 127 ELSE cap

(* "Every codec bounds its output to it": never more than expected_len.    *)
OutputWithinCap == got <= cap

(* Every block ends, whatever its back-references say. *)
DecodingEnds == <>(status # "decoding")
=============================================================================
