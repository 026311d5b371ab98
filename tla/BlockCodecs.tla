---------------------------- MODULE BlockCodecs -----------------------------
(***************************************************************************)
(* What decompress (core/src/lib.rs) promises its caller: of a block that  *)
(* would decode to `plain` bytes and then end properly (intact) or be      *)
(* found corrupt, how many bytes come out when the output is capped, and   *)
(* whether it can fail.  DmgReader relies on it (Udif), the decoders are   *)
(* shown to keep it (Decompress).                                          *)
(***************************************************************************)
EXTENDS MachineInts

CONSTANT AdcSlack   \* the most an ADC block decodes beyond its cap (127)

StreamKinds == {"zlib", "bzip2", "lzfse"}
BlockKinds == StreamKinds \cup {"lzma", "adc"}

(* The stream decoders are cut at the cap, the xz decoder fails above it,  *)
(* and ADC finishes the token that crosses it and never fails.             *)
DecodedLengths(block, cap) ==
  CASE block.kind \in StreamKinds ->
         IF block.plain >= cap THEN {cap}
         ELSE {n \in {block.plain} : block.intact}
    [] block.kind = "lzma" -> {n \in {block.plain} : block.intact /\ n <= cap}
    [] OTHER ->
         IF block.plain <= cap THEN {block.plain}
         ELSE cap..Lesser(block.plain, cap + AdcSlack)

(* A decoder that reads ahead may report corruption it has not reached;    *)
(* one that is asked for nothing reports none.                             *)
DecodeCanFail(block, cap) ==
  \/ block.kind \in StreamKinds /\ ~block.intact /\ cap > 0
  \/ block.kind = "lzma" /\ (~block.intact \/ block.plain > cap)
=============================================================================
