-------------------------- MODULE DecompressProofs --------------------------
(***************************************************************************)
(* decompress, for every block, ADC input and cap: what bounds the memory  *)
(* of a decoding, where the bytes of an ADC block come from, that they are *)
(* those the block stands for, and that the reader is told no less of any  *)
(* codec than it may do.                                                   *)
(***************************************************************************)
EXTENDS BlockReference, SequenceTheorems, WellFoundedInduction, TLAPS

(* The bytes of ADC that are out, or that the match in progress may still  *)
(* add, are less than one token beyond the cap; a cap of 0 starts no       *)
(* token.  The others never exceed it.                                     *)
Within ==
  IF block.kind = "adc"
  THEN /\ got = Len(out)
       /\ got + match.left <= cap + 127
       /\ cap = 0 => got = 0 /\ match.left = 0
  ELSE got <= cap

DecompressInv == TypeOK /\ Within

LEMMA BlockFacts ==
  ASSUME TypeOK
  PROVE  /\ block \in Block /\ block.plain \in Nat /\ cap \in Nat /\ got \in Nat
         /\ input \in Seq(0..255) /\ Len(input) \in Nat
         /\ next \in 1..Len(input) + 1 /\ next \in Nat
         /\ out \in Seq(2..next - 1) /\ Len(out) \in Nat
         /\ match.left \in 0..67 /\ match.left \in Nat /\ match.offset \in Nat
<1>1. block \in Block
  <2>1. AdcBlock \in Block
    BY DEF AdcBlock, Block, BlockKinds
  <2>2. Blocks \subseteq Block
    BY DecompressAssumption
  <2>. QED  BY <2>1, <2>2 DEF TypeOK
<1>2. input \in Seq(0..255) /\ Len(input) \in Nat
  BY DecompressAssumption, EmptySeq, LenProperties DEF TypeOK
<1>3. block.plain \in Nat
  BY <1>1 DEF Block
<1>4. cap \in Nat /\ got \in Nat
  BY DecompressAssumption DEF TypeOK
<1>5. /\ next \in 1..Len(input) + 1 /\ out \in Seq(2..next - 1)
      /\ match \in [offset : Nat, left : 0..67]
  BY DEF TypeOK, AdcTypeOK
<1>6. next \in Nat /\ match.left \in 0..67 /\ match.offset \in Nat
  BY <1>2, <1>5
<1>7. match.left \in Nat
  BY <1>6
<1>8. Len(out) \in Nat
  BY <1>5, LenProperties
<1>. QED  BY <1>1, <1>2, <1>3, <1>4, <1>5, <1>6, <1>7, <1>8

LEMMA InitInv == Init => DecompressInv
<1>. SUFFICES ASSUME Init PROVE DecompressInv
  OBVIOUS
<1>1. input \in Inputs \cup {<<>>} /\ block \in Blocks \cup {AdcBlock} /\ cap \in Nat
  BY DecompressAssumption DEF Init
<1>2. Len(input) \in Nat
  <2>1. input \in Seq(0..255)
    BY <1>1, DecompressAssumption, EmptySeq
  <2>. QED  BY <2>1, LenProperties
<1>3. out = <<>> /\ Len(out) = 0 /\ out \in Seq(2..next - 1)
  BY EmptySeq DEF Init, AdcInit
<1>4. match = [offset |-> 0, left |-> 0] /\ got = 0 /\ next = 1 /\ done = FALSE
  BY DEF Init, AdcInit
<1>5. AdcTypeOK
  <2>1. match \in [offset : Nat, left : 0..67]
    BY <1>4
  <2>2. next \in 1..Len(input) + 1
    BY <1>2, <1>4
  <2>. QED  BY <1>3, <1>4, <2>1, <2>2 DEF AdcTypeOK
<1>6. TypeOK
  BY <1>1, <1>4, <1>5 DEF Init, TypeOK
<1>7. Within
  BY <1>1, <1>3, <1>4 DEF Within
<1>. QED  BY <1>6, <1>7 DEF DecompressInv

-----------------------------------------------------------------------------
(* The steps of the third-party decoders *)

(* A portion that leaves the output within the cap, or the end. *)
LEMMA CountStep ==
  ASSUME DecompressInv, UNCHANGED <<adcVars, block>>, got' \in Nat,
         status' \in {"decoding", "ok", "err"},
         got' = got \/ (block.kind # "adc" /\ got' <= cap)
  PROVE  DecompressInv'
  BY DEF DecompressInv, TypeOK, AdcTypeOK, Within, adcVars

LEMMA DecoderStep ==
  ASSUME DecompressInv,
         \/ TakeRead \/ TakeEnd \/ StreamFails
         \/ XzWrites \/ XzEnds \/ XzFails \/ NotSupported
  PROVE  DecompressInv'
<1>1. got \in Nat /\ cap \in Nat /\ block.plain \in Nat
  BY BlockFacts DEF DecompressInv
<1>2. status \in {"decoding", "ok", "err"}
  BY DEF DecompressInv, TypeOK
<1>3. ASSUME NEW result \in {"ok", "err"}, EndWith(result)
      PROVE  DecompressInv'
  BY <1>1, <1>3, CountStep DEF EndWith
<1>4. CASE TakeRead
  <2>1. PICK n \in 1..Lesser(block.plain, cap) - got : got' = got + n
    BY <1>4 DEF TakeRead
  <2>2. Lesser(block.plain, cap) \in Nat /\ Lesser(block.plain, cap) <= cap
    BY <1>1 DEF Lesser
  <2>3. got' \in Nat /\ got' <= cap
    BY <1>1, <2>1, <2>2
  <2>4. block.kind # "adc" /\ UNCHANGED <<adcVars, block>> /\ status' = status
    BY <1>4 DEF TakeRead, Decoding, StreamKinds
  <2>. QED  BY <1>2, <2>3, <2>4, CountStep
<1>5. CASE XzWrites
  <2>1. PICK n \in 1..block.plain - got : Write(n)
    BY <1>5 DEF XzWrites
  <2>2. CASE got + n > cap
    BY <1>3, <2>1, <2>2 DEF Write
  <2>3. CASE ~(got + n > cap)
    <3>1. got' = got + n /\ UNCHANGED <<adcVars, block, status>>
      BY <2>1, <2>3 DEF Write
    <3>2. got' \in Nat /\ got' <= cap
      BY <1>1, <2>1, <2>3, <3>1
    <3>3. block.kind # "adc"
      BY <1>5 DEF XzWrites, Decoding
    <3>. QED  BY <1>2, <3>1, <3>2, <3>3, CountStep
  <2>. QED  BY <2>2, <2>3
<1>. QED
  BY <1>3, <1>4, <1>5 DEF TakeEnd, StreamFails, XzEnds, XzFails, NotSupported

-----------------------------------------------------------------------------
(* The steps of ADC *)

(* What each step of the token machine leaves in place. *)
AdcKeeps ==
  /\ UNCHANGED <<input, cap>>
  /\ AdcTypeOK'
  /\ Len(out)' + match'.left <= cap + 127
  /\ cap = 0 => Len(out)' = 0 /\ match'.left = 0

LEMMA TokenFacts ==
  ASSUME TypeOK, next <= Len(input)
  PROVE  /\ Token \in 0..255
         /\ Left \in Nat /\ Left = Len(input) - next
         /\ Left >= 1 => input[next + 1] \in 0..255
         /\ Left >= 2 => input[next + 2] \in 0..255
<1>1. input \in Seq(0..255) /\ Len(input) \in Nat /\ next \in Nat /\ next >= 1
  BY BlockFacts
<1>2. \A i \in 1..Len(input) : input[i] \in 0..255
  BY <1>1, ElementOfSeq
<1>. QED  BY <1>1, <1>2 DEF Token, Left

(* The loop is entered only below the cap. *)
LEMMA MoreFacts ==
  ASSUME DecompressInv, block.kind = "adc", More
  PROVE  /\ next <= Len(input) /\ Len(out) < cap /\ cap # 0 /\ match.left = 0
         /\ Len(out) \in Nat /\ cap \in Nat
  BY BlockFacts DEF More, DecompressInv

LEMMA LiteralKeeps ==
  ASSUME DecompressInv, block.kind = "adc", Literal
  PROVE  AdcKeeps
<1>. DEFINE n == IF LiteralLen <= Left THEN LiteralLen ELSE Left
            run == [k \in 1..n |-> next + k]
<1>1. /\ next <= Len(input) /\ Len(out) < cap /\ cap # 0 /\ match.left = 0
      /\ Len(out) \in Nat /\ cap \in Nat
  BY MoreFacts DEF Literal
<1>2. /\ Len(input) \in Nat /\ next \in Nat /\ next >= 1 /\ out \in Seq(2..next - 1)
      /\ Token \in 0..255 /\ Left \in Nat /\ Left = Len(input) - next
      /\ match \in [offset : Nat, left : 0..67] /\ done \in BOOLEAN
  BY <1>1, BlockFacts, TokenFacts DEF DecompressInv, TypeOK, AdcTypeOK
<1>3. LiteralLen \in 1..128
  BY <1>2 DEF LiteralLen
<1>4. n \in 0..128 /\ n <= Left
  BY <1>2, <1>3
<1>5. out' = out \o run /\ next' = next + 1 + n /\ UNCHANGED <<input, cap, match, done>>
  BY DEF Literal
<1>. HIDE DEF n
<1>6. out \in Seq(2..next' - 1) /\ run \in Seq(2..next' - 1) /\ Len(run) = n
  <2>1. 2..next - 1 \subseteq 2..next' - 1
    BY <1>2, <1>4, <1>5
  <2>2. out \in Seq(2..next' - 1)
    BY <1>2, <2>1, SeqMonotonic
  <2>3. \A k \in 1..n : next + k \in 2..next' - 1
    BY <1>2, <1>4, <1>5
  <2>. QED  BY <1>4, <2>2, <2>3
<1>7. out' \in Seq(2..next' - 1) /\ Len(out') = Len(out) + n
  <2>1. /\ out \o run \in Seq(2..next' - 1)
        /\ Len(out \o run) = Len(out) + Len(run)
    BY <1>6, ConcatProperties
  <2>. QED  BY <1>5, <1>6, <2>1
<1>8. next' \in 1..Len(input') + 1
  BY <1>2, <1>4, <1>5
<1>9. Len(out') + match'.left <= cap + 127
  BY <1>1, <1>4, <1>5, <1>7
<1>. QED  BY <1>1, <1>2, <1>5, <1>7, <1>8, <1>9 DEF AdcKeeps, AdcTypeOK

(* A step that takes m bytes of the block and starts a match. *)
LEMMA MatchKeeps ==
  ASSUME DecompressInv, block.kind = "adc", More,
         NEW m \in {2, 3}, Left + 1 >= m, next' = next + m,
         NEW offset \in Nat, NEW len \in 0..67,
         match' = [offset |-> offset, left |-> len],
         UNCHANGED <<input, cap, out, done>>
  PROVE  AdcKeeps
<1>1. /\ next <= Len(input) /\ Len(out) < cap /\ cap # 0
      /\ Len(out) \in Nat /\ cap \in Nat
  BY MoreFacts
<1>2. /\ Len(input) \in Nat /\ next \in Nat /\ next >= 1 /\ out \in Seq(2..next - 1)
      /\ Left = Len(input) - next /\ done \in BOOLEAN
  BY <1>1, BlockFacts, TokenFacts DEF DecompressInv, TypeOK, AdcTypeOK
<1>3. next' \in 1..Len(input') + 1
  BY <1>2
<1>4. out' \in Seq(2..next' - 1)
  <2>1. 2..next - 1 \subseteq 2..next' - 1
    BY <1>2
  <2>. QED  BY <1>2, <2>1, SeqMonotonic
<1>5. Len(out') + match'.left <= cap + 127
  BY <1>1
<1>. QED  BY <1>1, <1>2, <1>3, <1>4, <1>5 DEF AdcKeeps, AdcTypeOK

LEMMA LongMatchKeeps ==
  ASSUME DecompressInv, block.kind = "adc", LongMatch
  PROVE  AdcKeeps
<1>1. Token \in 0..255 /\ Left \in Nat /\ Left >= 2
  BY MoreFacts, TokenFacts DEF LongMatch, DecompressInv
<1>2. input[next + 1] \in 0..255 /\ input[next + 2] \in 0..255
  BY <1>1, MoreFacts, TokenFacts DEF LongMatch, DecompressInv
<1>3. LongOffset \in Nat
  <2>1. input[next + 1] \in Nat /\ input[next + 2] \in Nat
    BY <1>2
  <2>. QED  BY <2>1 DEF LongOffset
<1>4. LongLen \in 0..67
  BY <1>1 DEF LongLen
<1>5. /\ More /\ next' = next + 3 /\ Left + 1 >= 3
      /\ match' = [offset |-> LongOffset, left |-> LongLen]
      /\ UNCHANGED <<input, cap, out, done>>
  BY <1>1 DEF LongMatch
<1>. QED  BY <1>3, <1>4, <1>5, MatchKeeps

LEMMA ShortMatchKeeps ==
  ASSUME DecompressInv, block.kind = "adc", ShortMatch
  PROVE  AdcKeeps
<1>1. Token \in 0..255 /\ Left \in Nat /\ Left >= 1
  BY MoreFacts, TokenFacts DEF ShortMatch, DecompressInv
<1>2. input[next + 1] \in 0..255
  BY <1>1, MoreFacts, TokenFacts DEF ShortMatch, DecompressInv
<1>3. ShortOffset \in Nat
  <2>1. Token % 4 \in 0..3
    BY <1>1
  <2>. QED  BY <1>2, <2>1 DEF ShortOffset
<1>4. ShortLen \in 0..67
  <2>1. (Token \div 4) \in Nat
    BY <1>1
  <2>2. (Token \div 4) % 16 \in 0..15
    BY <2>1
  <2>. QED  BY <2>2 DEF ShortLen
<1>5. /\ More /\ next' = next + 2 /\ Left + 1 >= 2
      /\ match' = [offset |-> ShortOffset, left |-> ShortLen]
      /\ UNCHANGED <<input, cap, out, done>>
  BY <1>1 DEF ShortMatch
<1>. QED  BY <1>3, <1>4, <1>5, MatchKeeps

LEMMA CopyByteKeeps ==
  ASSUME DecompressInv, block.kind = "adc", CopyByte
  PROVE  AdcKeeps
<1>1. /\ match.left > 0 /\ match.left \in 0..67 /\ match.offset \in Nat
      /\ match \in [offset : Nat, left : 0..67] /\ done \in BOOLEAN
      /\ UNCHANGED <<input, cap, next, done>>
      /\ next \in 1..Len(input) + 1 /\ out \in Seq(2..next - 1)
      /\ Len(out) \in Nat /\ cap \in Nat
  BY BlockFacts DEF CopyByte, DecompressInv, TypeOK, AdcTypeOK
<1>2. Len(out) + match.left <= cap + 127 /\ cap # 0 /\ match.left \in Nat
  <2>1. match.left \in Nat
    BY BlockFacts DEF DecompressInv
  <2>. QED  BY <1>1, <2>1 DEF DecompressInv, Within
<1>3. CASE Len(out) <= match.offset
  <2>1. match' = [match EXCEPT !.left = 0] /\ out' = out
    BY <1>3 DEF CopyByte
  <2>2. match' \in [offset : Nat, left : 0..67] /\ match'.left = 0
    BY <1>1, <2>1
  <2>3. Len(out') + match'.left <= cap + 127
    <3>1. Len(out') = Len(out)
      BY <2>1
    <3>. QED  BY <1>1, <1>2, <2>2, <3>1
  <2>. QED  BY <1>1, <1>2, <2>1, <2>2, <2>3 DEF AdcKeeps, AdcTypeOK
<1>4. CASE ~(Len(out) <= match.offset)
  <2>1. /\ match' = [match EXCEPT !.left = @ - 1]
        /\ out' = Append(out, out[Len(out) - match.offset])
    BY <1>4 DEF CopyByte
  <2>2. match' \in [offset : Nat, left : 0..67] /\ match'.left = match.left - 1
    <3>1. match.left - 1 \in 0..67
      BY <1>1
    <3>. QED  BY <1>1, <2>1, <3>1
  <2>3. out[Len(out) - match.offset] \in 2..next - 1
    <3>1. Len(out) - match.offset \in 1..Len(out)
      BY <1>1, <1>4
    <3>. QED  BY <1>1, <3>1, ElementOfSeq
  <2>4. out' \in Seq(2..next - 1) /\ Len(out') = Len(out) + 1
    BY <1>1, <2>1, <2>3, AppendProperties
  <2>5. Len(out') + match'.left <= cap + 127
    BY <1>1, <1>2, <2>2, <2>4
  <2>. QED  BY <1>1, <1>2, <2>2, <2>4, <2>5 DEF AdcKeeps, AdcTypeOK
<1>. QED  BY <1>3, <1>4

LEMMA EndingKeeps ==
  ASSUME DecompressInv, block.kind = "adc", Truncated \/ Stop
  PROVE  AdcKeeps
<1>1. /\ UNCHANGED <<input, cap, out, match>> /\ done' \in BOOLEAN
      /\ next' = next \/ (next <= Len(input) /\ next' = next + 1)
  BY DEF Truncated, Stop, More
<1>2. /\ Len(input) \in Nat /\ next \in Nat /\ next \in 1..Len(input) + 1
      /\ out \in Seq(2..next - 1)
  BY BlockFacts DEF DecompressInv
<1>3. next' \in 1..Len(input) + 1
  BY <1>1, <1>2
<1>4. out' \in Seq(2..next' - 1)
  <2>1. 2..next - 1 \subseteq 2..next' - 1
    BY <1>1, <1>2
  <2>. QED  BY <1>1, <1>2, <2>1, SeqMonotonic
<1>. QED
  BY <1>1, <1>3, <1>4 DEF AdcKeeps, AdcTypeOK, DecompressInv, TypeOK, Within

LEMMA AdcStepKeeps ==
  ASSUME DecompressInv, AdcStep
  PROVE  DecompressInv'
<1>1. block.kind = "adc" /\ block' = block /\ got' = Len(out')
  BY DEF AdcStep, Decoding
<1>2. AdcKeeps
  BY <1>1, LiteralKeeps, LongMatchKeeps, ShortMatchKeeps, CopyByteKeeps, EndingKeeps
     DEF AdcStep, AdcNext
<1>3. status' \in {"decoding", "ok", "err"}
  BY DEF AdcStep, Decoding, DecompressInv, TypeOK
<1>4. Len(out') \in Nat
  BY <1>2 DEF AdcKeeps, AdcTypeOK
<1>. QED
  BY <1>1, <1>2, <1>3, <1>4 DEF AdcKeeps, DecompressInv, TypeOK, Within

LEMMA NextInv == DecompressInv /\ [Next]_vars => DecompressInv'
<1>. SUFFICES ASSUME DecompressInv, [Next]_vars PROVE DecompressInv'
  OBVIOUS
<1>1. CASE UNCHANGED vars
  BY <1>1 DEF vars, adcVars, DecompressInv, TypeOK, AdcTypeOK, Within
<1>. QED  BY <1>1, DecoderStep, AdcStepKeeps DEF Next

-----------------------------------------------------------------------------
(* Every byte of a decoded ADC block is a copy of a literal that precedes  *)
(* the token being read, and no token is read beyond the block: lib.rs,    *)
(* the loop of adc_decompress and the indices of copy_back.                *)
THEOREM DecompressTypeCorrect == Spec => []TypeOK
<1>1. DecompressInv => TypeOK
  BY DEF DecompressInv
<1>. QED  BY <1>1, InitInv, NextInv, PTL DEF Spec

(* No block makes decompress hold more than its cap, and one token of ADC, *)
(* at any moment: lib.rs, `take`, LimitWriter and the loop condition.      *)
THEOREM OutputIsBoundedHolds == Spec => []OutputIsBounded
<1>1. DecompressInv => OutputIsBounded
  <2>. SUFFICES ASSUME DecompressInv PROVE OutputIsBounded
    OBVIOUS
  <2>1. match.left \in Nat /\ got \in Nat /\ cap \in Nat
    BY BlockFacts DEF DecompressInv
  <2>2. CASE block.kind = "adc"
    <3>1. got + match.left <= cap + 127 /\ (cap = 0 => got = 0)
      BY <2>2 DEF DecompressInv, Within
    <3>2. got <= cap + 127
      BY <2>1, <3>1
    <3>3. cap = 0 \/ cap > 0
      BY <2>1
    <3>. QED  BY <2>1, <2>2, <3>1, <3>2, <3>3 DEF OutputIsBounded
  <2>3. CASE block.kind # "adc"
    BY <2>3 DEF DecompressInv, Within, OutputIsBounded
  <2>. QED  BY <2>2, <2>3
<1>. QED  BY <1>1, InitInv, NextInv, PTL DEF Spec

-----------------------------------------------------------------------------
(* The expansion of an ADC block *)

(* Induction over the natural numbers, for a set that holds 0 and, with    *)
(* each n, n + 1.                                                          *)
LEMMA ClosedUnderSuccessor ==
  ASSUME NEW T, 0 \in T, \A n \in Nat : n \in T => n + 1 \in T
  PROVE  \A n \in Nat : n \in T
<1>. DEFINE Less == OpToRel(<, Nat)
            Rest == {n \in Nat : n \notin T}
<1>1. IsWellFoundedOn(Less, Nat)
  BY NatLessThanWellFounded
<1>2. \A m, n \in Nat : m < n => <<m, n>> \in Less
  BY DEF OpToRel
<1>. HIDE DEF Less
<1>3. ASSUME Rest # {} PROVE FALSE
  <2>1. PICK n \in Rest : \A m \in Rest : <<m, n>> \notin Less
    BY <1>1, <1>3, WFMin
  <2>2. n \in Nat /\ n # 0 /\ n - 1 \in Nat /\ n - 1 < n /\ (n - 1) + 1 = n
    BY <2>1
  <2>3. n - 1 \in Rest
    BY <2>1, <2>2
  <2>. QED  BY <1>2, <2>1, <2>2, <2>3
<1>. QED  BY <1>3

(* The equation that defines Expansion has a solution, so that it holds.   *)
LEMMA ExpansionUnfolds ==
  ASSUME NEW b, Len(b) \in Nat
  PROVE  Expansion(b) =
           [n \in 0..Len(b) |->
              IF n = 0 THEN [at |-> 1, bytes |-> <<>>]
              ELSE ExpandToken(b, Expansion(b)[n - 1])]
<1>. DEFINE First == [at |-> 1, bytes |-> <<>>]
            Solves(g, m) ==
              g = [n \in 0..m |-> IF n = 0 THEN First ELSE ExpandToken(b, g[n - 1])]
            T == {m \in Nat : \E g : Solves(g, m)}
<1>1. 0 \in T
  <2>1. Solves([n \in 0..0 |-> First], 0)
    OBVIOUS
  <2>. QED  BY <2>1
<1>2. ASSUME NEW m \in Nat, m \in T PROVE m + 1 \in T
  <2>1. PICK g : Solves(g, m)
    BY <1>2
  <2>. DEFINE h == [n \in 0..m + 1 |-> IF n = m + 1 THEN ExpandToken(b, g[m]) ELSE g[n]]
  <2>2. \A n \in 0..m : h[n] = g[n]
    OBVIOUS
  <2>3. \A n \in 0..m : g[n] = IF n = 0 THEN First ELSE ExpandToken(b, g[n - 1])
    BY <2>1
  <2>4. ASSUME NEW n \in 0..m + 1
        PROVE  h[n] = IF n = 0 THEN First ELSE ExpandToken(b, h[n - 1])
    <3>1. CASE n = m + 1
      BY <2>2, <3>1
    <3>2. CASE n \in 0..m /\ n # 0
      <4>1. n - 1 \in 0..m
        BY <3>2
      <4>. QED  BY <2>2, <2>3, <3>2, <4>1
    <3>3. CASE n = 0
      BY <2>2, <2>3, <3>3
    <3>. QED  BY <3>1, <3>2, <3>3
  <2>5. h = [n \in 0..m + 1 |-> h[n]]
    OBVIOUS
  <2>. HIDE DEF h
  <2>6. Solves(h, m + 1)
    BY <2>4, <2>5
  <2>. QED  BY <2>6
<1>. HIDE DEF T
<1>3. Len(b) \in T
  BY <1>1, <1>2, ClosedUnderSuccessor
<1>4. \E g : Solves(g, Len(b))
  BY <1>3 DEF T
<1>. QED  BY <1>4 DEF Expansion

LEMMA PrefixIsPointwise ==
  ASSUME NEW s \in Seq(Nat), NEW t \in Seq(Nat)
  PROVE  IsPrefix(s, t) <=> Len(s) <= Len(t) /\ \A i \in 1..Len(s) : s[i] = t[i]
<1>. DEFINE n == Len(s)
            S == SubSeq(s, 1, n)
            U == SubSeq(t, 1, n)
<1>. SUFFICES ASSUME Len(s) <= Len(t)
              PROVE  S = U <=> \A i \in 1..n : s[i] = t[i]
  BY DEF IsPrefix
<1>1. n \in Nat /\ \A i \in 1..n : s[i] \in Nat /\ t[i] \in Nat
  BY LenProperties
<1>2. /\ S \in Seq(Nat) /\ Len(S) = n /\ \A i \in 1..n : S[i] = s[i]
      /\ U \in Seq(Nat) /\ Len(U) = n /\ \A i \in 1..n : U[i] = t[i]
  BY <1>1, SubSeqProperties
<1>. HIDE DEF n, S, U
<1>3. ASSUME \A i \in 1..n : s[i] = t[i] PROVE S = U
  BY <1>2, <1>3, SeqEqual
<1>4. ASSUME S = U PROVE \A i \in 1..n : s[i] = t[i]
  BY <1>2, <1>4
<1>. QED  BY <1>3, <1>4

LEMMA PrefixOfConcat ==
  ASSUME NEW s \in Seq(Nat), NEW t \in Seq(Nat)
  PROVE  s \o t \in Seq(Nat) /\ IsPrefix(s, s \o t)
<1>1. /\ s \o t \in Seq(Nat) /\ Len(s \o t) = Len(s) + Len(t)
      /\ \A i \in 1..Len(s) + Len(t) : (s \o t)[i] = IF i <= Len(s) THEN s[i] ELSE t[i - Len(s)]
  BY ConcatProperties
<1>2. Len(s) \in Nat /\ Len(t) \in Nat
  BY LenProperties
<1>3. \A i \in 1..Len(s) : (s \o t)[i] = s[i]
  BY <1>1, <1>2
<1>4. Len(s) <= Len(s \o t)
  BY <1>1, <1>2
<1>5. IsPrefix(s, s \o t)
  BY <1>1, <1>3, <1>4, PrefixIsPointwise
<1>. QED  BY <1>1, <1>5

LEMMA PrefixTransitive ==
  ASSUME NEW s \in Seq(Nat), NEW t \in Seq(Nat), NEW u \in Seq(Nat),
         IsPrefix(s, t), IsPrefix(t, u)
  PROVE  IsPrefix(s, u)
<1>1. Len(s) \in Nat /\ Len(t) \in Nat /\ Len(u) \in Nat
  BY LenProperties
<1>2. Len(s) <= Len(t) /\ Len(t) <= Len(u)
  BY PrefixIsPointwise
<1>3. \A i \in 1..Len(s) : s[i] = t[i] /\ i \in 1..Len(t)
  BY <1>1, <1>2, PrefixIsPointwise
<1>4. \A i \in 1..Len(t) : t[i] = u[i]
  BY PrefixIsPointwise
<1>5. Len(s) <= Len(u)
  BY <1>1, <1>2
<1>. QED  BY <1>3, <1>4, <1>5, PrefixIsPointwise

LEMMA ModuloPeriod ==
  ASSUME NEW n \in Nat, NEW d \in Nat \ {0}
  PROVE  n % d \in 0..d - 1 /\ (n < d => n % d = n) /\ (n >= d => n % d = (n - d) % d)
<1>1. ASSUME NEW q \in Nat, NEW r \in Nat, r < d PROVE (q * d + r) % d = r
  BY <1>1, Z3
<1>2. n % d \in 0..d - 1
  BY Z3
<1>3. n < d => n % d = n
  BY Z3
<1>4. ASSUME n >= d PROVE n % d = (n - d) % d
  <2>. DEFINE q == n \div d
              r == n % d
  <2>1. q \in Nat /\ r \in Nat /\ r < d /\ n = q * d + r
    BY Z3
  <2>. HIDE DEF q, r
  <2>2. q # 0
    BY <1>4, <2>1
  <2>3. q - 1 \in Nat /\ n - d = (q - 1) * d + r
    BY <2>1, <2>2
  <2>4. (n - d) % d = r
    BY <1>1, <2>1, <2>3
  <2>. QED  BY <2>4 DEF r
<1>. QED  BY <1>2, <1>3, <1>4

(* A match continues what precedes it with the period of its offset.       *)
LEMMA PeriodicFacts ==
  ASSUME NEW w \in Seq(Nat), NEW offset \in Nat, NEW len \in Nat
  PROVE  /\ Periodic(w, offset, len) \in Seq(Nat)
         /\ IsPrefix(w, Periodic(w, offset, len))
         /\ Len(w) <= offset => Periodic(w, offset, len) = w
         /\ Len(w) > offset =>
              /\ Len(Periodic(w, offset, len)) = Len(w) + len
              /\ \A i \in Len(w) + 1..Len(w) + len :
                   Periodic(w, offset, len)[i] = Periodic(w, offset, len)[i - offset - 1]
<1>. DEFINE p == Periodic(w, offset, len)
            start == Len(w) - offset
            more == [k \in 1..len |-> w[start + ((k - 1) % (offset + 1))]]
<1>1. Len(w) \in Nat /\ \A i \in 1..Len(w) : w[i] \in Nat
  BY LenProperties
<1>2. CASE Len(w) <= offset
  <2>1. p = w
    BY <1>1, <1>2 DEF Periodic
  <2>2. IsPrefix(w, w)
    BY <1>1, PrefixIsPointwise
  <2>3. ~(Len(w) > offset)
    BY <1>1, <1>2
  <2>. QED  BY <2>1, <2>2, <2>3
<1>3. CASE Len(w) > offset
  <2>1. p = w \o more
    BY <1>1, <1>3 DEF Periodic
  <2>2. ASSUME NEW k \in 1..len
        PROVE  start + ((k - 1) % (offset + 1)) \in 1..Len(w) /\ k - 1 \in Nat
    <3>1. k - 1 \in Nat /\ offset + 1 \in Nat \ {0}
      OBVIOUS
    <3>2. (k - 1) % (offset + 1) \in 0..offset
      BY <3>1, ModuloPeriod
    <3>. QED  BY <1>1, <1>3, <3>1, <3>2
  <2>3. more \in Seq(Nat) /\ Len(more) = len
    <3>1. \A k \in 1..len : w[start + ((k - 1) % (offset + 1))] \in Nat
      BY <1>1, <2>2
    <3>. QED  BY <3>1
  <2>4. \A k \in 1..len : more[k] = w[start + ((k - 1) % (offset + 1))]
    OBVIOUS
  <2>. HIDE DEF more
  <2>. HIDE DEF p
  <2>5. /\ p \in Seq(Nat) /\ Len(p) = Len(w) + len /\ IsPrefix(w, p)
        /\ \A i \in 1..Len(w) + len : p[i] = IF i <= Len(w) THEN w[i] ELSE more[i - Len(w)]
    <3>1. IsPrefix(w, p) /\ p \in Seq(Nat)
      BY <2>1, <2>3, PrefixOfConcat
    <3>2. /\ Len(p) = Len(w) + Len(more)
          /\ \A i \in 1..Len(w) + Len(more) :
               p[i] = IF i <= Len(w) THEN w[i] ELSE more[i - Len(w)]
      BY <2>1, <2>3, ConcatProperties
    <3>. QED  BY <2>3, <3>1, <3>2
  <2>6. ASSUME NEW i \in Len(w) + 1..Len(w) + len PROVE p[i] = p[i - offset - 1]
    <3>. DEFINE k == i - Len(w)
                d == offset + 1
    <3>1. k \in 1..len /\ i \in Nat /\ k - 1 \in Nat /\ d \in Nat \ {0}
      BY <1>1
    <3>2. p[i] = w[start + ((k - 1) % d)]
      <4>1. i \in 1..Len(w) + len /\ ~(i <= Len(w))
        BY <1>1
      <4>2. p[i] = more[k]
        BY <2>5, <4>1
      <4>. QED  BY <2>4, <3>1, <4>2
    <3>3. CASE k - 1 < d
      <4>1. (k - 1) % d = k - 1
        BY <3>1, <3>3, ModuloPeriod
      <4>2. start + (k - 1) = i - offset - 1 /\ i - offset - 1 \in 1..Len(w)
        BY <1>1, <1>3, <3>1, <3>3
      <4>3. p[i - offset - 1] = w[i - offset - 1]
        <5>1. i - offset - 1 \in 1..Len(w) + len /\ i - offset - 1 <= Len(w)
          BY <1>1, <4>2
        <5>. QED  BY <2>5, <5>1
      <4>. QED  BY <3>2, <4>1, <4>2, <4>3
    <3>4. CASE k - 1 >= d
      <4>1. (k - 1) % d = (k - 1 - d) % d
        BY <3>1, <3>4, ModuloPeriod
      <4>2. k - d \in 1..len /\ i - offset - 1 = Len(w) + (k - d)
        BY <1>1, <3>1, <3>4
      <4>3. p[i - offset - 1] = more[k - d]
        <5>1. /\ i - offset - 1 \in 1..Len(w) + len /\ ~(i - offset - 1 <= Len(w))
              /\ i - offset - 1 - Len(w) = k - d
          BY <1>1, <3>1, <4>2
        <5>2. p[i - offset - 1] = more[i - offset - 1 - Len(w)]
          BY <2>5, <5>1
        <5>. QED  BY <5>1, <5>2
      <4>4. more[k - d] = w[start + ((k - d - 1) % d)]
        BY <2>4, <4>2
      <4>5. k - d - 1 = k - 1 - d
        BY <3>1
      <4>. QED  BY <3>2, <4>1, <4>3, <4>4, <4>5
    <3>. QED  BY <3>1, <3>3, <3>4
  <2>. QED  BY <1>1, <1>3, <2>5, <2>6 DEF p
<1>. QED  BY <1>1, <1>2, <1>3

(* A place in a block and the bytes before it. *)
Expansions(b) == [at : 1..Len(b) + 1, bytes : Seq(Nat)]

(* What a token stands for, in terms of its first byte and of the number   *)
(* of bytes after it.                                                      *)
Stands(b, e, x, t, left) ==
  LET i == e.at
  IN  /\ t >= 128 =>
           LET n == Lesser(t - 127, left)
           IN  x = [at |-> i + 1 + n, bytes |-> e.bytes \o [k \in 1..n |-> i + k]]
      /\ left >= 2 /\ t \in 64..127 =>
           x = [at |-> i + 3,
                bytes |-> Periodic(e.bytes, 256 * b[i + 1] + b[i + 2], t - 60)]
      /\ left >= 1 /\ t < 64 =>
           x = [at |-> i + 2,
                bytes |-> Periodic(e.bytes, 256 * (t % 4) + b[i + 1], (t \div 4) + 3)]
      /\ (left < 2 /\ t \in 64..127) \/ (left < 1 /\ t < 64) =>
           x = [e EXCEPT !.at = Len(b) + 1]

(* The choice that ExpandToken makes. *)
Choice(t, left, v1, v2, v3, v4, v5) ==
  CASE left < 0 -> v1
    [] left >= 0 /\ t >= 128 -> v2
    [] left >= 2 /\ t \in 64..127 -> v3
    [] left >= 1 /\ t < 64 -> v4
    [] OTHER -> v5

Chosen(t, left, x, v2, v3, v4, v5) ==
  /\ t >= 128 => x = v2
  /\ left >= 2 /\ t \in 64..127 => x = v3
  /\ left >= 1 /\ t < 64 => x = v4
  /\ (left < 2 /\ t \in 64..127) \/ (left < 1 /\ t < 64) => x = v5

LEMMA ChoiceFacts ==
  ASSUME NEW v1, NEW v2, NEW v3, NEW v4, NEW v5, NEW t \in 0..255, NEW left \in Nat
  PROVE  Chosen(t, left, Choice(t, left, v1, v2, v3, v4, v5), v2, v3, v4, v5)
  BY DEF Choice, Chosen

LEMMA ChoiceOfNone ==
  ASSUME NEW v1, NEW v2, NEW v3, NEW v4, NEW v5, NEW t, NEW left \in Int, left < 0
  PROVE  Choice(t, left, v1, v2, v3, v4, v5) = v1
<1>1. ~(left >= 0) /\ ~(left >= 2) /\ ~(left >= 1)
  OBVIOUS
<1>. QED  BY <1>1, Zenon DEF Choice

LEMMA TokenCases ==
  ASSUME NEW b \in Seq(0..255), NEW e \in Expansions(b), e.at <= Len(b)
  PROVE  Stands(b, e, ExpandToken(b, e), b[e.at], Len(b) - e.at)
<1>. DEFINE A(n) == [at |-> e.at + 1 + n, bytes |-> e.bytes \o [k \in 1..n |-> e.at + k]]
            v2 == A(Lesser(b[e.at] - 127, Len(b) - e.at))
            v3 == [at |-> e.at + 3,
                   bytes |-> Periodic(e.bytes, 256 * b[e.at + 1] + b[e.at + 2], b[e.at] - 60)]
            v4 == [at |-> e.at + 2,
                   bytes |-> Periodic(e.bytes, 256 * (b[e.at] % 4) + b[e.at + 1],
                                      (b[e.at] \div 4) + 3)]
            v5 == [e EXCEPT !.at = Len(b) + 1]
            x == ExpandToken(b, e)
<1>1. x = Choice(b[e.at], Len(b) - e.at, e, v2, v3, v4, v5)
  BY Zenon DEF ExpandToken, Choice
<1>. HIDE DEF v2, v3, v4, v5, x
<1>2. Len(b) \in Nat /\ \A k \in 1..Len(b) : b[k] \in 0..255
  BY LenProperties
<1>3. e.at \in 1..Len(b)
  BY <1>2 DEF Expansions
<1>4. b[e.at] \in 0..255
  BY <1>2, <1>3, Zenon
<1>5. Len(b) - e.at \in Nat
  <2>1. \A i \in 1..Len(b) : Len(b) - i \in Nat
    BY <1>2
  <2>. QED  BY <1>3, <2>1, Zenon
<1>6. Chosen(b[e.at], Len(b) - e.at, x, v2, v3, v4, v5)
  BY <1>1, <1>4, <1>5, ChoiceFacts, Zenon
<1>. QED  BY <1>6, Zenon DEF Chosen, Stands, v2, v3, v4, v5, x

LEMMA ExpandTokenFacts ==
  ASSUME NEW b \in Seq(0..255), NEW e \in Expansions(b)
  PROVE  /\ ExpandToken(b, e) \in Expansions(b)
         /\ e.at = Len(b) + 1 => ExpandToken(b, e) = e
         /\ e.at <= Len(b) => ExpandToken(b, e).at > e.at
         /\ IsPrefix(e.bytes, ExpandToken(b, e).bytes)
<1>1. Len(b) \in Nat /\ \A k \in 1..Len(b) : b[k] \in 0..255
  BY LenProperties
<1>2. e.at \in 1..Len(b) + 1 /\ e.bytes \in Seq(Nat) /\ IsPrefix(e.bytes, e.bytes)
  <2>1. e.at \in 1..Len(b) + 1 /\ e.bytes \in Seq(Nat)
    BY DEF Expansions
  <2>2. Len(e.bytes) \in Nat
    BY <2>1, LenProperties
  <2>3. IsPrefix(e.bytes, e.bytes)
    BY <2>1, <2>2, PrefixIsPointwise
  <2>. QED  BY <2>1, <2>3
<1>3. PICK i \in 1..Len(b) + 1 : i = e.at
  BY <1>2
<1>4. PICK x : x = ExpandToken(b, e)
  OBVIOUS
<1>5. CASE i = Len(b) + 1
  <2>1. Len(b) - i < 0 /\ ~(i <= Len(b))
    BY <1>1, <1>5
  <2>2. x = e
    <3>1. Len(b) - e.at < 0
      BY <1>3, <2>1
    <3>2. \E v2, v3, v4, v5 :
            ExpandToken(b, e) = Choice(b[e.at], Len(b) - e.at, e, v2, v3, v4, v5)
      BY Zenon DEF ExpandToken, Choice
    <3>3. Len(b) - e.at \in Int
      BY <1>1, <1>2
    <3>4. \A v2, v3, v4, v5 : Choice(b[e.at], Len(b) - e.at, e, v2, v3, v4, v5) = e
      <4>1. PICK left \in Int : left = Len(b) - e.at
        BY <3>3, Zenon
      <4>2. left < 0
        BY <3>1, <4>1
      <4>3. \A t, v2, v3, v4, v5 : Choice(t, left, e, v2, v3, v4, v5) = e
        BY <4>2, ChoiceOfNone
      <4>. QED  BY <4>1, <4>3, Zenon
    <3>. QED  BY <1>4, <3>2, <3>4, Zenon
  <2>. QED  BY <1>2, <1>3, <1>4, <1>5, <2>1, <2>2
<1>6. ASSUME i <= Len(b)
      PROVE  x \in Expansions(b) /\ x.at > i /\ IsPrefix(e.bytes, x.bytes)
  <2>1. i \in 1..Len(b) /\ i \in Nat
    BY <1>1, <1>6
  <2>2. PICK left \in Nat : left = Len(b) - i
    BY <1>1, <2>1
  <2>3. PICK t \in 0..255 : t = b[i]
    BY <1>1, <2>1
  <2>9. Stands(b, e, x, t, left)
    BY <1>3, <1>4, <1>6, <2>2, <2>3, TokenCases, Zenon
  <2>4. ASSUME NEW m \in Nat, NEW w \in Seq(Nat), IsPrefix(e.bytes, w),
               1 <= m, m <= left + 1, x = [at |-> i + m, bytes |-> w]
        PROVE  x \in Expansions(b) /\ x.at > i /\ IsPrefix(e.bytes, x.bytes)
    <3>1. i + m \in 1..Len(b) + 1 /\ i + m > i
      BY <1>1, <2>1, <2>2, <2>4
    <3>. QED  BY <2>4, <3>1 DEF Expansions
  <2>5. CASE t >= 128
    <3>1. PICK n : n = Lesser(t - 127, left)
      OBVIOUS
    <3>2. n \in Nat /\ n <= left
      BY <2>5, <3>1 DEF Lesser
    <3>3. x = [at |-> i + 1 + n, bytes |-> e.bytes \o [k \in 1..n |-> i + k]]
      BY <1>3, <2>9, <2>5, <3>1, Zenon DEF Stands
    <3>4. [k \in 1..n |-> i + k] \in Seq(Nat)
      BY <2>1, <3>2
    <3>5. PICK w \in Seq(Nat) : w = e.bytes \o [k \in 1..n |-> i + k] /\ IsPrefix(e.bytes, w)
      BY <1>2, <3>4, PrefixOfConcat
    <3>6. i + 1 + n = i + (n + 1) /\ n + 1 \in Nat /\ 1 <= n + 1 /\ n + 1 <= left + 1
      BY <2>1, <3>2
    <3>7. x = [at |-> i + (n + 1), bytes |-> w]
      BY <3>3, <3>5, <3>6
    <3>. QED  BY <2>4, <3>5, <3>6, <3>7
  <2>6. CASE left >= 2 /\ t \in 64..127
    <3>1. 256 * b[i + 1] + b[i + 2] \in Nat /\ t - 60 \in Nat
      <4>1. i + 1 \in 1..Len(b) /\ i + 2 \in 1..Len(b)
        BY <1>1, <2>1, <2>2, <2>6
      <4>2. b[i + 1] \in 0..255 /\ b[i + 2] \in 0..255
        BY <1>1, <4>1
      <4>3. PICK o1 \in 0..255, o2 \in 0..255 : o1 = b[i + 1] /\ o2 = b[i + 2]
        BY <4>2
      <4>4. 256 * o1 + o2 \in Nat /\ t - 60 \in Nat
        BY <2>6
      <4>. QED  BY <4>3, <4>4
    <3>2. x = [at |-> i + 3, bytes |-> Periodic(e.bytes, 256 * b[i + 1] + b[i + 2], t - 60)]
      BY <1>3, <2>9, <2>6, Zenon DEF Stands
    <3>3. PICK w \in Seq(Nat) : /\ w = Periodic(e.bytes, 256 * b[i + 1] + b[i + 2], t - 60)
                                /\ IsPrefix(e.bytes, w)
      BY <1>2, <3>1, PeriodicFacts
    <3>4. 3 <= left + 1 /\ x = [at |-> i + 3, bytes |-> w]
      BY <2>6, <3>2, <3>3
    <3>. QED  BY <2>4, <3>3, <3>4
  <2>7. CASE left >= 1 /\ t < 64
    <3>1. 256 * (t % 4) + b[i + 1] \in Nat /\ (t \div 4) + 3 \in Nat
      <4>1. t % 4 \in Nat /\ t \div 4 \in Nat
        OBVIOUS
      <4>2. i + 1 \in 1..Len(b)
        BY <1>1, <2>1, <2>2, <2>7
      <4>3. b[i + 1] \in 0..255
        BY <1>1, <4>2
      <4>4. PICK o1 \in 0..255 : o1 = b[i + 1]
        BY <4>3
      <4>5. 256 * (t % 4) + o1 \in Nat /\ (t \div 4) + 3 \in Nat
        BY <4>1
      <4>. QED  BY <4>4, <4>5
    <3>2. x = [at |-> i + 2,
               bytes |-> Periodic(e.bytes, 256 * (t % 4) + b[i + 1], (t \div 4) + 3)]
      BY <1>3, <2>9, <2>7, Zenon DEF Stands
    <3>3. PICK w \in Seq(Nat) :
            /\ w = Periodic(e.bytes, 256 * (t % 4) + b[i + 1], (t \div 4) + 3)
            /\ IsPrefix(e.bytes, w)
      BY <1>2, <3>1, PeriodicFacts
    <3>4. 2 <= left + 1 /\ x = [at |-> i + 2, bytes |-> w]
      BY <2>7, <3>2, <3>3
    <3>. QED  BY <2>4, <3>3, <3>4
  <2>8. CASE (left < 2 /\ t \in 64..127) \/ (left < 1 /\ t < 64)
    <3>1. x = [e EXCEPT !.at = Len(b) + 1]
      BY <1>3, <2>9, <2>8, Zenon DEF Stands
    <3>2. i + (left + 1) = Len(b) + 1 /\ left + 1 \in Nat /\ 1 <= left + 1
      BY <1>1, <2>1, <2>2
    <3>3. [e EXCEPT !.at = Len(b) + 1] = [at |-> Len(b) + 1, bytes |-> e.bytes]
      BY DEF Expansions
    <3>. QED  BY <1>2, <2>4, <3>1, <3>2, <3>3
  <2>. QED  BY <2>5, <2>6, <2>7, <2>8
<1>. QED  BY <1>1, <1>3, <1>4, <1>5, <1>6

(* Every token stands for a byte of the block or more and adds to what     *)
(* precedes it, so that all of the block is expanded after Len(b) tokens.  *)
LEMMA ExpansionFacts ==
  ASSUME NEW b \in Seq(0..255)
  PROVE  /\ Len(b) \in Nat
         /\ Expansion(b)[0] = [at |-> 1, bytes |-> <<>>]
         /\ \A n \in 0..Len(b) : Expansion(b)[n] \in Expansions(b)
         /\ \A n \in 0..Len(b) : Expansion(b)[n].at >= n + 1
         /\ \A n \in 0..Len(b) :
              n < Len(b) => Expansion(b)[n + 1] = ExpandToken(b, Expansion(b)[n])
<1>. DEFINE E == Expansion(b)
            N == Len(b)
            T == {n \in Nat : n <= N => E[n] \in Expansions(b) /\ E[n].at >= n + 1}
<1>1. N \in Nat
  BY LenProperties
<1>2. \A n \in 0..N : E[n] = IF n = 0 THEN [at |-> 1, bytes |-> <<>>] ELSE ExpandToken(b, E[n - 1])
  BY <1>1, ExpansionUnfolds
<1>. HIDE DEF E
<1>3. E[0] = [at |-> 1, bytes |-> <<>>]
  BY <1>1, <1>2
<1>4. \A n \in 0..N : n < N => E[n + 1] = ExpandToken(b, E[n])
  <2>1. SUFFICES ASSUME NEW n \in 0..N, n < N PROVE E[n + 1] = ExpandToken(b, E[n])
    OBVIOUS
  <2>2. n + 1 \in 0..N /\ n + 1 # 0 /\ (n + 1) - 1 = n
    BY <1>1, <2>1
  <2>3. E[n + 1] = ExpandToken(b, E[(n + 1) - 1])
    BY <1>2, <2>2
  <2>. QED  BY <2>2, <2>3
<1>5. 0 \in T
  <2>1. 1 \in 1..N + 1
    BY <1>1
  <2>2. [at |-> 1, bytes |-> <<>>] \in Expansions(b)
    BY <2>1, EmptySeq DEF Expansions
  <2>3. E[0] \in Expansions(b) /\ E[0].at >= 0 + 1
    BY <1>3, <2>2
  <2>. QED  BY <2>3
<1>6. ASSUME NEW n \in Nat, n \in T PROVE n + 1 \in T
  <2>1. SUFFICES ASSUME n + 1 <= N PROVE E[n + 1] \in Expansions(b) /\ E[n + 1].at >= (n + 1) + 1
    OBVIOUS
  <2>2. n \in 0..N /\ n < N
    BY <1>1, <2>1
  <2>3. E[n] \in Expansions(b) /\ E[n].at >= n + 1
    BY <1>1, <1>6, <2>2
  <2>4. E[n + 1] = ExpandToken(b, E[n])
    BY <1>4, <2>2
  <2>5. /\ E[n + 1] \in Expansions(b)
        /\ E[n].at = N + 1 => E[n + 1] = E[n]
        /\ E[n].at <= N => E[n + 1].at > E[n].at
    BY <2>3, <2>4, ExpandTokenFacts
  <2>6. E[n].at \in 1..N + 1 /\ E[n + 1].at \in 1..N + 1
    BY <2>3, <2>5 DEF Expansions
  <2>. QED  BY <1>1, <2>1, <2>3, <2>5, <2>6
<1>. HIDE DEF T
<1>7. \A n \in Nat : n \in T
  BY <1>5, <1>6, ClosedUnderSuccessor
<1>8. \A n \in 0..N : E[n] \in Expansions(b) /\ E[n].at >= n + 1
  BY <1>1, <1>7 DEF T
<1>. QED  BY <1>1, <1>3, <1>4, <1>8 DEF E

(* What is expanded so far is a prefix of the whole, and all of it once    *)
(* the end of the block is reached.                                        *)
LEMMA ExpansionIsPrefix ==
  ASSUME NEW b \in Seq(0..255), NEW n \in 0..Len(b)
  PROVE  /\ IsPrefix(Expansion(b)[n].bytes, Expansion(b)[Len(b)].bytes)
         /\ Expansion(b)[n].at = Len(b) + 1 => Expansion(b)[Len(b)] = Expansion(b)[n]
<1>. DEFINE E == Expansion(b)
            N == Len(b)
            P(k) == /\ IsPrefix(E[n].bytes, E[n + k].bytes)
                    /\ E[n].at = N + 1 => E[n + k] = E[n]
            T == {k \in Nat : n + k <= N => P(k)}
<1>1. /\ N \in Nat
      /\ \A m \in 0..N : E[m] \in Expansions(b)
      /\ \A m \in 0..N : m < N => E[m + 1] = ExpandToken(b, E[m])
  BY ExpansionFacts
<1>. HIDE DEF E
<1>2. \A m \in 0..N : E[m].bytes \in Seq(Nat)
  BY <1>1 DEF Expansions
<1>3. 0 \in T
  <2>1. E[n].bytes \in Seq(Nat) /\ n + 0 = n
    BY <1>1, <1>2
  <2>2. Len(E[n].bytes) \in Nat
    BY <2>1, LenProperties
  <2>3. IsPrefix(E[n].bytes, E[n].bytes)
    BY <2>1, <2>2, PrefixIsPointwise
  <2>. QED  BY <2>1, <2>3
<1>4. ASSUME NEW k \in Nat, k \in T PROVE k + 1 \in T
  <2>1. SUFFICES ASSUME n + (k + 1) <= N PROVE P(k + 1)
    OBVIOUS
  <2>2. PICK m \in 0..N : m = n + k /\ m < N /\ m + 1 = n + (k + 1) /\ m + 1 \in 0..N
    BY <1>1, <2>1
  <2>3. P(k)
    BY <1>1, <1>4, <2>2
  <2>4. E[m + 1] = ExpandToken(b, E[m]) /\ E[m] \in Expansions(b)
    BY <1>1, <2>2
  <2>5. IsPrefix(E[m].bytes, E[m + 1].bytes) /\ (E[m].at = N + 1 => E[m + 1] = E[m])
    BY <2>4, ExpandTokenFacts
  <2>6. E[n].bytes \in Seq(Nat) /\ E[m].bytes \in Seq(Nat) /\ E[m + 1].bytes \in Seq(Nat)
    BY <1>2, <2>2
  <2>7. IsPrefix(E[n].bytes, E[m + 1].bytes)
    BY <2>2, <2>3, <2>5, <2>6, PrefixTransitive
  <2>. QED  BY <2>2, <2>3, <2>5, <2>7
<1>. HIDE DEF T
<1>5. \A k \in Nat : k \in T
  BY <1>3, <1>4, ClosedUnderSuccessor
<1>6. N - n \in Nat /\ n + (N - n) = N /\ n + (N - n) <= N
  BY <1>1
<1>7. P(N - n)
  BY <1>5, <1>6 DEF T
<1>. QED  BY <1>6, <1>7 DEF E

-----------------------------------------------------------------------------
(* A decoding against what the block stands for *)

(* w is what an output becomes when the match in progress has been copied. *)
Continues(w, o, m) ==
  IF m.left > 0 /\ Len(o) > m.offset
  THEN /\ Len(w) = Len(o) + m.left
       /\ IsPrefix(o, w)
       /\ \A p \in Len(o) + 1..Len(w) : w[p] = w[p - m.offset - 1]
  ELSE o = w

(* Between two tokens an ADC decoding is at an expansion of the block.     *)
AdcFollows ==
  /\ status = IF done THEN "ok" ELSE "decoding"
  /\ IF done
     THEN IsPrefix(out, Whole) /\ (out = Whole \/ Len(out) >= cap)
     ELSE \E n \in 0..Len(input) :
            LET e == Expansion(input)[n] IN e.at = next /\ Continues(e.bytes, out, match)

(* The other decoders yield no more than the block holds, and end as the   *)
(* caller is told that they may.                                           *)
OtherFollows ==
  /\ ~done
  /\ got <= block.plain
  /\ status = "ok" => block.kind # "other"
  /\ block.kind \in StreamKinds =>
       /\ status = "ok" => got = cap \/ (got = block.plain /\ block.intact)
       /\ status = "err" => ~block.intact /\ cap > 0
  /\ block.kind = "lzma" =>
       /\ status = "ok" => got = block.plain /\ block.intact
       /\ status = "err" => ~block.intact \/ block.plain > cap

Follows == IF block.kind = "adc" THEN AdcFollows ELSE OtherFollows

ReferenceInv == DecompressInv /\ Follows

LEMMA ContinuesPeriodic ==
  ASSUME NEW w \in Seq(Nat), NEW offset \in Nat, NEW len \in Nat
  PROVE  Continues(Periodic(w, offset, len), w, [offset |-> offset, left |-> len])
<1>. DEFINE p == Periodic(w, offset, len)
<1>1. /\ p \in Seq(Nat) /\ IsPrefix(w, p)
      /\ Len(w) <= offset => p = w
      /\ Len(w) > offset =>
           /\ Len(p) = Len(w) + len
           /\ \A i \in Len(w) + 1..Len(w) + len : p[i] = p[i - offset - 1]
  BY PeriodicFacts
<1>. HIDE DEF p
<1>2. Len(w) \in Nat
  BY LenProperties
<1>3. CASE Len(w) <= offset
  <2>1. ~(Len(w) > offset) /\ p = w
    BY <1>1, <1>2, <1>3
  <2>. QED  BY <2>1 DEF Continues, p
<1>4. CASE Len(w) > offset /\ len > 0
  BY <1>1, <1>4 DEF Continues, p
<1>5. CASE Len(w) > offset /\ len = 0
  <2>1. Len(p) = Len(w) /\ \A i \in 1..Len(w) : w[i] = p[i]
    BY <1>1, <1>2, <1>5, PrefixIsPointwise
  <2>2. p = w
    BY <1>1, <2>1, SeqEqual
  <2>. QED  BY <1>5, <2>2 DEF Continues, p
<1>. QED  BY <1>2, <1>3, <1>4, <1>5

LEMMA LastOrBefore ==
  ASSUME NEW n \in Nat
  PROVE  \A i \in 1..n + 1 : i \in 1..n \/ i = n + 1
  OBVIOUS

LEMMA ContinuesCopy ==
  ASSUME NEW o \in Seq(Nat), NEW w \in Seq(Nat), NEW m \in [offset : Nat, left : Nat],
         m.left > 0, Continues(w, o, m)
  PROVE  IF Len(o) <= m.offset
         THEN Continues(w, o, [m EXCEPT !.left = 0])
         ELSE Continues(w, Append(o, o[Len(o) - m.offset]), [m EXCEPT !.left = @ - 1])
<1>1. Len(o) \in Nat /\ Len(w) \in Nat /\ m.offset \in Nat /\ m.left \in Nat
  BY LenProperties
<1>2. CASE Len(o) <= m.offset
  <2>1. ~(Len(o) > m.offset)
    BY <1>1, <1>2
  <2>. QED  BY <1>2, <2>1 DEF Continues
<1>3. CASE Len(o) > m.offset
  <2>1. /\ Len(w) = Len(o) + m.left
        /\ Len(o) <= Len(w) /\ \A i \in 1..Len(o) : o[i] = w[i]
        /\ \A p \in Len(o) + 1..Len(w) : w[p] = w[p - m.offset - 1]
    BY <1>3, PrefixIsPointwise DEF Continues
  <2>2. PICK back \in 1..Len(o) : back = Len(o) - m.offset
    BY <1>1, <1>3
  <2>3. PICK o1 : o1 = Append(o, o[back])
    OBVIOUS
  <2>4. o[back] \in Nat
    BY <2>2, ElementOfSeq
  <2>5. /\ o1 \in Seq(Nat) /\ Len(o1) = Len(o) + 1 /\ o1[Len(o) + 1] = o[back]
        /\ \A i \in 1..Len(o) : o1[i] = o[i]
    BY <2>3, <2>4, AppendProperties
  <2>6. w[Len(o) + 1] = o[back]
    <3>1. Len(o) + 1 \in Len(o) + 1..Len(w) /\ (Len(o) + 1) - m.offset - 1 = back
      BY <1>1, <2>1, <2>2
    <3>2. w[Len(o) + 1] = w[back]
      BY <2>1, <3>1
    <3>. QED  BY <2>1, <2>2, <3>2
  <2>7. \A i \in 1..Len(o1) : o1[i] = w[i]
    <3>1. \A i \in 1..Len(o) + 1 : i \in 1..Len(o) \/ i = Len(o) + 1
      BY <1>1, LastOrBefore
    <3>. QED  BY <2>1, <2>5, <2>6, <3>1
  <2>8. PICK m1 : m1 = [m EXCEPT !.left = @ - 1]
    OBVIOUS
  <2>9. m1.offset = m.offset /\ m1.left = m.left - 1
    BY <2>8
  <2>10. CASE m.left > 1
    <3>1. m1.left > 0 /\ Len(o1) > m1.offset /\ Len(w) = Len(o1) + m1.left
      <4>1. m.left - 1 > 0 /\ Len(o) + 1 > m.offset
        BY <1>1, <1>3, <2>10
      <4>2. Len(o) + m.left = (Len(o) + 1) + (m.left - 1)
        BY <1>1
      <4>. QED  BY <2>1, <2>5, <2>9, <4>1, <4>2
    <3>2. IsPrefix(o1, w)
      <4>1. Len(o1) <= Len(w)
        BY <1>1, <2>1, <2>5
      <4>. QED  BY <2>5, <2>7, <4>1, PrefixIsPointwise
    <3>3. \A p \in Len(o1) + 1..Len(w) : w[p] = w[p - m1.offset - 1]
      <4>1. \A p \in Len(o1) + 1..Len(w) : p \in Len(o) + 1..Len(w)
        BY <1>1, <2>5
      <4>. QED  BY <2>1, <2>9, <4>1
    <3>. QED  BY <1>1, <1>3, <2>2, <2>3, <2>8, <3>1, <3>2, <3>3 DEF Continues
  <2>11. CASE m.left = 1
    <3>1. Len(o1) = Len(w) /\ ~(m1.left > 0)
      BY <1>1, <2>1, <2>5, <2>9, <2>11
    <3>2. o1 = w
      BY <2>5, <2>7, <3>1, SeqEqual
    <3>. QED  BY <1>1, <1>3, <2>2, <2>3, <2>8, <3>1, <3>2 DEF Continues
  <2>. QED  BY <1>1, <2>10, <2>11
<1>. QED  BY <1>1, <1>2, <1>3

-----------------------------------------------------------------------------
(* The steps of ADC follow the expansion of the block *)

(* The token that is about to be read is the one that the next expansion   *)
(* adds to the output.                                                     *)
LEMMA AtToken ==
  ASSUME DecompressInv, block.kind = "adc", AdcFollows, More
  PROVE  /\ status = "decoding" /\ out \in Seq(Nat)
         /\ Token \in 0..255 /\ Left \in Nat /\ Left = Len(input) - next
         /\ \E m \in 0..Len(input) :
              /\ Expansion(input)[m] \in Expansions(input)
              /\ Stands(input, [at |-> next, bytes |-> out], Expansion(input)[m], Token, Left)
<1>1. /\ next <= Len(input) /\ match.left = 0 /\ Len(out) \in Nat /\ ~done
  BY MoreFacts DEF More
<1>2. /\ input \in Seq(0..255) /\ Len(input) \in Nat /\ next \in Nat
      /\ out \in Seq(2..next - 1)
  BY BlockFacts DEF DecompressInv
<1>3. Token \in 0..255 /\ Left \in Nat /\ Left = Len(input) - next
  BY <1>1, TokenFacts DEF DecompressInv
<1>4. out \in Seq(Nat)
  <2>1. 2..next - 1 \subseteq Nat
    BY <1>2
  <2>. QED  BY <1>2, <2>1, SeqMonotonic
<1>5. status = "decoding"
  BY <1>1 DEF AdcFollows
<1>6. PICK n \in 0..Len(input) :
        Expansion(input)[n].at = next /\ Continues(Expansion(input)[n].bytes, out, match)
  BY <1>1 DEF AdcFollows
<1>7. PICK e : e = Expansion(input)[n]
  OBVIOUS
<1>8. e.at = next /\ e.bytes = out
  BY <1>1, <1>6, <1>7 DEF Continues
<1>9. e \in Expansions(input) /\ e.at >= n + 1
  BY <1>2, <1>7, ExpansionFacts
<1>10. e = [at |-> next, bytes |-> out]
  BY <1>8, <1>9 DEF Expansions
<1>11. n < Len(input) /\ n + 1 \in 0..Len(input)
  BY <1>1, <1>2, <1>8, <1>9
<1>12. /\ Expansion(input)[n + 1] = ExpandToken(input, e)
       /\ Expansion(input)[n + 1] \in Expansions(input)
  BY <1>2, <1>7, <1>11, ExpansionFacts
<1>13. Stands(input, e, ExpandToken(input, e), Token, Left)
  <2>1. e.at <= Len(input)
    BY <1>1, <1>8
  <2>2. Stands(input, e, ExpandToken(input, e), input[e.at], Len(input) - e.at)
    BY <1>2, <1>9, <2>1, TokenCases
  <2>. QED  BY <1>8, <2>2, Zenon DEF Token, Left
<1>. QED  BY <1>3, <1>4, <1>5, <1>10, <1>11, <1>12, <1>13, Zenon

(* A step to the expansion after m tokens. *)
LEMMA FollowsAt ==
  ASSUME UNCHANGED input, done' = FALSE, status' = "decoding",
         NEW m \in 0..Len(input), NEW x, x = Expansion(input)[m],
         x.at = next', Continues(x.bytes, out', match')
  PROVE  AdcFollows'
  BY DEF AdcFollows

LEMMA LiteralFollows ==
  ASSUME DecompressInv, block.kind = "adc", AdcFollows, Literal, status' = status
  PROVE  AdcFollows'
<1>1. /\ More /\ status = "decoding" /\ Token \in 0..255 /\ Left \in Nat /\ Token >= 128
  BY AtToken DEF Literal, IsLiteral
<1>2. PICK m \in 0..Len(input) :
        /\ Expansion(input)[m] \in Expansions(input)
        /\ Stands(input, [at |-> next, bytes |-> out], Expansion(input)[m], Token, Left)
  BY <1>1, AtToken
<1>3. PICK x : x = Expansion(input)[m]
  OBVIOUS
<1>4. PICK n : n = Lesser(Token - 127, Left)
  OBVIOUS
<1>5. x = [at |-> next + 1 + n, bytes |-> out \o [k \in 1..n |-> next + k]]
  BY <1>1, <1>2, <1>3, <1>4, Zenon DEF Stands
<1>6. n = IF LiteralLen <= Left THEN LiteralLen ELSE Left
  <2>1. LiteralLen = Token - 127
    BY <1>1 DEF LiteralLen
  <2>. QED  BY <1>4, <2>1 DEF Lesser
<1>7. /\ out' = out \o [k \in 1..n |-> next + k] /\ next' = next + 1 + n
      /\ UNCHANGED <<input, match, done>>
  BY <1>6, Zenon DEF Literal
<1>8. ~done /\ match.left = 0
  BY <1>1 DEF More
<1>9. Continues(x.bytes, out', match')
  <2>1. out' = x.bytes
    BY <1>5, <1>7
  <2>2. ~(match'.left > 0)
    BY <1>7, <1>8
  <2>. QED  BY <2>1, <2>2, Zenon DEF Continues
<1>10. x.at = next' /\ done' = FALSE /\ status' = "decoding"
  BY <1>1, <1>5, <1>7, <1>8 DEF AdcFollows, DecompressInv, TypeOK, AdcTypeOK
<1>. QED  BY <1>3, <1>7, <1>9, <1>10, FollowsAt

LEMMA MatchFollows ==
  ASSUME DecompressInv, block.kind = "adc", AdcFollows, More,
         status' = status, UNCHANGED <<input, out, done>>,
         NEW m \in 0..Len(input), NEW x, x = Expansion(input)[m],
         NEW offset \in Nat, NEW len \in Nat,
         x = [at |-> next', bytes |-> Periodic(out, offset, len)],
         match' = [offset |-> offset, left |-> len]
  PROVE  AdcFollows'
<1>1. out \in Seq(Nat) /\ status = "decoding"
  BY AtToken
<1>2. Continues(x.bytes, out', match')
  BY <1>1, ContinuesPeriodic
<1>3. done' = FALSE /\ status' = "decoding"
  BY <1>1 DEF More, DecompressInv, TypeOK, AdcTypeOK
<1>4. x.at = next'
  OBVIOUS
<1>. QED  BY <1>2, <1>3, <1>4, FollowsAt, Zenon

LEMMA LongMatchFollows ==
  ASSUME DecompressInv, block.kind = "adc", AdcFollows, LongMatch, status' = status
  PROVE  AdcFollows'
<1>1. /\ More /\ Left >= 2 /\ Token >= 64 /\ Token < 128 /\ Token \in 0..255 /\ Left \in Nat
  BY AtToken DEF LongMatch, IsLong
<1>2. PICK m \in 0..Len(input) :
        /\ Expansion(input)[m] \in Expansions(input)
        /\ Stands(input, [at |-> next, bytes |-> out], Expansion(input)[m], Token, Left)
  BY <1>1, AtToken
<1>3. PICK x : x = Expansion(input)[m]
  OBVIOUS
<1>4. Token \in 64..127
  BY <1>1
<1>5. x = [at |-> next + 3,
           bytes |-> Periodic(out, 256 * input[next + 1] + input[next + 2], Token - 60)]
  BY <1>1, <1>2, <1>3, <1>4, Zenon DEF Stands
<1>6. LongLen = Token - 60 /\ LongLen \in Nat
  BY <1>4 DEF LongLen
<1>7. LongOffset \in Nat
  <2>1. input[next + 1] \in 0..255 /\ input[next + 2] \in 0..255
    BY <1>1, MoreFacts, TokenFacts DEF DecompressInv
  <2>2. PICK o1 \in 0..255, o2 \in 0..255 : o1 = input[next + 1] /\ o2 = input[next + 2]
    BY <2>1
  <2>3. 256 * o1 + o2 \in Nat
    OBVIOUS
  <2>. QED  BY <2>2, <2>3 DEF LongOffset
<1>8. x = [at |-> next', bytes |-> Periodic(out, LongOffset, LongLen)]
  BY <1>5, <1>6, Zenon DEF LongMatch, LongOffset
<1>9. match' = [offset |-> LongOffset, left |-> LongLen] /\ UNCHANGED <<input, out, done>>
  BY DEF LongMatch
<1>. QED  BY <1>1, <1>3, <1>6, <1>7, <1>8, <1>9, MatchFollows

LEMMA ShortMatchFollows ==
  ASSUME DecompressInv, block.kind = "adc", AdcFollows, ShortMatch, status' = status
  PROVE  AdcFollows'
<1>1. /\ More /\ Left >= 1 /\ Token < 64 /\ Token \in 0..255 /\ Left \in Nat
  BY AtToken DEF ShortMatch, IsShort
<1>2. PICK m \in 0..Len(input) :
        /\ Expansion(input)[m] \in Expansions(input)
        /\ Stands(input, [at |-> next, bytes |-> out], Expansion(input)[m], Token, Left)
  BY <1>1, AtToken
<1>3. PICK x : x = Expansion(input)[m]
  OBVIOUS
<1>4. x = [at |-> next + 2,
           bytes |-> Periodic(out, 256 * (Token % 4) + input[next + 1], (Token \div 4) + 3)]
  BY <1>1, <1>2, <1>3, Zenon DEF Stands
<1>5. ShortLen = (Token \div 4) + 3 /\ ShortLen \in Nat
  <2>1. Token \in 0..63
    BY <1>1
  <2>2. Token \div 4 \in 0..15
    BY <2>1
  <2>3. (Token \div 4) % 16 = Token \div 4
    BY <2>2
  <2>. QED  BY <2>2, <2>3 DEF ShortLen
<1>6. ShortOffset \in Nat
  <2>1. input[next + 1] \in 0..255
    BY <1>1, MoreFacts, TokenFacts DEF DecompressInv
  <2>2. PICK o1 \in 0..255 : o1 = input[next + 1]
    BY <2>1
  <2>3. Token % 4 \in 0..3
    BY <1>1
  <2>4. 256 * (Token % 4) + o1 \in Nat
    BY <2>3
  <2>. QED  BY <2>2, <2>4 DEF ShortOffset
<1>7. x = [at |-> next', bytes |-> Periodic(out, ShortOffset, ShortLen)]
  BY <1>4, <1>5, Zenon DEF ShortMatch, ShortOffset
<1>8. match' = [offset |-> ShortOffset, left |-> ShortLen] /\ UNCHANGED <<input, out, done>>
  BY DEF ShortMatch
<1>. QED  BY <1>1, <1>3, <1>5, <1>6, <1>7, <1>8, MatchFollows

LEMMA CopyByteFollows ==
  ASSUME DecompressInv, block.kind = "adc", AdcFollows, CopyByte, ~done, status' = status
  PROVE  AdcFollows'
<1>1. /\ input \in Seq(0..255) /\ Len(input) \in Nat /\ next \in Nat
      /\ out \in Seq(2..next - 1) /\ match.left \in Nat /\ match.offset \in Nat
      /\ match \in [offset : Nat, left : 0..67] /\ done \in BOOLEAN
  BY BlockFacts DEF DecompressInv, TypeOK, AdcTypeOK
<1>2. PICK m \in 0..Len(input) :
        Expansion(input)[m].at = next /\ Continues(Expansion(input)[m].bytes, out, match)
  BY DEF AdcFollows
<1>3. PICK x : x = Expansion(input)[m]
  OBVIOUS
<1>4. x \in Expansions(input)
  BY <1>1, <1>3, ExpansionFacts
<1>5. x.bytes \in Seq(Nat)
  BY <1>4 DEF Expansions
<1>6. out \in Seq(Nat)
  <2>1. 2..next - 1 \subseteq Nat
    BY <1>1
  <2>. QED  BY <1>1, <2>1, SeqMonotonic
<1>7. match \in [offset : Nat, left : Nat]
  BY <1>1
<1>8. match.left > 0 /\ UNCHANGED <<input, cap, next, done>>
  BY DEF CopyByte
<1>9. IF Len(out) <= match.offset
      THEN Continues(x.bytes, out, [match EXCEPT !.left = 0])
      ELSE Continues(x.bytes, Append(out, out[Len(out) - match.offset]),
                     [match EXCEPT !.left = @ - 1])
  BY <1>2, <1>3, <1>5, <1>6, <1>7, <1>8, ContinuesCopy
<1>10. Continues(x.bytes, out', match')
  BY <1>9, Zenon DEF CopyByte
<1>11. x.at = next' /\ done' = FALSE /\ status' = "decoding"
  BY <1>1, <1>2, <1>3, <1>8 DEF AdcFollows
<1>. QED  BY <1>3, <1>8, <1>10, <1>11, FollowsAt

LEMMA TruncatedFollows ==
  ASSUME DecompressInv, block.kind = "adc", AdcFollows, Truncated, status' = "ok"
  PROVE  AdcFollows'
<1>1. /\ More /\ Token \in 0..255 /\ Left \in Nat
      /\ (Token >= 64 /\ Token < 128 /\ Left < 2) \/ (Token < 64 /\ Left < 1)
  BY AtToken DEF Truncated, IsLong, IsShort
<1>2. PICK m \in 0..Len(input) :
        /\ Expansion(input)[m] \in Expansions(input)
        /\ Stands(input, [at |-> next, bytes |-> out], Expansion(input)[m], Token, Left)
  BY <1>1, AtToken
<1>3. PICK x : x = Expansion(input)[m]
  OBVIOUS
<1>4. (Left < 2 /\ Token \in 64..127) \/ (Left < 1 /\ Token < 64)
  BY <1>1
<1>5. x = [[at |-> next, bytes |-> out] EXCEPT !.at = Len(input) + 1]
  BY <1>2, <1>3, <1>4, Zenon DEF Stands
<1>6. x.at = Len(input) + 1 /\ x.bytes = out
  BY <1>5
<1>7. Whole = out
  <2>1. input \in Seq(0..255)
    BY BlockFacts DEF DecompressInv
  <2>2. Expansion(input)[Len(input)] = x
    BY <1>3, <1>6, <2>1, ExpansionIsPrefix
  <2>. QED  BY <1>6, <2>2 DEF Whole
<1>8. IsPrefix(out, out)
  <2>1. out \in Seq(Nat)
    BY <1>1, AtToken
  <2>2. Len(out) \in Nat
    BY <2>1, LenProperties
  <2>. QED  BY <2>1, <2>2, PrefixIsPointwise
<1>9. UNCHANGED <<input, cap, out>> /\ done' = TRUE
  BY DEF Truncated
<1>10. Whole' = Whole
  BY <1>9 DEF Whole
<1>11. IsPrefix(out', Whole') /\ out' = Whole'
  BY <1>7, <1>8, <1>9, <1>10, Zenon
<1>. QED  BY <1>9, <1>11 DEF AdcFollows

LEMMA StopFollows ==
  ASSUME DecompressInv, block.kind = "adc", AdcFollows, Stop, status' = "ok"
  PROVE  AdcFollows'
<1>1. /\ input \in Seq(0..255) /\ Len(input) \in Nat /\ next \in 1..Len(input) + 1
      /\ Len(out) \in Nat /\ cap \in Nat
  BY BlockFacts DEF DecompressInv
<1>2. ~done /\ match.left = 0 /\ ~More /\ UNCHANGED <<input, cap, out>> /\ done' = TRUE
  BY DEF Stop
<1>3. PICK m \in 0..Len(input) :
        Expansion(input)[m].at = next /\ Continues(Expansion(input)[m].bytes, out, match)
  BY <1>2 DEF AdcFollows
<1>4. PICK x : x = Expansion(input)[m]
  OBVIOUS
<1>5. x.bytes = out
  <2>1. ~(match.left > 0)
    BY <1>2
  <2>. QED  BY <1>3, <1>4, <2>1, Zenon DEF Continues
<1>6. IsPrefix(out, Whole)
  BY <1>1, <1>4, <1>5, ExpansionIsPrefix DEF Whole
<1>7. out = Whole \/ Len(out) >= cap
  <2>1. next > Len(input) \/ Len(out) >= cap
    BY <1>1, <1>2 DEF More
  <2>2. CASE next > Len(input)
    <3>1. x.at = Len(input) + 1
      BY <1>1, <1>3, <1>4, <2>2
    <3>2. Expansion(input)[Len(input)] = x
      BY <1>1, <1>4, <3>1, ExpansionIsPrefix
    <3>. QED  BY <1>5, <3>2 DEF Whole
  <2>. QED  BY <2>1, <2>2
<1>8. Whole' = Whole
  BY <1>2 DEF Whole
<1>. QED  BY <1>2, <1>6, <1>7, <1>8 DEF AdcFollows

LEMMA AdcStepFollows ==
  ASSUME DecompressInv, Follows, AdcStep
  PROVE  Follows'
<1>1. /\ block.kind = "adc" /\ block' = block /\ AdcNext
      /\ status = "decoding" /\ status' = IF done' THEN "ok" ELSE status
  BY DEF AdcStep, Decoding
<1>2. AdcFollows
  BY <1>1 DEF Follows
<1>3. ~done
  BY <1>1, <1>2 DEF AdcFollows
<1>4. CASE Literal \/ LongMatch \/ ShortMatch \/ CopyByte
  <2>1. done' = done
    BY <1>4 DEF Literal, LongMatch, ShortMatch, CopyByte
  <2>2. status' = status
    BY <1>1, <1>3, <2>1
  <2>3. AdcFollows'
    BY <1>1, <1>2, <1>3, <1>4, <2>2,
       LiteralFollows, LongMatchFollows, ShortMatchFollows, CopyByteFollows
  <2>. QED  BY <1>1, <2>3 DEF Follows
<1>5. CASE Truncated \/ Stop
  <2>1. status' = "ok"
    BY <1>1, <1>5 DEF Truncated, Stop
  <2>2. AdcFollows'
    BY <1>1, <1>2, <1>5, <2>1, TruncatedFollows, StopFollows
  <2>. QED  BY <1>1, <2>2 DEF Follows
<1>. QED  BY <1>1, <1>4, <1>5 DEF AdcNext

-----------------------------------------------------------------------------
(* The other decoders, and what the caller of decompress relies on *)

LEMMA InitFollows == Init => Follows
<1>. SUFFICES ASSUME Init PROVE Follows
  OBVIOUS
<1>1. DecompressInv
  BY InitInv
<1>2. /\ input \in Seq(0..255) /\ Len(input) \in Nat /\ block.plain \in Nat
  BY <1>1, BlockFacts DEF DecompressInv
<1>3. /\ next = 1 /\ out = <<>> /\ match = [offset |-> 0, left |-> 0] /\ done = FALSE
      /\ got = 0 /\ status = "decoding"
  BY DEF Init, AdcInit
<1>4. CASE block.kind = "adc"
  <2>1. 0 \in 0..Len(input) /\ Expansion(input)[0] = [at |-> 1, bytes |-> <<>>]
    BY <1>2, ExpansionFacts
  <2>2. ~(match.left > 0)
    BY <1>3
  <2>3. Expansion(input)[0].at = next /\ Continues(Expansion(input)[0].bytes, out, match)
    BY <1>3, <2>1, <2>2 DEF Continues
  <2>4. AdcFollows
    BY <1>3, <2>1, <2>3 DEF AdcFollows
  <2>. QED  BY <1>4, <2>4 DEF Follows
<1>5. CASE block.kind # "adc"
  BY <1>2, <1>3, <1>5 DEF Follows, OtherFollows
<1>. QED  BY <1>4, <1>5

LEMMA DecoderFollows ==
  ASSUME DecompressInv, Follows,
         \/ TakeRead \/ TakeEnd \/ StreamFails
         \/ XzWrites \/ XzEnds \/ XzFails \/ NotSupported
  PROVE  Follows'
<1>1. got \in Nat /\ cap \in Nat /\ block.plain \in Nat
  BY BlockFacts DEF DecompressInv
<1>2. /\ block.kind # "adc" /\ status = "decoding"
      /\ UNCHANGED <<adcVars, block>> /\ UNCHANGED <<done, cap>>
  BY DEF TakeRead, TakeEnd, StreamFails, XzWrites, XzEnds, XzFails, NotSupported,
         Decoding, EndWith, Write, StreamKinds, adcVars
<1>3. OtherFollows
  BY <1>2 DEF Follows
<1>. SUFFICES OtherFollows'
  BY <1>2 DEF Follows
<1>4. CASE TakeRead
  <2>1. PICK n \in 1..Lesser(block.plain, cap) - got : got' = got + n
    BY <1>4 DEF TakeRead
  <2>2. Lesser(block.plain, cap) \in Nat /\ Lesser(block.plain, cap) <= block.plain
    BY <1>1 DEF Lesser
  <2>3. got' <= block.plain
    BY <1>1, <2>1, <2>2
  <2>4. status' = "decoding"
    BY <1>2, <1>4 DEF TakeRead
  <2>. QED  BY <1>2, <1>3, <2>3, <2>4 DEF OtherFollows
<1>5. CASE TakeEnd \/ StreamFails
  <2>1. block.kind \in StreamKinds /\ block.kind # "lzma" /\ block.kind # "other" /\ got' = got
    BY <1>5 DEF TakeEnd, StreamFails, Decoding, EndWith, StreamKinds
  <2>2. status' = "ok" => got = cap \/ (got = block.plain /\ block.intact)
    BY <1>5 DEF TakeEnd, StreamFails, EndWith
  <2>3. status' = "err" => ~block.intact /\ cap > 0
    BY <1>1, <1>5 DEF TakeEnd, StreamFails, EndWith
  <2>. QED  BY <1>2, <1>3, <2>1, <2>2, <2>3 DEF OtherFollows
<1>6. CASE XzWrites
  <2>1. block.kind = "lzma" /\ block.kind \notin StreamKinds
    BY <1>6 DEF XzWrites, Decoding, StreamKinds
  <2>2. PICK n \in 1..block.plain - got : Write(n)
    BY <1>6 DEF XzWrites
  <2>3. CASE got + n > cap
    <3>1. status' = "err" /\ got' = got
      BY <2>2, <2>3 DEF Write, EndWith
    <3>2. block.plain > cap
      BY <1>1, <2>2, <2>3
    <3>. QED  BY <1>2, <1>3, <2>1, <3>1, <3>2 DEF OtherFollows
  <2>4. CASE ~(got + n > cap)
    <3>1. status' = "decoding" /\ got' = got + n
      BY <1>2, <2>2, <2>4 DEF Write
    <3>2. got' <= block.plain
      BY <1>1, <2>2, <3>1
    <3>. QED  BY <1>2, <1>3, <2>1, <3>1, <3>2 DEF OtherFollows
  <2>. QED  BY <2>3, <2>4
<1>7. CASE XzEnds \/ XzFails
  <2>1. block.kind = "lzma" /\ block.kind \notin StreamKinds /\ got' = got
    BY <1>7 DEF XzEnds, XzFails, Decoding, EndWith, StreamKinds
  <2>2. /\ status' = "ok" => got = block.plain /\ block.intact
        /\ status' = "err" => ~block.intact
    BY <1>7 DEF XzEnds, XzFails, EndWith
  <2>. QED  BY <1>2, <1>3, <2>1, <2>2 DEF OtherFollows
<1>8. CASE NotSupported
  <2>1. /\ block.kind = "other" /\ block.kind \notin StreamKinds
        /\ got' = got /\ status' = "err"
    BY <1>8 DEF NotSupported, Decoding, EndWith, StreamKinds
  <2>. QED  BY <1>2, <1>3, <2>1 DEF OtherFollows
<1>. QED  BY <1>4, <1>5, <1>6, <1>7, <1>8

LEMMA NextReference == ReferenceInv /\ [Next]_vars => ReferenceInv'
<1>. SUFFICES ASSUME ReferenceInv, [Next]_vars PROVE Follows'
  BY NextInv DEF ReferenceInv
<1>1. CASE UNCHANGED vars
  BY <1>1 DEF vars, adcVars, ReferenceInv, Follows, AdcFollows, OtherFollows, Whole
<1>. QED  BY <1>1, AdcStepFollows, DecoderFollows DEF Next, ReferenceInv

LEMMA ReferenceInvariant == Spec => []ReferenceInv
<1>1. Init => ReferenceInv
  BY InitInv, InitFollows DEF ReferenceInv
<1>. QED  BY <1>1, NextReference, PTL DEF Spec

LEMMA WholeFacts ==
  ASSUME DecompressInv
  PROVE  Whole \in Seq(Nat) /\ Len(Whole) \in Nat /\ out \in Seq(Nat)
<1>1. input \in Seq(0..255) /\ out \in Seq(2..next - 1) /\ next \in Nat
  BY BlockFacts DEF DecompressInv
<1>2. Expansion(input)[Len(input)] \in Expansions(input)
  BY <1>1, ExpansionFacts
<1>3. Whole \in Seq(Nat)
  BY <1>2 DEF Whole, Expansions
<1>4. 2..next - 1 \subseteq Nat
  BY <1>1
<1>. QED  BY <1>1, <1>3, <1>4, SeqMonotonic, LenProperties

(* What a match in progress has copied so far is a prefix of what it will  *)
(* have copied.                                                            *)
LEMMA ContinuesPrefix ==
  ASSUME NEW w \in Seq(Nat), NEW o \in Seq(Nat), NEW m, Continues(w, o, m)
  PROVE  IsPrefix(o, w)
<1>1. IsPrefix(w, w)
  BY LenProperties, PrefixIsPointwise
<1>. QED  BY <1>1 DEF Continues

LEMMA OutputIsPrefix ==
  ASSUME DecompressInv, AdcFollows
  PROVE  IsPrefix(out, Whole)
<1>1. Whole \in Seq(Nat) /\ out \in Seq(Nat) /\ input \in Seq(0..255)
  BY WholeFacts, BlockFacts DEF DecompressInv
<1>2. CASE done
  BY <1>2 DEF AdcFollows
<1>3. CASE ~done
  <2>1. PICK n \in 0..Len(input) : Continues(Expansion(input)[n].bytes, out, match)
    BY <1>3 DEF AdcFollows
  <2>. DEFINE w == Expansion(input)[n].bytes
  <2>2. w \in Seq(Nat)
    BY <1>1, ExpansionFacts DEF Expansions
  <2>3. IsPrefix(w, Whole)
    BY <1>1, ExpansionIsPrefix DEF Whole
  <2>. HIDE DEF w
  <2>4. IsPrefix(out, w)
    BY <1>1, <2>1, <2>2, ContinuesPrefix DEF w
  <2>. QED  BY <1>1, <2>2, <2>3, <2>4, PrefixTransitive
<1>. QED  BY <1>2, <1>3

(* At every moment the output of an ADC block is a prefix of what its      *)
(* tokens stand for, every match the periodic continuation of what         *)
(* precedes it, and it is all of that when the decoder ends below its cap, *)
(* for every block and cap: lib.rs, adc_decompress and copy_back.          *)
THEOREM DecodesToPrefixHolds == Spec => []DecodesToPrefix
<1>1. ReferenceInv => DecodesToPrefix
  <2>. SUFFICES ASSUME ReferenceInv, block.kind = "adc"
                PROVE  /\ IsPrefix(out, Whole)
                       /\ done /\ Len(out) < cap => out = Whole
    BY DEF DecodesToPrefix
  <2>1. DecompressInv /\ AdcFollows
    BY DEF ReferenceInv, Follows
  <2>2. cap \in Nat /\ Len(out) \in Nat
    BY <2>1, BlockFacts, WholeFacts, LenProperties DEF DecompressInv
  <2>3. done => out = Whole \/ Len(out) >= cap
    BY <2>1 DEF AdcFollows
  <2>. QED  BY <2>1, <2>2, <2>3, OutputIsPrefix
<1>. QED  BY <1>1, ReferenceInvariant, PTL

LEMMA AdcAsTold ==
  ASSUME ReferenceInv, block.kind = "adc"
  PROVE  DecodesAsTheReaderIsTold
<1>1. DecompressInv /\ AdcFollows
  BY DEF ReferenceInv, Follows
<1>2. /\ Len(Whole) \in Nat /\ Whole \in Seq(Nat) /\ out \in Seq(Nat) /\ Len(out) \in Nat
      /\ cap \in Nat /\ match.left \in Nat /\ got = Len(out) /\ block \in Block
      /\ AdcSlack \in Nat /\ AdcSlack >= 127
  BY <1>1, WholeFacts, BlockFacts, DecompressAssumption, SlackAssumption
     DEF DecompressInv, Within
<1>3. status # "err"
  BY <1>1 DEF AdcFollows
<1>4. Known.kind = "adc" /\ Known.plain = Len(Whole)
  BY <1>2 DEF Known, Block
<1>5. "adc" \notin StreamKinds /\ "adc" # "lzma"
  BY DEF StreamKinds
<1>6. ASSUME status = "ok" PROVE got \in DecodedLengths(Known, cap)
  <2>1. IsPrefix(out, Whole) /\ (out = Whole \/ Len(out) >= cap)
    BY <1>1, <1>6 DEF AdcFollows
  <2>2. got <= Len(Whole) /\ (got = Len(Whole) \/ got >= cap)
    BY <1>2, <2>1, PrefixIsPointwise
  <2>3. got <= cap + AdcSlack
    <3>1. got + match.left <= cap + 127
      BY <1>1 DEF DecompressInv, Within
    <3>. QED  BY <1>2, <3>1
  <2>4. got \in IF Len(Whole) <= cap THEN {Len(Whole)}
                ELSE cap..Lesser(Len(Whole), cap + AdcSlack)
    BY <1>2, <2>2, <2>3 DEF Lesser
  <2>. QED  BY <1>4, <1>5, <2>4 DEF DecodedLengths
<1>. QED  BY <1>3, <1>6 DEF DecodesAsTheReaderIsTold

LEMMA OthersAsTold ==
  ASSUME ReferenceInv, block.kind # "adc"
  PROVE  DecodesAsTheReaderIsTold
<1>1. DecompressInv /\ OtherFollows /\ got <= cap
  BY DEF ReferenceInv, Follows, DecompressInv, Within
<1>2. cap \in Nat /\ got \in Nat /\ block.plain \in Nat /\ Known = block
  BY <1>1, BlockFacts DEF Known, DecompressInv
<1>3. CASE block.kind \in StreamKinds
  <2>1. ASSUME status = "ok" PROVE got \in DecodedLengths(Known, cap)
    <3>1. got <= block.plain /\ (got = cap \/ (got = block.plain /\ block.intact))
      BY <1>1, <1>3, <2>1 DEF OtherFollows
    <3>2. got \in IF block.plain >= cap THEN {cap} ELSE {n \in {block.plain} : block.intact}
      BY <1>1, <1>2, <3>1
    <3>3. block.kind # "lzma"
      BY <1>3 DEF StreamKinds
    <3>4. DecodedLengths(block, cap) =
            IF block.plain >= cap THEN {cap} ELSE {n \in {block.plain} : block.intact}
      BY <1>3, <3>3, Zenon DEF DecodedLengths
    <3>. QED  BY <1>2, <3>2, <3>4
  <2>2. status = "err" => DecodeCanFail(Known, cap)
    BY <1>1, <1>2, <1>3 DEF OtherFollows, DecodeCanFail
  <2>. QED  BY <2>1, <2>2 DEF DecodesAsTheReaderIsTold
<1>4. CASE block.kind = "lzma"
  <2>1. "lzma" \notin StreamKinds
    BY DEF StreamKinds
  <2>2. ASSUME status = "ok" PROVE got \in DecodedLengths(Known, cap)
    <3>1. got \in {n \in {block.plain} : block.intact /\ n <= cap}
      BY <1>1, <1>2, <1>4, <2>2 DEF OtherFollows
    <3>. QED  BY <1>2, <1>4, <2>1, <3>1 DEF DecodedLengths
  <2>3. status = "err" => DecodeCanFail(Known, cap)
    BY <1>1, <1>2, <1>4 DEF OtherFollows, DecodeCanFail
  <2>. QED  BY <2>2, <2>3 DEF DecodesAsTheReaderIsTold
<1>5. CASE block.kind \notin BlockKinds
  BY <1>5 DEF DecodesAsTheReaderIsTold
<1>. QED  BY <1>3, <1>4, <1>5 DEF BlockKinds

(* What the model of the reader is told of decoding a block (BlockCodecs)  *)
(* is kept by every decoder: the lengths it may end with and the blocks it *)
(* may fail for, of decompress called by DmgReader::read.                  *)
THEOREM DecodesAsTheReaderIsToldHolds == Spec => []DecodesAsTheReaderIsTold
<1>1. ReferenceInv => DecodesAsTheReaderIsTold
  BY AdcAsTold, OthersAsTold
<1>. QED  BY <1>1, ReferenceInvariant, PTL
=============================================================================
