--------------------------- MODULE BlockReference ---------------------------
(***************************************************************************)
(* What a block stands for, without a decoder: the expansion of the tokens *)
(* of an ADC block, a match being the periodic continuation of what        *)
(* precedes it.  Against it, that decompress keeps what BlockCodecs        *)
(* promises the reader.                                                    *)
(***************************************************************************)
EXTENDS Decompress, SequencesExt

Periodic(bytes, offset, len) ==
  LET start == Len(bytes) - offset
  IN  IF start < 1 THEN bytes
      ELSE bytes \o [k \in 1..len |-> bytes[start + ((k - 1) % (offset + 1))]]

(* An expansion: the bytes so far, and where in the block the next token   *)
(* is.  ExpandToken adds what the token at that place stands for; without  *)
(* its operands it stands for nothing, and ends the block.                 *)
ExpandToken(b, e) ==
  LET i == e.at
      left == Len(b) - i
  IN  CASE left < 0 -> e
        [] left >= 0 /\ b[i] >= 128 ->
             LET n == Lesser(b[i] - 127, left)
             IN  [at |-> i + 1 + n, bytes |-> e.bytes \o [k \in 1..n |-> i + k]]
        [] left >= 2 /\ b[i] \in 64..127 ->
             [at |-> i + 3,
              bytes |-> Periodic(e.bytes, 256 * b[i + 1] + b[i + 2], b[i] - 60)]
        [] left >= 1 /\ b[i] < 64 ->
             [at |-> i + 2,
              bytes |-> Periodic(e.bytes, 256 * (b[i] % 4) + b[i + 1], (b[i] \div 4) + 3)]
        [] OTHER -> [e EXCEPT !.at = Len(b) + 1]

(* The expansion after each number of tokens; a token is a byte or more.   *)
Expansion(b) ==
  LET after[n \in 0..Len(b)] ==
        IF n = 0 THEN [at |-> 1, bytes |-> <<>>] ELSE ExpandToken(b, after[n - 1])
  IN  after

Whole == Expansion(input)[Len(input)].bytes

(* A token that starts below the cap adds at most 128 bytes, one of which  *)
(* the cap still counts.                                                   *)
ASSUME SlackAssumption == AdcSlack >= 127

(* What the caller knows the block by. *)
Known == IF block.kind = "adc" THEN [block EXCEPT !.plain = Len(Whole)] ELSE block

(* At every moment of decoding an ADC block the output is a prefix of what *)
(* the tokens of the block stand for, in the middle of a match as well:    *)
(* no byte is wrong before the cap cuts the rest off.  A decoder that ends *)
(* below its cap has decoded all of it.                                    *)
DecodesToPrefix ==
  block.kind = "adc" =>
    /\ IsPrefix(out, Whole)
    /\ done /\ Len(out) < cap => out = Whole

(* The contract between decompress and DmgReader::read: every length and   *)
(* every failure that decoding a block ends with is one that the model of  *)
(* the reader reckons with.  A stream is cut where an xz block of the same *)
(* size fails, an ADC block that fits is whole, and corruption that lies   *)
(* behind the cap of a stream need not show.                               *)
DecodesAsTheReaderIsTold ==
  block.kind \in BlockKinds =>
    /\ status = "ok" => got \in DecodedLengths(Known, cap)
    /\ status = "err" => DecodeCanFail(Known, cap)
=============================================================================
