-------------------------------- MODULE Adc --------------------------------
(***************************************************************************)
(* adc_decompress and copy_back (core/src/lib.rs): one step per token of   *)
(* the block and one per byte of a match.  A byte of the output is         *)
(* represented by its provenance, the position in the input of the literal *)
(* it stems from: what the decoder does with a byte never depends on its   *)
(* value once it is out.                                                   *)
(***************************************************************************)
EXTENDS Integers, Sequences

VARIABLES
  input,   \* the compressed block
  cap,     \* expected_len, the size of its run
  next,    \* the next byte of input to be read, from 1
  out,     \* the output so far
  match,   \* the match being copied: its offset, and the bytes left to copy
  done     \* the loop has ended

adcVars == <<input, cap, next, out, match, done>>

Token == input[next]
Left == Len(input) - next      \* bytes after the first of the token

IsLiteral == Token >= 128
IsLong == Token >= 64 /\ Token < 128
IsShort == Token < 64

LiteralLen == (Token % 128) + 1
LongLen == (Token % 64) + 4
LongOffset == 256 * input[next + 1] + input[next + 2]
ShortLen == ((Token \div 4) % 16) + 3
ShortOffset == 256 * (Token % 4) + input[next + 1]

-----------------------------------------------------------------------------
AdcInit ==
  /\ next = 1
  /\ out = <<>>
  /\ match = [offset |-> 0, left |-> 0]
  /\ done = FALSE

(* Fault: the cap is not looked at. *)
MoreUncapped == ~done /\ match.left = 0 /\ next <= Len(input)

(* The condition of the loop. *)
More == ~done /\ match.left = 0 /\ next <= Len(input) /\ Len(out) < cap

(* Fault: a literal run is taken to be whole. *)
LiteralUncut ==
  /\ More /\ IsLiteral
  /\ out' = out \o [k \in 1..LiteralLen |-> next + k]
  /\ next' = next + 1 + LiteralLen
  /\ UNCHANGED <<input, cap, match, done>>

(* A literal run may be cut short by the end of the block. *)
Literal ==
  LET n == IF LiteralLen <= Left THEN LiteralLen ELSE Left
  IN  /\ More /\ IsLiteral
      /\ out' = out \o [k \in 1..n |-> next + k]
      /\ next' = next + 1 + n
      /\ UNCHANGED <<input, cap, match, done>>

LongMatch ==
  /\ More /\ IsLong /\ Left >= 2
  /\ match' = [offset |-> LongOffset, left |-> LongLen]
  /\ next' = next + 3
  /\ UNCHANGED <<input, cap, out, done>>

ShortMatch ==
  /\ More /\ IsShort /\ Left >= 1
  /\ match' = [offset |-> ShortOffset, left |-> ShortLen]
  /\ next' = next + 2
  /\ UNCHANGED <<input, cap, out, done>>

(* Fault: the offset is counted from the byte that is written. *)
CopyByteFar ==
  /\ match.left > 0
  /\ match' = [match EXCEPT !.left = @ - 1]
  /\ out' = IF Len(out) <= match.offset + 1 THEN out
            ELSE Append(out, out[Len(out) - match.offset - 1])
  /\ UNCHANGED <<input, cap, next, done>>

(* Fault: a match that reaches back too far is waited for. *)
CopyByteStuck ==
  /\ match.left > 0
  /\ Len(out) > match.offset
  /\ out' = Append(out, out[Len(out) - match.offset])
  /\ match' = [match EXCEPT !.left = @ - 1]
  /\ UNCHANGED <<input, cap, next, done>>

(* One turn of copy_back: the byte is the one `offset + 1` behind the end, *)
(* which the turn before may have written; a match that reaches back       *)
(* before the start is dropped.                                            *)
CopyByte ==
  /\ match.left > 0
  /\ IF Len(out) <= match.offset
     THEN /\ match' = [match EXCEPT !.left = 0]
          /\ UNCHANGED out
     ELSE /\ match' = [match EXCEPT !.left = @ - 1]
          /\ out' = Append(out, out[Len(out) - match.offset])
  /\ UNCHANGED <<input, cap, next, done>>

(* A match without its operands ends the block. *)
Truncated ==
  /\ More
  /\ (IsLong /\ Left < 2) \/ (IsShort /\ Left < 1)
  /\ next' = next + 1
  /\ done' = TRUE
  /\ UNCHANGED <<input, cap, out, match>>

Stop ==
  /\ ~done /\ match.left = 0
  /\ ~More
  /\ done' = TRUE
  /\ UNCHANGED <<input, cap, next, out, match>>

AdcNext == Literal \/ LongMatch \/ ShortMatch \/ CopyByte \/ Truncated \/ Stop

-----------------------------------------------------------------------------
(* No token is read past the end of the block, and no byte of the output   *)
(* comes from anywhere but a literal that has been read.                   *)
AdcTypeOK ==
  /\ done \in BOOLEAN
  /\ next \in 1..Len(input) + 1
  /\ out \in Seq(2..next - 1)
  /\ match \in [offset : Nat, left : 0..67]
=============================================================================
