----------------------------- MODULE DiskBytes -----------------------------
(***************************************************************************)
(* What a byte of a buffer stands for.  The content of a byte is left out: *)
(* a byte is named by where it comes from, so that a wrong byte is a byte  *)
(* with the wrong origin.                                                  *)
(***************************************************************************)
EXTENDS Naturals

Cell == [src : {"zero", "file", "decoded", "stale"}, block : Nat, at : Nat]

(* A byte filled in by the reader. *)
ZeroByte == [src |-> "zero", block |-> 0, at |-> 0]

(* The byte at offset p of the container file. *)
FileByte(p) == [src |-> "file", block |-> 0, at |-> p]

(* The i-th byte (from 1) decoded from the block at file offset b. *)
DecodedByte(b, i) == [src |-> "decoded", block |-> b, at |-> i]

(* A byte of the caller's buffer that the call did not write. *)
StaleByte == [src |-> "stale", block |-> 0, at |-> 0]

UntouchedBuffer(len) == [i \in 1..len |-> StaleByte]
=============================================================================
