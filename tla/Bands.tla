------------------------------- MODULE Bands -------------------------------
(***************************************************************************)
(* What the two sparse readers (core/src/sparse.rs) share: the window of   *)
(* one read, which never crosses a band or the end of the disk, and the    *)
(* saturating seek.                                                        *)
(***************************************************************************)
EXTENDS MachineInts, DiskBytes, Sequences, FiniteSetsExt

(* Fault: the window is measured from the start of the band. *)
WindowSlip(pos, len, bandSize, diskSize) == Lesser(Lesser(len, bandSize), diskSize - pos)

(* `to_read`, for a cursor below the end of the disk. *)
Window(pos, len, bandSize, diskSize) ==
  Lesser(Lesser(len, bandSize - (pos % bandSize)), diskSize - pos)

(* The caller's slice after a read that filled its first bytes. *)
Filled(bytes, len) == [i \in 1..len |-> IF i <= Len(bytes) THEN bytes[i] ELSE StaleByte]

Zeros(n) == [i \in 1..n |-> ZeroByte]

(* Fault: the offset is added as it is. *)
SeekWithinSlip(base, d) == base + d

(* seek_within for SeekFrom::End (base is the disk's size) and             *)
(* SeekFrom::Current (base is the cursor): it saturates at both ends, and  *)
(* unsigned_abs admits i64::MIN.                                           *)
SeekWithin(base, d) == IF d >= 0 THEN SatAdd(base, d) ELSE SatSub(base, -d)
=============================================================================
