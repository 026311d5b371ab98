----------------------------- MODULE FuzzDriver -----------------------------
(***************************************************************************)
(* The loop that the two fuzz targets share (fuzz/fuzz_targets): open an   *)
(* input, seek to its start, and read up to the size of the disk, capped,  *)
(* with one buffer over and over.  FuzzOpen and FuzzSparse put a reader    *)
(* under it.                                                               *)
(***************************************************************************)
EXTENDS MachineInts

CONSTANTS
  FuzzCap,      \* the most bytes a target asks for (16 MiB)
  FuzzBufLen    \* the length of its buffer (64 KiB)

ASSUME FuzzAssumption ==
  /\ FuzzCap \in Nat
  /\ FuzzBufLen \in 1..MaxSize
  /\ FuzzCap + FuzzBufLen <= MaxWord

VARIABLES
  phase,       \* "free": another caller; "open", "seek", "read", "done"
  remaining    \* the bytes the target has still to read

driver == <<phase, remaining>>

DriverInit ==
  /\ phase \in {"free", "open"}
  /\ remaining = 0

(* Fault: the size the disk declares is believed. *)
AfterOpenUncapped(opened, size) ==
  /\ remaining' = IF opened THEN size ELSE 0
  /\ phase' = IF remaining' > 0 THEN "seek" ELSE "done"

AfterOpen(opened, size) ==
  /\ remaining' = IF opened THEN Lesser(size, FuzzCap) ELSE 0
  /\ phase' = IF remaining' > 0 THEN "seek" ELSE "done"

AfterSeek(ok) ==
  /\ phase' = IF ok THEN "read" ELSE "done"
  /\ UNCHANGED remaining

(* Fault: a read that fails is tried again. *)
AfterReadRetries(ok, n) ==
  /\ remaining' = IF ok THEN SatSub(remaining, n) ELSE remaining
  /\ phase' = IF ok /\ (n = 0 \/ remaining' = 0) THEN "done" ELSE "read"

(* Fault: a read is taken to have filled the buffer. *)
AfterReadWhole(ok, n) ==
  /\ remaining' = IF ok THEN SatSub(remaining, FuzzBufLen) ELSE remaining
  /\ phase' = IF ok /\ n > 0 /\ remaining' > 0 THEN "read" ELSE "done"

(* An error, or the end of the data, ends the loop. *)
AfterRead(ok, n) ==
  /\ remaining' = IF ok THEN SatSub(remaining, n) ELSE remaining
  /\ phase' = IF ok /\ n > 0 /\ remaining' > 0 THEN "read" ELSE "done"

(* Every input is done with, whatever disk it claims to be: each turn of   *)
(* the loop reads something, fails or meets the end of the data.           *)
FuzzingEnds == phase # "free" ~> phase = "done"
=============================================================================
