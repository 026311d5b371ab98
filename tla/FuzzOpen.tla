------------------------------ MODULE FuzzOpen ------------------------------
(***************************************************************************)
(* DmgReader and its caller, which is either any sequence of calls         *)
(* (DmgReader!Spec) or the fuzz target fuzz_open.  A panic ends the        *)
(* target's process.                                                       *)
(***************************************************************************)
EXTENDS DmgReader, FuzzDriver

fuzzVars == <<vars, driver>>

FuzzInit == Init /\ DriverInit

FreeCaller == phase = "free" /\ Next /\ UNCHANGED driver

FuzzOpens ==
  /\ phase = "open"
  /\ \E f \in Files : Open(f) /\ AfterOpen(reply'.status = "ok", DiskSize(f))

FuzzSeeks ==
  /\ phase = "seek"
  /\ SeekStart(0)
  /\ AfterSeek(reply'.status = "ok")

FuzzReads ==
  /\ phase = "read"
  /\ Read(FuzzBufLen)
  /\ AfterRead(reply'.status = "ok", reply'.n)

FuzzTarget == FuzzOpens \/ FuzzSeeks \/ FuzzReads

FuzzNext == FreeCaller \/ FuzzTarget

(* The target is straight-line code around a loop. *)
FuzzSpec == FuzzInit /\ [][FuzzNext]_fuzzVars /\ WF_fuzzVars(FuzzTarget)

-----------------------------------------------------------------------------
(* "Read the whole (capped) virtual disk so every block's codec is         *)
(* exercised": of a disk that opens and whose calls succeed nothing below  *)
(* the cap is left out, on any image.                                      *)
FuzzedDiskIsReadWhole ==
  phase = "done" /\ file # NoFile /\ reply.status = "ok"
    => position >= Lesser(DiskSize(file), FuzzCap)

(* The overflow of the cursor, which ReadNeverPanics is about, is out of   *)
(* the target's reach: it stops by its cap, far below the end of u64, so   *)
(* that no input makes the reader's own arithmetic panic under it,         *)
(* although it is built with overflow checks.                              *)
FuzzingNeverPanics == phase # "free" => reply.status # "panic"
=============================================================================
