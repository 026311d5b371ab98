----------------------------- MODULE FuzzSparse -----------------------------
(***************************************************************************)
(* SparseImageReader and its caller, which is either any sequence of calls *)
(* (SparseImage!Spec) or the fuzz target fuzz_sparse.                      *)
(***************************************************************************)
EXTENDS SparseImage, FuzzDriver

fuzzVars == <<vars, driver>>

FuzzInit == Init /\ DriverInit

FreeCaller == phase = "free" /\ Next /\ UNCHANGED driver

FuzzOpens ==
  /\ phase = "open"
  /\ \E f \in Files : Open(f) /\ AfterOpen(reply'.status = "ok", VirtualSize(f))

FuzzSeeks ==
  /\ phase = "seek"
  /\ SeekTo(0)
  /\ AfterSeek(reply'.status = "ok")

FuzzReads ==
  /\ phase = "read"
  /\ Read(FuzzBufLen)
  /\ AfterRead(reply'.status = "ok", reply'.n)

FuzzTarget == FuzzOpens \/ FuzzSeeks \/ FuzzReads

FuzzNext == FreeCaller \/ FuzzTarget

(* The target is straight-line code around a loop. *)
FuzzSpec == FuzzInit /\ [][FuzzNext]_fuzzVars /\ WF_fuzzVars(FuzzTarget)

-----------------------------------------------------------------------------
(* The target leaves out nothing of a disk below its cap, in spite of      *)
(* reads that stop at each band, unless the container fails.               *)
FuzzedDiskIsReadWhole ==
  phase = "done" /\ file # NoFile /\ reply.status = "ok"
    => position >= Lesser(VirtualSize(file), FuzzCap)
=============================================================================
