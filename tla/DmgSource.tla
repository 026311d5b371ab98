----------------------------- MODULE DmgSource -----------------------------
(***************************************************************************)
(* DmgSource<R> (core/src/vfs.rs): threads share one DmgReader behind a    *)
(* mutex.  read_at bounds its window, locks, seeks and reads in a loop;    *)
(* the guard is dropped with every return.  A codec may panic inside read  *)
(* (the third-party decoders are not under src/): the unwinding poisons    *)
(* the mutex, and the next lock() takes the guard out of the PoisonError.  *)
(***************************************************************************)
EXTENDS UdifContents

CONSTANTS
  Threads,
  NoThread,      \* the mutex is free
  Offsets,       \* offsets that callers pass
  BufLens,       \* lengths of the buffers that callers pass
  MaxCalls,      \* bound: calls of one thread
  MaxPanics      \* bound: panics of a decoder

ASSUME SourceAssumption ==
  /\ NoThread \notin Threads
  /\ Offsets \subseteq Word
  /\ BufLens \subseteq 0..MaxSize
  /\ MaxCalls \in Nat /\ MaxPanics \in Nat

VARIABLES
  file,        \* the image the reader is open on
  position,    \* DmgReader::position
  owner,       \* the thread that holds the guard, or NoThread
  poisoned,    \* the mutex's poison flag
  pc,          \* pc[t]: where t is in read_at
  args,        \* args[t]: [offset, len] of t's call
  total,       \* total[t]: bytes read so far
  buf,         \* buf[t]: t's buffer
  result,      \* result[t]: [status, n], once t's call has returned
  calls,       \* calls[t]: calls t has made
  panics       \* decoder panics so far

reader == <<file, position>>
lock == <<owner, poisoned>>
vars == <<reader, lock, pc, args, total, buf, result, calls, panics>>

Size == DiskSize(file)          \* DmgSource::len
(* Fault: the window is bounded by u64, not by the disk. *)
AvailSlip(t) == MaxWord
Avail(t) == SatSub(Size, args[t].offset)
Want(t) == AsSize(Lesser(args[t].len, Avail(t)))

Init ==
  /\ file \in {f \in Files : "ok" \in OpenOutcomes(f)}
  /\ position = 0
  /\ owner = NoThread
  /\ poisoned = FALSE
  /\ pc = [t \in Threads |-> "idle"]
  /\ args = [t \in Threads |-> [offset |-> 0, len |-> 0]]
  /\ total = [t \in Threads |-> 0]
  /\ buf = [t \in Threads |-> UntouchedBuffer(0)]
  /\ result = [t \in Threads |-> [status |-> "none", n |-> 0]]
  /\ calls = [t \in Threads |-> 0]
  /\ panics = 0

(* A thread calls read_at. *)
Call(t) ==
  /\ pc[t] = "idle"
  /\ calls[t] < MaxCalls
  /\ pc' = [pc EXCEPT ![t] = "bound"]
  /\ \E offset \in Offsets, len \in BufLens :
       /\ args' = [args EXCEPT ![t] = [offset |-> offset, len |-> len]]
       /\ buf' = [buf EXCEPT ![t] = UntouchedBuffer(len)]
  /\ total' = [total EXCEPT ![t] = 0]
  /\ result' = [result EXCEPT ![t] = [status |-> "none", n |-> 0]]
  /\ calls' = [calls EXCEPT ![t] = @ + 1]
  /\ UNCHANGED <<reader, lock, panics>>

Return(t, status, n) ==
  /\ pc' = [pc EXCEPT ![t] = "idle"]
  /\ result' = [result EXCEPT ![t] = [status |-> status, n |-> n]]

(* The window is bounded by the disk before the lock is taken. *)
Bound(t) ==
  /\ pc[t] = "bound"
  /\ IF Avail(t) = 0
     THEN Return(t, "ok", 0)
     ELSE pc' = [pc EXCEPT ![t] = "lock"] /\ UNCHANGED result
  /\ UNCHANGED <<reader, lock, args, total, buf, calls, panics>>

(* Fault: no mutex. *)
LockSlip(t) ==
  /\ pc[t] = "lock"
  /\ owner' = t
  /\ pc' = [pc EXCEPT ![t] = "seek"]
  /\ UNCHANGED <<reader, poisoned, args, total, buf, result, calls, panics>>

(* Fault: a poisoned mutex is waited for. *)
LockHeedsPoison(t) ==
  /\ pc[t] = "lock"
  /\ owner = NoThread /\ ~poisoned
  /\ owner' = t
  /\ pc' = [pc EXCEPT ![t] = "seek"]
  /\ UNCHANGED <<reader, poisoned, args, total, buf, result, calls, panics>>

(* lock().unwrap_or_else(PoisonError::into_inner): the flag is not heeded. *)
Lock(t) ==
  /\ pc[t] = "lock"
  /\ owner = NoThread
  /\ owner' = t
  /\ pc' = [pc EXCEPT ![t] = "seek"]
  /\ UNCHANGED <<reader, poisoned, args, total, buf, result, calls, panics>>

(* Fault: the cursor is left where the last call put it. *)
SeekToOffsetSlip(t) ==
  /\ pc[t] = "seek"
  /\ pc' = [pc EXCEPT ![t] = "read"]
  /\ UNCHANGED <<reader, lock, args, total, buf, result, calls, panics>>

(* Fault: the cursor is put at the end of the window. *)
SeekPastWindow(t) ==
  /\ pc[t] = "seek"
  /\ position' = args[t].offset + args[t].len
  /\ pc' = [pc EXCEPT ![t] = "read"]
  /\ UNCHANGED <<file, lock, args, total, buf, result, calls, panics>>

SeekToOffset(t) ==
  /\ pc[t] = "seek"
  /\ position' = args[t].offset
  /\ pc' = [pc EXCEPT ![t] = "read"]
  /\ UNCHANGED <<file, lock, args, total, buf, result, calls, panics>>

(* Fault: read is called once. *)
ReadTurnOnce(t) ==
  /\ pc[t] = "read"
  /\ total[t] < Want(t)
  /\ \E o \in ReadOutcomes(file, position, Want(t) - total[t]) :
       /\ position' = o.pos
       /\ buf' = [buf EXCEPT ![t] = o.buf \o UntouchedBuffer(args[t].len - Want(t))]
       /\ Return(t, o.status, o.n)
  /\ owner' = NoThread
  /\ UNCHANGED <<file, poisoned, args, total, calls, panics>>

(* Fault: every turn asks for the whole window again, at its start. *)
ReadTurnWhole(t) ==
  /\ pc[t] = "read"
  /\ total[t] < Want(t)
  /\ \E o \in ReadOutcomes(file, position, Want(t)) :
       /\ o.status = "ok"
       /\ position' = o.pos
       /\ buf' = [buf EXCEPT ![t] = o.buf \o UntouchedBuffer(args[t].len - Want(t))]
       /\ total' = [total EXCEPT ![t] = @ + o.n]
  /\ UNCHANGED <<file, lock, pc, args, result, calls, panics>>

(* One turn of the loop: read into buf[total..want]. *)
ReadTurn(t) ==
  /\ pc[t] = "read"
  /\ total[t] < Want(t)
  /\ \E o \in ReadOutcomes(file, position, Want(t) - total[t]) :
       /\ position' = o.pos
       /\ buf' = [buf EXCEPT ![t] =
                    [i \in DOMAIN @ |-> IF i > total[t] /\ i <= total[t] + o.n
                                        THEN o.buf[i - total[t]] ELSE @[i]]]
       /\ \/ /\ o.status = "ok" /\ o.n > 0
             /\ total' = [total EXCEPT ![t] = @ + o.n]
             /\ UNCHANGED <<lock, pc, result>>
          \/ /\ o.status = "ok" /\ o.n = 0
             /\ Return(t, "ok", total[t])
             /\ owner' = NoThread
             /\ UNCHANGED <<poisoned, total>>
          \/ /\ o.status # "ok"
             /\ Return(t, o.status, 0)
             /\ owner' = NoThread
             /\ poisoned' = (poisoned \/ o.status = "panic")
             /\ UNCHANGED total
  /\ UNCHANGED <<file, args, calls, panics>>

(* A codec panics while it decodes a block, before the cursor has moved. *)
DecoderPanics(t) ==
  /\ pc[t] = "read"
  /\ total[t] < Want(t)
  /\ panics < MaxPanics
  /\ \E pr \in ServedBy(file, position \div SectorSize) : pr.run.kind \in BlockKinds
  /\ panics' = panics + 1
  /\ Return(t, "decoder_panic", 0)
  /\ owner' = NoThread
  /\ poisoned' = TRUE
  /\ UNCHANGED <<reader, args, total, buf, calls>>

Finish(t) ==
  /\ pc[t] = "read"
  /\ total[t] >= Want(t)
  /\ Return(t, "ok", total[t])
  /\ owner' = NoThread
  /\ UNCHANGED <<reader, poisoned, args, total, buf, calls, panics>>

Step(t) ==
  Bound(t) \/ Lock(t) \/ SeekToOffset(t) \/ ReadTurn(t) \/ DecoderPanics(t) \/ Finish(t)

Next == \E t \in Threads : Call(t) \/ Step(t)

Spec == Init /\ [][Next]_vars

(* A thread inside read_at keeps running, and is scheduled once the mutex  *)
(* is free for good; the number of calls being bounded, it ends up free.   *)
FairSpec == Spec /\ \A t \in Threads : WF_vars(Step(t))

-----------------------------------------------------------------------------
TypeOK ==
  /\ file \in Files
  /\ position \in Word
  /\ owner \in Threads \cup {NoThread}
  /\ poisoned \in BOOLEAN
  /\ pc \in [Threads -> {"idle", "bound", "lock", "seek", "read"}]
  /\ args \in [Threads -> [offset : Word, len : 0..MaxSize]]
  /\ total \in [Threads -> 0..MaxSize]
  /\ DOMAIN buf = Threads
  /\ \A t \in Threads : buf[t] \in [1..args[t].len -> Cell]
  /\ result \in [Threads -> [status : {"none", "ok", "err", "io", "panic", "decoder_panic"},
                             n : 0..MaxSize]]
  /\ calls \in [Threads -> 0..MaxCalls]
  /\ panics \in 0..MaxPanics

(* The cursor belongs to the thread that holds the guard: between its seek *)
(* and its return nobody moves it, so each turn of its loop reads where    *)
(* the last one stopped, however the threads interleave and whoever        *)
(* poisoned the mutex before.                                              *)
CursorBelongsToHolder ==
  \A t \in Threads :
    /\ pc[t] \in {"seek", "read"} => owner = t
    /\ pc[t] = "read" => position = args[t].offset + total[t]

(* The slice `buf[total..want]` of each turn is never inverted, which      *)
(* would panic: read returns no more than it was asked for, whatever run   *)
(* of whatever image serves it.                                            *)
StaysInWindow ==
  \A t \in Threads :
    /\ pc[t] \in {"bound", "lock", "seek"} => total[t] = 0
    /\ pc[t] = "read" => total[t] <= Want(t)

(* read_at answers for the whole window or fails: it never returns fewer   *)
(* bytes than lie between the offset and the end of the disk, on any image *)
(* (the `0 => break` of its loop is not reached before the window's end).  *)
CompleteOrFail ==
  \A t \in Threads :
    pc[t] = "idle" /\ result[t].status = "ok"
      => result[t].n = Lesser(args[t].len, Avail(t))

(* The window keeps read_at away from the end of u64: the cursor overflow  *)
(* that a malformed image can cause in a bare read cannot happen here, so  *)
(* only a codec can panic and poison the mutex.                            *)
OnlyDecodersPanic ==
  /\ \A t \in Threads : result[t].status # "panic"
  /\ poisoned => panics > 0

(* Every byte of an answer is a byte that the image holds at that place of *)
(* the caller's own window, or one that a short block left unwritten.      *)
AnswersFromOwnWindow ==
  \A t \in Threads :
    pc[t] = "idle" /\ result[t].status = "ok" =>
      \A i \in 1..result[t].n :
        buf[t][i] # StaleByte => buf[t][i] \in CellsAt(file, args[t].offset + i - 1)

(* Every call returns, though a panic may have poisoned the mutex that it  *)
(* waits for ("one panicking reader does not wedge the source").           *)
EveryCallReturns ==
  \A t \in Threads : pc[t] # "idle" ~> pc[t] = "idle"

(* What an image may be found to hold at each place of its disk. *)
Holdings(f) ==
  [size |-> DiskSize(f), intact |-> Sound(f),
   bytes |-> [b \in 0..DiskSize(f) - 1 |->
                CellsAt(f, b) \cup {c \in {StaleByte} : ~Sound(f)}]]

Source == INSTANCE ImageSource WITH
  disk <- Holdings(file),
  pending <- {t \in Threads : pc[t] # "idle"},
  answer <- result,
  data <- [t \in Threads |-> IF pc[t] = "idle" THEN buf[t]
                                              ELSE UntouchedBuffer(args[t].len)]

(* The mutex, the cursor and the loop are invisible: each call is answered *)
(* as if it were one atomic read of its own window.  On undamaged images   *)
(* the answer is exact; on damaged ones it may also be an error, hold what *)
(* any of several overlapping runs says, or have bytes no block reached.   *)
ImplementsImageSource == Source!Spec
=============================================================================
