-------------------------- MODULE DmgSourceProofs ---------------------------
(***************************************************************************)
(* DmgSource, for every image, every set of threads, every bound on their  *)
(* calls and every width of the machine integers.                          *)
(*                                                                         *)
(* The inductive invariant adds to the types and to CursorBelongsToHolder  *)
(* that a thread's progress stays inside its window: it is what keeps the  *)
(* cursor of the holder below the end of the disk in every turn.           *)
(***************************************************************************)
EXTENDS DmgSource, UdifProofs

IInv == TypeOK /\ CursorBelongsToHolder /\ StaysInWindow /\ OnlyDecodersPanic

-----------------------------------------------------------------------------
(* The window *)

(* The cast to usize loses nothing, and a window that is not empty ends on *)
(* the disk.                                                               *)
LEMMA WindowFacts ==
  ASSUME TypeOK, NEW t \in Threads
  PROVE  /\ Size \in Nat /\ Size <= MaxWord
         /\ args[t].offset \in Nat /\ args[t].len \in Nat /\ args[t].len <= MaxSize
         /\ Avail(t) \in Nat
         /\ Want(t) = Lesser(args[t].len, Avail(t))
         /\ Want(t) \in Nat /\ Want(t) <= args[t].len
         /\ Want(t) > 0 => args[t].offset + Want(t) <= Size
<1>1. Size \in Word /\ args[t].offset \in Word /\ args[t].len \in 0..MaxSize
  BY DiskSizeType DEF TypeOK, Size
<1>2. Size \in Nat /\ Size <= MaxWord /\ args[t].offset \in Nat
  BY <1>1, WordAssumption DEF Word
<1>3. args[t].len \in Nat /\ args[t].len <= MaxSize
  BY <1>1, WordAssumption
<1>4. Avail(t) \in Nat /\ (Avail(t) > 0 => args[t].offset + Avail(t) = Size)
  BY <1>2 DEF Avail, SatSub
<1>5. /\ Lesser(args[t].len, Avail(t)) \in 0..MaxSize
      /\ Lesser(args[t].len, Avail(t)) <= args[t].len
      /\ Lesser(args[t].len, Avail(t)) <= Avail(t)
  BY <1>3, <1>4, WordAssumption DEF Lesser
<1>6. Want(t) = Lesser(args[t].len, Avail(t))
  BY <1>5, AsSizeExact DEF Want
<1>. QED  BY <1>2, <1>3, <1>4, <1>5, <1>6, WordAssumption

(* A turn of the loop reads below the end of the disk: it cannot overflow  *)
(* the cursor, and the cursor moves by what it returns.                    *)
LEMMA TurnIsGood ==
  ASSUME IInv, NEW t \in Threads, pc[t] = "read", total[t] < Want(t),
         NEW o \in ReadOutcomes(file, position, Want(t) - total[t])
  PROVE  /\ GoodOutcome(file, position, Want(t) - total[t], o)
         /\ MaxSize = MaxWord => GoodBytes(file, position, Want(t) - total[t], o)
         /\ o.status # "panic" /\ o.pos = position + o.n
         /\ o.n \in Nat /\ o.n <= Want(t) - total[t]
         /\ position < Size
<1>1. /\ file \in Files /\ position \in Word /\ position = args[t].offset + total[t]
      /\ total[t] \in Nat
  BY WordAssumption DEF IInv, TypeOK, CursorBelongsToHolder
<1>2. /\ Size \in Nat /\ Size <= MaxWord /\ args[t].offset \in Nat
      /\ Want(t) \in Nat /\ Want(t) <= MaxSize
      /\ args[t].offset + Want(t) <= Size
  BY <1>1, WindowFacts, WordAssumption DEF IInv
<1>3. /\ Want(t) - total[t] \in 0..MaxSize
      /\ position + (Want(t) - total[t]) <= MaxWord
      /\ position < Size
  BY <1>1, <1>2, WordAssumption
<1>. DEFINE room == Want(t) - total[t]
<1>. HIDE DEF room
<1>4. /\ GoodOutcome(file, position, room, o)
      /\ MaxSize = MaxWord => GoodBytes(file, position, room, o)
  BY <1>1, <1>3, ReadOutcomesAreGood DEF room
<1>5. Fits(position + room)
  BY <1>3 DEF Fits, room
<1>6. room \in Nat /\ o.n \in 0..room /\ o.status # "panic" /\ o.pos = position + o.n
  BY <1>2, <1>3, <1>4, <1>5, WordAssumption DEF GoodOutcome, room
<1>. QED  BY <1>3, <1>4, <1>6 DEF room

-----------------------------------------------------------------------------
(* The invariant *)

LEMMA InitInv == Init => IInv
<1>. SUFFICES ASSUME Init PROVE IInv
  OBVIOUS
<1>1. 0 \in Word /\ 0 \in 0..MaxSize /\ 0 \in 0..MaxCalls /\ 0 \in 0..MaxPanics
  BY WordAssumption, SourceAssumption DEF Word
<1>2. UntouchedBuffer(0) \in [1..0 -> Cell]
  BY UntouchedBufferType
<1>3. TypeOK
  BY <1>1, <1>2 DEF Init, TypeOK
<1>. QED  BY <1>3 DEF Init, IInv, CursorBelongsToHolder, StaysInWindow, OnlyDecodersPanic

LEMMA CallInv ==
  ASSUME IInv, NEW t \in Threads, Call(t)
  PROVE  IInv'
<1>1. PICK offset \in Offsets, len \in BufLens :
        /\ args' = [args EXCEPT ![t] = [offset |-> offset, len |-> len]]
        /\ buf' = [buf EXCEPT ![t] = UntouchedBuffer(len)]
  BY DEF Call
<1>2. offset \in Word /\ len \in 0..MaxSize /\ len \in Nat /\ 0 \in 0..MaxSize
  BY SourceAssumption, WordAssumption
<1>3. UntouchedBuffer(len) \in [1..len -> Cell]
  BY <1>2, UntouchedBufferType
<1>4. calls[t] + 1 \in 0..MaxCalls
  BY SourceAssumption DEF Call, IInv, TypeOK
<1>5. TypeOK'
  BY <1>1, <1>2, <1>3, <1>4 DEF Call, IInv, TypeOK, reader, lock
<1>6. CursorBelongsToHolder'
  BY <1>1 DEF Call, IInv, TypeOK, CursorBelongsToHolder, reader, lock
<1>7. StaysInWindow'
  BY <1>1 DEF Call, IInv, TypeOK, StaysInWindow, Want, Avail, Size, reader
<1>8. OnlyDecodersPanic'
  BY DEF Call, IInv, TypeOK, OnlyDecodersPanic, lock
<1>. QED  BY <1>5, <1>6, <1>7, <1>8 DEF IInv

(* A return of t is seen in t's place only. *)
LEMMA ReturnFacts ==
  ASSUME TypeOK, NEW t \in Threads, NEW n \in 0..MaxSize,
         NEW status \in {"ok", "err", "io", "decoder_panic"}, Return(t, status, n)
  PROVE  /\ pc' \in [Threads -> {"idle", "bound", "lock", "seek", "read"}]
         /\ result' \in [Threads -> [status : {"none", "ok", "err", "io", "panic",
                                             "decoder_panic"},
                                    n : 0..MaxSize]]
         /\ pc'[t] = "idle" /\ result'[t] = [status |-> status, n |-> n]
         /\ \A u \in Threads \ {t} : pc'[u] = pc[u] /\ result'[u] = result[u]
         /\ (\A u \in Threads : result[u].status # "panic") =>
              \A u \in Threads : result'[u].status # "panic"
<1>1. /\ pc \in [Threads -> {"idle", "bound", "lock", "seek", "read"}]
      /\ result \in [Threads -> [status : {"none", "ok", "err", "io", "panic",
                                          "decoder_panic"},
                                 n : 0..MaxSize]]
  BY DEF TypeOK
<1>2. /\ pc' = [pc EXCEPT ![t] = "idle"]
      /\ result' = [result EXCEPT ![t] = [status |-> status, n |-> n]]
  BY DEF Return
<1>3. /\ pc'[t] = "idle" /\ result'[t] = [status |-> status, n |-> n]
      /\ \A u \in Threads \ {t} : pc'[u] = pc[u] /\ result'[u] = result[u]
  BY <1>1, <1>2
<1>4. result'[t].status # "panic"
  BY <1>3
<1>. QED  BY <1>1, <1>2, <1>3, <1>4

LEMMA BoundInv ==
  ASSUME IInv, NEW t \in Threads, Bound(t)
  PROVE  IInv'
<1>1. 0 \in 0..MaxSize
  BY WordAssumption
<1>2. TypeOK'
  <2>1. CASE Avail(t) = 0
    <3>1. Return(t, "ok", 0)
      BY <2>1 DEF Bound
    <3>. QED  BY <1>1, <3>1, ReturnFacts DEF Bound, IInv, TypeOK, reader, lock
  <2>2. CASE Avail(t) # 0
    BY <2>2 DEF Bound, IInv, TypeOK, reader, lock
  <2>. QED  BY <2>1, <2>2
<1>3. CursorBelongsToHolder'
  BY DEF Bound, Return, IInv, TypeOK, CursorBelongsToHolder, reader, lock
<1>4. StaysInWindow'
  BY DEF Bound, Return, IInv, TypeOK, StaysInWindow, Want, Avail, Size, reader
<1>5. OnlyDecodersPanic'
  <2>1. CASE Avail(t) = 0
    <3>1. Return(t, "ok", 0)
      BY <2>1 DEF Bound
    <3>. QED  BY <1>1, <3>1, ReturnFacts DEF Bound, IInv, OnlyDecodersPanic, lock
  <2>2. CASE Avail(t) # 0
    BY <2>2 DEF Bound, IInv, OnlyDecodersPanic, lock
  <2>. QED  BY <2>1, <2>2
<1>. QED  BY <1>2, <1>3, <1>4, <1>5 DEF IInv

(* The mutex is free, so no other thread is between its seek and return. *)
LEMMA LockInv ==
  ASSUME IInv, NEW t \in Threads, Lock(t)
  PROVE  IInv'
<1>1. \A u \in Threads : pc[u] \notin {"seek", "read"}
  BY SourceAssumption DEF Lock, IInv, CursorBelongsToHolder
<1>2. TypeOK'
  BY DEF Lock, IInv, TypeOK, reader
<1>3. CursorBelongsToHolder'
  BY <1>1 DEF Lock, IInv, TypeOK, CursorBelongsToHolder
<1>4. StaysInWindow'
  BY DEF Lock, IInv, TypeOK, StaysInWindow, Want, Avail, Size, reader
<1>5. OnlyDecodersPanic'
  BY DEF Lock, IInv, TypeOK, OnlyDecodersPanic
<1>. QED  BY <1>2, <1>3, <1>4, <1>5 DEF IInv

LEMMA SeekInv ==
  ASSUME IInv, NEW t \in Threads, SeekToOffset(t)
  PROVE  IInv'
<1>1. /\ owner = t /\ total[t] = 0
      /\ \A u \in Threads \ {t} : pc[u] \notin {"seek", "read"}
  BY DEF SeekToOffset, IInv, CursorBelongsToHolder, StaysInWindow
<1>2. args[t].offset \in Word /\ args[t].offset \in Nat
  BY WordAssumption DEF IInv, TypeOK, Word
<1>3. 0 <= Want(t)
  BY WindowFacts DEF IInv
<1>4. TypeOK'
  BY <1>2 DEF SeekToOffset, IInv, TypeOK, lock
<1>5. CursorBelongsToHolder'
  BY <1>1, <1>2 DEF SeekToOffset, IInv, TypeOK, CursorBelongsToHolder, lock
<1>6. StaysInWindow'
  BY <1>1, <1>3 DEF SeekToOffset, IInv, TypeOK, StaysInWindow, Want, Avail, Size
<1>7. OnlyDecodersPanic'
  BY DEF SeekToOffset, IInv, TypeOK, OnlyDecodersPanic, lock
<1>. QED  BY <1>4, <1>5, <1>6, <1>7 DEF IInv

(* The threads that hold nothing see nothing of the holder's turn. *)
LEMMA ReadTurnInv ==
  ASSUME IInv, NEW t \in Threads, ReadTurn(t)
  PROVE  IInv'
<1>1. /\ pc[t] = "read" /\ total[t] < Want(t) /\ owner = t
      /\ position = args[t].offset + total[t]
      /\ \A u \in Threads \ {t} : pc[u] \notin {"seek", "read"}
  BY DEF ReadTurn, IInv, CursorBelongsToHolder
<1>2. PICK o \in ReadOutcomes(file, position, Want(t) - total[t]) :
        /\ position' = o.pos
        /\ buf' = [buf EXCEPT ![t] =
                     [i \in DOMAIN @ |-> IF i > total[t] /\ i <= total[t] + o.n
                                         THEN o.buf[i - total[t]] ELSE @[i]]]
        /\ \/ /\ o.status = "ok" /\ o.n > 0
              /\ total' = [total EXCEPT ![t] = @ + o.n]
              /\ UNCHANGED <<lock, pc, result>>
           \/ /\ o.status = "ok" /\ o.n = 0
              /\ Return(t, "ok", total[t])
              /\ owner' = NoThread
              /\ UNCHANGED <<poisoned, total>>
           \/ /\ o.status # "ok"
              /\ Return(t, o.status, 0)
              /\ owner' = NoThread
              /\ poisoned' = (poisoned \/ o.status = "panic")
              /\ UNCHANGED total
  BY DEF ReadTurn
<1>3. /\ GoodOutcome(file, position, Want(t) - total[t], o)
      /\ o.status # "panic" /\ o.pos = position + o.n
      /\ o.n \in Nat /\ o.n <= Want(t) - total[t]
  BY <1>1, TurnIsGood
<1>4. /\ Want(t) \in Nat /\ Want(t) <= args[t].len
      /\ args[t].len \in Nat /\ args[t].len <= MaxSize
      /\ args[t].offset \in Nat /\ total[t] \in Nat /\ 0 \in 0..MaxSize
  BY WindowFacts, WordAssumption DEF IInv, TypeOK
<1>5. o.status \in {"ok", "err", "io"} /\ o.pos \in Word
  BY <1>3 DEF GoodOutcome
<1>6. /\ total[t] + o.n \in 0..MaxSize /\ total[t] + o.n <= Want(t)
      /\ total[t] \in 0..MaxSize
      /\ o.pos = args[t].offset + (total[t] + o.n)
  BY <1>1, <1>3, <1>4, WordAssumption
<1>7. UNCHANGED <<file, args, calls, panics>>
  BY DEF ReadTurn
<1>8. buf'[t] \in [1..args[t].len -> Cell] /\ DOMAIN buf' = Threads
  <2>1. buf[t] \in [1..args[t].len -> Cell] /\ DOMAIN buf = Threads
    BY DEF IInv, TypeOK
  <2>2. o.buf \in [1..(Want(t) - total[t]) -> Cell]
    BY <1>3 DEF GoodOutcome
  <2>3. \A i \in 1..args[t].len :
          i > total[t] /\ i <= total[t] + o.n => o.buf[i - total[t]] \in Cell
    BY <1>3, <1>4, <2>2
  <2>. QED  BY <1>2, <2>1, <2>3
<1>9. poisoned' = poisoned
  <2>1. \/ UNCHANGED <<owner, poisoned>>
        \/ UNCHANGED poisoned
        \/ poisoned' = (poisoned \/ o.status = "panic")
    BY <1>2, Zenon DEF lock
  <2>2. poisoned \in BOOLEAN
    BY DEF IInv, TypeOK
  <2>3. CASE UNCHANGED <<owner, poisoned>>
    BY <2>3
  <2>. QED  BY <1>3, <2>1, <2>2, <2>3, Zenon
<1>10. TypeOK'
  <2>1. \A u \in Threads \ {t} : buf'[u] = buf[u]
    BY <1>2 DEF IInv, TypeOK
  <2>2. \A u \in Threads : buf'[u] \in [1..args'[u].len -> Cell]
    BY <1>7, <1>8, <2>1 DEF IInv, TypeOK
  <2>3. /\ file' \in Files /\ position' \in Word
        /\ args' \in [Threads -> [offset : Word, len : 0..MaxSize]]
        /\ calls' \in [Threads -> 0..MaxCalls] /\ panics' \in 0..MaxPanics
    BY <1>2, <1>5, <1>7 DEF IInv, TypeOK
  <2>4. /\ owner' \in Threads \cup {NoThread}
        /\ pc' \in [Threads -> {"idle", "bound", "lock", "seek", "read"}]
        /\ total' \in [Threads -> 0..MaxSize]
        /\ result' \in [Threads -> [status : {"none", "ok", "err", "io", "panic",
                                              "decoder_panic"},
                                    n : 0..MaxSize]]
    <3>1. CASE o.status = "ok" /\ o.n > 0
      <4>1. /\ total' = [total EXCEPT ![t] = total[t] + o.n]
            /\ owner' = owner /\ pc' = pc /\ result' = result
        BY <1>2, <3>1 DEF lock
      <4>. QED  BY <1>6, <4>1 DEF IInv, TypeOK
    <3>2. CASE o.status = "ok" /\ o.n = 0
      <4>1. Return(t, "ok", total[t]) /\ owner' = NoThread /\ total' = total
        BY <1>2, <3>2
      <4>. QED  BY <1>6, <4>1, ReturnFacts DEF IInv, TypeOK
    <3>3. CASE o.status # "ok"
      <4>1. /\ Return(t, o.status, 0) /\ o.status \in {"err", "io"}
            /\ owner' = NoThread /\ total' = total
        BY <1>2, <1>5, <3>3
      <4>2. /\ pc' \in [Threads -> {"idle", "bound", "lock", "seek", "read"}]
            /\ result' \in [Threads -> [status : {"none", "ok", "err", "io", "panic",
                                                  "decoder_panic"},
                                        n : 0..MaxSize]]
        BY <1>4, <4>1, ReturnFacts DEF IInv
      <4>. QED  BY <4>1, <4>2 DEF IInv, TypeOK
    <3>. QED  BY <1>3, <3>1, <3>2, <3>3
  <2>5. poisoned' \in BOOLEAN
    <3>1. poisoned \in BOOLEAN
      BY DEF IInv, TypeOK
    <3>. QED  BY <1>9, <3>1, Zenon
  <2>. QED  BY <1>8, <2>2, <2>3, <2>4, <2>5 DEF TypeOK
<1>11. CursorBelongsToHolder'
  BY <1>1, <1>2, <1>6, <1>7 DEF IInv, TypeOK, CursorBelongsToHolder, Return, lock
<1>12. StaysInWindow'
  BY <1>1, <1>2, <1>6, <1>7 DEF IInv, TypeOK, StaysInWindow, Return, Want, Avail, Size
<1>13. OnlyDecodersPanic'
  <2>1. CASE o.status = "ok" /\ o.n > 0
    <3>1. result' = result /\ panics' = panics
      BY <1>2, <1>7, <2>1
    <3>. QED  BY <1>9, <3>1, Zenon DEF IInv, OnlyDecodersPanic
  <2>2. CASE o.status = "ok" /\ o.n = 0
    <3>1. Return(t, "ok", total[t])
      BY <1>2, <2>2
    <3>2. \A u \in Threads : result'[u].status # "panic"
      BY <1>6, <3>1, ReturnFacts DEF IInv, OnlyDecodersPanic
    <3>. QED  BY <1>7, <1>9, <3>2, Zenon DEF IInv, OnlyDecodersPanic
  <2>3. CASE o.status # "ok"
    <3>1. Return(t, o.status, 0) /\ o.status \in {"err", "io"}
      BY <1>2, <1>5, <2>3
    <3>2. \A u \in Threads : result'[u].status # "panic"
      BY <1>4, <3>1, ReturnFacts DEF IInv, OnlyDecodersPanic
    <3>. QED  BY <1>7, <1>9, <3>2, Zenon DEF IInv, OnlyDecodersPanic
  <2>. QED  BY <1>3, <2>1, <2>2, <2>3
<1>. QED  BY <1>10, <1>11, <1>12, <1>13 DEF IInv

(* A return drops the guard. *)
LEMMA ReturnInv ==
  ASSUME IInv, NEW t \in Threads, pc[t] = "read",
         \/ DecoderPanics(t)
         \/ Finish(t)
  PROVE  IInv'
<1>1. \A u \in Threads \ {t} : pc[u] \notin {"seek", "read"}
  BY DEF IInv, CursorBelongsToHolder
<1>2. total[t] \in 0..MaxSize /\ 0 \in 0..MaxSize
  BY WordAssumption DEF IInv, TypeOK
<1>3. TypeOK'
  <2>1. CASE DecoderPanics(t)
    <3>1. panics + 1 \in 0..MaxPanics
      BY <2>1, SourceAssumption DEF DecoderPanics, IInv, TypeOK
    <3>. QED  BY <1>2, <2>1, <3>1 DEF DecoderPanics, Return, IInv, TypeOK, reader
  <2>2. CASE Finish(t)
    BY <1>2, <2>2 DEF Finish, Return, IInv, TypeOK, reader
  <2>. QED  BY <2>1, <2>2
<1>4. CursorBelongsToHolder'
  BY <1>1 DEF DecoderPanics, Finish, Return, IInv, TypeOK, CursorBelongsToHolder, reader
<1>5. StaysInWindow'
  BY DEF DecoderPanics, Finish, Return, IInv, TypeOK, StaysInWindow, Want, Avail, Size, reader
<1>6. OnlyDecodersPanic'
  <2>1. CASE DecoderPanics(t)
    <3>1. panics + 1 > 0
      BY SourceAssumption DEF IInv, TypeOK
    <3>. QED  BY <1>2, <2>1, <3>1, ReturnFacts DEF DecoderPanics, IInv, OnlyDecodersPanic
  <2>2. CASE Finish(t)
    BY <1>2, <2>2, ReturnFacts DEF Finish, IInv, OnlyDecodersPanic
  <2>. QED  BY <2>1, <2>2
<1>. QED  BY <1>3, <1>4, <1>5, <1>6 DEF IInv

LEMMA NextInv == IInv /\ [Next]_vars => IInv'
<1>. SUFFICES ASSUME IInv, [Next]_vars PROVE IInv'
  OBVIOUS
<1>1. CASE UNCHANGED vars
  BY <1>1 DEF IInv, TypeOK, CursorBelongsToHolder, StaysInWindow, OnlyDecodersPanic,
              Want, Avail, Size, vars, reader, lock
<1>2. ASSUME NEW t \in Threads, Call(t) \/ Step(t)
      PROVE  IInv'
  BY <1>2, CallInv, BoundInv, LockInv, SeekInv, ReadTurnInv, ReturnInv
     DEF Step, DecoderPanics, Finish
<1>. QED  BY <1>1, <1>2 DEF Next

(* The inductive invariant of read_at. *)
THEOREM SourceInvariant == Spec => []IInv
  BY InitInv, NextInv, PTL DEF Spec

(* The variables of the threads in read_at keep their types; each buffer   *)
(* stays as long as its caller made it, through failures and panics        *)
(* (core/src/vfs.rs, read_at).                                             *)
THEOREM SourceTypeCorrect == Spec => []TypeOK
<1>1. IInv => TypeOK
  BY DEF IInv
<1>. QED  BY <1>1, SourceInvariant, PTL

(* The threads of DmgSource never read with another's cursor: core/src/    *)
(* vfs.rs, read_at, for any number of threads and calls.                   *)
THEOREM CursorBelongsToHolderHolds == Spec => []CursorBelongsToHolder
<1>1. IInv => CursorBelongsToHolder
  BY DEF IInv
<1>. QED  BY <1>1, SourceInvariant, PTL

(* The slice of no turn is inverted: read_at's loop never indexes past its *)
(* window (core/src/vfs.rs, read_at).                                      *)
THEOREM StaysInWindowHolds == Spec => []StaysInWindow
<1>1. IInv => StaysInWindow
  BY DEF IInv
<1>. QED  BY <1>1, SourceInvariant, PTL

(* Behind DmgSource the cursor of DmgReader cannot overflow, whatever the  *)
(* image: only a codec can panic and poison the mutex.                     *)
THEOREM OnlyDecodersPanicHolds == Spec => []OnlyDecodersPanic
<1>1. IInv => OnlyDecodersPanic
  BY DEF IInv
<1>. QED  BY <1>1, SourceInvariant, PTL

-----------------------------------------------------------------------------
(* What the answers hold, where usize is as wide as u64 *)

(* The first n bytes of t's buffer are bytes of t's window. *)
FilledFromWindow(t, n) ==
  \A i \in 1..n :
    buf[t][i] # StaleByte => buf[t][i] \in CellsAt(file, args[t].offset + i - 1)

(* What holds of one thread between the steps of its call. *)
Answering(t) ==
  /\ pc[t] = "read" => FilledFromWindow(t, total[t])
  /\ pc[t] = "idle" /\ result[t].status = "ok" =>
       /\ result[t].n = Lesser(args[t].len, Avail(t))
       /\ FilledFromWindow(t, result[t].n)

AInv == \A t \in Threads : Answering(t)

(* A step that leaves a thread's part of the state leaves its answer. *)
LEMMA OthersKeepAnswering ==
  ASSUME NEW u \in Threads, Answering(u), file' = file,
         pc'[u] = pc[u], total'[u] = total[u], args'[u] = args[u], buf'[u] = buf[u],
         result'[u] = result[u]
  PROVE  Answering(u)'
  BY DEF Answering, FilledFromWindow, Avail, Size

(* Only the caller's own part of the state changes in its steps. *)
LEMMA OwnPart ==
  ASSUME IInv, NEW t \in Threads, Call(t) \/ Step(t), NEW u \in Threads \ {t}
  PROVE  /\ file' = file
         /\ pc'[u] = pc[u] /\ total'[u] = total[u] /\ args'[u] = args[u]
         /\ buf'[u] = buf[u] /\ result'[u] = result[u]
<1>1. CASE Call(t)
  BY <1>1 DEF Call, IInv, TypeOK, reader
<1>2. CASE Bound(t)
  BY <1>2 DEF Bound, Return, IInv, TypeOK, reader
<1>3. CASE Lock(t)
  BY <1>3 DEF Lock, IInv, TypeOK, reader
<1>4. CASE SeekToOffset(t)
  BY <1>4 DEF SeekToOffset, IInv, TypeOK
<1>5. CASE ReadTurn(t)
  BY <1>5 DEF ReadTurn, Return, IInv, TypeOK, lock
<1>6. CASE DecoderPanics(t)
  BY <1>6 DEF DecoderPanics, Return, IInv, TypeOK, reader
<1>7. CASE Finish(t)
  BY <1>7 DEF Finish, Return, IInv, TypeOK, reader
<1>. QED  BY <1>1, <1>2, <1>3, <1>4, <1>5, <1>6, <1>7 DEF Step

(* A turn of the loop appends bytes of the window and never gives up       *)
(* before the window is full.                                              *)
LEMMA TurnKeepsAnswering ==
  ASSUME MaxSize = MaxWord, IInv, NEW t \in Threads, Answering(t), ReadTurn(t)
  PROVE  Answering(t)'
<1>1. pc[t] = "read" /\ total[t] < Want(t) /\ UNCHANGED <<file, args>>
  BY DEF ReadTurn
<1>2. PICK o \in ReadOutcomes(file, position, Want(t) - total[t]) :
        /\ buf' = [buf EXCEPT ![t] =
                     [i \in DOMAIN @ |-> IF i > total[t] /\ i <= total[t] + o.n
                                         THEN o.buf[i - total[t]] ELSE @[i]]]
        /\ \/ /\ o.status = "ok" /\ o.n > 0
              /\ total' = [total EXCEPT ![t] = @ + o.n]
              /\ UNCHANGED <<lock, pc, result>>
           \/ o.status = "ok" /\ o.n = 0
           \/ o.status # "ok" /\ Return(t, o.status, 0)
  BY DEF ReadTurn
<1>3. /\ GoodBytes(file, position, Want(t) - total[t], o)
      /\ o.n \in Nat /\ o.n <= Want(t) - total[t]
      /\ position < Size
  BY <1>1, TurnIsGood
<1>4. /\ position = args[t].offset + total[t] /\ total[t] \in Nat /\ args[t].offset \in Nat
      /\ Want(t) \in Nat /\ Want(t) <= args[t].len /\ args[t].len \in Nat
      /\ DOMAIN buf = Threads /\ DOMAIN buf[t] = 1..args[t].len
  BY <1>1, WindowFacts, WordAssumption DEF IInv, TypeOK, CursorBelongsToHolder
<1>5. CASE o.status # "ok"
  <2>1. pc'[t] = "idle" /\ result'[t].status = o.status
    BY <1>2, <1>5 DEF Return, IInv, TypeOK
  <2>. QED  BY <1>5, <2>1 DEF Answering
<1>6. CASE o.status = "ok" /\ o.n = 0
  <2>1. Want(t) - total[t] > 0
    BY <1>1, <1>4
  <2>. QED  BY <1>3, <1>6, <2>1 DEF GoodBytes, Size
<1>7. CASE o.status = "ok" /\ o.n > 0
  <2>1. pc'[t] = "read" /\ total'[t] = total[t] + o.n
    BY <1>1, <1>2, <1>7 DEF IInv, TypeOK
  <2>2. ASSUME NEW i \in 1..total[t] + o.n, buf'[t][i] # StaleByte
        PROVE  buf'[t][i] \in CellsAt(file, args[t].offset + i - 1)
    <3>1. i \in DOMAIN buf[t] /\ i \in Nat /\ i >= 1
      BY <1>3, <1>4
    <3>2. buf'[t][i] = IF i > total[t] /\ i <= total[t] + o.n
                       THEN o.buf[i - total[t]] ELSE buf[t][i]
      BY <1>2, <1>4, <3>1
    <3>3. CASE i <= total[t]
      <4>1. i \in 1..total[t] /\ buf'[t][i] = buf[t][i]
        BY <1>4, <3>1, <3>2, <3>3
      <4>. QED  BY <1>1, <2>2, <4>1 DEF Answering, FilledFromWindow
    <3>4. CASE i > total[t]
      <4>1. i <= total[t] + o.n
        BY <1>3, <1>4, <2>2
      <4>2. buf'[t][i] = o.buf[i - total[t]]
        BY <3>2, <3>4, <4>1
      <4>3. i - total[t] \in 1..o.n
        BY <1>3, <1>4, <3>1, <3>4, <4>1
      <4>4. position + (i - total[t]) - 1 = args[t].offset + i - 1
        BY <1>4, <3>1
      <4>5. o.buf[i - total[t]] \in CellsAt(file, position + (i - total[t]) - 1)
        BY <1>3, <1>7, <2>2, <4>2, <4>3 DEF GoodBytes
      <4>. QED  BY <4>2, <4>4, <4>5
    <3>. QED  BY <1>4, <3>1, <3>3, <3>4
  <2>. QED  BY <1>1, <2>1, <2>2 DEF Answering, FilledFromWindow
<1>. QED  BY <1>3, <1>5, <1>6, <1>7

LEMMA StepKeepsAnswering ==
  ASSUME MaxSize = MaxWord, IInv, NEW t \in Threads, Answering(t), Call(t) \/ Step(t)
  PROVE  Answering(t)'
<1>1. /\ Avail(t) \in Nat /\ args[t].len \in Nat /\ Want(t) \in Nat
      /\ Want(t) = Lesser(args[t].len, Avail(t))
  BY WindowFacts DEF IInv
<1>2. CASE Call(t)
  <2>1. pc'[t] = "bound"
    BY <1>2 DEF Call, IInv, TypeOK
  <2>. QED  BY <2>1 DEF Answering
<1>3. CASE Bound(t)
  <2>1. UNCHANGED <<file, args>>
    BY <1>3 DEF Bound, reader
  <2>2. CASE Avail(t) = 0
    <3>1. result'[t] = [status |-> "ok", n |-> 0] /\ pc'[t] = "idle"
      BY <1>3, <2>2 DEF Bound, Return, IInv, TypeOK
    <3>2. Lesser(args[t].len, Avail(t))' = 0
      BY <1>1, <2>1, <2>2 DEF Lesser, Avail, Size
    <3>. QED  BY <3>1, <3>2 DEF Answering, FilledFromWindow
  <2>3. CASE Avail(t) # 0
    <3>1. pc'[t] = "lock"
      BY <1>3, <2>3 DEF Bound, IInv, TypeOK
    <3>. QED  BY <3>1 DEF Answering
  <2>. QED  BY <2>2, <2>3
<1>4. CASE Lock(t)
  <2>1. pc'[t] = "seek"
    BY <1>4 DEF Lock, IInv, TypeOK
  <2>. QED  BY <2>1 DEF Answering
<1>5. CASE SeekToOffset(t)
  <2>1. pc'[t] = "read" /\ total'[t] = 0
    BY <1>5 DEF SeekToOffset, IInv, TypeOK, StaysInWindow
  <2>. QED  BY <2>1 DEF Answering, FilledFromWindow
<1>6. CASE ReadTurn(t)
  BY <1>6, TurnKeepsAnswering
<1>7. CASE DecoderPanics(t)
  <2>1. pc'[t] = "idle" /\ result'[t].status = "decoder_panic"
    BY <1>7 DEF DecoderPanics, Return, IInv, TypeOK
  <2>. QED  BY <2>1 DEF Answering
<1>8. CASE Finish(t)
  <2>1. pc[t] = "read" /\ total[t] >= Want(t) /\ UNCHANGED <<file, args, buf>>
    BY <1>8 DEF Finish, reader
  <2>2. pc'[t] = "idle" /\ result'[t] = [status |-> "ok", n |-> total[t]]
    BY <1>8 DEF Finish, Return, IInv, TypeOK
  <2>3. total[t] = Want(t)
    BY <1>1, <2>1, WordAssumption DEF IInv, StaysInWindow, TypeOK
  <2>. QED  BY <1>1, <2>1, <2>2, <2>3 DEF Answering, FilledFromWindow, Avail, Size
<1>. QED  BY <1>2, <1>3, <1>4, <1>5, <1>6, <1>7, <1>8 DEF Step

(* On a 64-bit target the answers of read_at are whole and come from the   *)
(* caller's window, for any image, threads and interleaving.               *)
THEOREM AnswersInvariant ==
  ASSUME MaxSize = MaxWord
  PROVE  Spec => []AInv
<1>1. Init => AInv
  BY DEF Init, AInv, Answering
<1>2. IInv /\ AInv /\ [Next]_vars => AInv'
  <2>. SUFFICES ASSUME IInv, AInv, [Next]_vars PROVE AInv'
    OBVIOUS
  <2>1. CASE UNCHANGED vars
    BY <2>1 DEF vars, reader, AInv, Answering, FilledFromWindow, Avail, Size
  <2>2. ASSUME NEW t \in Threads, Call(t) \/ Step(t), NEW u \in Threads
        PROVE  Answering(u)'
    <3>1. Answering(u)
      BY DEF AInv
    <3>2. CASE u = t
      BY <2>2, <3>1, <3>2, StepKeepsAnswering
    <3>3. CASE u # t
      BY <2>2, <3>1, <3>3, OwnPart, OthersKeepAnswering
    <3>. QED  BY <3>2, <3>3
  <2>. QED  BY <2>1, <2>2 DEF Next, AInv
<1>. QED  BY <1>1, <1>2, SourceInvariant, PTL DEF Spec

(* read_at answers for the whole window or fails. *)
THEOREM CompleteOrFailHolds ==
  ASSUME MaxSize = MaxWord
  PROVE  Spec => []CompleteOrFail
<1>1. AInv => CompleteOrFail
  BY DEF AInv, Answering, CompleteOrFail
<1>. QED  BY <1>1, AnswersInvariant, PTL

(* No byte of an answer is from outside the caller's own window. *)
THEOREM AnswersFromOwnWindowHolds ==
  ASSUME MaxSize = MaxWord
  PROVE  Spec => []AnswersFromOwnWindow
<1>1. AInv => AnswersFromOwnWindow
  BY DEF AInv, Answering, FilledFromWindow, AnswersFromOwnWindow
<1>. QED  BY <1>1, AnswersInvariant, PTL

-----------------------------------------------------------------------------
(* The contract of ImageSource *)

(* What t's call has written so far: nothing beyond n, and all of it on an *)
(* undamaged image.                                                        *)
Written(t, n) ==
  /\ \A i \in 1..args[t].len : i > n => buf[t][i] = StaleByte
  /\ Sound(file) => \A i \in 1..n : buf[t][i] # StaleByte

Writing(t) == pc[t] # "idle" => Written(t, total[t])

WInv == \A t \in Threads : Writing(t)

LEMMA TurnKeepsWriting ==
  ASSUME MaxSize = MaxWord, IInv, NEW t \in Threads, Writing(t), ReadTurn(t)
  PROVE  Writing(t)'
<1>1. pc[t] = "read" /\ total[t] < Want(t) /\ UNCHANGED <<file, args>>
  BY DEF ReadTurn
<1>2. PICK o \in ReadOutcomes(file, position, Want(t) - total[t]) :
        /\ buf' = [buf EXCEPT ![t] =
                     [i \in DOMAIN @ |-> IF i > total[t] /\ i <= total[t] + o.n
                                         THEN o.buf[i - total[t]] ELSE @[i]]]
        /\ \/ /\ o.status = "ok" /\ o.n > 0
              /\ total' = [total EXCEPT ![t] = @ + o.n]
              /\ UNCHANGED <<lock, pc, result>>
           \/ Return(t, "ok", total[t])
           \/ Return(t, o.status, 0)
  BY DEF ReadTurn
<1>3. o.n \in Nat /\ o.n <= Want(t) - total[t]
  BY <1>1, TurnIsGood
<1>4. /\ file \in Files /\ position \in Word /\ total[t] \in Nat
      /\ Want(t) \in Nat /\ Want(t) <= args[t].len /\ args[t].len \in Nat
      /\ args[t].len <= MaxSize /\ MaxSize \in Nat
      /\ DOMAIN buf = Threads /\ DOMAIN buf[t] = 1..args[t].len
  BY WindowFacts, WordAssumption DEF IInv, TypeOK
<1>5. Sound(file) /\ o.status = "ok" => \A i \in 1..o.n : o.buf[i] # StaleByte
  <2>. DEFINE room == Want(t) - total[t]
  <2>1. room \in 0..MaxSize
    BY <1>1, <1>4
  <2>. HIDE DEF room
  <2>2. o \in ReadOutcomes(file, position, room)
    BY DEF room
  <2>. QED  BY <1>4, <2>1, <2>2, SoundReadIsExact DEF ExactBytes
<1>6. CASE Return(t, "ok", total[t]) \/ Return(t, o.status, 0)
  <2>1. pc'[t] = "idle"
    BY <1>6 DEF Return, IInv, TypeOK
  <2>. QED  BY <2>1 DEF Writing
<1>7. CASE o.status = "ok" /\ o.n > 0 /\ total' = [total EXCEPT ![t] = @ + o.n]
  <2>1. total'[t] = total[t] + o.n
    BY <1>7 DEF IInv, TypeOK
  <2>2. Written(t, total[t])
    BY <1>1 DEF Writing
  <2>3. \A i \in 1..args[t].len :
          buf'[t][i] = IF i > total[t] /\ i <= total[t] + o.n
                       THEN o.buf[i - total[t]] ELSE buf[t][i]
    BY <1>2, <1>4
  <2>4. ASSUME NEW i \in 1..args[t].len, i > total[t] + o.n
        PROVE  buf'[t][i] = StaleByte
    <3>1. i > total[t] /\ ~(i <= total[t] + o.n)
      BY <1>3, <1>4, <2>4
    <3>. QED  BY <2>2, <2>3, <3>1 DEF Written
  <2>5. ASSUME Sound(file), NEW i \in 1..total[t] + o.n
        PROVE  buf'[t][i] # StaleByte
    <3>1. i \in 1..args[t].len /\ i \in Nat
      BY <1>3, <1>4
    <3>2. CASE i <= total[t]
      <4>1. i \in 1..total[t] /\ ~(i > total[t])
        BY <1>4, <3>1, <3>2
      <4>. QED  BY <2>2, <2>3, <2>5, <3>1, <4>1 DEF Written
    <3>3. CASE i > total[t]
      <4>1. i - total[t] \in 1..o.n /\ i <= total[t] + o.n
        BY <1>3, <1>4, <3>1, <3>3
      <4>. QED  BY <1>5, <1>7, <2>3, <2>5, <3>1, <3>3, <4>1
    <3>. QED  BY <1>4, <3>1, <3>2, <3>3
  <2>6. Written(t, total[t])'
    BY <1>1, <2>1, <2>4, <2>5 DEF Written
  <2>. QED  BY <2>6 DEF Writing
<1>. QED  BY <1>2, <1>6, <1>7

LEMMA StepKeepsWriting ==
  ASSUME MaxSize = MaxWord, IInv, NEW t \in Threads, Writing(t), Call(t) \/ Step(t)
  PROVE  Writing(t)'
<1>1. CASE Call(t)
  <2>1. PICK offset \in Offsets, len \in BufLens :
          /\ args' = [args EXCEPT ![t] = [offset |-> offset, len |-> len]]
          /\ buf' = [buf EXCEPT ![t] = UntouchedBuffer(len)]
    BY <1>1 DEF Call
  <2>2. total'[t] = 0 /\ args'[t].len = len /\ buf'[t] = UntouchedBuffer(len)
    BY <1>1, <2>1 DEF Call, IInv, TypeOK
  <2>. QED  BY <2>2 DEF Writing, Written, UntouchedBuffer
<1>2. CASE Bound(t)
  <2>1. pc[t] # "idle" /\ UNCHANGED <<file, args, buf, total>>
    BY <1>2 DEF Bound, reader
  <2>. QED  BY <2>1 DEF Writing, Written
<1>3. CASE Lock(t) \/ SeekToOffset(t)
  <2>1. pc[t] # "idle" /\ UNCHANGED <<file, args, buf, total>>
    BY <1>3 DEF Lock, SeekToOffset, reader
  <2>. QED  BY <2>1 DEF Writing, Written
<1>4. CASE ReadTurn(t)
  BY <1>4, TurnKeepsWriting
<1>5. CASE DecoderPanics(t) \/ Finish(t)
  <2>1. pc'[t] = "idle"
    BY <1>5 DEF DecoderPanics, Finish, Return, IInv, TypeOK
  <2>. QED  BY <2>1 DEF Writing
<1>. QED  BY <1>1, <1>2, <1>3, <1>4, <1>5 DEF Step

LEMMA WritingInvariant ==
  ASSUME MaxSize = MaxWord
  PROVE  Spec => []WInv
<1>1. Init => WInv
  BY DEF Init, WInv, Writing
<1>2. IInv /\ WInv /\ [Next]_vars => WInv'
  <2>. SUFFICES ASSUME IInv, WInv, [Next]_vars PROVE WInv'
    OBVIOUS
  <2>1. CASE UNCHANGED vars
    BY <2>1 DEF vars, reader, WInv, Writing, Written
  <2>2. ASSUME NEW t \in Threads, Call(t) \/ Step(t), NEW u \in Threads
        PROVE  Writing(u)'
    <3>1. Writing(u)
      BY DEF WInv
    <3>2. CASE u = t
      BY <2>2, <3>1, <3>2, StepKeepsWriting
    <3>3. CASE u # t
      <4>1. /\ file' = file /\ pc'[u] = pc[u] /\ total'[u] = total[u]
            /\ args'[u] = args[u] /\ buf'[u] = buf[u]
        BY <2>2, <3>3, OwnPart
      <4>. QED  BY <3>1, <4>1 DEF Writing, Written
    <3>. QED  BY <3>2, <3>3
  <2>. QED  BY <2>1, <2>2 DEF Next, WInv
<1>. QED  BY <1>1, <1>2, SourceInvariant, PTL DEF Spec

(* What the callers see. *)
Pending == {t \in Threads : pc[t] # "idle"}

Data == [t \in Threads |-> IF pc[t] = "idle" THEN buf[t] ELSE UntouchedBuffer(args[t].len)]

LEMMA SameUntouched == \A len : UntouchedBuffer(len) = Source!UntouchedBuffer(len)
  BY DEF UntouchedBuffer, StaleByte, Source!UntouchedBuffer, Source!StaleByte

LEMMA InitImplements == Init => Source!Init
<1>. SUFFICES ASSUME Init PROVE Source!Init
  OBVIOUS
<1>1. Pending = {} /\ Data = [t \in Threads |-> Source!UntouchedBuffer(0)]
  BY SameUntouched DEF Init, Pending, Data
<1>. QED  BY <1>1 DEF Init, Source!Init, Pending, Data

LEMMA OthersSeeNothing ==
  ASSUME IInv, NEW t \in Threads, Call(t) \/ Step(t), NEW u \in Threads \ {t}
  PROVE  Data'[u] = Data[u]
  BY OwnPart DEF Data

LEMMA CallImplements ==
  ASSUME IInv, NEW t \in Threads, Call(t)
  PROVE  Source!Calls(t)
<1>1. PICK offset \in Offsets, len \in BufLens :
        /\ args' = [args EXCEPT ![t] = [offset |-> offset, len |-> len]]
        /\ buf' = [buf EXCEPT ![t] = UntouchedBuffer(len)]
  BY DEF Call
<1>2. pc[t] = "idle" /\ pc' = [pc EXCEPT ![t] = "bound"]
  BY DEF Call
<1>3. t \notin Pending /\ Pending' = Pending \cup {t}
  BY <1>2 DEF Pending, IInv, TypeOK
<1>4. Data' = [Data EXCEPT ![t] = Source!UntouchedBuffer(len)]
  <2>1. pc'[t] # "idle" /\ args'[t].len = len
    BY <1>1, <1>2 DEF IInv, TypeOK
  <2>2. Data'[t] = Source!UntouchedBuffer(len)
    BY <2>1, SameUntouched DEF Data
  <2>3. \A u \in Threads \ {t} : Data'[u] = Data[u]
    BY OthersSeeNothing
  <2>. QED  BY <2>2, <2>3 DEF Data
<1>5. result' = [result EXCEPT ![t] = [status |-> "none", n |-> 0]] /\ file' = file
  BY DEF Call, reader
<1>. QED  BY <1>1, <1>3, <1>4, <1>5, Zenon DEF Source!Calls, Pending, Data

LEMMA ReturnImplements ==
  ASSUME IInv, NEW t \in Threads, Step(t), pc[t] # "idle", UNCHANGED <<file, args>>,
         Return(t, "ok", Lesser(args[t].len, Avail(t))),
         buf'[t] \in [1..args[t].len -> Cell],
         FilledFromWindow(t, Lesser(args[t].len, Avail(t)))',
         Written(t, Lesser(args[t].len, Avail(t)))'
  PROVE  Source!Answers(t)
<1>. DEFINE n == Lesser(args[t].len, Avail(t))
<1>1. /\ args[t].len \in Nat /\ args[t].offset \in Nat /\ Size \in Nat /\ n \in Nat
      /\ n <= args[t].len
      /\ n > 0 => args[t].offset + n <= Size
  BY WindowFacts DEF IInv
<1>2. /\ pc' = [pc EXCEPT ![t] = "idle"]
      /\ result' = [result EXCEPT ![t] = [status |-> "ok", n |-> n]]
  BY DEF Return
<1>3. t \in Pending /\ Pending' = Pending \ {t}
  BY <1>2 DEF Pending, IInv, TypeOK
<1>4. Holdings(file).size = Size
  BY DEF Holdings, Size
<1>5. Source!Lesser(args[t].len, Source!SatSub(Holdings(file).size, args[t].offset)) = n
  BY <1>4 DEF Source!Lesser, Source!SatSub, Lesser, Avail, SatSub
<1>6. Data'[t] = buf'[t] /\ \A u \in Threads \ {t} : Data'[u] = Data[u]
  <2>1. pc'[t] = "idle"
    BY <1>2 DEF IInv, TypeOK
  <2>. QED  BY <2>1, OthersSeeNothing DEF Data
<1>7. n' = n
  BY DEF Avail, Size
<1>8. ASSUME NEW i \in 1..args[t].len
      PROVE  buf'[t][i] \in IF i <= n THEN Holdings(file).bytes[args[t].offset + i - 1]
                            ELSE {Source!StaleByte}
  <2>1. CASE i <= n
    <3>1. i \in 1..n /\ args[t].offset + i - 1 \in 0..Size - 1
      <4>. HIDE DEF n
      <4>. QED  BY <1>1, <2>1
    <3>2. buf'[t][i] # StaleByte => buf'[t][i] \in CellsAt(file, args[t].offset + i - 1)
      BY <1>7, <3>1 DEF FilledFromWindow
    <3>3. Sound(file) => buf'[t][i] # StaleByte
      BY <1>7, <3>1 DEF Written
    <3>4. Holdings(file).bytes[args[t].offset + i - 1]
            = CellsAt(file, args[t].offset + i - 1) \cup {c \in {StaleByte} : ~Sound(file)}
      BY <3>1 DEF Holdings, Size
    <3>. QED  BY <2>1, <3>2, <3>3, <3>4
  <2>2. CASE ~(i <= n)
    <3>1. i > n
      BY <1>1, <2>2
    <3>2. buf'[t][i] = StaleByte
      BY <1>7, <3>1 DEF Written
    <3>. QED  BY <2>2, <3>2 DEF StaleByte, Source!StaleByte
  <2>. QED  BY <2>1, <2>2
<1>9. DOMAIN buf'[t] = 1..args[t].len
  OBVIOUS
<1>. HIDE DEF n
<1>10. /\ DOMAIN Data'[t] = 1..args[t].len
       /\ \A i \in 1..args[t].len :
            Data'[t][i] \in IF i <= n THEN Holdings(file).bytes[args[t].offset + i - 1]
                            ELSE {Source!StaleByte}
  BY <1>6, <1>8, <1>9
<1>. QED
  BY <1>2, <1>3, <1>5, <1>6, <1>10, Zenon DEF Source!Answers, Pending, Data

LEMMA FailureImplements ==
  ASSUME IInv, NEW t \in Threads, Step(t), pc[t] # "idle", UNCHANGED <<file, args>>,
         NEW status, Return(t, status, 0),
         status \in {"io", "decoder_panic"} \/ (status = "err" /\ ~Sound(file))
  PROVE  Source!Fails(t)
<1>1. /\ pc' = [pc EXCEPT ![t] = "idle"]
      /\ result' = [result EXCEPT ![t] = [status |-> status, n |-> 0]]
  BY DEF Return
<1>2. t \in Pending /\ Pending' = Pending \ {t}
  BY <1>1 DEF Pending, IInv, TypeOK
<1>3. \A u \in Threads \ {t} : Data'[u] = Data[u]
  BY OthersSeeNothing
<1>4. status \in {"io", "decoder_panic"} \cup {s \in {"err"} : ~Holdings(file).intact}
  BY DEF Holdings
<1>. QED  BY <1>1, <1>2, <1>3, <1>4, Zenon DEF Source!Fails, Pending, Data

(* What happens between a call and its return is not seen. *)
LEMMA InnerStepImplements ==
  ASSUME IInv, NEW t \in Threads, Step(t), UNCHANGED <<file, args, result>>,
         pc[t] # "idle", pc'[t] # "idle"
  PROVE  UNCHANGED Source!vars
<1>1. \A u \in Threads \ {t} : pc'[u] = pc[u] /\ Data'[u] = Data[u]
  BY OwnPart, OthersSeeNothing
<1>2. Pending' = Pending
  BY <1>1 DEF Pending
<1>3. Data'[t] = Data[t]
  BY DEF Data
<1>4. Data' = Data
  BY <1>1, <1>3 DEF Data
<1>. QED  BY <1>2, <1>4, Zenon DEF Source!vars, Pending, Data

LEMMA TurnImplements ==
  ASSUME MaxSize = MaxWord, IInv, NEW t \in Threads, ReadTurn(t)
  PROVE  Source!Fails(t) \/ UNCHANGED Source!vars
<1>1. /\ pc[t] = "read" /\ pc[t] # "idle" /\ total[t] < Want(t) /\ Step(t)
      /\ UNCHANGED <<file, args>>
  BY DEF ReadTurn, Step
<1>2. PICK o \in ReadOutcomes(file, position, Want(t) - total[t]) :
        \/ o.status = "ok" /\ o.n > 0 /\ UNCHANGED <<lock, pc, result>>
        \/ o.status = "ok" /\ o.n = 0
        \/ o.status # "ok" /\ Return(t, o.status, 0)
  BY DEF ReadTurn
<1>3. /\ GoodOutcome(file, position, Want(t) - total[t], o)
      /\ GoodBytes(file, position, Want(t) - total[t], o)
      /\ o.status # "panic" /\ position < Size
  BY <1>1, TurnIsGood
<1>4. /\ file \in Files /\ position \in Word /\ total[t] \in Nat
      /\ Want(t) \in Nat /\ Want(t) <= MaxSize /\ MaxSize \in Nat
  BY WindowFacts, WordAssumption DEF IInv, TypeOK
<1>5. Want(t) - total[t] \in 0..MaxSize /\ Want(t) - total[t] > 0
  BY <1>1, <1>4
<1>6. CASE o.status = "ok" /\ o.n > 0 /\ UNCHANGED <<lock, pc, result>>
  BY <1>1, <1>6, InnerStepImplements
<1>7. CASE o.status = "ok" /\ o.n = 0
  BY <1>3, <1>5, <1>7 DEF GoodBytes, Size
<1>8. CASE o.status # "ok" /\ Return(t, o.status, 0)
  <2>1. Sound(file) => o.status # "err"
    <3>. DEFINE room == Want(t) - total[t]
    <3>1. room \in 0..MaxSize /\ o \in ReadOutcomes(file, position, room)
      BY <1>5
    <3>. HIDE DEF room
    <3>. QED  BY <1>4, <3>1, SoundReadIsExact DEF ExactBytes
  <2>2. o.status \in {"io", "err"}
    BY <1>3, <1>8 DEF GoodOutcome
  <2>. QED  BY <1>1, <1>8, <2>1, <2>2, FailureImplements
<1>. QED  BY <1>2, <1>6, <1>7, <1>8

LEMMA StepImplements ==
  ASSUME MaxSize = MaxWord, IInv, AInv, WInv, NEW t \in Threads, Call(t) \/ Step(t)
  PROVE  Source!Calls(t) \/ Source!Answers(t) \/ Source!Fails(t) \/ UNCHANGED Source!vars
<1>1. /\ args[t].len \in Nat /\ Avail(t) \in Nat /\ Want(t) \in Nat
      /\ Want(t) = Lesser(args[t].len, Avail(t))
      /\ buf[t] \in [1..args[t].len -> Cell] /\ total[t] \in Nat
  BY WindowFacts, WordAssumption DEF IInv, TypeOK
<1>2. Writing(t) /\ Answering(t)
  BY DEF WInv, AInv
<1>3. CASE Call(t)
  BY <1>3, CallImplements
<1>4. CASE Bound(t)
  <2>1. /\ pc[t] = "bound" /\ pc[t] # "idle" /\ Step(t) /\ UNCHANGED <<file, args, buf, total>>
    BY <1>4 DEF Bound, Step, reader
  <2>2. CASE Avail(t) = 0
    <3>1. Lesser(args[t].len, Avail(t)) = 0 /\ total[t] = 0
      BY <1>1, <2>1, <2>2 DEF Lesser, IInv, StaysInWindow
    <3>2. Return(t, "ok", Lesser(args[t].len, Avail(t)))
      BY <1>4, <2>2, <3>1 DEF Bound
    <3>3. Lesser(args[t].len, Avail(t))' = 0
      BY <2>1, <3>1 DEF Avail, Size
    <3>4. /\ FilledFromWindow(t, Lesser(args[t].len, Avail(t)))'
          /\ Written(t, Lesser(args[t].len, Avail(t)))'
      BY <1>2, <2>1, <3>1, <3>3 DEF FilledFromWindow, Written, Writing
    <3>. QED  BY <1>1, <2>1, <3>2, <3>4, ReturnImplements
  <2>3. CASE Avail(t) # 0
    <3>1. pc'[t] = "lock" /\ UNCHANGED result
      BY <1>4, <2>3 DEF Bound, IInv, TypeOK
    <3>. QED  BY <2>1, <3>1, InnerStepImplements
  <2>. QED  BY <2>2, <2>3
<1>5. CASE Lock(t)
  <2>1. /\ pc[t] # "idle" /\ pc'[t] # "idle" /\ Step(t) /\ UNCHANGED <<file, args, result>>
    BY <1>5 DEF Lock, Step, reader, IInv, TypeOK
  <2>. QED  BY <2>1, InnerStepImplements
<1>6. CASE SeekToOffset(t)
  <2>1. /\ pc[t] # "idle" /\ pc'[t] # "idle" /\ Step(t) /\ UNCHANGED <<file, args, result>>
    BY <1>6 DEF SeekToOffset, Step, IInv, TypeOK
  <2>. QED  BY <2>1, InnerStepImplements
<1>7. CASE ReadTurn(t)
  BY <1>7, TurnImplements
<1>8. CASE DecoderPanics(t)
  <2>1. /\ pc[t] # "idle" /\ Step(t) /\ UNCHANGED <<file, args>>
        /\ Return(t, "decoder_panic", 0)
    BY <1>8 DEF DecoderPanics, Step, reader
  <2>. QED  BY <2>1, FailureImplements
<1>9. CASE Finish(t)
  <2>1. /\ pc[t] = "read" /\ pc[t] # "idle" /\ total[t] >= Want(t) /\ Step(t)
        /\ UNCHANGED <<file, args, buf>> /\ Return(t, "ok", total[t])
    BY <1>9 DEF Finish, Step, reader
  <2>2. total[t] = Lesser(args[t].len, Avail(t))
    BY <1>1, <2>1 DEF IInv, StaysInWindow
  <2>3. Lesser(args[t].len, Avail(t))' = total[t]
    BY <2>1, <2>2 DEF Avail, Size
  <2>4. /\ FilledFromWindow(t, Lesser(args[t].len, Avail(t)))'
        /\ Written(t, Lesser(args[t].len, Avail(t)))'
    BY <1>2, <2>1, <2>3 DEF FilledFromWindow, Written, Writing, Answering
  <2>. QED  BY <1>1, <2>1, <2>2, <2>4, ReturnImplements
<1>. QED  BY <1>3, <1>4, <1>5, <1>6, <1>7, <1>8, <1>9 DEF Step

(* DmgSource is the ImageSource of its image: each call of read_at is      *)
(* answered as if it were one atomic read of its own window, for any       *)
(* threads and interleaving, on undamaged images exactly, on a 64-bit      *)
(* target (core/src/vfs.rs).                                               *)
THEOREM ImplementsImageSourceHolds ==
  ASSUME MaxSize = MaxWord
  PROVE  Spec => ImplementsImageSource
<1>1. IInv /\ AInv /\ WInv /\ [Next]_vars => [Source!Next]_Source!vars
  <2>. SUFFICES ASSUME IInv, AInv, WInv, [Next]_vars
                PROVE  [Source!Next]_Source!vars
    OBVIOUS
  <2>1. CASE UNCHANGED vars
    BY <2>1 DEF vars, reader, Source!vars
  <2>2. ASSUME NEW t \in Threads, Call(t) \/ Step(t)
        PROVE  [Source!Next]_Source!vars
    BY <2>2, StepImplements DEF Source!Next
  <2>. QED  BY <2>1, <2>2 DEF Next
<1>. QED
  BY <1>1, InitImplements, SourceInvariant, AnswersInvariant, WritingInvariant, PTL
     DEF Spec, Source!Spec, ImplementsImageSource
=============================================================================
