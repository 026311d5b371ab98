--------------------------- MODULE DmgReaderProofs ---------------------------
(***************************************************************************)
(* What holds of DmgReader for every image, every width of the machine     *)
(* integers and every sequence of calls, and of the fuzz target fuzz_open  *)
(* for every cap and buffer.                                               *)
(***************************************************************************)
EXTENDS FuzzOpen, UdifProofs

(* A seek lands in u64, whatever offset it is given. *)
LEMMA SeekOutcomeType ==
  ASSUME NEW pos \in Word, NEW base \in Word, NEW d \in Delta
  PROVE  /\ SeekOutcome(pos, base, d).status \in {"ok", "panic"}
         /\ SeekOutcome(pos, base, d).pos \in Word
<1>1. SeekFrom(base, d) \in Word
  <2>1. MaxWord \in Nat /\ base \in Nat /\ base <= MaxWord /\ d \in Int
    BY WordAssumption DEF Word, Delta, MinDelta
  <2>. QED  BY <2>1 DEF SeekFrom, SatAdd, SatSub, Word
<1>. QED  BY <1>1 DEF SeekOutcome

LEMMA InitType == Init => TypeOK
<1>. SUFFICES ASSUME Init PROVE TypeOK
  OBVIOUS
<1>1. 0 \in Word /\ 0 \in 0..MaxSize
  BY WordAssumption DEF Word
<1>2. UntouchedBuffer(0) \in [1..0 -> Cell]
  BY UntouchedBufferType
<1>. QED  BY <1>1, <1>2 DEF Init, TypeOK, Reply, OpenStatuses

(* Each kind of step keeps the types; a read step is a good outcome. *)
LEMMA OpenType ==
  ASSUME TypeOK, NEW f \in Files, Open(f)
  PROVE  TypeOK'
<1>1. PICK status \in OpenOutcomes(f) :
        /\ reply' = Reply("open", status, 0, 0)
        /\ file' = IF status = "ok" THEN f ELSE NoFile
  BY DEF Open
<1>2. status \in OpenStatuses
  BY DEF OpenOutcomes, OpenStatuses
<1>3. 0 \in Word /\ 0 \in 0..MaxSize
  BY WordAssumption DEF Word
<1>4. UntouchedBuffer(0) \in [1..0 -> Cell]
  BY UntouchedBufferType
<1>. QED  BY <1>1, <1>2, <1>3, <1>4 DEF Open, TypeOK, Reply

LEMMA ReadIsGood ==
  ASSUME TypeOK, NEW len \in 0..MaxSize, Read(len)
  PROVE  /\ TypeOK'
         /\ file \in Files /\ file' = file
         /\ \E o : /\ GoodOutcome(file, position, len, o)
                   /\ MaxSize = MaxWord => GoodBytes(file, position, len, o)
                   /\ position' = o.pos /\ buffer' = o.buf
                   /\ reply' = Reply("read", o.status, len, o.n)
<1>1. file \in Files /\ position \in Word /\ len \in 0..MaxSize /\ file' = file
  BY DEF TypeOK, Read
<1>2. PICK o \in ReadOutcomes(file, position, len) :
        /\ position' = o.pos /\ buffer' = o.buf
        /\ reply' = Reply("read", o.status, len, o.n)
  BY DEF Read
<1>3. /\ GoodOutcome(file, position, len, o)
      /\ MaxSize = MaxWord => GoodBytes(file, position, len, o)
  BY <1>1, ReadOutcomesAreGood
<1>4. TypeOK'
  <2>1. o.n \in 0..MaxSize /\ o.n <= len /\ len \in Nat
    BY <1>1, <1>3, WordAssumption DEF GoodOutcome
  <2>. QED  BY <1>1, <1>2, <1>3, <2>1 DEF GoodOutcome, TypeOK, Reply, OpenStatuses
<1>. QED  BY <1>1, <1>2, <1>3, <1>4

LEMMA SeekType ==
  ASSUME TypeOK, file # NoFile, NEW o, SeekTo(o), o.status \in {"ok", "panic"}, o.pos \in Word
  PROVE  TypeOK' /\ buffer' = UntouchedBuffer(0) /\ reply'.op = "seek"
<1>1. 0 \in 0..MaxSize
  BY WordAssumption
<1>2. UntouchedBuffer(0) \in [1..0 -> Cell]
  BY UntouchedBufferType
<1>. QED  BY <1>1, <1>2 DEF SeekTo, TypeOK, Reply, OpenStatuses

(* The three whences. *)
LEMMA SeeksType ==
  ASSUME TypeOK,
         \/ \E n \in SeekStarts : SeekStart(n)
         \/ \E d \in SeekDeltas : SeekEnd(d) \/ SeekCurrent(d)
  PROVE  TypeOK' /\ buffer' = UntouchedBuffer(0) /\ reply'.op = "seek"
<1>1. CASE \E n \in SeekStarts : SeekStart(n)
  <2>1. PICK n \in SeekStarts : SeekStart(n)
    BY <1>1
  <2>2. n \in Word
    BY ReaderAssumption
  <2>. QED  BY <2>1, <2>2, SeekType DEF SeekStart
<1>2. CASE \E d \in SeekDeltas : SeekEnd(d) \/ SeekCurrent(d)
  <2>1. PICK d \in SeekDeltas : SeekEnd(d) \/ SeekCurrent(d)
    BY <1>2
  <2>2. d \in Delta /\ position \in Word /\ file # NoFile /\ file \in Files
    BY <2>1, ReaderAssumption DEF TypeOK, SeekEnd, SeekCurrent
  <2>3. DiskSize(file) \in Word
    BY <2>2, DiskSizeType
  <2>4. /\ SeekOutcome(position, DiskSize(file), d).status \in {"ok", "panic"}
        /\ SeekOutcome(position, DiskSize(file), d).pos \in Word
        /\ SeekOutcome(position, position, d).status \in {"ok", "panic"}
        /\ SeekOutcome(position, position, d).pos \in Word
    BY <2>2, <2>3, SeekOutcomeType
  <2>. QED  BY <2>1, <2>2, <2>4, SeekType DEF SeekEnd, SeekCurrent
<1>. QED  BY <1>1, <1>2

LEMMA NextType == TypeOK /\ [Next]_vars => TypeOK'
<1>. SUFFICES ASSUME TypeOK, [Next]_vars PROVE TypeOK'
  OBVIOUS
<1>1. CASE \E f \in Files : Open(f)
  BY <1>1, OpenType
<1>2. CASE \E len \in ReadLens : Read(len)
  BY <1>2, ReadIsGood, ReaderAssumption
<1>3. CASE \/ \E n \in SeekStarts : SeekStart(n)
           \/ \E d \in SeekDeltas : SeekEnd(d) \/ SeekCurrent(d)
  BY <1>3, SeeksType
<1>4. CASE UNCHANGED vars
  BY <1>4 DEF vars, TypeOK
<1>. QED  BY <1>1, <1>2, <1>3, <1>4 DEF Next

(* The cursor stays in u64 and no reply claims more than its buffer holds, *)
(* for any image and any calls: core/src/lib.rs, open, read and seek.      *)
THEOREM TypeCorrect == Spec => []TypeOK
  BY InitType, NextType, PTL DEF Spec

-----------------------------------------------------------------------------
(* A step that serves bytes is a read step with a good outcome. *)
LEMMA ServingStep ==
  ASSUME TypeOK, Next, ServedNow
  PROVE  /\ file \in Files /\ position \in Word
         /\ \E len \in ReadLens : \E o :
              /\ GoodOutcome(file, position, len, o)
              /\ MaxSize = MaxWord => GoodBytes(file, position, len, o)
              /\ o.status = "ok" /\ buffer' = o.buf
              /\ reply' = Reply("read", o.status, len, o.n)
<1>1. ~ \E f \in Files : Open(f)
  BY DEF ServedNow, Open, Reply
<1>2. ~ \/ \E n \in SeekStarts : SeekStart(n)
        \/ \E d \in SeekDeltas : SeekEnd(d) \/ SeekCurrent(d)
  BY SeeksType DEF ServedNow
<1>3. PICK len \in ReadLens : Read(len)
  BY <1>1, <1>2 DEF Next
<1>4. PICK o : /\ GoodOutcome(file, position, len, o)
               /\ MaxSize = MaxWord => GoodBytes(file, position, len, o)
               /\ position' = o.pos /\ buffer' = o.buf
               /\ reply' = Reply("read", o.status, len, o.n)
  BY <1>3, ReadIsGood, ReaderAssumption
<1>5. o.status = "ok"
  BY <1>4 DEF ServedNow, Reply
<1>. QED  BY <1>3, <1>4, <1>5, ReadIsGood, ReaderAssumption DEF TypeOK

(* On a 64-bit target read returns Ok(0) for a non-empty buffer only at or *)
(* past the end of the disk: run_for never hands read an exhausted run.    *)
THEOREM NoSpuriousEofHolds ==
  ASSUME MaxSize = MaxWord
  PROVE  Spec => NoSpuriousEof
<1>1. TypeOK /\ [Next]_vars =>
        [ServedNow /\ reply'.len > 0 /\ reply'.n = 0 => position >= DiskSize(file)]_vars
  <2>. SUFFICES ASSUME TypeOK, Next, ServedNow, reply'.len > 0, reply'.n = 0
                PROVE  position >= DiskSize(file)
    OBVIOUS
  <2>. DEFINE Served(len, o) == /\ GoodBytes(file, position, len, o)
                               /\ o.status = "ok"
                               /\ reply' = Reply("read", o.status, len, o.n)
  <2>0. PICK len \in ReadLens : \E o : Served(len, o)
    BY ServingStep
  <2>1. PICK o : Served(len, o)
    BY <2>0
  <2>2. len > 0 /\ o.n = 0
    BY <2>1 DEF Reply
  <2>3. ~(position < DiskSize(file))
    BY <2>1, <2>2 DEF GoodBytes
  <2>4. position \in Word /\ DiskSize(file) \in Word
    BY ServingStep, DiskSizeType
  <2>. QED  BY <2>3, <2>4, WordAssumption DEF Word
<1>. QED  BY <1>1, TypeCorrect, PTL DEF Spec, NoSpuriousEof

(* On a 64-bit target every byte that read writes is a byte that a run of  *)
(* the image gives for that place of the disk: the saturated offsets of    *)
(* read are exact wherever a run was found.                                *)
THEOREM BytesComeFromCoveringRunHolds ==
  ASSUME MaxSize = MaxWord
  PROVE  Spec => BytesComeFromCoveringRun
<1>1. TypeOK /\ [Next]_vars =>
        [ServedNow => \A i \in 1..reply'.n :
           buffer'[i] # StaleByte => buffer'[i] \in CellsAt(file, position + i - 1)]_vars
  <2>. SUFFICES ASSUME TypeOK, Next, ServedNow
                PROVE  \A i \in 1..reply'.n :
                         buffer'[i] # StaleByte
                           => buffer'[i] \in CellsAt(file, position + i - 1)
    OBVIOUS
  <2>. DEFINE Served(len, o) == /\ GoodBytes(file, position, len, o)
                               /\ o.status = "ok" /\ buffer' = o.buf
                               /\ reply' = Reply("read", o.status, len, o.n)
  <2>0. PICK len \in ReadLens : \E o : Served(len, o)
    BY ServingStep
  <2>1. PICK o : Served(len, o)
    BY <2>0
  <2>2. reply'.n = o.n
    BY <2>1 DEF Reply
  <2>. QED  BY <2>1, <2>2 DEF GoodBytes
<1>. QED  BY <1>1, TypeCorrect, PTL DEF Spec, BytesComeFromCoveringRun

(* No byte is taken from outside the container, whatever offsets the image *)
(* claims and however they saturate.                                       *)
THEOREM StaysInFileHolds == Spec => []StaysInFile
<1>1. Init => StaysInFile
  BY DEF Init, StaysInFile, UntouchedBuffer
<1>2. TypeOK /\ StaysInFile /\ [Next]_vars => StaysInFile'
  <2>. SUFFICES ASSUME TypeOK, StaysInFile, [Next]_vars
                PROVE  StaysInFile'
    OBVIOUS
  <2>1. CASE \E f \in Files : Open(f)
    BY <2>1 DEF Open, StaysInFile, UntouchedBuffer
  <2>2. CASE \E len \in ReadLens : Read(len)
    <3>1. PICK len \in ReadLens : Read(len)
      BY <2>2
    <3>2. PICK o : GoodOutcome(file, position, len, o) /\ buffer' = o.buf
      BY <3>1, ReadIsGood, ReaderAssumption
    <3>3. file' = file
      BY <3>1 DEF Read
    <3>. QED  BY <3>2, <3>3 DEF GoodOutcome, StaysInFile
  <2>3. CASE \/ \E n \in SeekStarts : SeekStart(n)
             \/ \E d \in SeekDeltas : SeekEnd(d) \/ SeekCurrent(d)
    BY <2>3, SeeksType DEF StaysInFile, UntouchedBuffer
  <2>4. CASE UNCHANGED vars
    BY <2>4 DEF vars, StaysInFile
  <2>. QED  BY <2>1, <2>2, <2>3, <2>4 DEF Next
<1>. QED  BY <1>1, <1>2, TypeCorrect, PTL DEF Spec

-----------------------------------------------------------------------------
(* Undamaged images *)

(* No offset that is passed to seek makes `-n` overflow. *)
SeeksAreSafe == ~OverflowChecks \/ MinDelta \notin SeekDeltas

LEMMA SafeSeek ==
  ASSUME SeeksAreSafe, NEW pos, NEW base, NEW d \in SeekDeltas
  PROVE  SeekOutcome(pos, base, d) = [status |-> "ok", pos |-> SeekFrom(base, d)]
  BY DEF SeeksAreSafe, SeekOutcome

(* Of an undamaged image only the container's own I/O can fail a call, for *)
(* all its runs and partitions, positions and buffers: core/src/lib.rs,    *)
(* read and seek on a 64-bit target, but for the offset i64::MIN where     *)
(* overflow is checked.                                                    *)
THEOREM OnlyIoFailsHolds ==
  ASSUME MaxSize = MaxWord, SeeksAreSafe
  PROVE  Spec => []OnlyIoFails
<1>1. Init => OnlyIoFails
  BY DEF Init, OnlyIoFails
<1>2. TypeOK /\ OnlyIoFails /\ [Next]_vars => OnlyIoFails'
  <2>. SUFFICES ASSUME TypeOK, OnlyIoFails, [Next]_vars
                PROVE  OnlyIoFails'
    OBVIOUS
  <2>1. CASE \E f \in Files : Open(f)
    BY <2>1 DEF Open, OnlyIoFails, Reply
  <2>2. ASSUME NEW len \in ReadLens, Read(len)
        PROVE  OnlyIoFails'
    <3>1. PICK o \in ReadOutcomes(file, position, len) : reply' = Reply("read", o.status, len, o.n)
      BY <2>2 DEF Read
    <3>2. file \in Files /\ file' = file /\ position \in Word /\ len \in 0..MaxSize
      BY <2>2, ReaderAssumption DEF Read, TypeOK
    <3>3. Sound(file) => o.status \in {"ok", "io"}
      BY <3>1, <3>2, SoundReadIsExact DEF ExactBytes
    <3>. QED  BY <3>1, <3>2, <3>3 DEF OnlyIoFails, Reply
  <2>3. CASE \E n \in SeekStarts : SeekStart(n)
    BY <2>3 DEF SeekStart, SeekTo, OnlyIoFails, Reply
  <2>4. CASE \E d \in SeekDeltas : SeekEnd(d) \/ SeekCurrent(d)
    <3>1. reply'.status = "ok"
      BY <2>4, SafeSeek DEF SeekEnd, SeekCurrent, SeekTo, Reply
    <3>. QED  BY <3>1 DEF OnlyIoFails
  <2>5. CASE UNCHANGED vars
    BY <2>5 DEF vars, OnlyIoFails
  <2>. QED  BY <2>1, <2>2, <2>3, <2>4, <2>5 DEF Next
<1>. QED  BY <1>1, <1>2, TypeCorrect, PTL DEF Spec

(* The disks that the reader is refined to. *)
UndamagedFiles == \A f \in Files : Sound(f) /\ NoFile # DiskOf(f)

Disk == IF file = NoFile THEN NoFile ELSE DiskOf(file)

LEMMA DiskFacts ==
  ASSUME TypeOK, file # NoFile, UndamagedFiles
  PROVE  /\ file \in Files /\ Sound(file) /\ Disk = DiskOf(file) /\ Disk # NoFile
         /\ Disk.size = DiskSize(file)
         /\ \A b \in 0..DiskSize(file) - 1 : Disk.bytes[b] = CellsAt(file, b)
  BY DEF TypeOK, UndamagedFiles, Disk, DiskOf

LEMMA InitRefines == Init => VD!Init
  BY DEF Init, VD!Init, Reply, UntouchedBuffer, StaleByte, VD!UntouchedBuffer, VD!StaleByte

LEMMA OpenRefines ==
  ASSUME UndamagedFiles, TypeOK, file = NoFile => position = 0 /\ buffer = UntouchedBuffer(0),
         NEW f \in Files, Open(f)
  PROVE  VD!Opens \/ VD!FailsToOpen
<1>1. PICK status \in OpenOutcomes(f) :
        /\ reply' = Reply("open", status, 0, 0)
        /\ file' = IF status = "ok" THEN f ELSE NoFile
  BY DEF Open
<1>2. file = NoFile /\ position' = 0 /\ buffer' = UntouchedBuffer(0) /\ position = 0
      /\ buffer = UntouchedBuffer(0)
  BY DEF Open
<1>3. CASE status = "ok"
  <2>1. file' = f /\ f # NoFile /\ NoFile # DiskOf(f)
    BY <1>1, <1>3, ReaderAssumption DEF UndamagedFiles
  <2>. QED
    BY <1>1, <1>2, <1>3, <2>1
       DEF VD!Opens, Reply, UntouchedBuffer, StaleByte, VD!UntouchedBuffer, VD!StaleByte
<1>4. CASE status # "ok"
  BY <1>1, <1>2, <1>4 DEF VD!FailsToOpen, Reply
<1>. QED  BY <1>3, <1>4

LEMMA ReadRefines ==
  ASSUME MaxSize = MaxWord, UndamagedFiles, TypeOK, NEW len \in ReadLens, Read(len)
  PROVE  VD!ReadsBytes(len) \/ VD!ReadsNothing(len) \/ VD!FailsToRead(len)
<1>1. PICK o \in ReadOutcomes(file, position, len) :
        /\ position' = o.pos /\ buffer' = o.buf
        /\ reply' = Reply("read", o.status, len, o.n)
  BY DEF Read
<1>2. /\ file # NoFile /\ file' = file /\ position \in Word /\ len \in 0..MaxSize
      /\ file \in Files /\ Sound(file)
  BY DiskFacts, ReaderAssumption DEF Read, TypeOK
<1>3. /\ GoodOutcome(file, position, len, o) /\ GoodBytes(file, position, len, o)
      /\ ExactBytes(file, position, len, o)
  BY <1>1, <1>2, ReadOutcomesAreGood, SoundReadIsExact
<1>4. /\ Disk # NoFile /\ Disk' = Disk /\ Disk.size = DiskSize(file)
      /\ \A b \in 0..DiskSize(file) - 1 : Disk.bytes[b] = CellsAt(file, b)
  BY <1>2, DiskFacts DEF Disk
<1>5. DOMAIN buffer' = 1..len /\ o.n \in 0..len
  BY <1>1, <1>3 DEF GoodOutcome
<1>6. position \in Nat /\ len \in Nat /\ DiskSize(file) \in Nat /\ o.n \in Nat
  BY <1>2, <1>5, DiskSizeType, WordAssumption DEF Word
<1>7. CASE o.status = "io"
  <2>1. o.n = 0 /\ o.pos = position
    BY <1>3, <1>7 DEF GoodOutcome
  <2>. QED  BY <1>1, <1>4, <1>5, <1>7, <2>1 DEF VD!FailsToRead, Reply, Disk
<1>8. CASE o.status = "ok" /\ o.n > 0
  <2>1. /\ o.pos = position + o.n /\ position + o.n <= DiskSize(file)
        /\ position < DiskSize(file)
    BY <1>3, <1>6, <1>8 DEF ExactBytes
  <2>2. o.n \in 1..VD!Lesser(len, Disk.size - position)
    BY <1>4, <1>5, <1>6, <1>8, <2>1 DEF VD!Lesser
  <2>3. ASSUME NEW i \in 1..len
        PROVE  buffer'[i] \in IF i <= o.n THEN Disk.bytes[position + i - 1]
                              ELSE {VD!StaleByte}
    <3>1. CASE i <= o.n
      <4>1. i \in 1..o.n /\ position + i - 1 \in 0..DiskSize(file) - 1
        BY <1>6, <2>1, <3>1
      <4>2. o.buf[i] \in CellsAt(file, position + i - 1)
        BY <1>3, <1>8, <4>1 DEF ExactBytes, GoodBytes
      <4>. QED  BY <1>1, <1>4, <3>1, <4>1, <4>2
    <3>2. CASE ~(i <= o.n)
      <4>1. o.buf[i] = StaleByte
        BY <1>3, <1>6, <1>8, <3>2 DEF ExactBytes
      <4>. QED  BY <1>1, <3>2, <4>1 DEF StaleByte, VD!StaleByte
    <3>. QED  BY <3>1, <3>2
  <2>. QED
    BY <1>1, <1>4, <1>5, <1>8, <2>1, <2>2, <2>3 DEF VD!ReadsBytes, Reply, Disk
<1>9. CASE o.status = "ok" /\ ~(o.n > 0)
  <2>1. o.n = 0 /\ o.pos = position
    BY <1>3, <1>6, <1>9 DEF ExactBytes
  <2>2. len = 0 \/ position >= Disk.size
    BY <1>3, <1>4, <1>6, <1>9, <2>1 DEF GoodBytes
  <2>3. buffer' = VD!UntouchedBuffer(len)
    <3>1. \A i \in 1..len : o.buf[i] = StaleByte
      BY <1>3, <1>9, <2>1 DEF ExactBytes
    <3>2. o.buf \in [1..len -> Cell]
      BY <1>3 DEF GoodOutcome
    <3>. QED  BY <1>1, <3>1, <3>2 DEF StaleByte, VD!StaleByte, VD!UntouchedBuffer
  <2>. QED
    BY <1>1, <1>4, <1>9, <2>1, <2>2, <2>3 DEF VD!ReadsNothing, Reply, Disk
<1>. QED  BY <1>3, <1>7, <1>8, <1>9 DEF ExactBytes

LEMMA SeekRefines ==
  ASSUME UndamagedFiles, SeeksAreSafe, TypeOK,
         \/ \E n \in SeekStarts : SeekStart(n)
         \/ \E d \in SeekDeltas : SeekEnd(d) \/ SeekCurrent(d)
  PROVE  VD!Seeks
<1>1. file # NoFile /\ file' = file /\ buffer' = UntouchedBuffer(0)
  BY DEF SeekStart, SeekEnd, SeekCurrent, SeekTo
<1>2. Disk # NoFile /\ Disk' = Disk /\ Disk.size = DiskSize(file)
  BY <1>1, DiskFacts DEF Disk
<1>3. \A base, d : SeekFrom(base, d) = VD!Offset(base, d)
  BY DEF SeekFrom, SatAdd, SatSub, VD!Offset, VD!SatAdd, VD!SatSub
<1>4. /\ reply' = Reply("seek", "ok", 0, 0)
      /\ \/ position' \in SeekStarts
         \/ \E d \in SeekDeltas : \/ position' = VD!Offset(Disk.size, d)
                                  \/ position' = VD!Offset(position, d)
  <2>1. CASE \E n \in SeekStarts : SeekStart(n)
    BY <2>1 DEF SeekStart, SeekTo
  <2>2. CASE \E d \in SeekDeltas : SeekEnd(d) \/ SeekCurrent(d)
    <3>1. PICK d \in SeekDeltas : SeekEnd(d) \/ SeekCurrent(d)
      BY <2>2
    <3>2. /\ reply' = Reply("seek", "ok", 0, 0)
          /\ \/ position' = SeekFrom(DiskSize(file), d)
             \/ position' = SeekFrom(position, d)
      BY <3>1, SafeSeek DEF SeekEnd, SeekCurrent, SeekTo
    <3>. QED  BY <1>2, <1>3, <3>2
  <2>. QED  BY <2>1, <2>2
<1>. QED
  BY <1>1, <1>2, <1>4
     DEF VD!Seeks, Reply, UntouchedBuffer, StaleByte, VD!UntouchedBuffer, VD!StaleByte, Disk

(* A reader that is not open has never been read from. *)
Unopened == file = NoFile => position = 0 /\ buffer = UntouchedBuffer(0)

(* Of undamaged images DmgReader is a virtual disk: exact bytes, however   *)
(* the calls are split and wherever the cursor is placed, an end at the    *)
(* declared size, and no failure but the container's (core/src/lib.rs, on  *)
(* a 64-bit target, but for i64::MIN where overflow is checked).           *)
THEOREM ImplementsVirtualDiskHolds ==
  ASSUME MaxSize = MaxWord, SeeksAreSafe, UndamagedFiles
  PROVE  Spec => ImplementsVirtualDisk
<1>1. Init => Unopened
  BY DEF Init, Unopened
<1>2. Unopened /\ [Next]_vars => Unopened'
  BY DEF Unopened, Next, vars, Open, Read, SeekStart, SeekEnd, SeekCurrent, SeekTo
<1>3. TypeOK /\ Unopened /\ [Next]_vars => [VD!Next]_VD!vars
  <2>. SUFFICES ASSUME TypeOK, Unopened, [Next]_vars PROVE [VD!Next]_VD!vars
    OBVIOUS
  <2>1. CASE UNCHANGED vars
    BY <2>1 DEF vars, VD!vars
  <2>2. CASE \E f \in Files : Open(f)
    BY <2>2, OpenRefines DEF VD!Next, Unopened
  <2>3. CASE \E len \in ReadLens : Read(len)
    BY <2>3, ReadRefines DEF VD!Next
  <2>4. CASE \/ \E n \in SeekStarts : SeekStart(n)
             \/ \E d \in SeekDeltas : SeekEnd(d) \/ SeekCurrent(d)
    BY <2>4, SeekRefines DEF VD!Next
  <2>. QED  BY <2>1, <2>2, <2>3, <2>4 DEF Next
<1>. QED
  BY <1>1, <1>2, <1>3, InitRefines, TypeCorrect, PTL
     DEF Spec, VD!Spec, ImplementsVirtualDisk

-----------------------------------------------------------------------------
(* Under the fuzz target: the count of the loop and the cursor of the      *)
(* reader move together, so that the cursor never leaves the first FuzzCap *)
(* bytes by more than a buffer.                                            *)

(* What the target sets out to read. *)
Goal == Lesser(DiskSize(file), FuzzCap)

DriverType ==
  /\ phase \in {"free", "open", "seek", "read", "done"}
  /\ remaining \in Nat

(* Where the target stands: before its loop the whole of the goal is left, *)
(* in it the rest after the cursor.                                        *)
OnItsWay ==
  /\ phase = "open" => file = NoFile
  /\ phase = "seek" => file # NoFile /\ remaining = Goal /\ remaining > 0
  /\ phase = "read" =>
       file # NoFile /\ remaining > 0 /\ position + remaining = Goal

FuzzInv == TypeOK /\ DriverType /\ OnItsWay /\ FuzzingNeverPanics

(* The goal fits below the cap, and the cap leaves room for one buffer. *)
LEMMA GoalFacts ==
  ASSUME NEW f \in Files
  PROVE  /\ Lesser(DiskSize(f), FuzzCap) \in Nat
         /\ Lesser(DiskSize(f), FuzzCap) <= FuzzCap
         /\ Lesser(DiskSize(f), FuzzCap) <= DiskSize(f)
         /\ DiskSize(f) \in Nat
         /\ FuzzBufLen \in 1..MaxSize /\ FuzzBufLen \in Nat /\ FuzzBufLen > 0
         /\ FuzzCap \in Nat /\ FuzzCap + FuzzBufLen <= MaxWord
  BY DiskSizeType, FuzzAssumption, WordAssumption DEF Lesser, Word

LEMMA FuzzInitHolds == FuzzInit => FuzzInv /\ FuzzedDiskIsReadWhole
<1>. SUFFICES ASSUME FuzzInit PROVE FuzzInv /\ FuzzedDiskIsReadWhole
  OBVIOUS
<1>1. TypeOK
  BY InitType DEF FuzzInit
<1>. QED
  BY <1>1 DEF FuzzInit, Init, DriverInit, FuzzInv, DriverType, OnItsWay,
              FuzzingNeverPanics, FuzzedDiskIsReadWhole, Reply

(* Another caller's steps are no concern of the target's. *)
LEMMA FreeStep ==
  ASSUME FuzzInv, FreeCaller
  PROVE  FuzzInv' /\ FuzzedDiskIsReadWhole'
<1>1. TypeOK' /\ phase' = "free" /\ remaining' = remaining
  BY NextType DEF FreeCaller, FuzzInv, driver
<1>. QED
  BY <1>1 DEF FuzzInv, DriverType, OnItsWay, FuzzingNeverPanics, FuzzedDiskIsReadWhole

LEMMA OpenStep ==
  ASSUME FuzzInv, FuzzOpens
  PROVE  FuzzInv' /\ FuzzedDiskIsReadWhole'
<1>1. PICK f \in Files : Open(f) /\ AfterOpen(reply'.status = "ok", DiskSize(f))
  BY DEF FuzzOpens
<1>2. TypeOK'
  BY <1>1, OpenType DEF FuzzInv
<1>3. PICK status \in OpenOutcomes(f) :
        /\ reply' = Reply("open", status, 0, 0)
        /\ file' = IF status = "ok" THEN f ELSE NoFile
        /\ position' = 0
  BY <1>1 DEF Open
<1>4. reply'.status = status /\ status # "panic"
  BY <1>3 DEF Reply, OpenOutcomes
<1>5. CASE status = "ok"
  <2>1. file' = f /\ file' # NoFile
    BY <1>3, <1>5, ReaderAssumption
  <2>2. /\ remaining' = Lesser(DiskSize(f), FuzzCap)
        /\ phase' = IF remaining' > 0 THEN "seek" ELSE "done"
    BY <1>1, <1>4, <1>5 DEF AfterOpen
  <2>3. Goal' = remaining' /\ remaining' \in Nat
    BY <2>1, <2>2, GoalFacts DEF Goal
  <2>. QED
    BY <1>2, <1>3, <1>4, <2>1, <2>2, <2>3
       DEF FuzzInv, DriverType, OnItsWay, FuzzingNeverPanics, FuzzedDiskIsReadWhole, Goal
<1>6. CASE status # "ok"
  <2>1. remaining' = 0 /\ phase' = "done" /\ file' = NoFile
    BY <1>1, <1>3, <1>4, <1>6 DEF AfterOpen
  <2>. QED
    BY <1>2, <1>4, <2>1
       DEF FuzzInv, DriverType, OnItsWay, FuzzingNeverPanics, FuzzedDiskIsReadWhole
<1>. QED  BY <1>5, <1>6

LEMMA SeekStep ==
  ASSUME FuzzInv, FuzzSeeks
  PROVE  FuzzInv' /\ FuzzedDiskIsReadWhole'
<1>1. /\ phase = "seek" /\ file # NoFile /\ remaining = Goal /\ remaining > 0
      /\ remaining \in Nat
  BY DEF FuzzSeeks, FuzzInv, OnItsWay, DriverType
<1>2. SeekTo([status |-> "ok", pos |-> 0]) /\ file' = file
  BY DEF FuzzSeeks, SeekStart, SeekTo
<1>3. TypeOK'
  <2>1. 0 \in Word
    BY WordAssumption DEF Word
  <2>. QED  BY <1>1, <1>2, <2>1, SeekType DEF FuzzInv
<1>4. reply'.status = "ok" /\ position' = 0
  BY <1>2 DEF SeekTo, Reply
<1>5. phase' = "read" /\ remaining' = remaining
  BY <1>4 DEF FuzzSeeks, AfterSeek
<1>6. Goal' = Goal
  BY <1>2 DEF Goal
<1>. QED
  BY <1>1, <1>2, <1>3, <1>4, <1>5, <1>6
     DEF FuzzInv, DriverType, OnItsWay, FuzzingNeverPanics, FuzzedDiskIsReadWhole

(* A turn of the loop, on any target: a read below the goal neither panics *)
(* nor moves the cursor by anything but what it returns.                   *)
LEMMA ReadStep ==
  ASSUME FuzzInv, FuzzReads
  PROVE  FuzzInv'
<1>1. /\ phase = "read" /\ file # NoFile /\ remaining > 0 /\ remaining \in Nat
      /\ position + remaining = Goal /\ file \in Files /\ position \in Nat
  BY WordAssumption DEF FuzzReads, FuzzInv, OnItsWay, DriverType, TypeOK, Word
<1>2. /\ Goal \in Nat /\ Goal <= FuzzCap /\ FuzzCap \in Nat
      /\ FuzzBufLen \in 1..MaxSize /\ FuzzBufLen \in Nat
      /\ FuzzCap + FuzzBufLen <= MaxWord /\ MaxWord \in Nat
  BY <1>1, GoalFacts, WordAssumption DEF Goal
<1>3. FuzzBufLen \in 0..MaxSize
  BY <1>2
<1>4. TypeOK' /\ file' = file
  BY <1>3, ReadIsGood DEF FuzzReads, FuzzInv
<1>5. PICK o : /\ GoodOutcome(file, position, FuzzBufLen, o)
               /\ position' = o.pos
               /\ reply' = Reply("read", o.status, FuzzBufLen, o.n)
  BY <1>3, ReadIsGood DEF FuzzReads, FuzzInv
<1>6. Fits(position + FuzzBufLen)
  BY <1>1, <1>2 DEF Fits
<1>7. /\ o.status # "panic" /\ o.pos = position + o.n /\ o.n \in Nat
      /\ reply'.status = o.status /\ reply'.n = o.n
  BY <1>2, <1>5, <1>6 DEF GoodOutcome, Reply
<1>8. AfterRead(o.status = "ok", o.n)
  BY <1>7 DEF FuzzReads
<1>9. remaining' \in Nat
  BY <1>1, <1>7, <1>8 DEF AfterRead, SatSub
<1>10. phase' \in {"read", "done"}
  BY <1>8 DEF AfterRead
<1>11. phase' = "read" => remaining' > 0 /\ position' + remaining' = Goal'
  <2>. SUFFICES ASSUME phase' = "read"
                PROVE  remaining' > 0 /\ position' + remaining' = Goal'
    OBVIOUS
  <2>1. o.status = "ok" /\ remaining' > 0 /\ remaining' = SatSub(remaining, o.n)
    BY <1>8 DEF AfterRead
  <2>2. remaining' = remaining - o.n
    BY <1>1, <1>7, <2>1 DEF SatSub
  <2>3. Goal' = Goal
    BY <1>4 DEF Goal
  <2>. QED  BY <1>1, <1>5, <1>7, <2>1, <2>2, <2>3
<1>. QED
  BY <1>1, <1>4, <1>7, <1>9, <1>10, <1>11
     DEF FuzzInv, DriverType, OnItsWay, FuzzingNeverPanics

LEMMA FuzzStepHolds == FuzzInv /\ [FuzzNext]_fuzzVars => FuzzInv'
<1>. SUFFICES ASSUME FuzzInv, [FuzzNext]_fuzzVars PROVE FuzzInv'
  OBVIOUS
<1>1. CASE UNCHANGED fuzzVars
  BY <1>1 DEF fuzzVars, vars, driver, FuzzInv, TypeOK, DriverType, OnItsWay,
              FuzzingNeverPanics, Goal
<1>. QED
  BY <1>1, FreeStep, OpenStep, SeekStep, ReadStep DEF FuzzNext, FuzzTarget

(* The cursor overflow of read is out of the reach of fuzz_open, on every  *)
(* image and every target (fuzz_open.rs, the cap of the loop).             *)
THEOREM FuzzingNeverPanicsHolds == FuzzSpec => []FuzzingNeverPanics
<1>1. FuzzInv => FuzzingNeverPanics
  BY DEF FuzzInv
<1>. QED  BY <1>1, FuzzInitHolds, FuzzStepHolds, PTL DEF FuzzSpec

-----------------------------------------------------------------------------
(* Where usize is as wide as u64 a turn that succeeds reads something, so  *)
(* that the loop is left with a success only at its goal.                  *)
LEMMA ReadStepReadsOn ==
  ASSUME MaxSize = MaxWord, FuzzInv, FuzzReads
  PROVE  FuzzedDiskIsReadWhole'
<1>1. /\ phase = "read" /\ file # NoFile /\ remaining > 0 /\ remaining \in Nat
      /\ position + remaining = Goal /\ file \in Files /\ position \in Nat
  BY WordAssumption DEF FuzzReads, FuzzInv, OnItsWay, DriverType, TypeOK, Word
<1>2. /\ Goal \in Nat /\ Goal <= FuzzCap /\ Goal <= DiskSize(file)
      /\ DiskSize(file) \in Nat /\ FuzzCap \in Nat
      /\ FuzzBufLen \in 0..MaxSize /\ FuzzBufLen \in Nat /\ FuzzBufLen > 0
      /\ FuzzCap + FuzzBufLen <= MaxWord /\ MaxWord \in Nat
  BY <1>1, GoalFacts, WordAssumption DEF Goal
<1>3. file' = file
  BY DEF FuzzReads, Read
<1>4. PICK o : /\ GoodOutcome(file, position, FuzzBufLen, o)
               /\ GoodBytes(file, position, FuzzBufLen, o)
               /\ position' = o.pos
               /\ reply' = Reply("read", o.status, FuzzBufLen, o.n)
  BY <1>2, ReadIsGood DEF FuzzReads, FuzzInv
<1>5. Fits(position + FuzzBufLen)
  BY <1>1, <1>2 DEF Fits
<1>6. /\ o.pos = position + o.n /\ o.n \in Nat
      /\ reply'.status = o.status /\ reply'.n = o.n
  BY <1>2, <1>4, <1>5 DEF GoodOutcome, Reply
<1>7. AfterRead(o.status = "ok", o.n)
  BY <1>6 DEF FuzzReads
<1>. SUFFICES ASSUME phase' = "done", o.status = "ok"
              PROVE  position' >= Goal
  BY <1>3, <1>6 DEF FuzzedDiskIsReadWhole, Goal
<1>8. o.n >= 1
  <2>1. position < DiskSize(file)
    BY <1>1, <1>2
  <2>. QED  BY <1>2, <1>4, <2>1 DEF GoodBytes
<1>9. SatSub(remaining, o.n) = 0
  <2>1. ~(o.n > 0 /\ SatSub(remaining, o.n) > 0)
    BY <1>7 DEF AfterRead
  <2>2. SatSub(remaining, o.n) \in Nat
    BY <1>1, <1>6 DEF SatSub
  <2>. QED  BY <1>6, <1>8, <2>1, <2>2
<1>10. o.n >= remaining
  BY <1>1, <1>6, <1>9 DEF SatSub
<1>. QED  BY <1>1, <1>2, <1>4, <1>6, <1>10

(* On a 64-bit target fuzz_open leaves out nothing of a disk that opens    *)
(* and whose reads succeed, up to its cap, whatever the image says.        *)
THEOREM FuzzedDiskIsReadWholeHolds ==
  ASSUME MaxSize = MaxWord
  PROVE  FuzzSpec => []FuzzedDiskIsReadWhole
<1>1. FuzzInv /\ FuzzedDiskIsReadWhole /\ [FuzzNext]_fuzzVars => FuzzedDiskIsReadWhole'
  <2>. SUFFICES ASSUME FuzzInv, FuzzedDiskIsReadWhole, [FuzzNext]_fuzzVars
                PROVE  FuzzedDiskIsReadWhole'
    OBVIOUS
  <2>1. CASE UNCHANGED fuzzVars
    BY <2>1 DEF fuzzVars, vars, driver, FuzzedDiskIsReadWhole
  <2>. QED
    BY <2>1, FreeStep, OpenStep, SeekStep, ReadStepReadsOn DEF FuzzNext, FuzzTarget
<1>. QED  BY <1>1, FuzzInitHolds, FuzzStepHolds, PTL DEF FuzzSpec
=============================================================================
