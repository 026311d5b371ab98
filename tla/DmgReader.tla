----------------------------- MODULE DmgReader -----------------------------
(***************************************************************************)
(* One DmgReader<R> and its caller (core/src/lib.rs): open, then any       *)
(* sequence of read and seek calls.  The container may fail any I/O.       *)
(***************************************************************************)
EXTENDS UdifContents

CONSTANTS NoFile, ReadLens, SeekStarts, SeekDeltas

ASSUME ReaderAssumption ==
  /\ NoFile \notin Files
  /\ ReadLens \subseteq 0..MaxSize
  /\ SeekStarts \subseteq Word
  /\ SeekDeltas \subseteq Delta

VARIABLES
  file,       \* the image the reader was opened on, or NoFile
  position,   \* DmgReader::position
  reply,      \* what the last call returned
  buffer      \* the slice passed to the last call, after it

vars == <<file, position, reply, buffer>>

Reply(op, status, len, n) == [op |-> op, status |-> status, len |-> len, n |-> n]

Init ==
  /\ file = NoFile
  /\ position = 0
  /\ reply = Reply("none", "ok", 0, 0)
  /\ buffer = UntouchedBuffer(0)

(* DmgReader::open; a file that is refused gives no reader. *)
Open(f) ==
  /\ file = NoFile
  /\ \E status \in OpenOutcomes(f) :
       /\ reply' = Reply("open", status, 0, 0)
       /\ file' = IF status = "ok" THEN f ELSE NoFile
  /\ position' = 0
  /\ buffer' = UntouchedBuffer(0)

Read(len) ==
  /\ file # NoFile
  /\ \E o \in ReadOutcomes(file, position, len) :
       /\ position' = o.pos
       /\ reply' = Reply("read", o.status, len, o.n)
       /\ buffer' = o.buf
  /\ UNCHANGED file

(* The end of every seek: `new_pos` is stored and returned. *)
SeekTo(o) ==
  /\ position' = o.pos
  /\ reply' = Reply("seek", o.status, 0, 0)
  /\ buffer' = UntouchedBuffer(0)
  /\ UNCHANGED file

SeekStart(n) == file # NoFile /\ SeekTo([status |-> "ok", pos |-> n])

SeekEnd(d) == file # NoFile /\ SeekTo(SeekOutcome(position, DiskSize(file), d))

SeekCurrent(d) == file # NoFile /\ SeekTo(SeekOutcome(position, position, d))

Next ==
  \/ \E f \in Files : Open(f)
  \/ \E len \in ReadLens : Read(len)
  \/ \E n \in SeekStarts : SeekStart(n)
  \/ \E d \in SeekDeltas : SeekEnd(d) \/ SeekCurrent(d)

Spec == Init /\ [][Next]_vars

-----------------------------------------------------------------------------
(* The cursor stays in u64 and every reply describes its buffer: no call   *)
(* claims more bytes than the slice it was given has.                      *)
TypeOK ==
  /\ file \in Files \cup {NoFile}
  /\ position \in Word
  /\ reply \in [op : {"none", "open", "read", "seek"},
                status : OpenStatuses \cup {"err", "panic"},
                len : 0..MaxSize, n : 0..MaxSize]
  /\ reply.n <= reply.len
  /\ buffer \in [1..reply.len -> Cell]

ServedNow == reply'.op = "read" /\ reply'.status = "ok"

(* `Ok(0)` for a non-empty buffer is how Read signals the end of the data: *)
(* read returns it at or past the end of the disk and nowhere else,        *)
(* whatever the image says of its runs.                                    *)
NoSpuriousEof ==
  [][ServedNow /\ reply'.len > 0 /\ reply'.n = 0 => position >= DiskSize(file)]_vars

(* Whatever the image says, a byte that read wrote for byte b of the disk  *)
(* is the byte that a run over b gives for it: the saturated offset        *)
(* arithmetic of read never lands on another byte.                         *)
BytesComeFromCoveringRun ==
  [][ServedNow => \A i \in 1..reply'.n :
       buffer'[i] # StaleByte => buffer'[i] \in CellsAt(file, position + i - 1)]_vars

(* Every byte served from the container lies inside the container. *)
StaysInFile ==
  \A i \in DOMAIN buffer : buffer[i].src = "file" => buffer[i].at < file.size

(* Of an undamaged image only the container's own I/O can fail a call:     *)
(* read neither errors nor panics at any position, with any buffer.        *)
OnlyIoFails == file # NoFile /\ Sound(file) => reply.status \in {"ok", "io"}

VD == INSTANCE VirtualDisk WITH
        disk <- IF file = NoFile THEN NoFile ELSE DiskOf(file), pos <- position,
        NoDisk <- NoFile, Disks <- {DiskOf(f) : f \in Files}

(* On undamaged images the reader is a virtual disk: exact bytes, however  *)
(* the calls are split, and an end at the declared size.                   *)
ImplementsVirtualDisk == VD!Spec

-----------------------------------------------------------------------------
(* What the repository says of the reader, checked against any image. *)

(* "a malformed image fails loud": a call that returns n bytes has written *)
(* n bytes.                                                                *)
ServedBytesAreWritten ==
  [][ServedNow => \A i \in 1..reply'.n : buffer'[i] # StaleByte]_vars

(* "a malformed run must never panic on overflow". *)
ReadNeverPanics == reply.op = "read" => reply.status # "panic"

(* A virtual disk ends at its size: no read goes past it. *)
ReadsEndAtDiskEnd ==
  [][ServedNow /\ position < DiskSize(file)
       => position + reply'.n <= DiskSize(file)]_vars
=============================================================================
