---------------------------- MODULE VirtualDisk ----------------------------
(***************************************************************************)
(* The promise of every reader of this repository: a fixed-size virtual    *)
(* disk behind Read + Seek.  A read returns a non-empty prefix of the      *)
(* bytes at the cursor and moves the cursor by what it returned, returns   *)
(* nothing only for an empty buffer or at the end of the disk, or fails    *)
(* for an I/O error of the container and moves nothing.  The cursor may    *)
(* be placed anywhere in u64; an offset past either end saturates.         *)
(*                                                                         *)
(* A disk gives for each byte the set of values a read may find there: one *)
(* value, unless the container is being changed while it is read.          *)
(***************************************************************************)
EXTENDS MachineInts, DiskBytes

CONSTANTS
  Disks,        \* the disks that may be opened: [size, bytes], where bytes
                \* gives for 0..size-1 the cells a read may find
  NoDisk,       \* no disk is open
  ReadLens,     \* lengths of the buffers passed to read
  SeekStarts,   \* offsets passed to SeekFrom::Start
  SeekDeltas    \* offsets passed to SeekFrom::End and SeekFrom::Current

VARIABLES
  disk,      \* the open disk, or NoDisk
  pos,       \* the cursor
  reply,     \* [op, status, len, n] of the last call
  buffer     \* the buffer of the last call, after it

vars == <<disk, pos, reply, buffer>>

Init ==
  /\ disk = NoDisk
  /\ pos = 0
  /\ reply = [op |-> "none", status |-> "ok", len |-> 0, n |-> 0]
  /\ buffer = UntouchedBuffer(0)

Opens ==
  /\ disk = NoDisk
  /\ disk' \in Disks
  /\ pos' = 0
  /\ reply' = [op |-> "open", status |-> "ok", len |-> 0, n |-> 0]
  /\ buffer' = UntouchedBuffer(0)

FailsToOpen ==
  /\ disk = NoDisk
  /\ reply'.op = "open" /\ reply'.status # "ok"
  /\ UNCHANGED <<disk, pos, buffer>>

ReadsBytes(len) ==
  /\ disk # NoDisk
  /\ pos < disk.size
  /\ \E n \in 1..Lesser(len, disk.size - pos) :
       /\ pos' = pos + n
       /\ reply' = [op |-> "read", status |-> "ok", len |-> len, n |-> n]
       /\ DOMAIN buffer' = 1..len
       /\ \A i \in 1..len :
            buffer'[i] \in IF i <= n THEN disk.bytes[pos + i - 1] ELSE {StaleByte}
  /\ UNCHANGED disk

ReadsNothing(len) ==
  /\ disk # NoDisk
  /\ len = 0 \/ pos >= disk.size
  /\ reply' = [op |-> "read", status |-> "ok", len |-> len, n |-> 0]
  /\ buffer' = UntouchedBuffer(len)
  /\ UNCHANGED <<disk, pos>>

FailsToRead(len) ==
  /\ disk # NoDisk
  /\ reply' = [op |-> "read", status |-> "io", len |-> len, n |-> 0]
  /\ DOMAIN buffer' = 1..len
  /\ UNCHANGED <<disk, pos>>

Offset(base, d) == IF d >= 0 THEN SatAdd(base, d) ELSE SatSub(base, -d)

Seeks ==
  /\ disk # NoDisk
  /\ \/ pos' \in SeekStarts
     \/ \E d \in SeekDeltas : pos' = Offset(disk.size, d) \/ pos' = Offset(pos, d)
  /\ reply' = [op |-> "seek", status |-> "ok", len |-> 0, n |-> 0]
  /\ buffer' = UntouchedBuffer(0)
  /\ UNCHANGED disk

Next ==
  \/ Opens
  \/ FailsToOpen
  \/ \E len \in ReadLens : ReadsBytes(len) \/ ReadsNothing(len) \/ FailsToRead(len)
  \/ Seeks

Spec == Init /\ [][Next]_vars

(* Another program changes the container: its size is known since it was   *)
(* opened, the bytes are those of the moment.                              *)
Changes ==
  /\ disk # NoDisk /\ disk' # NoDisk
  /\ disk'.size = disk.size
  /\ UNCHANGED <<pos, reply, buffer>>

ChangingSpec == Init /\ [][Next \/ Changes]_vars
=============================================================================
