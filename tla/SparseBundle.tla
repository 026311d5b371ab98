---------------------------- MODULE SparseBundle ----------------------------
(***************************************************************************)
(* One SparseBundleReader and its caller (core/src/sparse.rs), on a bundle *)
(* directory that another program may change meanwhile.  A read is not     *)
(* atomic: it opens the band file by name, asks for its length, and copies *)
(* the bytes with read_exact, one system call at a time.  The open file    *)
(* outlives the removal or replacement of its name, and shows what is      *)
(* written to it in place.                                                 *)
(***************************************************************************)
EXTENDS Bands, InfoPlist

CONSTANTS
  Infos,         \* what Info.plist may say
  Names,         \* bands that may have a file
  InitialFiles,  \* what the band files may hold at first
  NoFile,        \* a band without a file; no open bundle
  NewBytes,      \* bytes the other program writes
  MaxEdits,      \* bound: changes it makes
  ReadLens, SeekStarts, SeekDeltas

(* A key has a name: one that is empty would leave the scan at the key     *)
(* before it, whose value would be replaced.                               *)
Pair == [key : STRING \ {""}, tag : STRING, text : STRING]
Info == [found : BOOLEAN, pairs : Seq(Pair), wellFormed : BOOLEAN]

ASSUME BundleAssumption ==
  /\ Infos \subseteq Info
  /\ \A t \in DOMAIN Numbers : Numbers[t] \in Word
  /\ Missing \notin Word
  /\ Names \subseteq Word
  /\ InitialFiles \subseteq [Names -> Seq(Cell) \cup {NoFile}]
  /\ NewBytes \subseteq Cell
  /\ MaxEdits \in Nat
  /\ ReadLens \subseteq 0..MaxSize
  /\ SeekStarts \subseteq Word
  /\ SeekDeltas \subseteq Delta

VARIABLES
  info,       \* the band size and the size the reader was opened with, or NoFile
  files,      \* bands/: the bytes of each band file, or NoFile
  edits,      \* changes made by the other program
  position,
  pc,         \* where the reader is in read: "idle", "open", "length", "copy"
  len,        \* the length of the slice given to read
  unlinked,   \* the band file read has open, once its name is gone, or NoFile
  avail,      \* the bytes read expects the file to have
  copied,     \* the bytes copied so far
  reply,      \* what the last call returned
  buffer,     \* the slice of the last call, after it
  seen        \* what each byte of the disk has been since the call began

call == <<pc, len, unlinked, avail, copied>>
returned == <<reply, buffer>>
vars == <<info, files, edits, position, call, returned, seen>>

Parsed(i) == ParseInfoPlist(InfoEvents(i.pairs, i.wellFormed))

OpenOutcomes(i) ==
  {"io"} \cup
  IF ~i.found THEN {"missing_info_plist"}
  ELSE IF \/ ~Parsed(i).ok \/ Parsed(i).bundleType # BundleType
          \/ Parsed(i).bandSize \in {Missing, 0} \/ Parsed(i).size = Missing
       THEN {"bad_info_plist"}
  ELSE {"ok"}

Reply(op, status, n, length) == [op |-> op, status |-> status, len |-> length, n |-> n]

BandIn(stored, b) == IF b \in Names THEN stored[b] ELSE NoFile

(* The byte that the band files hold for byte b of the disk. *)
ByteIn(stored, bandSize, b) ==
  LET bytes == BandIn(stored, b \div bandSize)
  IN  IF bytes = NoFile THEN ZeroByte
      ELSE IF b % bandSize < Len(bytes) THEN bytes[(b % bandSize) + 1]
      ELSE ZeroByte

MomentOf(i, stored) == [b \in 0..(i.size - 1) |-> {ByteIn(stored, i.bandSize, b)}]

-----------------------------------------------------------------------------
(* Opening, seeking *)

Init ==
  /\ info = NoFile
  /\ files \in InitialFiles
  /\ edits = 0
  /\ position = 0
  /\ pc = "idle" /\ len = 0 /\ unlinked = NoFile /\ avail = 0 /\ copied = <<>>
  /\ reply = Reply("none", "ok", 0, 0)
  /\ buffer = UntouchedBuffer(0)
  /\ seen = <<>>

Open(i) ==
  /\ info = NoFile
  /\ \E status \in OpenOutcomes(i) :
       /\ reply' = Reply("open", status, 0, 0)
       /\ info' = IF status = "ok"
                  THEN [bandSize |-> Parsed(i).bandSize, size |-> Parsed(i).size]
                  ELSE NoFile
       /\ seen' = IF status = "ok" THEN MomentOf(info', files) ELSE seen
  /\ buffer' = UntouchedBuffer(0)
  /\ UNCHANGED <<files, edits, position, call>>

SeekTo(pos) ==
  /\ info # NoFile /\ pc = "idle"
  /\ position' = pos
  /\ reply' = Reply("seek", "ok", 0, 0)
  /\ buffer' = UntouchedBuffer(0)
  /\ UNCHANGED <<info, files, edits, call, seen>>

-----------------------------------------------------------------------------
(* One read *)

band == position \div info.bandSize
off == position % info.bandSize
toRead == Window(position, len, info.bandSize, info.size)

(* What is behind the open handle. *)
opened == IF unlinked = NoFile THEN files[band] ELSE unlinked

(* `self.position += to_read`; what the file did not give is zeros. *)
Finish(bytes) ==
  /\ position' = position + toRead
  /\ reply' = Reply("read", "ok", toRead, len)
  /\ buffer' = Filled(bytes \o Zeros(toRead - Len(bytes)), len)
  /\ pc' = "idle" /\ len' = 0 /\ unlinked' = NoFile /\ avail' = 0 /\ copied' = <<>>
  /\ UNCHANGED <<info, files, edits, seen>>

Read(length) ==
  /\ info # NoFile /\ pc = "idle"
  /\ IF length = 0 \/ position >= info.size
     THEN /\ reply' = Reply("read", "ok", 0, length)
          /\ buffer' = UntouchedBuffer(length)
          /\ UNCHANGED <<call, seen>>
     ELSE /\ pc' = "open" /\ len' = length
          /\ seen' = MomentOf(info, files)
          /\ UNCHANGED <<unlinked, avail, copied, returned>>
  /\ UNCHANGED <<info, files, edits, position>>

(* File::open; a band without a file is a hole. *)
OpenBand ==
  /\ pc = "open"
  /\ \/ /\ BandIn(files, band) = NoFile
        /\ Finish(<<>>)
     \/ /\ BandIn(files, band) # NoFile
        /\ pc' = "length"
        /\ UNCHANGED <<info, files, edits, position, len, unlinked, avail, copied,
                       returned, seen>>

(* f.seek(SeekFrom::End(0)) *)
ProbeLength ==
  /\ pc = "length"
  /\ IF off >= Len(opened)
     THEN Finish(<<>>)
     ELSE /\ avail' = Lesser(Len(opened) - off, toRead)
          /\ pc' = "copy"
          /\ UNCHANGED <<info, files, edits, position, len, unlinked, copied,
                         returned, seen>>

(* Fault: each system call reads from the start of the window. *)
CopySlip ==
  /\ pc = "copy"
  /\ \E more \in 1..(avail - Len(copied)) :
       LET bytes == copied \o SubSeq(opened, off + 1, off + more)
       IN  /\ off + more <= Len(opened)
           /\ IF Len(bytes) = avail
              THEN Finish(bytes)
              ELSE /\ copied' = bytes
                   /\ UNCHANGED <<info, files, edits, position, pc, len, unlinked,
                                  avail, returned, seen>>

(* One system call of read_exact: it returns some of the bytes asked for. *)
Copy ==
  /\ pc = "copy"
  /\ \E more \in 1..(avail - Len(copied)) :
       LET from == off + Len(copied)
           bytes == copied \o SubSeq(opened, from + 1, from + more)
       IN  /\ from + more <= Len(opened)
           /\ IF Len(bytes) = avail
              THEN Finish(bytes)
              ELSE /\ copied' = bytes
                   /\ UNCHANGED <<info, files, edits, position, pc, len, unlinked,
                                  avail, returned, seen>>

(* read_exact meets the end of a file that was longer when it was probed,  *)
(* or any system call fails: the error goes to the caller.                 *)
Fail ==
  /\ pc # "idle"
  /\ reply' = Reply("read", "io", 0, len)
  /\ buffer' = Filled(copied, len)
  /\ pc' = "idle" /\ len' = 0 /\ unlinked' = NoFile /\ avail' = 0 /\ copied' = <<>>
  /\ UNCHANGED <<info, files, edits, position, seen>>

-----------------------------------------------------------------------------
(* The other program (outside the repository) *)

Edit(b, bytes) ==
  /\ info # NoFile /\ edits < MaxEdits
  /\ edits' = edits + 1
  /\ files' = [files EXCEPT ![b] = bytes]
  /\ seen' = [d \in DOMAIN seen |-> seen[d] \cup MomentOf(info, files')[d]]
  /\ UNCHANGED <<info, position, pc, len, avail, copied, returned>>

(* In place: a handle that is open on the file sees it. *)
Overwrite(b) ==
  /\ files[b] # NoFile
  /\ \E at \in 1..(Len(files[b]) + 1), v \in NewBytes :
       Edit(b, [i \in 1..Max({at, Len(files[b])}) |-> IF i = at THEN v ELSE files[b][i]])
  /\ UNCHANGED unlinked

Truncate(b) ==
  /\ files[b] # NoFile
  /\ \E n \in 0..(Len(files[b]) - 1) : Edit(b, SubSeq(files[b], 1, n))
  /\ UNCHANGED unlinked

(* The name goes, or is given to another file: an open handle keeps the    *)
(* old one.                                                                *)
Unlink(b) ==
  /\ \/ files[b] # NoFile /\ Edit(b, NoFile)
     \/ \E v \in NewBytes : Edit(b, <<v>>)
  /\ unlinked' = IF pc \in {"length", "copy"} /\ b = band /\ unlinked = NoFile
                 THEN files[b] ELSE unlinked

Next ==
  \/ \E i \in Infos : Open(i)
  \/ \E n \in SeekStarts : SeekTo(n)
  \/ \E d \in SeekDeltas :
       SeekTo(SeekWithin(info.size, d)) \/ SeekTo(SeekWithin(position, d))
  \/ \E length \in ReadLens : Read(length)
  \/ OpenBand \/ ProbeLength \/ Copy \/ Fail
  \/ \E b \in Names : Overwrite(b) \/ Truncate(b) \/ Unlink(b)

Spec == Init /\ [][Next]_vars

-----------------------------------------------------------------------------
TypeOK ==
  /\ info = NoFile \/ info \in [bandSize : 1..MaxWord, size : Word]
  /\ DOMAIN files = Names
  /\ \A b \in Names : files[b] = NoFile \/ files[b] \in Seq(Cell)
  /\ edits \in 0..MaxEdits
  /\ position \in Word
  /\ pc \in {"idle", "open", "length", "copy"}
  /\ len \in 0..MaxSize
  /\ unlinked = NoFile \/ unlinked \in Seq(Cell)
  /\ avail \in 0..MaxSize
  /\ copied \in Seq(Cell) /\ Len(copied) <= avail
  /\ reply \in [op : {"none", "open", "read", "seek"},
                status : {"ok", "io", "missing_info_plist", "bad_info_plist"},
                len : 0..MaxSize, n : 0..MaxSize]
  /\ reply.n <= reply.len
  /\ buffer \in [1..reply.len -> Cell]

(* The Info.plists that describe a disk, and the disk they describe:       *)
(* the last integer of each size.  Where a size has a value of another     *)
(* type as well, the code passes over that value (sparse.rs:345) although  *)
(* its comment (302-303) calls it a loud error; the comment is not what is *)
(* stated here, and the instances have no such Info.plist among the good.  *)
Describes(i, disk) ==
  /\ i.found /\ i.wellFormed
  /\ \A key \in {"band-size", "size"} : \A k \in Given(i.pairs, key, "integer") :
       i.pairs[k].text \in DOMAIN Numbers
  /\ Said(i.pairs, "diskimage-bundle-type", "string") = BundleType
  /\ disk.bandSize = NumberSaid(i.pairs, "band-size")
  /\ disk.size = NumberSaid(i.pairs, "size")

Described ==
  {disk \in [bandSize : 1..MaxWord, size : Word] : \E i \in Infos : Describes(i, disk)}

VD == INSTANCE VirtualDisk WITH
        disk <- IF info = NoFile THEN NoFile
                ELSE [size |-> info.size, bytes |-> seen],
        pos <- position, NoDisk <- NoFile,
        Disks <- {[size |-> d.size, bytes |-> MomentOf(d, stored)] :
                    d \in Described, stored \in InitialFiles}

(* The open, the probe and the system calls of a read are invisible: the   *)
(* reader is a virtual disk.  A read beside a changing bundle may mix      *)
(* moments but invents nothing: each byte it returns was in the bundle, at *)
(* that place of the disk, at some moment since the read began.  If        *)
(* nothing changed meanwhile, it is the byte.                              *)
ImplementsVirtualDisk == VD!ChangingSpec
=============================================================================
