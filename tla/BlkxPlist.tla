------------------------------ MODULE BlkxPlist ------------------------------
(***************************************************************************)
(* parse_plist and parse_mish (core/src/lib.rs): the one pass over the XML *)
(* events of a DMG's property list, with the two flags and the key it      *)
(* keeps, and the run list of each block it meets.                         *)
(*                                                                         *)
(* A document is the tree a plist describes: the sections of its           *)
(* resource-fork dictionary, each an array of entries, each entry a        *)
(* sequence of keyed fields.  Texts are strings; Mish gives the block that *)
(* a text is the base64 of.  The parser sees the events only.              *)
(***************************************************************************)
EXTENDS Integers, PlistEvents, SequencesExt

CONSTANTS
  Documents,   \* the plists considered
  Mish,        \* the texts that are base64, with what they encode
  ZeroRun,     \* what be_u32 and be_u64 give beyond the end of a block
  MaxSize      \* usize::MAX

RunsStart == 204
RunSize == 40

(* A mish block: its length in bytes, its count of descriptors, and the    *)
(* runs that its length leaves room for.                                   *)
Block ==
  [length : 0..MaxSize, magic : BOOLEAN, sectorBase : Nat, dataOffset : Nat,
   claimed : Nat, runs : Seq([kind : STRING, id : Nat])]

ASSUME PlistAssumption ==
  /\ MaxSize \in Nat
  /\ \A t \in DOMAIN Mish :
       /\ Mish[t] \in Block
       /\ Len(Mish[t].runs) =
            IF Mish[t].length < RunsStart THEN 0
            ELSE (Mish[t].length - RunsStart) \div RunSize
  /\ "blkx" \notin DOMAIN Mish

-----------------------------------------------------------------------------
(* The events of a document.  A field with the tag "other" is one that is  *)
(* reported as no element with a text, such as <true/>.                    *)

Field == [key : STRING, tag : STRING, text : STRING]
Section == [key : STRING, entries : Seq(Seq(Field))]

ASSUME DocumentsAssumption == Documents \subseteq Seq(Section)

FieldEvents(f) ==
  IF f.tag = "array"
  THEN Element("key", f.key) \o <<Start("array")>> \o Element("string", f.text)
       \o <<End("array")>>
  ELSE Keyed(f.key, f.tag, f.text)

Wrap(tag, parts) == <<Start(tag)>> \o FlattenSeq(parts) \o <<End(tag)>>

EntryEvents(entry) ==
  Wrap("dict", [k \in DOMAIN entry |-> FieldEvents(entry[k])])

SectionEvents(s) ==
  Element("key", s.key) \o Wrap("array", [k \in DOMAIN s.entries |-> EntryEvents(s.entries[k])])

Events(doc) ==
  <<Other, Start("plist"), Start("dict")>> \o Element("key", "resource-fork")
  \o Wrap("dict", [k \in DOMAIN doc |-> SectionEvents(doc[k])])
  \o <<End("dict"), End("plist")>>

-----------------------------------------------------------------------------
VARIABLES
  doc,          \* the document
  events,       \* the events still to be read
  inBlkx, inData, lastKey,
  partitions,
  status,       \* "reading", "ok", "bad_plist" or "bad_mish"
  whole         \* the whole document has been well-formed so far

flags == <<inBlkx, inData, lastKey>>
vars == <<doc, events, flags, partitions, status, whole>>

Event == Head(events)
More == status = "reading" /\ events # <<>>
Sees(type, of) == More /\ Event.type = type /\ Event.of = of

Init ==
  /\ doc \in Documents
  /\ events = Events(doc)
  /\ inBlkx = FALSE /\ inData = FALSE /\ lastKey = ""
  /\ partitions = <<>>
  /\ status = "reading"
  /\ whole = TRUE

Advance == events' = Tail(events) /\ UNCHANGED <<doc, status, whole>>

EnterBlkx ==
  /\ Sees("start", "array") /\ lastKey = "blkx"
  /\ inBlkx' = TRUE
  /\ Advance /\ UNCHANGED <<inData, lastKey, partitions>>

EnterData ==
  /\ Sees("start", "data") /\ inBlkx
  /\ inData' = TRUE
  /\ Advance /\ UNCHANGED <<inBlkx, lastKey, partitions>>

IsText(here) == More /\ Event.type = "text" /\ (Event.of = "blkx" <=> here)

(* "blkx" is a key wherever it stands, and outside the array every text    *)
(* is, values included.                                                    *)
RememberKey ==
  /\ IsText(TRUE) \/ (IsText(FALSE) /\ ~inBlkx)
  /\ lastKey' = Event.of
  /\ Advance /\ UNCHANGED <<inBlkx, inData, partitions>>

(* Fault: the multiplication wraps, as on a 32-bit target. *)
RunsEndWraps(b) == (b.claimed * RunSize + RunsStart) % (MaxSize + 1)

(* Where the runs that b claims end, in bytes; beyond MaxSize the checked  *)
(* arithmetic fails, and no block is that long.                            *)
RunsEnd(b) == b.claimed * RunSize + RunsStart

Readable(b) ==
  b.length >= RunsStart /\ b.magic /\ b.length >= RunsEnd(b)

ReadRun(b, k) == IF k <= Len(b.runs) THEN b.runs[k] ELSE ZeroRun

Terminates(b, k) == ReadRun(b, k).kind = "term"

(* The loop over the descriptors ends with the first terminator. *)
RunCount(b) ==
  IF \E k \in 1..b.claimed : Terminates(b, k)
  THEN Min({k \in 1..b.claimed : Terminates(b, k)})
  ELSE b.claimed

ParseMish(b) ==
  [sectorBase |-> b.sectorBase, dataOffset |-> b.dataOffset,
   runs |-> [k \in 1..RunCount(b) |-> ReadRun(b, k)]]

AtBlock == IsText(FALSE) /\ inBlkx /\ inData

(* Fault: the next text, a key or a name, is taken for data as well. *)
TakeBlockKeepingFlag ==
  /\ AtBlock /\ Event.of \in DOMAIN Mish /\ Readable(Mish[Event.of])
  /\ partitions' = Append(partitions, ParseMish(Mish[Event.of]))
  /\ Advance /\ UNCHANGED flags

TakeBlock ==
  /\ AtBlock /\ Event.of \in DOMAIN Mish /\ Readable(Mish[Event.of])
  /\ partitions' = Append(partitions, ParseMish(Mish[Event.of]))
  /\ inData' = FALSE
  /\ Advance /\ UNCHANGED <<inBlkx, lastKey>>

RefuseBlock ==
  /\ AtBlock
  /\ \/ Event.of \notin DOMAIN Mish /\ status' = "bad_plist"
     \/ /\ Event.of \in DOMAIN Mish /\ ~Readable(Mish[Event.of])
        /\ status' = "bad_mish"
  /\ UNCHANGED <<doc, events, flags, partitions, whole>>

(* Fault: the array is not left. *)
StayInBlkx ==
  /\ Sees("end", "array")
  /\ Advance /\ UNCHANGED <<flags, partitions>>

(* The end of any array, also of one inside the blkx array. *)
LeaveBlkx ==
  /\ Sees("end", "array")
  /\ inBlkx' = FALSE
  /\ Advance /\ UNCHANGED <<inData, lastKey, partitions>>

Ignore ==
  /\ More
  /\ CASE Event.type = "start" ->
            ~(Event.of = "array" /\ lastKey = "blkx") /\ ~(Event.of = "data" /\ inBlkx)
       [] Event.type = "text" -> Event.of # "blkx" /\ inBlkx /\ ~inData
       [] Event.type = "end" -> Event.of # "array"
       [] OTHER -> TRUE
  /\ Advance /\ UNCHANGED <<flags, partitions>>

Eof ==
  /\ status = "reading" /\ events = <<>>
  /\ status' = "ok"
  /\ UNCHANGED <<doc, events, flags, partitions, whole>>

(* The region that koly names ends before the document does: between two   *)
(* events the reader reports the end, within a tag an error, as of markup  *)
(* that is not well-formed.  A text cut short is another text.             *)
Damaged ==
  /\ More
  /\ whole' = FALSE
  /\ status' \in {"ok", "bad_plist"}
  /\ UNCHANGED <<doc, events, flags, partitions>>

Next ==
  \/ EnterBlkx \/ EnterData \/ RememberKey \/ TakeBlock \/ RefuseBlock
  \/ LeaveBlkx \/ Ignore \/ Eof \/ Damaged

Spec == Init /\ [][Next]_vars

-----------------------------------------------------------------------------
(* What a plist holds: the data of its blkx entries, in order. *)

FieldData(f) == IF f.tag = "data" /\ f.text # "" THEN <<f.text>> ELSE <<>>

EntryData(entry) == FlattenSeq([k \in DOMAIN entry |-> FieldData(entry[k])])

SectionData(s) ==
  IF s.key = "blkx" THEN FlattenSeq([k \in DOMAIN s.entries |-> EntryData(s.entries[k])])
  ELSE <<>>

BlkxData(d) == FlattenSeq([k \in DOMAIN d |-> SectionData(d[k])])

(* A block that holds all the runs it claims. *)
Sound(text) ==
  /\ text \in DOMAIN Mish
  /\ Mish[text].length >= RunsStart /\ Mish[text].magic
  /\ Mish[text].claimed <= Len(Mish[text].runs)

(* The sections have different names, as the entries of a dictionary do.   *)
(* The keys of an entry are names, none of which is "blkx" or is itself    *)
(* the base64 of a block: the parser would take them for what they are not *)
(* and could return to the array, or take a block, out of turn.            *)
Named(d) ==
  \A k \in DOMAIN d :
    /\ d[k].key # ""
    /\ \A j \in DOMAIN d : d[j].key = d[k].key => j = k
    /\ \A j \in DOMAIN d[k].entries : \A l \in DOMAIN d[k].entries[j] :
         LET key == d[k].entries[j][l].key IN key \notin {"", "blkx"} /\ ~Sound(key)

(* p lists the runs of b, in order, to the first terminator or the last.   *)
Lists(p, b) ==
  /\ p.sectorBase = b.sectorBase /\ p.dataOffset = b.dataOffset
  /\ Len(p.runs) <= b.claimed
  /\ IsPrefix(p.runs, b.runs)
  /\ \A k \in 1..Len(p.runs) - 1 : p.runs[k].kind # "term"
  /\ \/ Len(p.runs) = b.claimed
     \/ p.runs # <<>> /\ Last(p.runs).kind = "term"

(* Documents as hdiutil writes them: every data element holds something    *)
(* that is not the name of the section, and no array lies inside an entry. *)
Plain(d) ==
  \A k \in DOMAIN d : \A j \in DOMAIN d[k].entries : \A l \in DOMAIN d[k].entries[j] :
    LET f == d[k].entries[j][l]
    IN  f.tag # "array" /\ ~(f.tag = "data" /\ f.text \in {"", "blkx"})

-----------------------------------------------------------------------------
(* No partition has a run made of bytes beyond the end of its block, which *)
(* would read as zeros: parse_mish bounds the claimed count first.         *)
TypeOK ==
  /\ events \in Seq(EventRecord)
  /\ {inBlkx, inData, whole} \subseteq BOOLEAN
  /\ lastKey \in STRING
  /\ \A k \in DOMAIN partitions :
       /\ partitions[k].runs \in Seq(UNION {ToSet(Mish[t].runs) : t \in DOMAIN Mish})
       /\ partitions[k].sectorBase \in Nat /\ partitions[k].dataOffset \in Nat
  /\ status \in {"reading", "ok", "bad_plist", "bad_mish"}

(* Whatever the document, cut off or refused where it may be: the n-th     *)
(* partition is the n-th block of the blkx array, none is skipped, taken   *)
(* twice or taken from another section, and none has runs that its block   *)
(* does not.                                                               *)
PartitionsAreBlkxBlocks ==
  Named(doc) =>
    LET data == BlkxData(doc)
    IN  /\ Len(partitions) <= Len(data)
        /\ \A k \in DOMAIN partitions :
             Sound(data[k]) /\ Lists(partitions[k], Mish[data[k]])

(* "Parse the XML plist and extract all mish (blkx) partitions": of a      *)
(* plain document every block is extracted, unless one cannot be, which    *)
(* fails with the first such and says whether its text or the block is to  *)
(* blame.                                                                  *)
ExtractsAllPartitions ==
  status # "reading" /\ whole /\ Named(doc) /\ Plain(doc) =>
    LET data == BlkxData(doc)
        bad == {k \in DOMAIN data : ~Sound(data[k])}
    IN  IF bad = {} THEN status = "ok" /\ Len(partitions) = Len(data)
        ELSE /\ Len(partitions) = Min(bad) - 1
             /\ status = IF data[Min(bad)] \in DOMAIN Mish THEN "bad_mish" ELSE "bad_plist"
=============================================================================
