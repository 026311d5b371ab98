---------------------------- MODULE MCBlkxPlist ----------------------------
(***************************************************************************)
(* Plists of a blkx section of two entries before or after a section that  *)
(* holds data too (plst), with every kind of block, the data before or     *)
(* after the other fields of its entry, an empty data element, a field     *)
(* that is an array, a name that is "blkx", and one that is itself the     *)
(* base64 of a few bytes.  A usize of ten bits makes 21 runs overflow it.  *)
(* Some documents have keys that are no names: none, "blkx", a block, and  *)
(* two sections of one name.                                               *)
(***************************************************************************)
EXTENDS BlkxPlist

Run(kind, id) == [kind |-> kind, id |-> id]
Encoded(runs, claimed) ==
  [length |-> RunsStart + RunSize * Len(runs), magic |-> TRUE, sectorBase |-> Len(runs),
   dataOffset |-> claimed, claimed |-> claimed, runs |-> runs]

TwoRuns == <<Run("zlib", 1), Run("term", 2)>>

MCMish ==
  [text \in {"full", "early", "extra", "padded", "none", "short", "overflow",
             "foreign", "tiny", "other", "Name", "Data"} |->
     CASE text = "full" -> Encoded(TwoRuns, 2)
       [] text = "early" -> Encoded(<<Run("raw", 3)>> \o TwoRuns \o <<Run("raw", 4)>>, 4)
       [] text = "extra" -> Encoded(<<Run("raw", 5), Run("raw", 6)>>, 1)
       [] text = "padded" -> [Encoded(TwoRuns, 3) EXCEPT !.length = @ + RunSize - 1]
       [] text = "none" -> Encoded(<<>>, 0)
       [] text = "short" -> Encoded(TwoRuns, 3)
       [] text = "overflow" -> Encoded(<<Run("raw", 7)>>, 21)
       [] text = "foreign" -> [Encoded(TwoRuns, 2) EXCEPT !.magic = FALSE]
       [] text = "tiny" -> [Encoded(<<>>, 0) EXCEPT !.length = RunsStart - 1]
       [] text = "other" -> Encoded(<<Run("zero", 8)>>, 1)
       \* four letters are the base64 of three bytes
       [] OTHER -> [Encoded(<<>>, 0) EXCEPT !.length = 3]]

FieldOf(key, tag, text) == [key |-> key, tag |-> tag, text |-> text]
Entry(before, text, after) == before \o <<FieldOf("Data", "data", text)>> \o after
SectionOf(key, entries) == [key |-> key, entries |-> entries]

(* What stands beside the data of an entry. *)
Beside ==
  { <<>>, <<FieldOf("Name", "string", "blkx")>>, <<FieldOf("ID", "string", "0")>>,
    <<FieldOf("Name", "string", "")>>, <<FieldOf("Hot", "other", "")>>,
    <<FieldOf("List", "array", "item")>> }

Blocks == (DOMAIN MCMish \ {"other", "Name", "Data"}) \cup {"", "%"}

FirstEntries ==
  {Entry(before, text, after) : before \in Beside, text \in {"full", "", "short"},
                                after \in Beside}

Plst == SectionOf("plst", <<Entry(<<>>, "other", <<>>)>>)

Pairs ==
  {SectionOf("blkx", <<first, Entry(<<>>, text, <<>>)>>) : first \in FirstEntries, text \in Blocks}

Unnamed ==
  { <<SectionOf("blkx", <<Entry(<<>>, "", <<FieldOf("full", "string", "0")>>)>>), Plst>>,
    <<SectionOf("blkx", <<Entry(<<FieldOf("List", "array", "item")>>, "full",
                                <<FieldOf("blkx", "array", "item")>>)>>), Plst>>,
    <<SectionOf("blkx", <<Entry(<<>>, "full", <<>>)>>), SectionOf("", Plst.entries)>>,
    <<SectionOf("blkx", <<Entry(<<>>, "full", <<>>)>>), SectionOf("blkx", Plst.entries)>> }

MCDocuments ==
  Unnamed \cup {<<s, Plst>> : s \in Pairs} \cup {<<Plst, s>> : s \in Pairs}
  \cup {<<>>, <<Plst>>, <<SectionOf("blkx", <<>>), Plst>>}

MCZeroRun == [kind |-> "zero", id |-> 0]
=============================================================================
