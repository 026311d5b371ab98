----------------------------- MODULE PlistEvents -----------------------------
(***************************************************************************)
(* The events that the XML reader reports of a plist, as both parsers of   *)
(* this repository see them (core/src/lib.rs, core/src/sparse.rs): texts   *)
(* are trimmed and empty ones dropped, end tags match their start, and     *)
(* whatever is no start, text or end, such as a declaration, a comment or  *)
(* a self-closing element, is one event that both ignore.                  *)
(***************************************************************************)
EXTENDS Sequences

Start(tag) == [type |-> "start", of |-> tag]
Text(text) == [type |-> "text", of |-> text]
End(tag) == [type |-> "end", of |-> tag]
Other == [type |-> "other", of |-> ""]
Malformed == [type |-> "malformed", of |-> ""]

(* The names and texts that this repository spells out.  Literals are      *)
(* strings, which a proof may use only where it is said.                   *)
ASSUME LiteralsAssumption ==
  {"", "plist", "dict", "key", "array", "string", "data", "resource-fork", "blkx"}
    \subseteq STRING

EventRecord ==
  [type : {"start", "text", "end", "other", "malformed"}, of : STRING]

Element(tag, text) ==
  IF text = "" THEN <<Start(tag), End(tag)>> ELSE <<Start(tag), Text(text), End(tag)>>

Keyed(key, tag, text) ==
  Element("key", key) \o IF tag = "other" THEN <<Other>> ELSE Element(tag, text)
=============================================================================
