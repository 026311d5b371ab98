------------------------------ MODULE InfoPlist ------------------------------
(***************************************************************************)
(* parse_info_plist (core/src/sparse.rs): what the Info.plist of a sparse  *)
(* bundle is taken to say.  The scan keeps the last key it saw and the     *)
(* element it is in; a later value of a key replaces an earlier one.       *)
(*                                                                         *)
(* An Info.plist is the sequence of its pairs; Numbers gives the value of  *)
(* each text that parses as a u64.                                         *)
(***************************************************************************)
EXTENDS PlistEvents, SequencesExt

CONSTANTS
  Numbers,   \* the texts that are a u64, with their values
  Missing    \* a key that Info.plist lacks

BundleType == "com.apple.diskimage.sparsebundle"

InfoEvents(pairs, wellFormed) ==
  <<Other, Start("plist"), Start("dict")>>
  \o FlattenSeq([k \in DOMAIN pairs |-> Keyed(pairs[k].key, pairs[k].tag, pairs[k].text)])
  \o IF wellFormed THEN <<End("dict"), End("plist")>> ELSE <<Malformed>>

(* BundleInfo, with the scan's own state. *)
BeforeScan ==
  [ok |-> TRUE, key |-> "", elem |-> "",
   bandSize |-> Missing, size |-> Missing, bundleType |-> ""]

SizeRead(scan, t) ==
  IF t \notin DOMAIN Numbers THEN [scan EXCEPT !.ok = FALSE]
  ELSE IF scan.key = "size" THEN [scan EXCEPT !.size = Numbers[t]]
  ELSE [scan EXCEPT !.bandSize = Numbers[t]]

(* Fault: a value counts whatever element it is in. *)
TextReadAnywhere(scan, t) ==
  CASE scan.elem = "key" -> [scan EXCEPT !.key = t]
    [] scan.elem # "key" /\ scan.key \in {"band-size", "size"} -> SizeRead(scan, t)
    [] scan.elem # "key" /\ scan.key = "diskimage-bundle-type" ->
         [scan EXCEPT !.bundleType = t]
    [] OTHER -> scan

TextRead(scan, t) ==
  CASE scan.elem = "key" -> [scan EXCEPT !.key = t]
    [] scan.elem = "integer" /\ scan.key \in {"band-size", "size"} -> SizeRead(scan, t)
    [] scan.elem = "string" /\ scan.key = "diskimage-bundle-type" ->
         [scan EXCEPT !.bundleType = t]
    [] OTHER -> scan

EventRead(scan, e) ==
  CASE ~scan.ok -> scan
    [] scan.ok /\ e.type = "start" -> [scan EXCEPT !.elem = e.of]
    [] scan.ok /\ e.type = "text" -> TextRead(scan, e.of)
    [] scan.ok /\ e.type = "end" -> [scan EXCEPT !.elem = ""]
    [] scan.ok /\ e.type = "malformed" -> [scan EXCEPT !.ok = FALSE]
    [] OTHER -> scan

(* The loop over the events, as a function so that it can be proved about. *)
AllRead(scan, events) ==
  LET read[n \in 0..Len(events)] ==
        IF n = 0 THEN scan ELSE EventRead(read[n - 1], events[n])
  IN  read[Len(events)]

ParseInfoPlist(events) == AllRead(BeforeScan, events)

-----------------------------------------------------------------------------
(* What the pairs say, without the scan: the last value of each key. *)

Gives(pair, key, tag) == pair.key = key /\ pair.tag = tag /\ pair.text # ""

Given(pairs, key, tag) == {k \in DOMAIN pairs : Gives(pairs[k], key, tag)}

Said(pairs, key, tag) ==
  LET at == Given(pairs, key, tag) IN IF at = {} THEN Missing ELSE pairs[Max(at)].text

NumberSaid(pairs, key) ==
  LET at == Given(pairs, key, "integer")
  IN  IF at = {} THEN Missing ELSE Numbers[pairs[Max(at)].text]
=============================================================================
