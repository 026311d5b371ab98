----------------------------- MODULE KolyAudit ------------------------------
(***************************************************************************)
(* The koly auditor (forensic/src/lib.rs): the anomalies of a trailer,     *)
(* each with the values it was found by, and their grades.  It parses the  *)
(* trailer itself, and shares no code with DmgReader.                      *)
(***************************************************************************)
EXTENDS Udif

CONSTANTS Kolys, KolyVersion

(* A file with the trailer fields that only the auditor reads.  Those that *)
(* DmgReader reads too are in `image`.                                     *)
Koly == [image : Files, version : Nat, forkOffset : Word, forkLength : Word]

ASSUME KolyAssumption ==
  /\ Kolys \subseteq Koly
  /\ KolyVersion \in Nat

-----------------------------------------------------------------------------
(* Anomalies and their grades.  The code of an anomaly is its kind.        *)

RangeKinds == {"DataForkOutOfBounds", "XmlOutOfBounds"}

Anomaly ==
  [kind : {"TrailerTooSmall"}, len : Word]
    \cup [kind : {"SignatureInvalid"}]
    \cup [kind : {"VersionUnexpected"}, version : Nat]
    \cup [kind : RangeKinds, offset : Word, length : Word, fileLen : Word]

(* Fault: pointers are graded as the version is. *)
SeverityOfPointers(a) ==
  IF a.kind \in {"TrailerTooSmall", "SignatureInvalid"} THEN "High" ELSE "Low"

Severity(a) == IF a.kind = "VersionUnexpected" THEN "Low" ELSE "High"

-----------------------------------------------------------------------------
(* audit_trailer *)

(* Fault: the sum of a pointer and its length wraps around. *)
OutOfBoundsSlip(offset, length, len) == (offset + length) % (MaxWord + 1) > len

(* Fault: a range that ends with the file is taken to run past it. *)
OutOfBoundsAtEnd(offset, length, len) == SatAdd(offset, length) >= len

OutOfBounds(offset, length, len) == SatAdd(offset, length) > len

TrailerTooSmall(len) == [kind |-> "TrailerTooSmall", len |-> len]

CheckRange(kind, offset, length, len) ==
  IF OutOfBounds(offset, length, len)
  THEN <<[kind |-> kind, offset |-> offset, length |-> length, fileLen |-> len]>>
  ELSE <<>>

CheckVersion(version) ==
  IF version # KolyVersion
  THEN <<[kind |-> "VersionUnexpected", version |-> version]>>
  ELSE <<>>

(* Fault: the plist's range is checked only where the fork's is sound. *)
CheckFieldsElse(k, len) ==
  LET fork == CheckRange("DataForkOutOfBounds", k.forkOffset, k.forkLength, len)
      xml == CheckRange("XmlOutOfBounds", k.image.xmlOffset, k.image.xmlLength, len)
  IN  CheckVersion(k.version) \o (IF fork # <<>> THEN fork ELSE xml)

(* Fault: the plist's range is reported with the length of the fork. *)
CheckFieldsMixed(k, len) ==
  LET xml == CheckRange("XmlOutOfBounds", k.image.xmlOffset, k.image.xmlLength, len)
  IN  CheckVersion(k.version)
        \o CheckRange("DataForkOutOfBounds", k.forkOffset, k.forkLength, len)
        \o [i \in DOMAIN xml |-> [xml[i] EXCEPT !.length = k.forkLength]]

CheckFields(k, len) ==
  CheckVersion(k.version)
    \o CheckRange("DataForkOutOfBounds", k.forkOffset, k.forkLength, len)
    \o CheckRange("XmlOutOfBounds", k.image.xmlOffset, k.image.xmlLength, len)

(* The trailer of k, for a file of len bytes.  Without the signature the   *)
(* other fields are not koly fields, and it is reported alone.             *)
AuditTrailer(k, len) ==
  IF ~k.image.magic THEN <<[kind |-> "SignatureInvalid"]>> ELSE CheckFields(k, len)
=============================================================================
