------------------------------- MODULE Dmg4n6 -------------------------------
(***************************************************************************)
(* The dmg4n6 commands on one file (cli/src/lib.rs, main.rs): `info` opens *)
(* it with DmgReader, `audit` runs audit_path of dmg-forensic, which       *)
(* measures the file, reads the trailer from its end and hands back the    *)
(* anomalies, and prints them line by line.  Meanwhile another program may *)
(* append to the file (an image that is still being written) or cut it,    *)
(* and any line may fail to be written (a closed pipe, a full disk).       *)
(***************************************************************************)
EXTENDS KolyAudit

CONSTANTS
  NoKoly,       \* no trailer was audited
  MaxChanges    \* bound: times the file changes

ASSUME CommandAssumption ==
  /\ NoKoly \notin Kolys
  /\ MaxChanges \in Nat

VARIABLES
  koly,      \* the file
  changes,   \* times it has changed
  command,   \* the last command: "none", "info" or "audit"
  pc,        \* "ready", or inside audit: "measured", "printing"
  fileLen,   \* the length audit_reader measured
  read,      \* the file as it was when audit_reader judged it, or NoKoly
  toPrint,   \* the lines still to be printed
  stdout,    \* the lines the last command has printed
  exit       \* the exit code of the last command; 0 before the first

file == <<koly, changes>>
auditor == <<fileLen, read>>
vars == <<file, command, pc, auditor, toPrint, stdout, exit>>

Init ==
  /\ koly \in Kolys
  /\ changes = 0
  /\ command = "none"
  /\ pc = "ready"
  /\ fileLen = 0
  /\ read = NoKoly
  /\ toPrint = <<>>
  /\ stdout = <<>>
  /\ exit = 0

(* main exits with 2 after saying why on stderr, and eprintln! panics when *)
(* that cannot be written either.                                          *)
FailureCodes == {2, 101}

SizeLine(size) == [virtualDiskSize |-> size]
CleanLine == [found |-> "no anomalies"]
Line(a) == [severity |-> Severity(a), anomaly |-> a]

-----------------------------------------------------------------------------
(* dispatch with too few arguments or an unknown command. *)
Usage ==
  /\ pc = "ready"
  /\ command' = "none"
  /\ stdout' = <<>>
  /\ exit' \in FailureCodes
  /\ UNCHANGED <<file, pc, auditor, toPrint>>

(* open goes by the length it measured: what is appended meanwhile does    *)
(* not show, what is cut off is a failing read.  So the file of the moment *)
(* stands for all that it reads.                                           *)
RunInfo ==
  /\ pc = "ready"
  /\ command' = "info"
  /\ \/ /\ "ok" \in OpenOutcomes(koly.image)
        /\ stdout' = <<SizeLine(DiskSize(koly.image))>>
        /\ exit' = 0
     \/ /\ stdout' = <<>>
        /\ exit' \in FailureCodes
  /\ UNCHANGED <<file, pc, auditor, toPrint>>

-----------------------------------------------------------------------------
(* audit *)

(* The anomalies that audit_reader returns are printed, or the line that   *)
(* says there is none.                                                     *)
Lines(anomalies) ==
  IF anomalies = <<>> THEN <<CleanLine>>
  ELSE [i \in DOMAIN anomalies |-> Line(anomalies[i])]

Report(anomalies) ==
  /\ read' = koly
  /\ toPrint' = Lines(anomalies)
  /\ pc' = "printing"

(* Fault: the place of the trailer is taken for the length of the file. *)
MeasureTrailer ==
  /\ pc = "ready"
  /\ command' = "audit"
  /\ fileLen' = koly.image.size - KolySize
  /\ pc' = "measured" /\ read' = NoKoly /\ toPrint' = <<>>
  /\ stdout' = <<>>
  /\ UNCHANGED <<file, exit>>

(* audit_reader seeks to the end: a file too short is reported at once. *)
MeasureFile ==
  /\ pc = "ready"
  /\ command' = "audit"
  /\ fileLen' = koly.image.size
  /\ IF fileLen' < KolySize
     THEN Report(<<TrailerTooSmall(fileLen')>>)
     ELSE pc' = "measured" /\ read' = NoKoly /\ toPrint' = <<>>
  /\ stdout' = <<>>
  /\ UNCHANGED <<file, exit>>

(* It then seeks 512 bytes back from the end the file has now and reads    *)
(* them.  (What is appended between the two leaves these bytes in place,   *)
(* what is cut off makes the read fail.)                                   *)
AuditReader ==
  /\ pc = "measured"
  /\ koly.image.size >= KolySize
  /\ Report(AuditTrailer(koly, fileLen))
  /\ UNCHANGED <<file, command, fileLen, stdout, exit>>

(* The file cannot be opened, sought or read; also when it has become too  *)
(* short to seek back in.                                                  *)
AuditFails ==
  /\ pc \in {"ready", "measured"}
  /\ pc' = "ready" /\ command' = "audit"
  /\ stdout' = <<>>
  /\ exit' \in FailureCodes
  /\ UNCHANGED <<file, auditor, toPrint>>

PrintLine ==
  /\ pc = "printing" /\ toPrint # <<>>
  /\ stdout' = Append(stdout, Head(toPrint))
  /\ toPrint' = Tail(toPrint)
  /\ UNCHANGED <<file, command, pc, auditor, exit>>

(* Fault: a line that cannot be written is skipped. *)
PrintIgnored ==
  /\ pc = "printing" /\ toPrint # <<>>
  /\ toPrint' = Tail(toPrint)
  /\ UNCHANGED <<file, command, pc, auditor, stdout, exit>>

(* `writeln!(..)?` ends the report after the lines that went out. *)
PrintFails ==
  /\ pc = "printing" /\ toPrint # <<>>
  /\ toPrint' = <<>>
  /\ pc' = "ready"
  /\ exit' \in FailureCodes
  /\ UNCHANGED <<file, command, auditor, stdout>>

Printed ==
  /\ pc = "printing" /\ toPrint = <<>>
  /\ pc' = "ready"
  /\ exit' = 0
  /\ UNCHANGED <<file, command, auditor, toPrint, stdout>>

(* The other program (outside the repository). *)
Change(k) ==
  /\ changes < MaxChanges
  /\ k.image.size # koly.image.size
  /\ koly' = k
  /\ changes' = changes + 1
  /\ UNCHANGED <<command, pc, auditor, toPrint, stdout, exit>>

Next ==
  \/ Usage \/ RunInfo
  \/ MeasureFile \/ AuditReader \/ AuditFails
  \/ PrintLine \/ PrintFails \/ Printed
  \/ \E k \in Kolys : Change(k)

Spec == Init /\ [][Next]_vars

-----------------------------------------------------------------------------
OutputLine ==
  [virtualDiskSize : Word] \cup {CleanLine}
    \cup [severity : {"Low", "High"}, anomaly : Anomaly]

TypeOK ==
  /\ koly \in Kolys
  /\ changes \in 0..MaxChanges
  /\ command \in {"none", "info", "audit"}
  /\ pc \in {"ready", "measured", "printing"}
  /\ fileLen \in 0..MaxSize
  /\ read \in Kolys \cup {NoKoly}
  /\ toPrint \in Seq(OutputLine) /\ stdout \in Seq(OutputLine)
  /\ exit \in {0} \cup FailureCodes

(* What is wrong with k's trailer in a file of len bytes, in unbounded     *)
(* arithmetic.                                                             *)
Offences(k, len) ==
  IF len < KolySize THEN {[kind |-> "TrailerTooSmall", len |-> len]}
  ELSE IF ~k.image.magic THEN {[kind |-> "SignatureInvalid"]}
  ELSE {a \in {[kind |-> "DataForkOutOfBounds", offset |-> k.forkOffset,
                length |-> k.forkLength, fileLen |-> len],
               [kind |-> "XmlOutOfBounds", offset |-> k.image.xmlOffset,
                length |-> k.image.xmlLength, fileLen |-> len]} :
          a.offset + a.length > a.fileLen}
       \cup {a \in {[kind |-> "VersionUnexpected", version |-> k.version]} :
               a.version # KolyVersion}

(* The audit has ended, and was not cut short. *)
Audited == command = "audit" /\ pc = "ready" /\ exit = 0

(* The anomalies that the lines on stdout are about. *)
Shown == {stdout[i].anomaly : i \in {j \in DOMAIN stdout : stdout[j] # CleanLine}}

(* Exit code 0 of audit stands for a whole report: the lines printed are   *)
(* what is wrong with the trailer that was read, each once, with the       *)
(* values it was found by; or the line that says that nothing is.          *)
ReportIsExact ==
  Audited =>
    LET offences == Offences(read, fileLen)
    IN  IF offences = {} THEN stdout = <<CleanLine>>
        ELSE /\ Shown = offences
             /\ Len(stdout) = Cardinality(offences)

(* What keeps DmgReader from opening the file. *)
ConcernsReader(a) ==
  a.kind \in {"TrailerTooSmall", "SignatureInvalid", "XmlOutOfBounds"}

(* The auditor and the reader parse the trailer independently, but the     *)
(* auditor gives no false assurance: if an audit ends with nothing graded  *)
(* High that concerns the reader, then only the content of the plist can   *)
(* keep the file it looked at from opening, even if the file grew under    *)
(* its hands.                                                              *)
NoFalseAssurance ==
  /\ Audited
  /\ ~\E i \in DOMAIN stdout :
        stdout[i] # CleanLine /\ stdout[i].severity = "High"
          /\ ConcernsReader(stdout[i].anomaly)
  /\ fileLen <= read.image.size
  /\ read.image.plistOk
  => "ok" \in OpenOutcomes(read.image)

(* And of a file at rest it raises no false alarm, not in a report that is *)
(* cut short either: what the reader opens has no anomaly that concerns    *)
(* the reader.                                                             *)
NoFalseAlarm ==
  /\ command = "audit" /\ stdout # <<>>
  /\ fileLen = read.image.size /\ "ok" \in OpenOutcomes(read.image)
  => ~\E a \in Shown : ConcernsReader(a)
=============================================================================
