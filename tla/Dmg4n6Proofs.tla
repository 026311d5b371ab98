---------------------------- MODULE Dmg4n6Proofs ----------------------------
(***************************************************************************)
(* The koly auditor and its report, for every trailer, file length and     *)
(* interleaving with a program that changes the file.                      *)
(***************************************************************************)
EXTENDS Dmg4n6, UdifProofs, SequenceTheorems, FiniteSetTheorems

-----------------------------------------------------------------------------
(* Lists of anomalies *)

(* s lists the anomalies of the set o, each once. *)
Elems(s) == {s[i] : i \in DOMAIN s}

Lists(s, o) ==
  /\ s \in Seq(Anomaly)
  /\ Elems(s) = o
  /\ IsFiniteSet(o)
  /\ Cardinality(o) = Len(s)

LEMMA NoneIsListed == Lists(<<>>, {})
<1>1. <<>> \in Seq(Anomaly) /\ Len(<<>>) = 0 /\ DOMAIN <<>> = {}
  BY EmptySeq
<1>2. IsFiniteSet({}) /\ Cardinality({}) = 0
  BY FS_EmptySet
<1>3. Elems(<<>>) = {}
  BY <1>1 DEF Elems
<1>. QED  BY <1>1, <1>2, <1>3 DEF Lists

LEMMA OneIsListed ==
  ASSUME NEW a \in Anomaly
  PROVE  Lists(<<a>>, {a})
<1>1. <<a>> \in Seq(Anomaly) /\ Len(<<a>>) = 1 /\ DOMAIN <<a>> = {1} /\ <<a>>[1] = a
  OBVIOUS
<1>2. IsFiniteSet({a}) /\ Cardinality({a}) = 1
  BY FS_Singleton
<1>3. Elems(<<a>>) = {a}
  BY <1>1 DEF Elems
<1>. QED  BY <1>1, <1>2, <1>3 DEF Lists

LEMMA ConcatIsListed ==
  ASSUME NEW s, NEW o, NEW t, NEW p, Lists(s, o), Lists(t, p), o \cap p = {}
  PROVE  Lists(s \o t, o \cup p)
<1>1. /\ s \in Seq(Anomaly) /\ t \in Seq(Anomaly)
      /\ Len(s) \in Nat /\ Len(t) \in Nat
      /\ DOMAIN s = 1..Len(s) /\ DOMAIN t = 1..Len(t)
  BY LenProperties DEF Lists
<1>2. /\ s \o t \in Seq(Anomaly)
      /\ Len(s \o t) = Len(s) + Len(t)
      /\ \A i \in 1..Len(s) + Len(t) :
           (s \o t)[i] = IF i <= Len(s) THEN s[i] ELSE t[i - Len(s)]
  BY <1>1, ConcatProperties
<1>3. DOMAIN (s \o t) = 1..Len(s) + Len(t)
  BY <1>2, LenProperties
<1>4. Elems(s \o t) \subseteq Elems(s) \cup Elems(t)
  <2>. SUFFICES ASSUME NEW i \in 1..Len(s) + Len(t)
                PROVE  (s \o t)[i] \in Elems(s) \cup Elems(t)
    BY <1>3 DEF Elems
  <2>1. CASE i <= Len(s)
    <3>1. i \in DOMAIN s /\ (s \o t)[i] = s[i]
      BY <1>1, <1>2, <2>1
    <3>. QED  BY <3>1 DEF Elems
  <2>2. CASE ~(i <= Len(s))
    <3>1. i - Len(s) \in DOMAIN t /\ (s \o t)[i] = t[i - Len(s)]
      BY <1>1, <1>2, <2>2
    <3>. QED  BY <3>1 DEF Elems
  <2>. QED  BY <2>1, <2>2
<1>5. Elems(s) \subseteq Elems(s \o t)
  <2>. SUFFICES ASSUME NEW i \in DOMAIN s PROVE s[i] \in Elems(s \o t)
    BY DEF Elems
  <2>1. i \in DOMAIN (s \o t) /\ (s \o t)[i] = s[i]
    BY <1>1, <1>2, <1>3
  <2>. QED  BY <2>1 DEF Elems
<1>6. Elems(t) \subseteq Elems(s \o t)
  <2>. SUFFICES ASSUME NEW i \in DOMAIN t PROVE t[i] \in Elems(s \o t)
    BY DEF Elems
  <2>1. Len(s) + i \in DOMAIN (s \o t) /\ (s \o t)[Len(s) + i] = t[i]
    BY <1>1, <1>2, <1>3
  <2>. QED  BY <2>1 DEF Elems
<1>7. Elems(s \o t) = o \cup p
  BY <1>4, <1>5, <1>6 DEF Lists
<1>8. IsFiniteSet(o) /\ IsFiniteSet(p) /\ Cardinality(o) = Len(s) /\ Cardinality(p) = Len(t)
  BY DEF Lists
<1>9. /\ IsFiniteSet(o \cup p)
      /\ Cardinality(o \cup p) = Cardinality(o) + Cardinality(p) - Cardinality(o \cap p)
  BY <1>8, FS_Union
<1>10. Cardinality(o \cap p) = 0
  BY FS_EmptySet
<1>11. Cardinality(o \cup p) = Len(s \o t)
  BY <1>1, <1>2, <1>8, <1>9, <1>10
<1>. QED  BY <1>2, <1>7, <1>9, <1>11 DEF Lists

-----------------------------------------------------------------------------
(* audit_trailer *)

RangeAnomaly(kind, offset, length, len) ==
  [kind |-> kind, offset |-> offset, length |-> length, fileLen |-> len]

RangeOffence(kind, offset, length, len) ==
  {a \in {RangeAnomaly(kind, offset, length, len)} : a.offset + a.length > a.fileLen}

VersionOffence(version) ==
  {a \in {[kind |-> "VersionUnexpected", version |-> version]} : a.version # KolyVersion}

(* The saturating sum exceeds the length of a file exactly when the sum    *)
(* does, because no file ends at u64::MAX.                                 *)
LEMMA CheckRangeLists ==
  ASSUME NEW kind \in RangeKinds, NEW offset \in Word, NEW length \in Word,
         NEW len \in Word, len < MaxWord
  PROVE  Lists(CheckRange(kind, offset, length, len), RangeOffence(kind, offset, length, len))
<1>. DEFINE a == RangeAnomaly(kind, offset, length, len)
<1>1. a \in Anomaly
  BY DEF Anomaly, RangeAnomaly
<1>2. offset \in Nat /\ length \in Nat /\ len \in Nat /\ MaxWord \in Nat
  BY WordAssumption DEF Word
<1>3. OutOfBounds(offset, length, len) <=> offset + length > len
  BY <1>2 DEF OutOfBounds, SatAdd
<1>4. a.offset = offset /\ a.length = length /\ a.fileLen = len
  BY DEF RangeAnomaly
<1>5. CASE offset + length > len
  <2>1. CheckRange(kind, offset, length, len) = <<a>>
    BY <1>3, <1>5 DEF CheckRange, RangeAnomaly
  <2>2. RangeOffence(kind, offset, length, len) = {a}
    BY <1>4, <1>5 DEF RangeOffence
  <2>. QED  BY <1>1, <2>1, <2>2, OneIsListed
<1>6. CASE ~(offset + length > len)
  <2>1. CheckRange(kind, offset, length, len) = <<>>
    BY <1>3, <1>6 DEF CheckRange
  <2>2. RangeOffence(kind, offset, length, len) = {}
    BY <1>4, <1>6 DEF RangeOffence
  <2>. QED  BY <2>1, <2>2, NoneIsListed
<1>. QED  BY <1>5, <1>6

LEMMA CheckVersionLists ==
  ASSUME NEW version \in Nat
  PROVE  Lists(CheckVersion(version), VersionOffence(version))
<1>. DEFINE a == [kind |-> "VersionUnexpected", version |-> version]
<1>1. a \in Anomaly /\ a.version = version
  BY DEF Anomaly
<1>2. CASE version # KolyVersion
  <2>1. CheckVersion(version) = <<a>> /\ VersionOffence(version) = {a}
    BY <1>1, <1>2 DEF CheckVersion, VersionOffence
  <2>. QED  BY <1>1, <2>1, OneIsListed
<1>3. CASE version = KolyVersion
  <2>1. CheckVersion(version) = <<>> /\ VersionOffence(version) = {}
    BY <1>1, <1>3 DEF CheckVersion, VersionOffence
  <2>. QED  BY <2>1, NoneIsListed
<1>. QED  BY <1>2, <1>3

(* What audit_reader returns for the trailer of k and a file of len bytes. *)
Found(k, len) ==
  IF len < KolySize THEN <<TrailerTooSmall(len)>> ELSE AuditTrailer(k, len)

(* It lists what is wrong with the trailer: each offence once, and nothing *)
(* else.                                                                   *)
LEMMA AuditIsExact ==
  ASSUME NEW k \in Kolys, NEW len \in Word, len < MaxWord
  PROVE  Lists(Found(k, len), Offences(k, len))
<1>1. /\ k.version \in Nat /\ k.forkOffset \in Word /\ k.forkLength \in Word
      /\ k.image \in Files
  BY KolyAssumption DEF Koly
<1>2. k.image.xmlOffset \in Word /\ k.image.xmlLength \in Word
  BY <1>1, UdifAssumption DEF Image
<1>3. CASE len < KolySize
  <2>1. TrailerTooSmall(len) \in Anomaly
    BY DEF TrailerTooSmall, Anomaly
  <2>2. Offences(k, len) = {TrailerTooSmall(len)}
    BY <1>3 DEF Offences, TrailerTooSmall
  <2>. QED  BY <1>3, <2>1, <2>2, OneIsListed DEF Found
<1>4. CASE ~(len < KolySize) /\ ~k.image.magic
  <2>. DEFINE a == [kind |-> "SignatureInvalid"]
  <2>1. a \in Anomaly
    BY DEF Anomaly
  <2>2. Offences(k, len) = {a} /\ Found(k, len) = <<a>>
    BY <1>4 DEF Offences, Found, AuditTrailer
  <2>. QED  BY <2>1, <2>2, OneIsListed
<1>5. CASE ~(len < KolySize) /\ k.image.magic
  <2>. DEFINE version == VersionOffence(k.version)
              fork == RangeOffence("DataForkOutOfBounds", k.forkOffset, k.forkLength, len)
              xml == RangeOffence("XmlOutOfBounds", k.image.xmlOffset, k.image.xmlLength, len)
  <2>1. Lists(CheckVersion(k.version), version)
    BY <1>1, CheckVersionLists
  <2>2. Lists(CheckRange("DataForkOutOfBounds", k.forkOffset, k.forkLength, len), fork)
    BY <1>1, CheckRangeLists DEF RangeKinds
  <2>3. Lists(CheckRange("XmlOutOfBounds", k.image.xmlOffset, k.image.xmlLength, len), xml)
    BY <1>2, CheckRangeLists DEF RangeKinds
  <2>4. /\ \A a \in version : a.kind = "VersionUnexpected"
        /\ \A a \in fork : a.kind = "DataForkOutOfBounds"
        /\ \A a \in xml : a.kind = "XmlOutOfBounds"
    BY DEF VersionOffence, RangeOffence, RangeAnomaly
  <2>5. version \cap fork = {} /\ (version \cup fork) \cap xml = {}
    BY <2>4
  <2>6. Found(k, len) =
          (CheckVersion(k.version)
             \o CheckRange("DataForkOutOfBounds", k.forkOffset, k.forkLength, len))
             \o CheckRange("XmlOutOfBounds", k.image.xmlOffset, k.image.xmlLength, len)
    BY <1>5 DEF Found, AuditTrailer, CheckFields
  <2>7. Offences(k, len) = (version \cup fork) \cup xml
    <3>1. fork \cup xml =
            {a \in {RangeAnomaly("DataForkOutOfBounds", k.forkOffset, k.forkLength, len),
                    RangeAnomaly("XmlOutOfBounds", k.image.xmlOffset, k.image.xmlLength, len)} :
               a.offset + a.length > a.fileLen}
      BY DEF RangeOffence
    <3>. QED  BY <1>5, <3>1 DEF Offences, VersionOffence, RangeAnomaly
  <2>. HIDE DEF version, fork, xml
  <2>8. Lists(CheckVersion(k.version)
                \o CheckRange("DataForkOutOfBounds", k.forkOffset, k.forkLength, len),
              version \cup fork)
    BY <2>1, <2>2, <2>5, ConcatIsListed
  <2>. QED  BY <2>3, <2>5, <2>6, <2>7, <2>8, ConcatIsListed
<1>. QED  BY <1>3, <1>4, <1>5

-----------------------------------------------------------------------------
(* The report *)

LEMMA LineFacts ==
  ASSUME NEW a \in Anomaly
  PROVE  /\ Line(a) \in OutputLine
         /\ Line(a).anomaly = a /\ Line(a).severity = Severity(a)
         /\ Line(a) # CleanLine
<1>1. Severity(a) \in {"Low", "High"}
  BY DEF Severity
<1>2. Line(a) \in OutputLine
  BY <1>1 DEF Line, OutputLine
<1>3. Line(a) # CleanLine
  <2>1. "found" \in DOMAIN CleanLine
    BY DEF CleanLine
  <2>2. "found" \notin DOMAIN Line(a)
    BY DEF Line
  <2>. QED  BY <2>1, <2>2
<1>. QED  BY <1>2, <1>3 DEF Line

LEMMA LinesFacts ==
  ASSUME NEW s \in Seq(Anomaly)
  PROVE  /\ Lines(s) \in Seq(OutputLine) /\ Len(Lines(s)) \in Nat /\ Len(Lines(s)) > 0
         /\ s = <<>> => Lines(s) = <<CleanLine>>
         /\ s # <<>> => /\ Len(Lines(s)) = Len(s)
                        /\ \A i \in 1..Len(s) : Lines(s)[i] = Line(s[i])
<1>1. CASE s = <<>>
  <2>1. Lines(s) = <<CleanLine>>
    BY <1>1 DEF Lines
  <2>2. CleanLine \in OutputLine
    BY DEF OutputLine
  <2>3. <<CleanLine>> \in Seq(OutputLine) /\ Len(<<CleanLine>>) = 1
    BY <2>2
  <2>4. Lines(s) \in Seq(OutputLine) /\ Len(Lines(s)) = 1
    BY <2>1, <2>3
  <2>5. Len(Lines(s)) \in Nat /\ Len(Lines(s)) > 0
    BY <2>4
  <2>. QED  BY <1>1, <2>1, <2>4, <2>5, Zenon
<1>2. CASE s # <<>>
  <2>1. Len(s) \in Nat \ {0} /\ DOMAIN s = 1..Len(s)
    <3>1. Len(s) \in Nat /\ DOMAIN s = 1..Len(s)
      BY LenProperties
    <3>2. Len(s) # 0
      BY <1>2, EmptySeq
    <3>. QED  BY <3>1, <3>2
  <2>2. Lines(s) = [i \in 1..Len(s) |-> Line(s[i])]
    BY <1>2, <2>1 DEF Lines
  <2>3. \A i \in 1..Len(s) : Line(s[i]) \in OutputLine
    BY ElementOfSeq, LineFacts
  <2>4. Lines(s) \in Seq(OutputLine) /\ Len(Lines(s)) = Len(s)
    BY <2>1, <2>2, <2>3
  <2>. QED  BY <1>2, <2>1, <2>2, <2>4
<1>. QED  BY <1>1, <1>2

(* The report that an audit of read, measured as fileLen, has to print. *)
Whole == Lines(Found(read, fileLen))

(* What has been printed is the beginning of it, *)
Shows ==
  /\ read \in Kolys
  /\ Len(stdout) <= Len(Whole)
  /\ \A i \in 1..Len(stdout) : stdout[i] = Whole[i]

(* and what is still to be printed is the rest. *)
Leaves ==
  /\ Len(stdout) + Len(toPrint) = Len(Whole)
  /\ \A i \in 1..Len(toPrint) : toPrint[i] = Whole[Len(stdout) + i]

AuditInv ==
  /\ TypeOK
  /\ fileLen < MaxWord
  /\ pc # "ready" => command = "audit"
  /\ pc = "measured" => stdout = <<>> /\ ~(fileLen < KolySize)
  /\ pc = "printing" => Shows /\ Leaves
  /\ command = "audit" /\ pc = "ready" /\ stdout # <<>> => Shows
  /\ Audited => Shows /\ Len(stdout) = Len(Whole)

LEMMA ImageFacts ==
  ASSUME NEW k \in Kolys
  PROVE  /\ k.image \in Files /\ k.image.size \in 0..MaxSize
         /\ k.image.size < MaxWord
  BY KolyAssumption, UdifAssumption DEF Koly, Image

LEMMA SizesAreWords == 0..MaxSize \subseteq Word
  BY WordAssumption DEF Word

LEMMA AuditInit == Init => AuditInv
<1>. SUFFICES ASSUME Init PROVE AuditInv
  OBVIOUS
<1>1. <<>> \in Seq(OutputLine)
  BY EmptySeq
<1>2. 0 \in 0..MaxSize /\ 0 < MaxWord /\ MaxChanges \in Nat
  BY WordAssumption, CommandAssumption
<1>. QED  BY <1>1, <1>2 DEF Init, AuditInv, TypeOK, Audited

(* A command that is over without a report. *)
LEMMA NoReport ==
  ASSUME AuditInv, UNCHANGED <<koly, changes, fileLen, read, toPrint>>,
         pc' = "ready", command' \in {"none", "info", "audit"}, stdout' \in Seq(OutputLine),
         exit' \in {0} \cup FailureCodes,
         command' = "audit" => stdout' = <<>> /\ exit' # 0
  PROVE  AuditInv'
  BY DEF AuditInv, TypeOK, Audited

LEMMA CommandStep ==
  ASSUME AuditInv, Usage \/ RunInfo \/ AuditFails
  PROVE  AuditInv'
<1>1. <<>> \in Seq(OutputLine)
  BY EmptySeq
<1>2. CASE Usage
  BY <1>1, <1>2, NoReport DEF Usage, file, auditor
<1>3. CASE RunInfo
  <2>1. <<SizeLine(DiskSize(koly.image))>> \in Seq(OutputLine)
    <3>1. DiskSize(koly.image) \in Word
      BY ImageFacts, DiskSizeType DEF AuditInv, TypeOK
    <3>2. SizeLine(DiskSize(koly.image)) \in OutputLine
      BY <3>1 DEF SizeLine, OutputLine
    <3>. QED  BY <3>2
  <2>2. stdout' \in Seq(OutputLine) /\ exit' \in {0} \cup FailureCodes
    BY <1>1, <1>3, <2>1 DEF RunInfo
  <2>. QED  BY <1>3, <2>2, NoReport DEF RunInfo, file, auditor
<1>4. CASE AuditFails
  <2>1. exit' # 0
    BY <1>4 DEF AuditFails, FailureCodes
  <2>. QED  BY <1>1, <1>4, <2>1, NoReport DEF AuditFails, file, auditor
<1>. QED  BY <1>2, <1>3, <1>4

(* Both ways into the printing: a trailer found too small, or audited. *)
LEMMA ReportStep ==
  ASSUME AuditInv, NEW s, Report(s), s = Found(koly, fileLen'), fileLen' \in 0..MaxSize,
         fileLen' < MaxWord, stdout' = <<>>, command' = "audit",
         UNCHANGED <<koly, changes, exit>>
  PROVE  AuditInv'
<1>1. read' = koly /\ koly \in Kolys /\ pc' = "printing"
  BY DEF Report, AuditInv, TypeOK
<1>2. s \in Seq(Anomaly)
  BY <1>1, SizesAreWords, AuditIsExact DEF Lists
<1>3. toPrint' = Lines(s) /\ Whole' = Lines(s)
  BY <1>1 DEF Report, Whole
<1>4. toPrint' \in Seq(OutputLine) /\ Len(toPrint') \in Nat
  BY <1>2, <1>3, LinesFacts
<1>5. stdout' \in Seq(OutputLine) /\ Len(stdout') = 0
  BY EmptySeq
<1>6. Shows' /\ Leaves'
  BY <1>1, <1>3, <1>4, <1>5 DEF Shows, Leaves
<1>. QED  BY <1>1, <1>4, <1>5, <1>6 DEF AuditInv, TypeOK, Audited

LEMMA ReadingStep ==
  ASSUME AuditInv, MeasureFile \/ AuditReader
  PROVE  AuditInv'
<1>1. koly \in Kolys
  BY DEF AuditInv, TypeOK
<1>2. koly.image.size \in 0..MaxSize /\ koly.image.size < MaxWord
  BY <1>1, ImageFacts
<1>3. CASE MeasureFile
  <2>1. /\ fileLen' = koly.image.size /\ command' = "audit" /\ stdout' = <<>>
        /\ UNCHANGED <<koly, changes, exit>>
    BY <1>3 DEF MeasureFile, file
  <2>2. CASE fileLen' < KolySize
    <3>1. Report(<<TrailerTooSmall(fileLen')>>)
      BY <1>3, <2>2 DEF MeasureFile
    <3>2. <<TrailerTooSmall(fileLen')>> = Found(koly, fileLen')
      BY <2>2 DEF Found
    <3>. QED  BY <1>2, <2>1, <3>1, <3>2, ReportStep
  <2>3. CASE ~(fileLen' < KolySize)
    <3>1. pc' = "measured" /\ read' = NoKoly /\ toPrint' = <<>>
      BY <1>3, <2>3 DEF MeasureFile
    <3>2. <<>> \in Seq(OutputLine)
      BY EmptySeq
    <3>. QED  BY <1>1, <1>2, <2>1, <2>3, <3>1, <3>2 DEF AuditInv, TypeOK, Audited
  <2>. QED  BY <2>2, <2>3
<1>4. CASE AuditReader
  <2>1. /\ pc = "measured" /\ Report(AuditTrailer(koly, fileLen))
        /\ UNCHANGED <<koly, changes, exit, command, fileLen, stdout>>
    BY <1>4 DEF AuditReader, file
  <2>2. stdout = <<>> /\ ~(fileLen < KolySize) /\ command = "audit" /\ fileLen < MaxWord
        /\ fileLen \in 0..MaxSize
    BY <2>1 DEF AuditInv, TypeOK
  <2>3. AuditTrailer(koly, fileLen) = Found(koly, fileLen')
    BY <2>1, <2>2 DEF Found
  <2>. QED  BY <2>1, <2>2, <2>3, ReportStep
<1>. QED  BY <1>3, <1>4

LEMMA PrintStep ==
  ASSUME AuditInv, PrintLine
  PROVE  AuditInv'
<1>1. /\ pc = "printing" /\ toPrint # <<>>
      /\ stdout' = Append(stdout, Head(toPrint)) /\ toPrint' = Tail(toPrint)
      /\ UNCHANGED <<koly, changes, command, pc, fileLen, read, exit>>
  BY DEF PrintLine, file, auditor
<1>2. /\ toPrint \in Seq(OutputLine) /\ stdout \in Seq(OutputLine)
      /\ Len(stdout) \in Nat /\ Len(toPrint) \in Nat \ {0}
  BY <1>1, EmptySeq, LenProperties DEF AuditInv, TypeOK
<1>3. Shows /\ Leaves
  BY <1>1 DEF AuditInv
<1>4. /\ Head(toPrint) \in OutputLine /\ Head(toPrint) = toPrint[1]
      /\ Tail(toPrint) \in Seq(OutputLine)
      /\ Len(Tail(toPrint)) = Len(toPrint) - 1
      /\ \A i \in 1..Len(Tail(toPrint)) : Tail(toPrint)[i] = toPrint[i + 1]
  BY <1>1, <1>2, HeadTailProperties
<1>5. /\ stdout' \in Seq(OutputLine) /\ Len(stdout') = Len(stdout) + 1
      /\ \A i \in 1..Len(stdout) : stdout'[i] = stdout[i]
      /\ stdout'[Len(stdout) + 1] = toPrint[1]
  BY <1>1, <1>2, <1>4, AppendProperties
<1>6. Whole' = Whole /\ Len(Whole) \in Nat
  <2>1. Len(Whole) \in Nat
    BY <1>2, <1>3 DEF Leaves
  <2>. QED  BY <1>1, <2>1 DEF Whole
<1>7. Shows'
  <2>1. Len(stdout') <= Len(Whole)
    BY <1>2, <1>3, <1>5, <1>6 DEF Leaves
  <2>2. toPrint[1] = Whole[Len(stdout) + 1]
    BY <1>2, <1>3 DEF Leaves
  <2>3. ASSUME NEW i \in 1..Len(stdout') PROVE stdout'[i] = Whole[i]
    <3>1. i \in 1..Len(stdout) \/ i = Len(stdout) + 1
      BY <1>2, <1>5
    <3>. QED  BY <1>3, <1>5, <2>2, <3>1 DEF Shows
  <2>. QED  BY <1>1, <1>3, <1>6, <2>1, <2>3 DEF Shows
<1>8. Leaves'
  <2>1. Len(stdout') + Len(toPrint') = Len(Whole)
    BY <1>1, <1>2, <1>3, <1>4, <1>5 DEF Leaves
  <2>2. ASSUME NEW i \in 1..Len(toPrint') PROVE toPrint'[i] = Whole[Len(stdout') + i]
    <3>1. i + 1 \in 1..Len(toPrint) /\ toPrint'[i] = toPrint[i + 1]
      BY <1>1, <1>2, <1>4
    <3>2. Len(stdout) + (i + 1) = Len(stdout') + i
      BY <1>1, <1>2, <1>4, <1>5
    <3>. QED  BY <1>3, <3>1, <3>2 DEF Leaves
  <2>. QED  BY <1>6, <2>1, <2>2 DEF Leaves
<1>. QED  BY <1>1, <1>4, <1>5, <1>7, <1>8 DEF AuditInv, TypeOK, Audited

(* The two ways out of the printing. *)
LEMMA PrintedStep ==
  ASSUME AuditInv, PrintFails \/ Printed
  PROVE  AuditInv'
<1>1. /\ pc = "printing" /\ pc' = "ready" /\ toPrint' = <<>>
      /\ UNCHANGED <<koly, changes, command, fileLen, read, stdout>>
  BY DEF PrintFails, Printed, file, auditor
<1>2. <<>> \in Seq(OutputLine) /\ Len(stdout) \in Nat
  BY EmptySeq, LenProperties DEF AuditInv, TypeOK
<1>3. Shows /\ Leaves
  BY <1>1 DEF AuditInv
<1>4. Shows' /\ Whole' = Whole
  BY <1>1, <1>3 DEF Shows, Whole
<1>5. exit' \in {0} \cup FailureCodes
  BY DEF PrintFails, Printed
<1>6. exit' = 0 => Len(stdout') = Len(Whole')
  <2>. SUFFICES ASSUME exit' = 0 PROVE Len(stdout') = Len(Whole')
    OBVIOUS
  <2>1. toPrint = <<>>
    BY DEF PrintFails, Printed, FailureCodes
  <2>2. Len(toPrint) = 0
    BY <2>1
  <2>. QED  BY <1>1, <1>2, <1>3, <1>4, <2>2 DEF Leaves
<1>. QED  BY <1>1, <1>2, <1>4, <1>5, <1>6 DEF AuditInv, TypeOK, Audited

LEMMA ChangeStep ==
  ASSUME AuditInv, NEW k \in Kolys, Change(k)
  PROVE  AuditInv'
<1>1. /\ koly' = k /\ changes' = changes + 1 /\ changes < MaxChanges
      /\ UNCHANGED <<command, pc, fileLen, read, toPrint, stdout, exit>>
  BY DEF Change, auditor
<1>2. changes' \in 0..MaxChanges
  BY <1>1, CommandAssumption DEF AuditInv, TypeOK
<1>. QED  BY <1>1, <1>2 DEF AuditInv, TypeOK, Audited, Shows, Leaves, Whole

LEMMA AuditStep == AuditInv /\ [Next]_vars => AuditInv'
<1>. SUFFICES ASSUME AuditInv, [Next]_vars PROVE AuditInv'
  OBVIOUS
<1>1. CASE UNCHANGED vars
  BY <1>1 DEF vars, file, auditor, AuditInv, TypeOK, Audited, Shows, Leaves, Whole
<1>. QED
  BY <1>1, CommandStep, ReadingStep, PrintStep, PrintedStep, ChangeStep DEF Next

-----------------------------------------------------------------------------
(* What a report shows *)

(* The lines on stdout are those of anomalies that were found. *)
LEMMA ShownLines ==
  ASSUME AuditInv, Shows
  PROVE  /\ \A i \in DOMAIN stdout : stdout[i] # CleanLine =>
              /\ stdout[i].anomaly \in Offences(read, fileLen)
              /\ stdout[i] = Line(stdout[i].anomaly)
         /\ Shown \subseteq Offences(read, fileLen)
<1>. DEFINE s == Found(read, fileLen)
<1>1. Lists(s, Offences(read, fileLen))
  BY SizesAreWords, AuditIsExact DEF AuditInv, TypeOK, Shows
<1>2. /\ s \in Seq(Anomaly) /\ Elems(s) = Offences(read, fileLen)
      /\ DOMAIN s = 1..Len(s) /\ Len(s) \in Nat
  BY <1>1, LenProperties DEF Lists
<1>. HIDE DEF s
<1>3. Whole = Lines(s)
  BY DEF Whole, s
<1>4. DOMAIN stdout = 1..Len(stdout) /\ Len(stdout) \in Nat
  BY LenProperties DEF AuditInv, TypeOK
<1>5. ASSUME NEW i \in DOMAIN stdout, stdout[i] # CleanLine
      PROVE  /\ stdout[i].anomaly \in Offences(read, fileLen)
             /\ stdout[i] = Line(stdout[i].anomaly)
  <2>1. stdout[i] = Lines(s)[i] /\ i \in 1..Len(Lines(s))
    <3>1. Len(Lines(s)) \in Nat
      BY <1>2, LinesFacts
    <3>. QED  BY <1>3, <1>4, <1>5, <3>1 DEF Shows
  <2>2. s # <<>>
    <3>. SUFFICES ASSUME s = <<>> PROVE FALSE
      OBVIOUS
    <3>1. Lines(s) = <<CleanLine>>
      BY <1>2, LinesFacts
    <3>2. Len(<<CleanLine>>) = 1 /\ <<CleanLine>>[1] = CleanLine
      OBVIOUS
    <3>. QED  BY <1>5, <2>1, <3>1, <3>2
  <2>3. i \in DOMAIN s /\ stdout[i] = Line(s[i])
    BY <1>2, <2>1, <2>2, LinesFacts
  <2>4. s[i] \in Anomaly /\ s[i] \in Elems(s)
    BY <1>2, <2>3, ElementOfSeq DEF Elems
  <2>5. stdout[i].anomaly = s[i]
    BY <2>3, <2>4, LineFacts
  <2>. QED  BY <1>2, <2>3, <2>4, <2>5
<1>. QED  BY <1>5 DEF Shown

(* A report that has ended well shows all of them. *)
LEMMA WholeReport ==
  ASSUME AuditInv, Audited
  PROVE  /\ Offences(read, fileLen) = {} => stdout = <<CleanLine>>
         /\ Offences(read, fileLen) # {} =>
              /\ Shown = Offences(read, fileLen)
              /\ Len(stdout) = Cardinality(Offences(read, fileLen))
<1>. DEFINE s == Found(read, fileLen)
<1>0. Shows /\ Len(stdout) = Len(Whole)
  BY DEF AuditInv
<1>1. Lists(s, Offences(read, fileLen))
  BY <1>0, SizesAreWords, AuditIsExact DEF AuditInv, TypeOK, Shows
<1>2. /\ s \in Seq(Anomaly) /\ Elems(s) = Offences(read, fileLen)
      /\ DOMAIN s = 1..Len(s) /\ Len(s) \in Nat
      /\ Cardinality(Offences(read, fileLen)) = Len(s)
  BY <1>1, LenProperties DEF Lists
<1>. HIDE DEF s
<1>3. Whole = Lines(s)
  BY DEF Whole, s
<1>4. Lines(s) \in Seq(OutputLine) /\ stdout \in Seq(OutputLine)
  BY <1>2, LinesFacts DEF AuditInv, TypeOK
<1>5. stdout = Lines(s)
  BY <1>0, <1>3, <1>4, SeqEqual DEF Shows
<1>6. CASE s = <<>>
  <2>1. stdout = <<CleanLine>>
    BY <1>2, <1>5, <1>6, LinesFacts
  <2>2. Len(s) = 0
    BY <1>6
  <2>3. Offences(read, fileLen) = {}
    BY <1>2, <2>2 DEF Elems
  <2>. QED  BY <2>1, <2>3
<1>7. CASE s # <<>>
  <2>1. Len(s) \in Nat \ {0}
    BY <1>2, <1>7, EmptySeq
  <2>2. Len(stdout) = Len(s) /\ \A i \in 1..Len(s) : stdout[i] = Line(s[i])
    BY <1>2, <1>5, <1>7, LinesFacts
  <2>3. Offences(read, fileLen) \subseteq Shown
    <3>. SUFFICES ASSUME NEW i \in 1..Len(s) PROVE s[i] \in Shown
      BY <1>2 DEF Elems
    <3>1. s[i] \in Anomaly
      BY <1>2, ElementOfSeq
    <3>2. stdout[i] # CleanLine /\ stdout[i].anomaly = s[i]
      BY <2>2, <3>1, LineFacts
    <3>3. i \in DOMAIN stdout
      BY <1>4, <2>2, LenProperties
    <3>. QED  BY <3>2, <3>3 DEF Shown
  <2>4. Shown = Offences(read, fileLen)
    BY <1>0, <2>3, ShownLines
  <2>5. Offences(read, fileLen) # {}
    <3>1. s[1] \in Elems(s)
      BY <1>2, <2>1 DEF Elems
    <3>. QED  BY <1>2, <3>1
  <2>. QED  BY <1>2, <2>2, <2>4, <2>5
<1>. QED  BY <1>6, <1>7

(* The anomalies, the lines and the exit codes have their types            *)
(* (cli/src/lib.rs, forensic/src/lib.rs).                                  *)
THEOREM Dmg4n6TypeCorrect == Spec => []TypeOK
<1>1. AuditInv => TypeOK
  BY DEF AuditInv
<1>. QED  BY <1>1, AuditInit, AuditStep, PTL DEF Spec

(* Exit code 0 of `dmg4n6 audit` stands for a whole and exact report, on   *)
(* any file: forensic/src/lib.rs, audit_reader; cli/src/lib.rs, audit.     *)
THEOREM ReportIsExactHolds == Spec => []ReportIsExact
<1>1. AuditInv => ReportIsExact
  BY WholeReport DEF ReportIsExact
<1>. QED  BY <1>1, AuditInit, AuditStep, PTL DEF Spec

(* What concerns the reader is graded High. *)
LEMMA ConcernsAreHigh ==
  ASSUME NEW a, ConcernsReader(a)
  PROVE  Severity(a) = "High"
  BY DEF ConcernsReader, Severity

(* An audit that ends with nothing graded High about the reader leaves     *)
(* only the plist's content to keep the file from opening, even if it has  *)
(* grown: the auditor's saturating bound is no weaker than the reader's    *)
(* checked one.                                                            *)
THEOREM NoFalseAssuranceHolds == Spec => []NoFalseAssurance
<1>1. AuditInv => NoFalseAssurance
  <2>. SUFFICES ASSUME AuditInv, Audited,
                       ~\E i \in DOMAIN stdout :
                          stdout[i] # CleanLine /\ stdout[i].severity = "High"
                            /\ ConcernsReader(stdout[i].anomaly),
                       fileLen <= read.image.size, read.image.plistOk
                PROVE  "ok" \in OpenOutcomes(read.image)
    BY DEF NoFalseAssurance
  <2>1. Shows /\ read \in Kolys /\ fileLen \in Nat
    BY SizesAreWords DEF AuditInv, TypeOK, Shows
  <2>2. \A a \in Offences(read, fileLen) : ~ConcernsReader(a)
    <3>. SUFFICES ASSUME NEW a \in Offences(read, fileLen), ConcernsReader(a)
                  PROVE  FALSE
      OBVIOUS
    <3>1. a \in Shown
      BY WholeReport
    <3>2. PICK i \in DOMAIN stdout : stdout[i] # CleanLine /\ stdout[i].anomaly = a
      BY <3>1 DEF Shown
    <3>3. stdout[i] = Line(a)
      BY <2>1, <3>2, ShownLines
    <3>4. stdout[i].severity = "High"
      BY <3>3, ConcernsAreHigh DEF Line
    <3>. QED  BY <3>2, <3>4
  <2>3. ~(fileLen < KolySize)
    <3>. SUFFICES ASSUME fileLen < KolySize PROVE FALSE
      OBVIOUS
    <3>1. [kind |-> "TrailerTooSmall", len |-> fileLen] \in Offences(read, fileLen)
      BY DEF Offences
    <3>. QED  BY <2>2, <3>1 DEF ConcernsReader
  <2>4. read.image.magic
    <3>. SUFFICES ASSUME ~read.image.magic PROVE FALSE
      OBVIOUS
    <3>1. [kind |-> "SignatureInvalid"] \in Offences(read, fileLen)
      BY <2>3 DEF Offences
    <3>. QED  BY <2>2, <3>1 DEF ConcernsReader
  <2>5. ~(read.image.xmlOffset + read.image.xmlLength > fileLen)
    <3>. SUFFICES ASSUME read.image.xmlOffset + read.image.xmlLength > fileLen PROVE FALSE
      OBVIOUS
    <3>1. [kind |-> "XmlOutOfBounds", offset |-> read.image.xmlOffset,
           length |-> read.image.xmlLength, fileLen |-> fileLen] \in Offences(read, fileLen)
      BY <2>3, <2>4 DEF Offences
    <3>. QED  BY <2>2, <3>1 DEF ConcernsReader
  <2>6. /\ read.image.xmlOffset + read.image.xmlLength \in Nat
        /\ read.image.size \in Nat /\ read.image.size < MaxWord
        /\ KolySize \in Nat /\ MaxWord \in Nat
    <3>1. read.image \in Image
      BY <2>1, ImageFacts, UdifAssumption
    <3>2. read.image.xmlOffset \in Nat /\ read.image.xmlLength \in Nat
      BY <3>1, WordAssumption DEF Image, Word
    <3>. QED  BY <2>1, <3>2, ImageFacts, UdifAssumption, WordAssumption
  <2>7. /\ ~(read.image.size < KolySize)
        /\ read.image.xmlOffset + read.image.xmlLength <= read.image.size
        /\ Fits(read.image.xmlOffset + read.image.xmlLength)
    BY <2>1, <2>3, <2>5, <2>6 DEF Fits
  <2>8. ~(read.image.xmlOffset + read.image.xmlLength > read.image.size)
    BY <2>6, <2>7
  <2>. QED  BY <2>4, <2>7, <2>8 DEF OpenOutcomes
<1>. QED  BY <1>1, AuditInit, AuditStep, PTL DEF Spec

(* And no line about the reader is printed of a file at rest that the      *)
(* reader opens, in a report cut short neither: the auditor's saturating   *)
(* bound is no stronger than the reader's.                                 *)
THEOREM NoFalseAlarmHolds == Spec => []NoFalseAlarm
<1>1. AuditInv => NoFalseAlarm
  <2>. SUFFICES ASSUME AuditInv, command = "audit", stdout # <<>>,
                       fileLen = read.image.size, "ok" \in OpenOutcomes(read.image),
                       NEW a \in Shown, ConcernsReader(a)
                PROVE  FALSE
    BY DEF NoFalseAlarm
  <2>1. Shows
    BY DEF AuditInv, TypeOK
  <2>2. a \in Offences(read, fileLen)
    BY <2>1, ShownLines
  <2>3. /\ ~(fileLen < KolySize) /\ read.image.magic
        /\ ~(read.image.xmlOffset + read.image.xmlLength > fileLen)
    BY DEF OpenOutcomes
  <2>4. a.kind = "XmlOutOfBounds"
    BY <2>2, <2>3 DEF Offences, ConcernsReader
  <2>5. a.offset + a.length > a.fileLen
        /\ a.offset = read.image.xmlOffset /\ a.length = read.image.xmlLength
        /\ a.fileLen = fileLen
    BY <2>2, <2>3, <2>4 DEF Offences
  <2>. QED  BY <2>3, <2>5
<1>. QED  BY <1>1, AuditInit, AuditStep, PTL DEF Spec
=============================================================================
