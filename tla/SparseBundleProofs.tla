-------------------------- MODULE SparseBundleProofs -------------------------
(***************************************************************************)
(* SparseBundleReader, for every Info.plist, any band files, and any       *)
(* number of changes by the other program: it is a virtual disk.           *)
(*                                                                         *)
(* Info.plist: the scan of the events of its pairs is followed pair by     *)
(* pair; what it has found after each is the last value of each key so far *)
(* (InfoPlistIsReadAsSaid).                                                *)
(*                                                                         *)
(* Reads: whatever file the reader has open, the bytes it shows now are    *)
(* among those that the bundle has shown since the call began, because the *)
(* file was the band's until its name was gone, and nobody changes it      *)
(* after that (HandleShows); what the reader has copied, and the zeros it  *)
(* owes since the probe, are among them too (Copying).                     *)
(***************************************************************************)
EXTENDS SparseBundle, SequenceTheorems, WellFoundedInduction, TLAPS

-----------------------------------------------------------------------------
(* Facts about what the two sparse readers share, for every band size and  *)
(* every width of the machine integers: a read's window stays in one band, *)
(* where the place of a byte is linear in the cursor, and a seek in u64.   *)

LEMMA DivisionFacts ==
  ASSUME NEW n \in Nat, NEW d \in Nat \ {0}
  PROVE  /\ n \div d \in Nat
         /\ n % d \in 0..d - 1
         /\ n = (n \div d) * d + (n % d)
  OBVIOUS

LEMMA QuotientIsUnique ==
  ASSUME NEW q \in Nat, NEW r \in Nat, NEW d \in Nat \ {0}, r < d
  PROVE  (q * d + r) \div d = q /\ (q * d + r) % d = r
  OBVIOUS

LEMMA LargestOf ==
  ASSUME NEW n \in Nat, NEW S, S \subseteq 0..n, S # {}
  PROVE  Max(S) \in S /\ \A y \in S : y <= Max(S)
<1>. DEFINE D == {n - x : x \in S}
<1>1. D \subseteq Nat
  <2>. SUFFICES ASSUME NEW x \in S PROVE n - x \in Nat
    OBVIOUS
  <2>1. x \in 0..n
    OBVIOUS
  <2>. QED  BY <2>1
<1>2. D # {}
  <2>1. PICK x : x \in S
    OBVIOUS
  <2>2. n - x \in D
    BY <2>1
  <2>. QED  BY <2>2
<1>3. PICK d \in D : \A y \in D : d <= y
  <2>. HIDE DEF D
  <2>1. PICK x \in D : \A y \in D : <<y, x>> \notin OpToRel(<, Nat)
    BY <1>1, <1>2, NatLessThanWellFounded, WFMin
  <2>2. ASSUME NEW y \in D PROVE x <= y
    <3>1. <<y, x>> \in Nat \X Nat /\ <<y, x>> \notin OpToRel(<, Nat)
      BY <1>1, <2>1
    <3>2. ~(y < x)
      BY <3>1 DEF OpToRel
    <3>3. x \in Nat /\ y \in Nat
      BY <1>1
    <3>. QED  BY <3>2, <3>3
  <2>. QED  BY <2>2
<1>4. PICK x \in S : d = n - x
  BY <1>3
<1>5. \A y \in S : x >= y
  <2>. SUFFICES ASSUME NEW y \in S PROVE x >= y
    OBVIOUS
  <2>1. n - y \in D
    OBVIOUS
  <2>2. d <= n - y
    BY <1>3, <2>1
  <2>3. x \in Nat /\ y \in Nat
    OBVIOUS
  <2>. QED  BY <1>4, <2>2, <2>3
<1>6. /\ Max(S) \in S
      /\ \A y \in S : Max(S) >= y
  BY <1>5 DEF Max
<1>7. \A y \in S : y \in Int
  OBVIOUS
<1>. QED  BY <1>6, <1>7

(* A window is not empty, and every byte of it lies in the cursor's band. *)
LEMMA WindowFacts ==
  ASSUME NEW pos \in Nat, NEW length \in Nat \ {0}, NEW d \in Nat \ {0}, NEW size \in Nat,
         pos < size
  PROVE  /\ Window(pos, length, d, size) \in 1..length
         /\ pos + Window(pos, length, d, size) <= size
         /\ \A i \in 1..Window(pos, length, d, size) :
              /\ (pos + i - 1) \div d = pos \div d
              /\ (pos + i - 1) % d = (pos % d) + i - 1
              /\ (pos % d) + i - 1 \in 0..d - 1
<1>. DEFINE n == Window(pos, length, d, size)
            q == pos \div d
            r == pos % d
<1>1. q \in Nat /\ r \in 0..d - 1 /\ pos = q * d + r
  BY DivisionFacts
<1>2. n = Lesser(Lesser(length, d - r), size - pos)
  BY DEF Window
<1>. HIDE DEF n, q, r
<1>3. n \in 1..length /\ n <= d - r /\ n <= size - pos
  BY <1>1, <1>2 DEF Lesser
<1>4. ASSUME NEW i \in 1..n
      PROVE  (pos + i - 1) \div d = q /\ (pos + i - 1) % d = r + i - 1
             /\ r + i - 1 \in 0..d - 1
  <2>1. i \in Nat /\ r + i - 1 \in Nat /\ r + i - 1 < d /\ q * d \in Nat
    BY <1>1, <1>3
  <2>2. pos + i - 1 = q * d + (r + i - 1)
    BY <1>1, <2>1
  <2>3. (q * d + (r + i - 1)) \div d = q /\ (q * d + (r + i - 1)) % d = r + i - 1
    BY <1>1, <2>1, QuotientIsUnique
  <2>4. (pos + i - 1) \div d = q /\ (pos + i - 1) % d = r + i - 1
    BY <2>2, <2>3, Zenon
  <2>5. r + i - 1 \in 0..d - 1
    BY <2>1
  <2>. QED  BY <2>4, <2>5
<1>. QED  BY <1>3, <1>4 DEF n, q, r

LEMMA UntouchedType ==
  ASSUME NEW length \in Nat
  PROVE  /\ UntouchedBuffer(length) \in [1..length -> Cell]
         /\ \A i \in 1..length : UntouchedBuffer(length)[i].src # "file"
  BY DEF UntouchedBuffer, StaleByte, Cell

LEMMA FilledFacts ==
  ASSUME NEW s \in Seq(Cell), NEW length \in Nat
  PROVE  /\ Filled(s, length) \in [1..length -> Cell]
         /\ \A i \in 1..length : Filled(s, length)[i] = IF i <= Len(s) THEN s[i] ELSE StaleByte
<1>1. StaleByte \in Cell
  BY DEF StaleByte, Cell
<1>2. \A i \in 1..length : i <= Len(s) => s[i] \in Cell
  OBVIOUS
<1>. QED  BY <1>1, <1>2 DEF Filled

LEMMA SeekWithinType ==
  ASSUME NEW base \in Word, NEW d \in Delta
  PROVE  SeekWithin(base, d) \in Word
<1>1. d \in Int /\ MaxWord \in Nat
  BY WordAssumption DEF Delta
<1>. QED  BY <1>1 DEF SeekWithin, SatAdd, SatSub, Word

-----------------------------------------------------------------------------
(* Info.plist: the scan of its events finds what its pairs say. *)

(* Induction over the natural numbers, for a set that holds 0 and, with    *)
(* each n, n + 1.                                                          *)
LEMMA ClosedUnderSuccessor ==
  ASSUME NEW T, 0 \in T, \A n \in Nat : n \in T => n + 1 \in T
  PROVE  \A n \in Nat : n \in T
<1>. DEFINE Less == OpToRel(<, Nat)
            Rest == {n \in Nat : n \notin T}
<1>1. IsWellFoundedOn(Less, Nat)
  BY NatLessThanWellFounded
<1>2. \A m, n \in Nat : m < n => <<m, n>> \in Less
  BY DEF OpToRel
<1>. HIDE DEF Less
<1>3. ASSUME Rest # {} PROVE FALSE
  <2>1. PICK n \in Rest : \A m \in Rest : <<m, n>> \notin Less
    BY <1>1, <1>3, WFMin
  <2>2. n \in Nat /\ n # 0 /\ n - 1 \in Nat /\ n - 1 < n /\ (n - 1) + 1 = n
    BY <2>1
  <2>3. n - 1 \in Rest
    BY <2>1, <2>2
  <2>. QED  BY <1>2, <2>1, <2>2, <2>3
<1>. QED  BY <1>3

(* The first n of the sequences ss, one after the other. *)
Joined(ss) ==
  LET joined[n \in 0..Len(ss)] == IF n = 0 THEN <<>> ELSE joined[n - 1] \o ss[n] IN joined

LEMMA JoinedUnfolds ==
  ASSUME NEW ss, Len(ss) \in Nat
  PROVE  Joined(ss) = [n \in 0..Len(ss) |-> IF n = 0 THEN <<>> ELSE Joined(ss)[n - 1] \o ss[n]]
<1>. DEFINE Solves(g, m) == g = [n \in 0..m |-> IF n = 0 THEN <<>> ELSE g[n - 1] \o ss[n]]
            T == {m \in Nat : \E g : Solves(g, m)}
<1>1. 0 \in T
  <2>1. Solves([n \in 0..0 |-> <<>>], 0)
    OBVIOUS
  <2>. QED  BY <2>1
<1>2. ASSUME NEW m \in Nat, m \in T PROVE m + 1 \in T
  <2>1. PICK g : Solves(g, m)
    BY <1>2
  <2>. DEFINE h == [n \in 0..m + 1 |-> IF n = m + 1 THEN g[m] \o ss[n] ELSE g[n]]
  <2>2. \A n \in 0..m : h[n] = g[n]
    OBVIOUS
  <2>3. \A n \in 0..m : g[n] = IF n = 0 THEN <<>> ELSE g[n - 1] \o ss[n]
    BY <2>1
  <2>4. ASSUME NEW n \in 0..m + 1
        PROVE  h[n] = IF n = 0 THEN <<>> ELSE h[n - 1] \o ss[n]
    <3>1. CASE n = m + 1
      BY <2>2, <3>1
    <3>2. CASE n \in 0..m /\ n # 0
      <4>1. n - 1 \in 0..m
        BY <3>2
      <4>2. h[n] = g[n] /\ h[n - 1] = g[n - 1]
        BY <2>2, <3>2, <4>1
      <4>3. g[n] = g[n - 1] \o ss[n]
        BY <2>3, <3>2, Zenon
      <4>. QED  BY <3>2, <4>2, <4>3, Zenon
    <3>3. CASE n = 0
      BY <2>2, <2>3, <3>3
    <3>. QED  BY <3>1, <3>2, <3>3
  <2>5. h = [n \in 0..m + 1 |-> h[n]]
    OBVIOUS
  <2>. HIDE DEF h
  <2>6. Solves(h, m + 1)
    BY <2>4, <2>5
  <2>7. \E f : Solves(f, m + 1)
    BY <2>6, Zenon
  <2>. QED  BY <2>7
<1>. HIDE DEF T
<1>3. Len(ss) \in T
  BY <1>1, <1>2, ClosedUnderSuccessor
<1>4. \E g : Solves(g, Len(ss))
  BY <1>3 DEF T
<1>. QED  BY <1>4 DEF Joined

LEMMA JoinedFacts ==
  ASSUME NEW S, NEW ss \in Seq(Seq(S))
  PROVE  /\ Len(ss) \in Nat
         /\ Joined(ss)[0] = <<>>
         /\ \A n \in 0..Len(ss) : Joined(ss)[n] \in Seq(S)
         /\ \A n \in 1..Len(ss) : Joined(ss)[n] = Joined(ss)[n - 1] \o ss[n]
<1>. DEFINE J == Joined(ss)
            N == Len(ss)
            T == {n \in Nat : n <= N => J[n] \in Seq(S)}
<1>1. N \in Nat /\ \A n \in 1..N : ss[n] \in Seq(S)
  BY LenProperties, ElementOfSeq
<1>2. \A n \in 0..N : J[n] = IF n = 0 THEN <<>> ELSE J[n - 1] \o ss[n]
  BY <1>1, JoinedUnfolds
<1>. HIDE DEF J
<1>3. J[0] = <<>> /\ \A n \in 1..N : J[n] = J[n - 1] \o ss[n]
  <2>1. 0 \in 0..N /\ \A n \in 1..N : n \in 0..N /\ n # 0
    BY <1>1
  <2>. QED  BY <1>2, <2>1, Zenon
<1>4. 0 \in T
  BY <1>3, EmptySeq
<1>5. ASSUME NEW n \in Nat, n \in T PROVE n + 1 \in T
  <2>1. SUFFICES ASSUME n + 1 <= N PROVE J[n + 1] \in Seq(S)
    OBVIOUS
  <2>2. n + 1 \in 1..N /\ (n + 1) - 1 = n /\ n <= N
    BY <1>1, <2>1
  <2>3. J[n + 1] = J[n] \o ss[n + 1]
    BY <1>3, <2>2
  <2>4. J[n] \in Seq(S) /\ ss[n + 1] \in Seq(S)
    BY <1>1, <1>5, <2>2
  <2>. QED  BY <2>3, <2>4, ConcatProperties
<1>. HIDE DEF T
<1>6. \A n \in Nat : n \in T
  BY <1>4, <1>5, ClosedUnderSuccessor
<1>7. \A n \in 0..N : J[n] \in Seq(S)
  BY <1>1, <1>6 DEF T
<1>. QED  BY <1>1, <1>3, <1>7 DEF J

(* FlattenSeq joins all of them. *)
LEMMA FlattenIsJoined ==
  ASSUME NEW S, NEW ss \in Seq(Seq(S))
  PROVE  FlattenSeq(ss) = Joined(ss)[Len(ss)] /\ FlattenSeq(ss) \in Seq(S)
<1>. DEFINE J == Joined(ss)
            N == Len(ss)
            flatten == CHOOSE f : f = [i \in 1..N |-> IF i = 1 THEN ss[i] ELSE f[i - 1] \o ss[i]]
<1>1. /\ N \in Nat /\ J[0] = <<>>
      /\ \A n \in 0..N : J[n] \in Seq(S)
      /\ \A n \in 1..N : J[n] = J[n - 1] \o ss[n]
  BY JoinedFacts
<1>. HIDE DEF J
<1>2. CASE N = 0
  BY <1>1, <1>2, EmptySeq DEF FlattenSeq, J
<1>3. CASE N # 0
  <2>1. FlattenSeq(ss) = flatten[N]
    BY <1>3 DEF FlattenSeq
  <2>2. \A n \in 1..N : ss[n] \in Seq(S)
    BY ElementOfSeq
  <2>. DEFINE h == [i \in 1..N |-> J[i]]
  <2>3. ASSUME NEW i \in 1..N PROVE h[i] = IF i = 1 THEN ss[i] ELSE h[i - 1] \o ss[i]
    <3>1. CASE i = 1
      <4>1. J[1] = J[0] \o ss[1]
        <5>1. 1 \in 1..N /\ 1 - 1 = 0
          BY <1>1, <1>3
        <5>2. J[1] = J[1 - 1] \o ss[1]
          BY <1>1, <5>1, Zenon
        <5>. QED  BY <5>1, <5>2
      <4>2. <<>> \o ss[1] = ss[1]
        BY <2>2, <3>1, ConcatEmptySeq
      <4>. QED  BY <1>1, <3>1, <4>1, <4>2
    <3>2. CASE i # 1
      <4>1. i - 1 \in 1..N
        BY <1>1, <3>2
      <4>. QED  BY <1>1, <3>2, <4>1
    <3>. QED  BY <3>1, <3>2
  <2>4. h = [i \in 1..N |-> h[i]]
    OBVIOUS
  <2>. HIDE DEF h
  <2>5. h = [i \in 1..N |-> IF i = 1 THEN ss[i] ELSE h[i - 1] \o ss[i]]
    BY <2>3, <2>4
  <2>6. flatten = [i \in 1..N |-> IF i = 1 THEN ss[i] ELSE flatten[i - 1] \o ss[i]]
    BY <2>5
  <2>. HIDE DEF flatten
  <2>. DEFINE T == {n \in Nat : n + 1 <= N => flatten[n + 1] = J[n + 1]}
  <2>7. 0 \in T
    <3>1. flatten[1] = ss[1]
      BY <1>1, <1>3, <2>6
    <3>2. J[1] = <<>> \o ss[1] /\ ss[1] \in Seq(S)
      <4>1. 1 \in 1..N /\ 1 - 1 = 0
        BY <1>1, <1>3
      <4>2. J[1] = J[1 - 1] \o ss[1]
        BY <1>1, <4>1, Zenon
      <4>. QED  BY <1>1, <2>2, <4>1, <4>2
    <3>. QED  BY <3>1, <3>2, ConcatEmptySeq
  <2>8. ASSUME NEW n \in Nat, n \in T PROVE n + 1 \in T
    <3>1. SUFFICES ASSUME n + 2 <= N PROVE flatten[n + 2] = J[n + 2]
      OBVIOUS
    <3>2. n + 2 \in 1..N /\ n + 2 # 1 /\ (n + 2) - 1 = n + 1 /\ n + 1 <= N
      BY <1>1, <3>1
    <3>3. flatten[n + 2] = flatten[n + 1] \o ss[n + 2]
      BY <2>6, <3>2
    <3>4. J[n + 2] = J[n + 1] \o ss[n + 2]
      BY <1>1, <3>2
    <3>. QED  BY <2>8, <3>2, <3>3, <3>4
  <2>. HIDE DEF T
  <2>9. \A n \in Nat : n \in T
    BY <2>7, <2>8, ClosedUnderSuccessor
  <2>10. N - 1 \in Nat /\ (N - 1) + 1 = N /\ (N - 1) + 1 <= N
    BY <1>1, <1>3
  <2>11. flatten[N] = J[N]
    BY <2>9, <2>10 DEF T
  <2>12. J[N] \in Seq(S)
    BY <1>1
  <2>. QED  BY <2>1, <2>11, <2>12 DEF J
<1>. QED  BY <1>2, <1>3

(* The scan's state. *)
Scans ==
  [ok : BOOLEAN, key : STRING, elem : STRING, bandSize : Word \cup {Missing},
   size : Word \cup {Missing}, bundleType : STRING]

(* Word and Missing enter by what they are: a set, its numbers, a value. *)
LEMMA TextReadFacts ==
  ASSUME NEW st \in Scans, st.ok, NEW t \in STRING
  PROVE  LET x == TextRead(st, t)
             number == st.elem = "integer" /\ st.key \in {"band-size", "size"}
         IN  /\ x \in Scans /\ x.elem = st.elem
             /\ st.elem = "key" =>
                  /\ x.ok /\ x.key = t
                  /\ x.bandSize = st.bandSize /\ x.size = st.size
                  /\ x.bundleType = st.bundleType
             /\ st.elem # "key" =>
                  /\ x.ok <=> (number => t \in DOMAIN Numbers)
                  /\ x.key = st.key
                  /\ x.ok =>
                       /\ x.bandSize = IF number /\ st.key = "band-size" THEN Numbers[t]
                                       ELSE st.bandSize
                       /\ x.size = IF number /\ st.key = "size" THEN Numbers[t] ELSE st.size
                       /\ x.bundleType =
                            IF st.elem = "string" /\ st.key = "diskimage-bundle-type" THEN t
                            ELSE st.bundleType
<1>. DEFINE number == st.elem = "integer" /\ st.key \in {"band-size", "size"}
            kind == st.elem = "string" /\ st.key = "diskimage-bundle-type"
<1>1. t \in DOMAIN Numbers => Numbers[t] \in Word \cup {Missing}
  BY BundleAssumption
<1>2. CASE st.elem = "key"
  <2>1. TextRead(st, t) = [st EXCEPT !.key = t]
    BY <1>2 DEF TextRead
  <2>. QED  BY <1>2, <2>1 DEF Scans
<1>3. CASE number /\ t \notin DOMAIN Numbers
  <2>1. TextRead(st, t) = [st EXCEPT !.ok = FALSE]
    BY <1>3 DEF TextRead, SizeRead
  <2>. QED  BY <1>3, <2>1 DEF Scans
<1>4. CASE number /\ t \in DOMAIN Numbers /\ st.key = "size"
  <2>1. TextRead(st, t) = [st EXCEPT !.size = Numbers[t]]
    BY <1>4 DEF TextRead, SizeRead
  <2>. QED  BY <1>1, <1>4, <2>1 DEF Scans
<1>5. CASE number /\ t \in DOMAIN Numbers /\ st.key = "band-size"
  <2>1. TextRead(st, t) = [st EXCEPT !.bandSize = Numbers[t]]
    BY <1>5 DEF TextRead, SizeRead
  <2>. QED  BY <1>1, <1>5, <2>1 DEF Scans
<1>6. CASE kind
  <2>1. TextRead(st, t) = [st EXCEPT !.bundleType = t]
    BY <1>6 DEF TextRead
  <2>. QED  BY <1>6, <2>1 DEF Scans
<1>7. CASE st.elem # "key" /\ ~number /\ ~kind
  <2>1. TextRead(st, t) = st
    BY <1>7 DEF TextRead
  <2>. QED  BY <1>7, <2>1
<1>. QED  BY <1>2, <1>3, <1>4, <1>5, <1>6, <1>7

LEMMA ReadType ==
  ASSUME NEW st \in Scans, NEW e \in EventRecord
  PROVE  EventRead(st, e) \in Scans
<1>1. e.of \in STRING /\ e.type \in {"start", "text", "end", "other", "malformed"}
  BY DEF EventRecord
<1>2. "" \in STRING
  BY LiteralsAssumption
<1>3. CASE ~st.ok
  BY <1>3 DEF EventRead
<1>4. CASE st.ok /\ e.type = "start"
  <2>1. EventRead(st, e) = [st EXCEPT !.elem = e.of]
    BY <1>4 DEF EventRead
  <2>. QED  BY <1>1, <2>1 DEF Scans
<1>5. CASE st.ok /\ e.type = "text"
  <2>1. EventRead(st, e) = TextRead(st, e.of)
    BY <1>5 DEF EventRead
  <2>. QED  BY <1>1, <1>5, <2>1, TextReadFacts
<1>6. CASE st.ok /\ e.type = "end"
  <2>1. EventRead(st, e) = [st EXCEPT !.elem = ""]
    BY <1>6 DEF EventRead
  <2>. QED  BY <1>2, <2>1 DEF Scans
<1>7. CASE st.ok /\ e.type = "malformed"
  <2>1. EventRead(st, e) = [st EXCEPT !.ok = FALSE]
    BY <1>7 DEF EventRead
  <2>. QED  BY <2>1 DEF Scans
<1>8. CASE st.ok /\ e.type = "other"
  <2>1. EventRead(st, e) = st
    BY <1>8 DEF EventRead
  <2>. QED  BY <2>1
<1>. QED  BY <1>1, <1>3, <1>4, <1>5, <1>6, <1>7, <1>8

(* The scan after each number of events. *)
After(st, es) ==
  LET read[n \in 0..Len(es)] == IF n = 0 THEN st ELSE EventRead(read[n - 1], es[n]) IN read

LEMMA AllReadIsLast ==
  ASSUME NEW st, NEW es
  PROVE  AllRead(st, es) = After(st, es)[Len(es)]
  BY DEF AllRead, After

LEMMA AfterUnfolds ==
  ASSUME NEW st, NEW es, Len(es) \in Nat
  PROVE  After(st, es) =
           [n \in 0..Len(es) |-> IF n = 0 THEN st ELSE EventRead(After(st, es)[n - 1], es[n])]
<1>. DEFINE Solves(g, m) == g = [n \in 0..m |-> IF n = 0 THEN st ELSE EventRead(g[n - 1], es[n])]
            T == {m \in Nat : \E g : Solves(g, m)}
<1>1. 0 \in T
  <2>1. Solves([n \in 0..0 |-> st], 0)
    OBVIOUS
  <2>. QED  BY <2>1
<1>2. ASSUME NEW m \in Nat, m \in T PROVE m + 1 \in T
  <2>1. PICK g : Solves(g, m)
    BY <1>2
  <2>. DEFINE h == [n \in 0..m + 1 |-> IF n = m + 1 THEN EventRead(g[m], es[n]) ELSE g[n]]
  <2>2. \A n \in 0..m : h[n] = g[n]
    OBVIOUS
  <2>3. \A n \in 0..m : g[n] = IF n = 0 THEN st ELSE EventRead(g[n - 1], es[n])
    BY <2>1
  <2>4. ASSUME NEW n \in 0..m + 1
        PROVE  h[n] = IF n = 0 THEN st ELSE EventRead(h[n - 1], es[n])
    <3>1. CASE n = m + 1
      BY <2>2, <3>1
    <3>2. CASE n \in 0..m /\ n # 0
      <4>1. n - 1 \in 0..m
        BY <3>2
      <4>. QED  BY <2>2, <2>3, <3>2, <4>1
    <3>3. CASE n = 0
      BY <2>2, <2>3, <3>3
    <3>. QED  BY <3>1, <3>2, <3>3
  <2>5. h = [n \in 0..m + 1 |-> h[n]]
    OBVIOUS
  <2>. HIDE DEF h
  <2>6. Solves(h, m + 1)
    BY <2>4, <2>5
  <2>7. \E f : Solves(f, m + 1)
    BY <2>6, Zenon
  <2>. QED  BY <2>7
<1>. HIDE DEF T
<1>3. Len(es) \in T
  BY <1>1, <1>2, ClosedUnderSuccessor
<1>4. \E g : Solves(g, Len(es))
  BY <1>3 DEF T
<1>. QED  BY <1>4 DEF After

LEMMA AfterFacts ==
  ASSUME NEW st \in Scans, NEW es \in Seq(EventRecord)
  PROVE  /\ Len(es) \in Nat
         /\ After(st, es)[0] = st
         /\ \A n \in 1..Len(es) : After(st, es)[n] = EventRead(After(st, es)[n - 1], es[n])
         /\ \A n \in 0..Len(es) : After(st, es)[n] \in Scans
         /\ AllRead(st, es) \in Scans
<1>. DEFINE A == After(st, es)
            N == Len(es)
            T == {n \in Nat : n <= N => A[n] \in Scans}
<1>1. N \in Nat /\ \A n \in 1..N : es[n] \in EventRecord
  BY LenProperties, ElementOfSeq
<1>2. \A n \in 0..N : A[n] = IF n = 0 THEN st ELSE EventRead(A[n - 1], es[n])
  BY <1>1, AfterUnfolds
<1>. HIDE DEF A
<1>3. A[0] = st /\ \A n \in 1..N : A[n] = EventRead(A[n - 1], es[n])
  <2>1. 0 \in 0..N /\ \A n \in 1..N : n \in 0..N /\ n # 0
    BY <1>1
  <2>. QED  BY <1>2, <2>1, Zenon
<1>4. 0 \in T
  BY <1>3
<1>5. ASSUME NEW n \in Nat, n \in T PROVE n + 1 \in T
  <2>1. SUFFICES ASSUME n + 1 <= N PROVE A[n + 1] \in Scans
    OBVIOUS
  <2>2. n + 1 \in 1..N /\ (n + 1) - 1 = n /\ n <= N
    BY <1>1, <2>1
  <2>3. A[n + 1] = EventRead(A[n], es[n + 1])
    BY <1>3, <2>2
  <2>. QED  BY <1>1, <1>5, <2>2, <2>3, ReadType
<1>. HIDE DEF T
<1>6. \A n \in Nat : n \in T
  BY <1>4, <1>5, ClosedUnderSuccessor
<1>7. \A n \in 0..N : A[n] \in Scans
  BY <1>1, <1>6 DEF T
<1>8. N \in 0..N
  BY <1>1
<1>. QED  BY <1>1, <1>3, <1>7, <1>8, AllReadIsLast DEF A

LEMMA ReadInTurn ==
  ASSUME NEW st \in Scans, NEW s \in Seq(EventRecord), NEW t \in Seq(EventRecord)
  PROVE  AllRead(st, s \o t) = AllRead(AllRead(st, s), t)
<1>. DEFINE A == After(st, s)
            B == After(AllRead(st, s), t)
            C == After(st, s \o t)
            T == {n \in Nat : n <= Len(s) => C[n] = A[n]}
            U == {n \in Nat : n <= Len(t) => C[Len(s) + n] = B[n]}
<1>1. /\ Len(s) \in Nat /\ A[0] = st /\ AllRead(st, s) \in Scans
      /\ \A n \in 1..Len(s) : A[n] = EventRead(A[n - 1], s[n])
  BY AfterFacts
<1>2. /\ Len(t) \in Nat /\ B[0] = AllRead(st, s)
      /\ \A n \in 1..Len(t) : B[n] = EventRead(B[n - 1], t[n])
  BY <1>1, AfterFacts
<1>3. /\ s \o t \in Seq(EventRecord) /\ Len(s \o t) = Len(s) + Len(t)
      /\ \A i \in 1..Len(s) + Len(t) : (s \o t)[i] = IF i <= Len(s) THEN s[i] ELSE t[i - Len(s)]
  BY ConcatProperties
<1>4. C[0] = st /\ \A n \in 1..Len(s) + Len(t) : C[n] = EventRead(C[n - 1], (s \o t)[n])
  <2>1. s \o t \in Seq(EventRecord)
    BY <1>3
  <2>2. C[0] = st /\ \A n \in 1..Len(s \o t) : C[n] = EventRead(C[n - 1], (s \o t)[n])
    BY <2>1, AfterFacts, Zenon
  <2>. QED  BY <1>3, <2>2, Zenon
<1>5. A[Len(s)] = AllRead(st, s) /\ B[Len(t)] = AllRead(AllRead(st, s), t)
      /\ C[Len(s) + Len(t)] = AllRead(st, s \o t)
  BY <1>3, AllReadIsLast
<1>. HIDE DEF A, B, C
<1>6. 0 \in T
  BY <1>1, <1>4
<1>7. ASSUME NEW n \in Nat, n \in T PROVE n + 1 \in T
  <2>1. SUFFICES ASSUME n + 1 <= Len(s) PROVE C[n + 1] = A[n + 1]
    OBVIOUS
  <2>2. /\ n + 1 \in 1..Len(s) /\ n + 1 \in 1..Len(s) + Len(t) /\ (n + 1) - 1 = n
        /\ n <= Len(s)
    BY <1>1, <1>2, <2>1
  <2>3. (s \o t)[n + 1] = s[n + 1]
    BY <1>3, <2>2
  <2>4. C[n + 1] = EventRead(C[n], s[n + 1]) /\ A[n + 1] = EventRead(A[n], s[n + 1])
    BY <1>1, <1>4, <2>2, <2>3
  <2>. QED  BY <1>7, <2>2, <2>4
<1>. HIDE DEF T
<1>8. C[Len(s)] = A[Len(s)]
  <2>1. \A n \in Nat : n \in T
    BY <1>6, <1>7, ClosedUnderSuccessor
  <2>. QED  BY <1>1, <2>1 DEF T
<1>9. 0 \in U
  BY <1>1, <1>2, <1>5, <1>8
<1>10. ASSUME NEW n \in Nat, n \in U PROVE n + 1 \in U
  <2>1. SUFFICES ASSUME n + 1 <= Len(t) PROVE C[Len(s) + (n + 1)] = B[n + 1]
    OBVIOUS
  <2>2. /\ n + 1 \in 1..Len(t) /\ Len(s) + (n + 1) \in 1..Len(s) + Len(t) /\ (n + 1) - 1 = n
        /\ (Len(s) + (n + 1)) - 1 = Len(s) + n /\ n <= Len(t)
        /\ ~(Len(s) + (n + 1) <= Len(s)) /\ (Len(s) + (n + 1)) - Len(s) = n + 1
    BY <1>1, <1>2, <2>1
  <2>3. (s \o t)[Len(s) + (n + 1)] = t[n + 1]
    BY <1>3, <2>2
  <2>4. C[Len(s) + (n + 1)] = EventRead(C[Len(s) + n], t[n + 1]) /\ B[n + 1] = EventRead(B[n], t[n + 1])
    BY <1>2, <1>4, <2>2, <2>3
  <2>. QED  BY <1>10, <2>2, <2>4
<1>. HIDE DEF U
<1>11. C[Len(s) + Len(t)] = B[Len(t)]
  <2>1. \A n \in Nat : n \in U
    BY <1>9, <1>10, ClosedUnderSuccessor
  <2>. QED  BY <1>2, <2>1 DEF U
<1>. QED  BY <1>5, <1>11

LEMMA ReadOne ==
  ASSUME NEW st \in Scans, NEW e \in EventRecord
  PROVE  <<e>> \in Seq(EventRecord) /\ AllRead(st, <<e>>) = EventRead(st, e)
<1>1. <<e>> \in Seq(EventRecord) /\ Len(<<e>>) = 1 /\ <<e>>[1] = e
  OBVIOUS
<1>2. 1 \in 1..1 /\ 1 - 1 = 0
  OBVIOUS
<1>3. After(st, <<e>>)[0] = st /\ After(st, <<e>>)[1] = EventRead(After(st, <<e>>)[1 - 1], <<e>>[1])
  BY <1>1, <1>2, AfterFacts
<1>. QED  BY <1>1, <1>2, <1>3, AllReadIsLast

LEMMA ReadTwo ==
  ASSUME NEW st \in Scans, NEW a \in EventRecord, NEW b \in EventRecord
  PROVE  <<a, b>> \in Seq(EventRecord) /\ AllRead(st, <<a, b>>) = EventRead(EventRead(st, a), b)
<1>1. <<a, b>> \in Seq(EventRecord) /\ Len(<<a, b>>) = 2 /\ <<a, b>>[1] = a /\ <<a, b>>[2] = b
  OBVIOUS
<1>2. 1 \in 1..2 /\ 1 - 1 = 0 /\ 2 \in 1..2 /\ 2 - 1 = 1
  OBVIOUS
<1>3. /\ After(st, <<a, b>>)[0] = st
      /\ After(st, <<a, b>>)[1] = EventRead(After(st, <<a, b>>)[1 - 1], <<a, b>>[1])
      /\ After(st, <<a, b>>)[2] = EventRead(After(st, <<a, b>>)[2 - 1], <<a, b>>[2])
  BY <1>1, <1>2, AfterFacts
<1>. QED  BY <1>1, <1>2, <1>3, AllReadIsLast

LEMMA ReadThree ==
  ASSUME NEW st \in Scans, NEW a \in EventRecord, NEW b \in EventRecord, NEW c \in EventRecord
  PROVE  /\ <<a, b, c>> \in Seq(EventRecord)
         /\ AllRead(st, <<a, b, c>>) = EventRead(EventRead(EventRead(st, a), b), c)
<1>. DEFINE es == <<a, b, c>>
<1>1. es \in Seq(EventRecord) /\ Len(es) = 3 /\ es[1] = a /\ es[2] = b /\ es[3] = c
  OBVIOUS
<1>. HIDE DEF es
<1>2. 1 \in 1..3 /\ 1 - 1 = 0 /\ 2 \in 1..3 /\ 2 - 1 = 1 /\ 3 \in 1..3 /\ 3 - 1 = 2
  OBVIOUS
<1>. DEFINE A == After(st, es)
<1>3. A[0] = st /\ \A n \in 1..3 : A[n] = EventRead(A[n - 1], es[n])
  <2>1. A[0] = st /\ \A n \in 1..Len(es) : A[n] = EventRead(A[n - 1], es[n])
    BY <1>1, AfterFacts, Zenon
  <2>. QED  BY <1>1, <2>1, Zenon
<1>4. AllRead(st, es) = A[3]
  BY <1>1, AllReadIsLast
<1>. HIDE DEF A
<1>5. A[1] = EventRead(A[1 - 1], es[1])
  BY <1>2, <1>3, Zenon
<1>6. A[2] = EventRead(A[2 - 1], es[2])
  BY <1>2, <1>3, Zenon
<1>7. A[3] = EventRead(A[3 - 1], es[3])
  BY <1>2, <1>3, Zenon
<1>8. AllRead(st, es) = EventRead(EventRead(EventRead(st, a), b), c)
  BY <1>1, <1>2, <1>3, <1>4, <1>5, <1>6, <1>7, Zenon
<1>. QED  BY <1>1, <1>8 DEF es

(* Once refused, an Info.plist stays refused. *)
LEMMA RefusedForGood ==
  ASSUME NEW st \in Scans, ~st.ok, NEW es \in Seq(EventRecord)
  PROVE  AllRead(st, es) = st
<1>. DEFINE A == After(st, es)
            N == Len(es)
            T == {n \in Nat : n <= N => A[n] = st}
<1>1. /\ N \in Nat /\ A[0] = st /\ A[N] = AllRead(st, es)
      /\ \A n \in 1..N : A[n] = EventRead(A[n - 1], es[n])
  BY AfterFacts, AllReadIsLast
<1>. HIDE DEF A
<1>2. \A e : EventRead(st, e) = st
  BY DEF EventRead
<1>3. 0 \in T
  BY <1>1
<1>4. ASSUME NEW n \in Nat, n \in T PROVE n + 1 \in T
  <2>1. SUFFICES ASSUME n + 1 <= N PROVE A[n + 1] = st
    OBVIOUS
  <2>2. n + 1 \in 1..N /\ (n + 1) - 1 = n /\ n <= N
    BY <1>1, <2>1
  <2>3. A[n + 1] = EventRead(A[n], es[n + 1])
    BY <1>1, <2>2
  <2>. QED  BY <1>2, <1>4, <2>2, <2>3
<1>. HIDE DEF T
<1>5. N \in T
  BY <1>1, <1>3, <1>4, ClosedUnderSuccessor
<1>. QED  BY <1>1, <1>5 DEF T

LEMMA EventTypes ==
  /\ Other \in EventRecord /\ Malformed \in EventRecord
  /\ \A s \in STRING : Start(s) \in EventRecord /\ Text(s) \in EventRecord /\ End(s) \in EventRecord
<1>1. Other \in EventRecord /\ Malformed \in EventRecord
  BY LiteralsAssumption DEF EventRecord, Other, Malformed
<1>2. \A s \in STRING : Start(s) \in EventRecord /\ Text(s) \in EventRecord /\ End(s) \in EventRecord
  <2>. SUFFICES ASSUME NEW s \in STRING
                PROVE  Start(s) \in EventRecord /\ Text(s) \in EventRecord /\ End(s) \in EventRecord
    OBVIOUS
  <2>. QED  BY DEF EventRecord, Start, Text, End
<1>. QED  BY <1>1, <1>2

(* What the scan of an element finds. *)
ElementFound(st, tag, text, x) ==
  LET number == tag = "integer" /\ st.key \in {"band-size", "size"}
  IN  /\ text = "" \/ tag = "key" =>
           /\ x.ok /\ x.key = IF text = "" THEN st.key ELSE text
           /\ x.bandSize = st.bandSize /\ x.size = st.size /\ x.bundleType = st.bundleType
      /\ text # "" /\ tag # "key" =>
           /\ x.ok <=> (number => text \in DOMAIN Numbers)
           /\ x.key = st.key
           /\ x.ok =>
                /\ x.bandSize = IF number /\ st.key = "band-size" THEN Numbers[text]
                                ELSE st.bandSize
                /\ x.size = IF number /\ st.key = "size" THEN Numbers[text] ELSE st.size
                /\ x.bundleType =
                     IF tag = "string" /\ st.key = "diskimage-bundle-type" THEN text
                     ELSE st.bundleType

LEMMA ElementRead ==
  ASSUME NEW st \in Scans, st.ok, NEW tag \in STRING, NEW text \in STRING
  PROVE  /\ Element(tag, text) \in Seq(EventRecord)
         /\ AllRead(st, Element(tag, text)) \in Scans
         /\ ElementFound(st, tag, text, AllRead(st, Element(tag, text)))
<1>1. Start(tag) \in EventRecord /\ Text(text) \in EventRecord /\ End(tag) \in EventRecord
  BY EventTypes
<1>2. PICK a \in Scans : a = EventRead(st, Start(tag))
  BY <1>1, ReadType
<1>3. a = [st EXCEPT !.elem = tag]
  BY <1>2 DEF EventRead, Start
<1>4. /\ a.ok /\ a.key = st.key /\ a.elem = tag /\ a.bandSize = st.bandSize
      /\ a.size = st.size /\ a.bundleType = st.bundleType
  BY <1>3 DEF Scans
<1>5. ASSUME NEW y \in Scans
      PROVE  LET z == EventRead(y, End(tag))
             IN  /\ z \in Scans /\ z.ok = y.ok /\ z.key = y.key /\ z.bandSize = y.bandSize
                 /\ z.size = y.size /\ z.bundleType = y.bundleType
  <2>1. CASE ~y.ok
    BY <2>1 DEF EventRead
  <2>2. CASE y.ok
    <3>1. EventRead(y, End(tag)) = [y EXCEPT !.elem = ""] /\ EventRead(y, End(tag)) \in Scans
      BY <1>1, <2>2, ReadType DEF EventRead, End
    <3>. QED  BY <3>1 DEF Scans
  <2>. QED  BY <2>1, <2>2
<1>6. CASE text = ""
  <2>1. Element(tag, text) = <<Start(tag), End(tag)>>
    BY <1>6, Zenon DEF Element
  <2>2. /\ <<Start(tag), End(tag)>> \in Seq(EventRecord)
        /\ AllRead(st, <<Start(tag), End(tag)>>) = EventRead(EventRead(st, Start(tag)), End(tag))
    BY <1>1, ReadTwo
  <2>3. PICK z \in Scans : z = EventRead(a, End(tag))
    BY <1>5
  <2>4. AllRead(st, Element(tag, text)) = z
    BY <1>2, <2>1, <2>2, <2>3, Zenon
  <2>5. z.ok /\ z.key = st.key /\ z.bandSize = st.bandSize /\ z.size = st.size
        /\ z.bundleType = st.bundleType
    BY <1>4, <1>5, <2>3
  <2>6. ElementFound(st, tag, text, z)
    BY <1>6, <2>5 DEF ElementFound
  <2>. QED  BY <2>1, <2>2, <2>3, <2>4, <2>6, Zenon
<1>7. CASE text # ""
  <2>1. Element(tag, text) = <<Start(tag), Text(text), End(tag)>>
    BY <1>7, Zenon DEF Element
  <2>2. /\ <<Start(tag), Text(text), End(tag)>> \in Seq(EventRecord)
        /\ AllRead(st, <<Start(tag), Text(text), End(tag)>>) =
             EventRead(EventRead(EventRead(st, Start(tag)), Text(text)), End(tag))
    BY <1>1, ReadThree, Zenon
  <2>3. PICK y \in Scans : y = EventRead(a, Text(text))
    BY <1>1, ReadType
  <2>4. y = TextRead(a, text)
    BY <1>4, <2>3 DEF EventRead, Text
  <2>5. PICK z \in Scans : z = EventRead(y, End(tag))
    BY <1>5
  <2>6. AllRead(st, Element(tag, text)) = z
    BY <1>2, <2>1, <2>2, <2>3, <2>5, Zenon
  <2>7. ElementFound(a, tag, text, y)
    <3>1. CASE tag = "key"
      <4>1. y.ok /\ y.key = text /\ y.bandSize = a.bandSize /\ y.size = a.size
            /\ y.bundleType = a.bundleType
        BY <1>4, <2>4, <3>1, TextReadFacts
      <4>. QED  BY <1>7, <3>1, <4>1 DEF ElementFound
    <3>2. CASE tag # "key"
      <4>. DEFINE number == tag = "integer" /\ a.key \in {"band-size", "size"}
      <4>1. /\ y.ok <=> (number => text \in DOMAIN Numbers)
            /\ y.key = a.key
            /\ y.ok =>
                 /\ y.bandSize = IF number /\ a.key = "band-size" THEN Numbers[text]
                                 ELSE a.bandSize
                 /\ y.size = IF number /\ a.key = "size" THEN Numbers[text] ELSE a.size
                 /\ y.bundleType =
                      IF tag = "string" /\ a.key = "diskimage-bundle-type" THEN text
                      ELSE a.bundleType
        BY <1>4, <2>4, <3>2, TextReadFacts
      <4>. QED  BY <1>7, <3>2, <4>1, Zenon DEF ElementFound
    <3>. QED  BY <3>1, <3>2
  <2>8. ElementFound(st, tag, text, z)
    <3>1. z.ok = y.ok /\ z.key = y.key /\ z.bandSize = y.bandSize /\ z.size = y.size
          /\ z.bundleType = y.bundleType
      BY <1>5, <2>5
    <3>. QED  BY <1>4, <2>7, <3>1 DEF ElementFound
  <2>. QED  BY <2>1, <2>2, <2>5, <2>6, <2>8, Zenon
<1>. QED  BY <1>6, <1>7

(* The texts of p that have to be numbers are. *)
Numeric(p) ==
  Gives(p, "band-size", "integer") \/ Gives(p, "size", "integer") => p.text \in DOMAIN Numbers

(* What the scan of a pair finds. *)
PairFound(st, p, x) ==
  /\ x.ok <=> Numeric(p)
  /\ x.ok =>
       /\ x.bandSize = IF Gives(p, "band-size", "integer") THEN Numbers[p.text] ELSE st.bandSize
       /\ x.size = IF Gives(p, "size", "integer") THEN Numbers[p.text] ELSE st.size
       /\ x.bundleType = IF Gives(p, "diskimage-bundle-type", "string") THEN p.text
                         ELSE st.bundleType

LEMMA PairRead ==
  ASSUME NEW st \in Scans, NEW p \in Pair
  PROVE  /\ Keyed(p.key, p.tag, p.text) \in Seq(EventRecord)
         /\ AllRead(st, Keyed(p.key, p.tag, p.text)) \in Scans
         /\ ~st.ok => AllRead(st, Keyed(p.key, p.tag, p.text)) = st
         /\ st.ok => PairFound(st, p, AllRead(st, Keyed(p.key, p.tag, p.text)))
<1>. DEFINE first == Element("key", p.key)
            second == IF p.tag = "other" THEN <<Other>> ELSE Element(p.tag, p.text)
<1>1. p.key \in STRING /\ p.key # "" /\ p.tag \in STRING /\ p.text \in STRING /\ "key" \in STRING
  BY LiteralsAssumption DEF Pair
<1>2. ASSUME NEW tag \in STRING, NEW text \in STRING PROVE Element(tag, text) \in Seq(EventRecord)
  <2>1. Start(tag) \in EventRecord /\ Text(text) \in EventRecord /\ End(tag) \in EventRecord
    BY EventTypes
  <2>2. /\ <<Start(tag), End(tag)>> \in Seq(EventRecord)
        /\ <<Start(tag), Text(text), End(tag)>> \in Seq(EventRecord)
    BY <2>1, ReadTwo, ReadThree, Zenon
  <2>. QED  BY <2>2, Zenon DEF Element
<1>3. first \in Seq(EventRecord) /\ second \in Seq(EventRecord)
  <2>1. <<Other>> \in Seq(EventRecord)
    BY EventTypes
  <2>. QED  BY <1>1, <1>2, <2>1
<1>4. Keyed(p.key, p.tag, p.text) = first \o second
  BY Zenon DEF Keyed
<1>. HIDE DEF first, second
<1>5. first \o second \in Seq(EventRecord)
  BY <1>3, ConcatProperties
<1>6. AllRead(st, first \o second) = AllRead(AllRead(st, first), second)
      /\ AllRead(st, first \o second) \in Scans
  BY <1>3, <1>5, ReadInTurn, AfterFacts
<1>7. CASE ~st.ok
  <2>1. AllRead(st, first \o second) = st
    BY <1>5, <1>7, RefusedForGood
  <2>. QED  BY <1>4, <1>5, <1>6, <1>7, <2>1, Zenon
<1>8. CASE st.ok
  <2>1. PICK y \in Scans : y = AllRead(st, first) /\ ElementFound(st, "key", p.key, y)
    BY <1>1, <1>8, ElementRead DEF first
  <2>2. /\ y.ok /\ y.key = p.key /\ y.bandSize = st.bandSize /\ y.size = st.size
        /\ y.bundleType = st.bundleType
    BY <1>1, <2>1 DEF ElementFound
  <2>3. PICK z \in Scans : z = AllRead(y, second)
    BY <1>3, AfterFacts
  <2>4. CASE p.tag = "other"
    <3>1. second = <<Other>> /\ Other \in EventRecord
      BY <2>4, EventTypes DEF second
    <3>2. z = EventRead(y, Other)
      BY <2>3, <3>1, ReadOne
    <3>3. z = y
      BY <2>2, <3>2 DEF EventRead, Other
    <3>. QED  BY <1>4, <1>5, <1>6, <1>8, <2>1, <2>2, <2>3, <2>4, <3>3
              DEF PairFound, Numeric, Gives
  <2>5. CASE p.tag # "other"
    <3>1. ElementFound(y, p.tag, p.text, z)
      <4>1. second = Element(p.tag, p.text)
        BY <2>5 DEF second
      <4>. QED  BY <1>1, <2>2, <2>3, <4>1, ElementRead
    <3>2. PairFound(st, p, z)
      BY <2>2, <3>1 DEF ElementFound, PairFound, Numeric, Gives
    <3>3. AllRead(st, Keyed(p.key, p.tag, p.text)) = z
      BY <1>4, <1>6, <2>1, <2>3, Zenon
    <3>. QED  BY <1>4, <1>5, <1>8, <3>2, <3>3, Zenon
  <2>. QED  BY <2>4, <2>5
<1>. QED  BY <1>7, <1>8

-----------------------------------------------------------------------------
(* v is the text of the last of the first n pairs that gives the key, or   *)
(* the number it is; none, when no pair gives it.                          *)
Worth(tag, text) == IF tag = "integer" THEN Numbers[text] ELSE text

Stands(pairs, n, key, tag, v, none) ==
  \/ v = none /\ \A k \in 1..n : ~Gives(pairs[k], key, tag)
  \/ \E k \in 1..n :
       /\ Gives(pairs[k], key, tag) /\ v = Worth(tag, pairs[k].text)
       /\ \A j \in 1..n : Gives(pairs[j], key, tag) => j <= k

LEMMA StandsNext ==
  ASSUME NEW pairs, NEW n \in Nat, NEW key, NEW tag, NEW v, NEW w, NEW none,
         Stands(pairs, n, key, tag, v, none),
         w = IF Gives(pairs[n + 1], key, tag) THEN Worth(tag, pairs[n + 1].text) ELSE v
  PROVE  Stands(pairs, n + 1, key, tag, w, none)
<1>. DEFINE G(k) == Gives(pairs[k], key, tag)
            W(k) == Worth(tag, pairs[k].text)
<1>1. /\ \/ v = none /\ \A k \in 1..n : ~G(k)
         \/ \E k \in 1..n : G(k) /\ v = W(k) /\ \A j \in 1..n : G(j) => j <= k
      /\ w = IF G(n + 1) THEN W(n + 1) ELSE v
  BY DEF Stands
<1>. HIDE DEF G, W
<1>2. /\ n + 1 \in 1..n + 1 /\ \A k \in 1..n : k \in 1..n + 1
      /\ \A k \in 1..n + 1 : k \in 1..n \/ k = n + 1
      /\ \A k \in 1..n + 1 : k <= n + 1
  OBVIOUS
<1>3. CASE G(n + 1)
  <2>1. w = W(n + 1)
    BY <1>1, <1>3
  <2>2. \E k \in 1..n + 1 : G(k) /\ w = W(k) /\ \A j \in 1..n + 1 : G(j) => j <= k
    BY <1>2, <1>3, <2>1, Zenon
  <2>. QED  BY <2>2, Zenon DEF Stands, G, W
<1>4. CASE ~G(n + 1)
  <2>1. w = v
    BY <1>1, <1>4
  <2>2. CASE v = none /\ \A k \in 1..n : ~G(k)
    <3>1. w = none /\ \A k \in 1..n + 1 : ~G(k)
      BY <1>2, <1>4, <2>1, <2>2, Zenon
    <3>. QED  BY <3>1, Zenon DEF Stands, G, W
  <2>3. CASE \E k \in 1..n : G(k) /\ v = W(k) /\ \A j \in 1..n : G(j) => j <= k
    <3>1. PICK k \in 1..n : G(k) /\ v = W(k) /\ \A j \in 1..n : G(j) => j <= k
      BY <2>3
    <3>2. \A j \in 1..n + 1 : G(j) => j <= k
      BY <1>2, <1>4, <3>1, Zenon
    <3>3. \E i \in 1..n + 1 : G(i) /\ w = W(i) /\ \A j \in 1..n + 1 : G(j) => j <= i
      BY <1>2, <2>1, <3>1, <3>2, Zenon
    <3>. QED  BY <3>3, Zenon DEF Stands, G, W
  <2>. QED  BY <1>1, <2>2, <2>3, Zenon
<1>. QED  BY <1>3, <1>4

(* Of all the pairs, it is the last in the set of those that give the key. *)
LEMMA StandsAtEnd ==
  ASSUME NEW pairs \in Seq(Pair), NEW key, NEW tag, NEW v, NEW none,
         Stands(pairs, Len(pairs), key, tag, v, none)
  PROVE  LET at == Given(pairs, key, tag)
         IN  v = IF at = {} THEN none ELSE Worth(tag, pairs[Max(at)].text)
<1>. DEFINE at == Given(pairs, key, tag)
            N == Len(pairs)
<1>1. N \in Nat /\ DOMAIN pairs = 1..N
  BY LenProperties
<1>2. at = {k \in 1..N : Gives(pairs[k], key, tag)}
  BY <1>1 DEF Given
<1>3. at \subseteq 0..N
  BY <1>1, <1>2
<1>4. CASE at = {}
  <2>1. \A k \in 1..N : ~Gives(pairs[k], key, tag)
    BY <1>2, <1>4
  <2>2. v = none
    BY <2>1, Zenon DEF Stands
  <2>. QED  BY <1>4, <2>2
<1>5. CASE at # {}
  <2>1. PICK i \in at : TRUE
    BY <1>5
  <2>2. PICK k \in 1..N :
          /\ Gives(pairs[k], key, tag) /\ v = Worth(tag, pairs[k].text)
          /\ \A j \in 1..N : Gives(pairs[j], key, tag) => j <= k
    BY <1>2, <2>1 DEF Stands
  <2>3. k \in at /\ \A j \in at : j <= k
    BY <1>2, <2>2
  <2>. HIDE DEF at
  <2>4. Max(at) \in at /\ \A j \in at : j <= Max(at)
    BY <1>1, <1>3, <1>5, LargestOf
  <2>5. Max(at) = k
    <3>1. Max(at) <= k /\ k <= Max(at)
      BY <2>3, <2>4
    <3>2. Max(at) \in 0..N /\ k \in 0..N
      BY <1>3, <2>3, <2>4
    <3>. QED  BY <1>1, <3>1, <3>2
  <2>. QED  BY <1>5, <2>2, <2>5, Zenon DEF at
<1>. QED  BY <1>4, <1>5

(* What the scan has found after n pairs. *)
Found(pairs, n, x) ==
  /\ x \in Scans
  /\ x.ok <=> \A k \in 1..n : Numeric(pairs[k])
  /\ x.ok =>
       /\ Stands(pairs, n, "band-size", "integer", x.bandSize, Missing)
       /\ Stands(pairs, n, "size", "integer", x.size, Missing)
       /\ Stands(pairs, n, "diskimage-bundle-type", "string", x.bundleType, "")

LEMMA FoundNext ==
  ASSUME NEW pairs \in Seq(Pair), NEW n \in Nat, n < Len(pairs), NEW x, Found(pairs, n, x)
  PROVE  LET p == pairs[n + 1]
         IN  Found(pairs, n + 1, AllRead(x, Keyed(p.key, p.tag, p.text)))
<1>1. pairs[n + 1] \in Pair
  <2>1. n + 1 \in 1..Len(pairs)
    BY LenProperties
  <2>. QED  BY <2>1, ElementOfSeq
<1>2. PICK p \in Pair : p = pairs[n + 1]
  BY <1>1
<1>3. PICK st \in Scans : st = x
  BY DEF Found
<1>4. PICK y \in Scans : y = AllRead(st, Keyed(p.key, p.tag, p.text))
  BY PairRead
<1>5. (~st.ok => y = st) /\ (st.ok => PairFound(st, p, y))
  BY <1>4, PairRead
<1>6. st.ok <=> \A k \in 1..n : Numeric(pairs[k])
  BY <1>3 DEF Found
<1>7. y.ok <=> st.ok /\ Numeric(pairs[n + 1])
  BY <1>2, <1>5 DEF PairFound
<1>8. y.ok <=> \A k \in 1..n + 1 : Numeric(pairs[k])
  <2>1. /\ n + 1 \in 1..n + 1 /\ \A k \in 1..n : k \in 1..n + 1
        /\ \A k \in 1..n + 1 : k \in 1..n \/ k = n + 1
    OBVIOUS
  <2>. QED  BY <1>6, <1>7, <2>1, Zenon
<1>9. ASSUME y.ok
      PROVE  /\ Stands(pairs, n + 1, "band-size", "integer", y.bandSize, Missing)
             /\ Stands(pairs, n + 1, "size", "integer", y.size, Missing)
             /\ Stands(pairs, n + 1, "diskimage-bundle-type", "string", y.bundleType, "")
  <2>1. /\ Stands(pairs, n, "band-size", "integer", st.bandSize, Missing)
        /\ Stands(pairs, n, "size", "integer", st.size, Missing)
        /\ Stands(pairs, n, "diskimage-bundle-type", "string", st.bundleType, "")
    BY <1>3, <1>7, <1>9, Zenon DEF Found
  <2>2. /\ y.bandSize = IF Gives(p, "band-size", "integer") THEN Worth("integer", p.text)
                        ELSE st.bandSize
        /\ y.size = IF Gives(p, "size", "integer") THEN Worth("integer", p.text) ELSE st.size
        /\ y.bundleType = IF Gives(p, "diskimage-bundle-type", "string")
                          THEN Worth("string", p.text) ELSE st.bundleType
    BY <1>5, <1>7, <1>9 DEF PairFound, Worth
  <2>3. Stands(pairs, n + 1, "band-size", "integer", y.bandSize, Missing)
    BY <1>2, <2>1, <2>2, StandsNext
  <2>4. Stands(pairs, n + 1, "size", "integer", y.size, Missing)
    BY <1>2, <2>1, <2>2, StandsNext
  <2>5. Stands(pairs, n + 1, "diskimage-bundle-type", "string", y.bundleType, "")
    BY <1>2, <2>1, <2>2, StandsNext
  <2>. QED  BY <2>3, <2>4, <2>5
<1>10. Found(pairs, n + 1, y)
  BY <1>8, <1>9, Zenon DEF Found
<1>. QED  BY <1>2, <1>3, <1>4, <1>10, Zenon

(* What the scan finds in an Info.plist is what its pairs say: it refuses  *)
(* it exactly when the XML or a size is not well-formed, and otherwise has *)
(* the last value of each key (core/src/sparse.rs, parse_info_plist).      *)
THEOREM InfoPlistIsReadAsSaid ==
  ASSUME NEW pairs \in Seq(Pair), NEW wellFormed \in BOOLEAN
  PROVE  LET x == ParseInfoPlist(InfoEvents(pairs, wellFormed))
         IN  /\ x \in Scans
             /\ x.ok <=> /\ wellFormed
                         /\ \A key \in {"band-size", "size"} :
                              \A k \in Given(pairs, key, "integer") :
                                pairs[k].text \in DOMAIN Numbers
             /\ x.ok =>
                  /\ x.bandSize = NumberSaid(pairs, "band-size")
                  /\ x.size = NumberSaid(pairs, "size")
                  /\ x.bundleType =
                       IF Given(pairs, "diskimage-bundle-type", "string") = {} THEN ""
                       ELSE Said(pairs, "diskimage-bundle-type", "string")
<1>. DEFINE N == Len(pairs)
            prefix == <<Other, Start("plist"), Start("dict")>>
            parts == [k \in DOMAIN pairs |-> Keyed(pairs[k].key, pairs[k].tag, pairs[k].text)]
            suffix == IF wellFormed THEN <<End("dict"), End("plist")>> ELSE <<Malformed>>
            J == Joined(parts)
<1>1. N \in Nat /\ DOMAIN pairs = 1..N /\ \A k \in 1..N : pairs[k] \in Pair
  BY LenProperties, ElementOfSeq
<1>2. /\ "plist" \in STRING /\ "dict" \in STRING
      /\ Other \in EventRecord /\ Malformed \in EventRecord
      /\ Start("plist") \in EventRecord /\ Start("dict") \in EventRecord
      /\ End("dict") \in EventRecord /\ End("plist") \in EventRecord
  <2>1. "plist" \in STRING /\ "dict" \in STRING
    BY LiteralsAssumption
  <2>. QED  BY <2>1, EventTypes
<1>3. BeforeScan \in Scans
  <2>1. "" \in STRING
    BY LiteralsAssumption
  <2>. QED  BY <2>1 DEF BeforeScan, Scans
<1>4. prefix \in Seq(EventRecord)
      /\ AllRead(BeforeScan, prefix) =
           EventRead(EventRead(EventRead(BeforeScan, Other), Start("plist")), Start("dict"))
  BY <1>2, <1>3, ReadThree
<1>5. PICK begun \in Scans : begun = AllRead(BeforeScan, prefix)
  BY <1>3, <1>4, AfterFacts
<1>6. begun.ok /\ begun.bandSize = Missing /\ begun.size = Missing /\ begun.bundleType = ""
  <2>1. EventRead(BeforeScan, Other) = BeforeScan
    BY DEF EventRead, Other, BeforeScan
  <2>2. PICK a \in Scans : a = EventRead(BeforeScan, Start("plist"))
    BY <1>2, <1>3, ReadType
  <2>3. a = [BeforeScan EXCEPT !.elem = "plist"]
    BY <2>2 DEF EventRead, Start, BeforeScan
  <2>4. a.ok /\ a.bandSize = Missing /\ a.size = Missing /\ a.bundleType = ""
    BY <2>3 DEF BeforeScan
  <2>5. begun = EventRead(a, Start("dict"))
    BY <1>4, <1>5, <2>1, <2>2, Zenon
  <2>6. begun = [a EXCEPT !.elem = "dict"]
    BY <2>4, <2>5 DEF EventRead, Start
  <2>. QED  BY <2>4, <2>6 DEF Scans
<1>7. parts \in Seq(Seq(EventRecord)) /\ Len(parts) = N
  <2>1. \A k \in 1..N : parts[k] \in Seq(EventRecord)
    BY <1>1, <1>3, PairRead
  <2>. QED  BY <1>1, <2>1
<1>8. \A k \in 1..N : parts[k] = Keyed(pairs[k].key, pairs[k].tag, pairs[k].text)
  BY <1>1
<1>. HIDE DEF prefix, parts
<1>9. /\ J[0] = <<>> /\ \A n \in 0..N : J[n] \in Seq(EventRecord)
      /\ \A n \in 1..N : J[n] = J[n - 1] \o parts[n]
      /\ FlattenSeq(parts) = J[N] /\ FlattenSeq(parts) \in Seq(EventRecord)
  BY <1>7, JoinedFacts, FlattenIsJoined
<1>. HIDE DEF J
<1>. DEFINE T == {n \in Nat : n <= N => Found(pairs, n, AllRead(begun, J[n]))}
<1>10. 0 \in T
  <2>1. AllRead(begun, J[0]) = begun
    <3>1. <<>> \in Seq(EventRecord) /\ Len(<<>>) = 0
      BY EmptySeq
    <3>. QED  BY <1>9, <3>1, AfterFacts, AllReadIsLast
  <2>2. \A k \in 1..0 : FALSE
    OBVIOUS
  <2>3. Found(pairs, 0, begun)
    BY <1>6, <2>2, Zenon DEF Found, Stands
  <2>. QED  BY <2>1, <2>3
<1>11. ASSUME NEW n \in Nat, n \in T PROVE n + 1 \in T
  <2>1. SUFFICES ASSUME n + 1 <= N PROVE Found(pairs, n + 1, AllRead(begun, J[n + 1]))
    OBVIOUS
  <2>2. n < N /\ n \in 0..N /\ n + 1 \in 1..N /\ (n + 1) - 1 = n
    BY <1>1, <2>1
  <2>3. Found(pairs, n, AllRead(begun, J[n]))
    BY <1>11, <2>2
  <2>4. /\ J[n + 1] = J[n] \o parts[n + 1] /\ J[n] \in Seq(EventRecord)
        /\ parts[n + 1] \in Seq(EventRecord)
    <3>1. parts[n + 1] \in Seq(EventRecord)
      BY <1>7, <2>2, ElementOfSeq
    <3>. QED  BY <1>9, <2>2, <3>1
  <2>5. AllRead(begun, J[n + 1]) = AllRead(AllRead(begun, J[n]), parts[n + 1])
    BY <2>4, ReadInTurn
  <2>6. parts[n + 1] = Keyed(pairs[n + 1].key, pairs[n + 1].tag, pairs[n + 1].text)
    BY <1>8, <2>2
  <2>. QED  BY <2>2, <2>3, <2>5, <2>6, FoundNext
<1>. HIDE DEF T
<1>12. N \in T
  BY <1>1, <1>10, <1>11, ClosedUnderSuccessor
<1>13. PICK st \in Scans : st = AllRead(begun, FlattenSeq(parts)) /\ Found(pairs, N, st)
  <2>1. Found(pairs, N, AllRead(begun, J[N]))
    BY <1>1, <1>12 DEF T
  <2>2. AllRead(begun, J[N]) \in Scans
    BY <2>1, Zenon DEF Found
  <2>. QED  BY <1>9, <2>1, <2>2
<1>14. suffix \in Seq(EventRecord)
  BY <1>2
<1>15. ParseInfoPlist(InfoEvents(pairs, wellFormed)) = AllRead(st, suffix)
  <2>1. InfoEvents(pairs, wellFormed) = (prefix \o FlattenSeq(parts)) \o suffix
    BY DEF InfoEvents, prefix, parts
  <2>2. prefix \o FlattenSeq(parts) \in Seq(EventRecord)
    BY <1>4, <1>9, ConcatProperties
  <2>. HIDE DEF suffix
  <2>3. AllRead(BeforeScan, prefix \o FlattenSeq(parts)) = st
    BY <1>3, <1>4, <1>5, <1>9, <1>13, ReadInTurn
  <2>4. AllRead(BeforeScan, (prefix \o FlattenSeq(parts)) \o suffix) = AllRead(st, suffix)
    BY <1>3, <1>14, <2>2, <2>3, ReadInTurn
  <2>. QED  BY <2>1, <2>4 DEF ParseInfoPlist
<1>16. PICK x \in Scans : x = AllRead(st, suffix)
  BY <1>14, AfterFacts
<1>17. /\ x.ok <=> st.ok /\ wellFormed
       /\ x.ok => x.bandSize = st.bandSize /\ x.size = st.size /\ x.bundleType = st.bundleType
  <2>1. CASE ~st.ok
    BY <1>14, <1>16, <2>1, RefusedForGood
  <2>2. CASE st.ok /\ ~wellFormed
    <3>1. x = EventRead(st, Malformed)
      BY <1>2, <1>16, <2>2, ReadOne
    <3>2. x = [st EXCEPT !.ok = FALSE]
      BY <2>2, <3>1 DEF EventRead, Malformed
    <3>. QED  BY <2>2, <3>2 DEF Scans
  <2>3. CASE st.ok /\ wellFormed
    <3>1. x = EventRead(EventRead(st, End("dict")), End("plist"))
      BY <1>2, <1>16, <2>3, ReadTwo
    <3>2. PICK a \in Scans : a = EventRead(st, End("dict"))
      BY <1>2, ReadType
    <3>3. a = [st EXCEPT !.elem = ""]
      BY <2>3, <3>2 DEF EventRead, End
    <3>4. a.ok /\ a.bandSize = st.bandSize /\ a.size = st.size /\ a.bundleType = st.bundleType
      BY <2>3, <3>3 DEF Scans
    <3>5. x = [a EXCEPT !.elem = ""]
      BY <3>1, <3>2, <3>4 DEF EventRead, End
    <3>. QED  BY <2>3, <3>4, <3>5 DEF Scans
  <2>. QED  BY <2>1, <2>2, <2>3
<1>18. st.ok <=> \A key \in {"band-size", "size"} : \A k \in Given(pairs, key, "integer") :
                   pairs[k].text \in DOMAIN Numbers
  <2>1. st.ok <=> \A k \in 1..N : Numeric(pairs[k])
    BY <1>13 DEF Found
  <2>2. \A key : Given(pairs, key, "integer") = {k \in 1..N : Gives(pairs[k], key, "integer")}
    BY <1>1 DEF Given
  <2>. QED  BY <2>1, <2>2 DEF Numeric
<1>19. ASSUME st.ok
       PROVE  /\ st.bandSize = NumberSaid(pairs, "band-size")
              /\ st.size = NumberSaid(pairs, "size")
              /\ st.bundleType =
                   IF Given(pairs, "diskimage-bundle-type", "string") = {} THEN ""
                   ELSE Said(pairs, "diskimage-bundle-type", "string")
  <2>1. /\ Stands(pairs, N, "band-size", "integer", st.bandSize, Missing)
        /\ Stands(pairs, N, "size", "integer", st.size, Missing)
        /\ Stands(pairs, N, "diskimage-bundle-type", "string", st.bundleType, "")
    BY <1>13, <1>19, Zenon DEF Found
  <2>2. st.bandSize = NumberSaid(pairs, "band-size")
    BY <2>1, StandsAtEnd DEF NumberSaid, Worth
  <2>3. st.size = NumberSaid(pairs, "size")
    BY <2>1, StandsAtEnd DEF NumberSaid, Worth
  <2>4. st.bundleType =
          IF Given(pairs, "diskimage-bundle-type", "string") = {} THEN ""
          ELSE Said(pairs, "diskimage-bundle-type", "string")
    BY <2>1, StandsAtEnd DEF Said, Worth
  <2>. QED  BY <2>2, <2>3, <2>4
<1>. QED  BY <1>15, <1>16, <1>17, <1>18, <1>19, Zenon

-----------------------------------------------------------------------------

(* A bundle that opens is one that its Info.plist describes. *)
LEMMA OpensWhatIsDescribed ==
  ASSUME NEW i \in Infos, "ok" \in OpenOutcomes(i)
  PROVE  [bandSize |-> Parsed(i).bandSize, size |-> Parsed(i).size] \in Described
<1>. DEFINE disk == [bandSize |-> Parsed(i).bandSize, size |-> Parsed(i).size]
            type == Given(i.pairs, "diskimage-bundle-type", "string")
<1>1. i.pairs \in Seq(Pair) /\ i.wellFormed \in BOOLEAN
  BY BundleAssumption DEF Info
<1>2. /\ i.found /\ Parsed(i).ok /\ Parsed(i).bundleType = BundleType
      /\ Parsed(i).bandSize \notin {Missing, 0} /\ Parsed(i).size # Missing
  BY DEF OpenOutcomes
<1>3. /\ Parsed(i) \in Scans /\ i.wellFormed
      /\ \A key \in {"band-size", "size"} : \A k \in Given(i.pairs, key, "integer") :
           i.pairs[k].text \in DOMAIN Numbers
      /\ Parsed(i).bandSize = NumberSaid(i.pairs, "band-size")
      /\ Parsed(i).size = NumberSaid(i.pairs, "size")
      /\ Parsed(i).bundleType =
           IF type = {} THEN "" ELSE Said(i.pairs, "diskimage-bundle-type", "string")
  BY <1>1, <1>2, InfoPlistIsReadAsSaid, Zenon DEF Parsed
<1>4. Said(i.pairs, "diskimage-bundle-type", "string") = BundleType
  <2>1. BundleType # ""
    BY DEF BundleType
  <2>. QED  BY <1>2, <1>3, <2>1, Zenon
<1>5. Parsed(i).bandSize \in 1..MaxWord /\ Parsed(i).size \in Word
  <2>1. PICK x \in Scans : x = Parsed(i)
    BY <1>3
  <2>2. x.bandSize # Missing /\ x.bandSize # 0 /\ x.size # Missing
    BY <1>2, <2>1
  <2>3. x.bandSize \in Word /\ x.size \in Word
    BY <2>2 DEF Scans
  <2>4. x.bandSize \in 1..MaxWord
    BY <2>2, <2>3, WordAssumption DEF Word
  <2>. QED  BY <2>1, <2>3, <2>4
<1>6. /\ disk \in [bandSize : 1..MaxWord, size : Word]
      /\ disk.bandSize = Parsed(i).bandSize /\ disk.size = Parsed(i).size
  BY <1>5
<1>7. Describes(i, disk)
  BY <1>2, <1>3, <1>4, <1>6, Zenon DEF Describes
<1>. QED  BY <1>6, <1>7 DEF Described

(* NoFile is a value of its own. *)
NoFileIsApart ==
  /\ NoFile \notin Seq(Cell)
  /\ NoFile \notin [bandSize : 1..MaxWord, size : Word]
  /\ \A size, bytes : NoFile # [size |-> size, bytes |-> bytes]

(* What a band file gives for the byte at r of its band. *)
ByteAt(bytes, r) ==
  IF bytes = NoFile THEN ZeroByte ELSE IF r < Len(bytes) THEN bytes[r + 1] ELSE ZeroByte

-----------------------------------------------------------------------------
(* The invariant *)

Unopened ==
  info = NoFile =>
    /\ files \in InitialFiles
    /\ position = 0 /\ buffer = UntouchedBuffer(0) /\ pc = "idle"

(* The bytes of this moment have been seen. *)
SeesNow ==
  info # NoFile =>
    /\ DOMAIN seen = 0..info.size - 1
    /\ \A d \in DOMAIN seen : ByteIn(files, info.bandSize, d) \in seen[d]

InRead ==
  /\ pc = "idle" => len = 0
  /\ pc # "idle" => len \in ReadLens /\ len # 0 /\ position < info.size
  /\ pc \in {"idle", "open"} => unlinked = NoFile
  /\ pc # "copy" => avail = 0 /\ copied = <<>>

(* An open handle shows nothing that the band did not show. *)
HandleShows ==
  pc \in {"length", "copy"} =>
    /\ opened \in Seq(Cell) /\ opened # NoFile /\ band \in Names
    /\ \A d \in DOMAIN seen :
         d \div info.bandSize = band => ByteAt(opened, d % info.bandSize) \in seen[d]

(* What is copied, and the zeros owed where the file had ended. *)
Copying ==
  pc = "copy" =>
    /\ avail <= toRead
    /\ \A k \in 1..Len(copied) : copied[k] \in seen[position + k - 1]
    /\ \A k \in (avail + 1)..toRead : ZeroByte \in seen[position + k - 1]

BundleInv == TypeOK /\ Unopened /\ SeesNow /\ InRead /\ HandleShows /\ Copying

-----------------------------------------------------------------------------
(* Facts about open bundles *)

LEMMA ByteInBand ==
  ASSUME NEW stored, NEW bandSize, NEW d
  PROVE  ByteIn(stored, bandSize, d) = ByteAt(BandIn(stored, d \div bandSize), d % bandSize)
  BY DEF ByteIn, ByteAt

LEMMA InfoTypes ==
  ASSUME TypeOK, info # NoFile
  PROVE  /\ info.bandSize \in Nat \ {0} /\ info.bandSize \in 1..MaxWord
         /\ info.size \in Nat /\ info.size \in Word
         /\ position \in Nat /\ position \in Word /\ len \in Nat /\ len \in 0..MaxSize
  BY WordAssumption DEF TypeOK, Word

(* A moment gives one value for each byte of the disk. *)
LEMMA MomentFacts ==
  ASSUME NEW i, i.size \in Nat, NEW stored
  PROVE  /\ DOMAIN MomentOf(i, stored) = 0..i.size - 1
         /\ \A d \in 0..i.size - 1 :
              MomentOf(i, stored)[d] = {ByteIn(stored, i.bandSize, d)}
  BY DEF MomentOf

(* The window of the read under way. *)
LEMMA WindowOfRead ==
  ASSUME BundleInv, pc # "idle"
  PROVE  /\ info # NoFile /\ len \in Nat \ {0} /\ position \in Nat
         /\ toRead \in 1..len /\ position + toRead <= info.size
         /\ off \in Nat
         /\ \A k \in 1..toRead :
              /\ position + k - 1 \in 0..info.size - 1
              /\ position + k - 1 \in DOMAIN seen
              /\ (position + k - 1) \div info.bandSize = band
              /\ (position + k - 1) % info.bandSize = off + k - 1
<1>1. /\ info # NoFile /\ len \in Nat \ {0} /\ position < info.size
      /\ position \in Nat /\ info.size \in Nat /\ info.bandSize \in Nat \ {0}
      /\ DOMAIN seen = 0..info.size - 1
  BY InfoTypes DEF BundleInv, Unopened, InRead, SeesNow
<1>2. PICK pos \in Nat, length \in Nat \ {0}, d \in Nat \ {0}, size \in Nat :
        pos = position /\ length = len /\ d = info.bandSize /\ size = info.size
  BY <1>1
<1>3. toRead = Window(pos, length, d, size) /\ band = pos \div d /\ off = pos % d
  BY <1>2 DEF toRead, band, off
<1>4. pos < size
  BY <1>1, <1>2
<1>5. /\ Window(pos, length, d, size) \in 1..length
      /\ pos + Window(pos, length, d, size) <= size
      /\ \A k \in 1..Window(pos, length, d, size) :
           /\ (pos + k - 1) \div d = pos \div d
           /\ (pos + k - 1) % d = (pos % d) + k - 1
           /\ (pos % d) + k - 1 \in 0..d - 1
  BY <1>4, WindowFacts
<1>6. pos % d \in Nat
  BY DivisionFacts
<1>. DEFINE n == Window(pos, length, d, size)
<1>. HIDE DEF n
<1>7. n \in 1..length /\ pos + n <= size /\ \A k \in 1..n : pos + k - 1 \in 0..size - 1
  <2>1. n \in 1..length /\ pos + n <= size
    BY <1>5 DEF n
  <2>. QED  BY <2>1
<1>8. \A k \in 1..n : (pos + k - 1) \div d = band /\ (pos + k - 1) % d = off + k - 1
  BY <1>3, <1>5, Zenon DEF n
<1>. QED  BY <1>1, <1>2, <1>3, <1>6, <1>7, <1>8, Zenon DEF n

(* What an open handle shows at the k-th byte of the window. *)
LEMMA HandleAtWindow ==
  ASSUME BundleInv, pc \in {"length", "copy"}, NEW k \in 1..toRead
  PROVE  /\ opened \in Seq(Cell)
         /\ off + k <= Len(opened) => opened[off + k] \in seen[position + k - 1]
         /\ ~(off + k <= Len(opened)) => ZeroByte \in seen[position + k - 1]
<1>1. /\ position + k - 1 \in DOMAIN seen
      /\ (position + k - 1) \div info.bandSize = band
      /\ (position + k - 1) % info.bandSize = off + k - 1
      /\ off \in Nat /\ toRead \in Nat
  BY WindowOfRead
<1>2. /\ opened \in Seq(Cell) /\ opened # NoFile
      /\ ByteAt(opened, off + k - 1) \in seen[position + k - 1]
  BY <1>1 DEF BundleInv, HandleShows
<1>. QED
  <2>1. k \in Nat /\ off + k - 1 + 1 = off + k /\ Len(opened) \in Nat
    BY <1>1, <1>2
  <2>2. off + k - 1 < Len(opened) <=> off + k <= Len(opened)
    BY <1>1, <2>1
  <2>. QED  BY <1>2, <2>1, <2>2 DEF ByteAt

-----------------------------------------------------------------------------
(* Calls that end at once *)

LEMMA InitBundle == Init => BundleInv
<1>. SUFFICES ASSUME Init PROVE BundleInv
  OBVIOUS
<1>1. 0 \in 0..MaxSize /\ 0 \in Word /\ 0 \in 0..MaxEdits /\ <<>> \in Seq(Cell)
      /\ Len(<<>>) = 0
  BY WordAssumption, BundleAssumption DEF Word
<1>2. buffer \in [1..0 -> Cell]
  BY UntouchedType DEF Init
<1>3. /\ DOMAIN files = Names
      /\ \A b \in Names : files[b] = NoFile \/ files[b] \in Seq(Cell)
  BY BundleAssumption DEF Init
<1>4. TypeOK
  BY <1>1, <1>2, <1>3 DEF Init, TypeOK, Reply
<1>5. Unopened /\ SeesNow /\ InRead /\ HandleShows /\ Copying
  BY DEF Init, Unopened, SeesNow, InRead, HandleShows, Copying
<1>. QED  BY <1>4, <1>5 DEF BundleInv

LEMMA OpenStep ==
  ASSUME BundleInv, NEW i \in Infos, Open(i)
  PROVE  /\ BundleInv'
         /\ info = NoFile /\ position' = 0 /\ buffer' = UntouchedBuffer(0)
         /\ \/ /\ info' = NoFile /\ info' = info /\ seen' = seen
               /\ reply'.op = "open" /\ reply'.status # "ok"
            \/ /\ info' \in Described /\ seen' = MomentOf(info', files)
               /\ reply' = Reply("open", "ok", 0, 0)
<1>1. PICK status \in OpenOutcomes(i) :
        /\ reply' = Reply("open", status, 0, 0)
        /\ info' = IF status = "ok"
                   THEN [bandSize |-> Parsed(i).bandSize, size |-> Parsed(i).size]
                   ELSE NoFile
        /\ seen' = IF status = "ok" THEN MomentOf(info', files) ELSE seen
  BY DEF Open
<1>2. /\ info = NoFile /\ buffer' = UntouchedBuffer(0)
      /\ UNCHANGED <<files, edits, position, pc, len, unlinked, avail, copied>>
      /\ position = 0 /\ pc = "idle" /\ files \in InitialFiles
  BY DEF Open, call, BundleInv, Unopened
<1>3. /\ 0 \in 0..MaxSize /\ buffer' \in [1..0 -> Cell]
      /\ status \in {"ok", "io", "missing_info_plist", "bad_info_plist"}
  BY <1>2, WordAssumption, UntouchedType DEF OpenOutcomes
<1>4. /\ reply' \in [op : {"none", "open", "read", "seek"},
                     status : {"ok", "io", "missing_info_plist", "bad_info_plist"},
                     len : 0..MaxSize, n : 0..MaxSize]
      /\ reply'.op = "open" /\ reply'.status = status /\ reply'.len = 0 /\ reply'.n = 0
  BY <1>1, <1>3 DEF Reply
<1>5. InRead' /\ HandleShows' /\ Copying'
  BY <1>2 DEF BundleInv, InRead, HandleShows, Copying
<1>6. CASE status = "ok"
  <2>1. info' \in Described
    BY <1>1, <1>6, OpensWhatIsDescribed
  <2>2. info' \in [bandSize : 1..MaxWord, size : Word] /\ info'.size \in Nat
    BY <2>1, WordAssumption DEF Described, Word
  <2>3. TypeOK'
    BY <1>2, <1>3, <1>4, <2>2 DEF BundleInv, TypeOK
  <2>4. seen' = MomentOf(info', files')
    BY <1>1, <1>2, <1>6
  <2>5. SeesNow'
    BY <2>2, <2>4, MomentFacts DEF SeesNow
  <2>6. Unopened'
    BY <1>2 DEF Unopened
  <2>. QED  BY <1>1, <1>2, <1>5, <1>6, <2>1, <2>3, <2>4, <2>5, <2>6 DEF BundleInv
<1>7. CASE status # "ok"
  <2>1. TypeOK'
    BY <1>1, <1>2, <1>3, <1>4, <1>7 DEF BundleInv, TypeOK
  <2>2. Unopened' /\ SeesNow'
    BY <1>1, <1>2, <1>7 DEF Unopened, SeesNow
  <2>. QED  BY <1>1, <1>2, <1>4, <1>5, <1>7, <2>1, <2>2 DEF BundleInv
<1>. QED  BY <1>6, <1>7

LEMMA SeekStep ==
  ASSUME BundleInv, NEW pos \in Word, SeekTo(pos)
  PROVE  BundleInv'
<1>1. 0 \in 0..MaxSize /\ UntouchedBuffer(0) \in [1..0 -> Cell]
  BY WordAssumption, UntouchedType
<1>2. TypeOK'
  BY <1>1 DEF SeekTo, call, Reply, BundleInv, TypeOK
<1>3. Unopened' /\ SeesNow' /\ InRead' /\ HandleShows' /\ Copying'
  BY DEF SeekTo, call, BundleInv, Unopened, SeesNow, InRead, HandleShows, Copying
<1>. QED  BY <1>2, <1>3 DEF BundleInv

(* A read begins, and what the bundle shows from now on counts. *)
LEMMA ReadStep ==
  ASSUME BundleInv, NEW length \in ReadLens, Read(length)
  PROVE  BundleInv'
<1>1. /\ info # NoFile /\ pc = "idle" /\ length \in 0..MaxSize /\ length \in Nat
      /\ UNCHANGED <<info, files, edits, position>>
  BY BundleAssumption, WordAssumption DEF Read
<1>2. info.size \in Nat
  BY <1>1, InfoTypes DEF BundleInv
<1>3. CASE length = 0 \/ position >= info.size
  <2>1. /\ reply' = Reply("read", "ok", 0, length) /\ buffer' = UntouchedBuffer(length)
        /\ UNCHANGED <<pc, len, unlinked, avail, copied, seen>>
    BY <1>3 DEF Read, call
  <2>2. buffer' \in [1..length -> Cell] /\ 0 \in 0..MaxSize /\ 0 <= length
    BY <1>1, <2>1, UntouchedType, WordAssumption
  <2>3. TypeOK'
    BY <1>1, <2>1, <2>2 DEF Reply, BundleInv, TypeOK
  <2>4. Unopened' /\ SeesNow' /\ InRead' /\ HandleShows' /\ Copying'
    BY <1>1, <2>1 DEF BundleInv, Unopened, SeesNow, InRead, HandleShows, Copying
  <2>. QED  BY <2>3, <2>4 DEF BundleInv
<1>4. CASE ~(length = 0 \/ position >= info.size)
  <2>1. /\ pc' = "open" /\ len' = length /\ seen' = MomentOf(info, files)
        /\ UNCHANGED <<unlinked, avail, copied, reply, buffer>>
    BY <1>4 DEF Read, returned
  <2>2. TypeOK'
    BY <1>1, <2>1 DEF BundleInv, TypeOK
  <2>3. SeesNow'
    BY <1>1, <1>2, <2>1, MomentFacts DEF SeesNow
  <2>4. position \in Nat /\ position < info.size /\ length # 0
    BY <1>1, <1>2, <1>4, InfoTypes DEF BundleInv
  <2>5. Unopened' /\ InRead' /\ HandleShows' /\ Copying'
    BY <1>1, <2>1, <2>4 DEF BundleInv, Unopened, InRead, HandleShows, Copying
  <2>. QED  BY <2>2, <2>3, <2>5 DEF BundleInv
<1>. QED  BY <1>3, <1>4

-----------------------------------------------------------------------------
(* One read *)

(* Bytes and owed zeros that have been seen are a reply of the disk. *)
LEMMA FinishStep ==
  ASSUME BundleInv, pc # "idle",
         NEW bytes \in Seq(Cell), Len(bytes) <= toRead, Finish(bytes),
         \A k \in 1..Len(bytes) : bytes[k] \in seen[position + k - 1],
         \A k \in (Len(bytes) + 1)..toRead : ZeroByte \in seen[position + k - 1]
  PROVE  /\ BundleInv'
         /\ position' = position + toRead /\ reply' = Reply("read", "ok", toRead, len)
         /\ UNCHANGED <<info, seen>>
         /\ DOMAIN buffer' = 1..len
         /\ \A i \in 1..len :
              buffer'[i] \in IF i <= toRead THEN seen[position + i - 1] ELSE {StaleByte}
<1>. DEFINE served == bytes \o Zeros(toRead - Len(bytes))
<1>1. /\ position' = position + toRead /\ reply' = Reply("read", "ok", toRead, len)
      /\ buffer' = Filled(served, len)
      /\ pc' = "idle" /\ len' = 0 /\ unlinked' = NoFile /\ avail' = 0 /\ copied' = <<>>
      /\ UNCHANGED <<info, files, edits, seen>>
  BY DEF Finish
<1>2. /\ info # NoFile /\ len \in Nat /\ len \in 0..MaxSize /\ position \in Nat
      /\ toRead \in 1..len /\ position + toRead <= info.size /\ info.size \in Word
      /\ toRead \in Nat /\ Len(bytes) \in Nat
  BY WindowOfRead, InfoTypes DEF BundleInv
<1>3. /\ served \in Seq(Cell) /\ Len(served) = toRead
      /\ \A k \in 1..toRead :
           served[k] = IF k <= Len(bytes) THEN bytes[k] ELSE ZeroByte
  <2>1. toRead - Len(bytes) \in Nat /\ ZeroByte \in Cell
    BY <1>2 DEF ZeroByte, Cell
  <2>2. /\ Zeros(toRead - Len(bytes)) \in Seq(Cell)
        /\ Len(Zeros(toRead - Len(bytes))) = toRead - Len(bytes)
        /\ \A k \in 1..toRead - Len(bytes) : Zeros(toRead - Len(bytes))[k] = ZeroByte
    BY <2>1 DEF Zeros
  <2>. QED  BY <1>2, <2>2
<1>. HIDE DEF served
<1>4. /\ buffer' \in [1..len -> Cell]
      /\ \A i \in 1..len : buffer'[i] = IF i <= toRead THEN served[i] ELSE StaleByte
  BY <1>1, <1>2, <1>3, FilledFacts
<1>5. ASSUME NEW i \in 1..len
      PROVE  buffer'[i] \in IF i <= toRead THEN seen[position + i - 1] ELSE {StaleByte}
  <2>1. CASE i <= Len(bytes)
    <3>1. i \in 1..Len(bytes) /\ i <= toRead /\ i \in 1..toRead
      BY <1>2, <2>1
    <3>. QED  BY <1>3, <1>4, <2>1, <3>1
  <2>2. CASE ~(i <= Len(bytes)) /\ i <= toRead
    <3>1. i \in (Len(bytes) + 1)..toRead /\ i \in 1..toRead
      BY <1>2, <2>2
    <3>. QED  BY <1>3, <1>4, <2>2, <3>1
  <2>3. CASE ~(i <= toRead)
    BY <1>4, <2>3
  <2>. QED  BY <2>1, <2>2, <2>3
<1>6. /\ position + toRead \in Word /\ toRead \in 0..MaxSize /\ toRead <= len
      /\ 0 \in 0..MaxSize /\ <<>> \in Seq(Cell) /\ Len(<<>>) <= 0
  BY <1>2, WordAssumption DEF Word
<1>7. TypeOK'
  BY <1>1, <1>2, <1>4, <1>6 DEF Reply, BundleInv, TypeOK
<1>8. Unopened' /\ SeesNow' /\ InRead' /\ HandleShows' /\ Copying'
  BY <1>1, <1>2 DEF BundleInv, Unopened, SeesNow, InRead, HandleShows, Copying
<1>. QED  BY <1>1, <1>4, <1>5, <1>7, <1>8 DEF BundleInv

(* A step inside a read that changes nothing but its own progress. *)
LEMMA ProgressKeeps ==
  ASSUME BundleInv, pc # "idle", pc' # "idle",
         UNCHANGED <<info, files, edits, position, len, unlinked, reply, buffer, seen>>
  PROVE  /\ Unopened' /\ SeesNow'
         /\ toRead' = toRead /\ band' = band /\ off' = off /\ opened' = opened
<1>1. info # NoFile /\ info' # NoFile
  BY DEF BundleInv, Unopened
<1>2. Unopened' /\ SeesNow'
  BY <1>1 DEF BundleInv, Unopened, SeesNow
<1>. QED  BY <1>2 DEF toRead, band, off, opened

(* What a step inside a read does, seen from outside: it answers with      *)
(* bytes that have been seen, or nothing shows.                            *)
Answers ==
  /\ position' = position + toRead /\ reply' = Reply("read", "ok", toRead, len)
  /\ UNCHANGED <<info, seen>>
  /\ DOMAIN buffer' = 1..len
  /\ \A i \in 1..len :
       buffer'[i] \in IF i <= toRead THEN seen[position + i - 1] ELSE {StaleByte}

Hidden == UNCHANGED <<info, position, reply, buffer, seen>>

(* A band without a byte for the window is a hole. *)
LEMMA HoleStep ==
  ASSUME BundleInv, pc # "idle", Finish(<<>>),
         \A k \in 1..toRead : ZeroByte \in seen[position + k - 1]
  PROVE  BundleInv' /\ Answers
<1>. DEFINE none == <<>>
<1>1. none \in Seq(Cell) /\ Len(none) = 0
  OBVIOUS
<1>2. Finish(none)
  OBVIOUS
<1>. HIDE DEF none
<1>3. Len(none) <= toRead /\ 1..Len(none) = {} /\ (Len(none) + 1)..toRead = 1..toRead
  BY <1>1, WindowOfRead
<1>. QED  BY <1>1, <1>2, <1>3, FinishStep DEF Answers

LEMMA OpenBandStep ==
  ASSUME BundleInv, OpenBand
  PROVE  BundleInv' /\ (Answers \/ Hidden)
<1>1. /\ pc = "open" /\ info # NoFile /\ toRead \in Nat /\ unlinked = NoFile
      /\ DOMAIN seen = 0..info.size - 1
      /\ \A d \in DOMAIN seen : ByteIn(files, info.bandSize, d) \in seen[d]
  BY WindowOfRead DEF OpenBand, BundleInv, InRead, SeesNow
<1>2. CASE BandIn(files, band) = NoFile /\ Finish(<<>>)
  <2>1. ASSUME NEW k \in 1..toRead PROVE ZeroByte \in seen[position + k - 1]
    <3>1. /\ position + k - 1 \in DOMAIN seen
          /\ (position + k - 1) \div info.bandSize = band
      BY <1>1, WindowOfRead
    <3>2. ByteIn(files, info.bandSize, position + k - 1) = ZeroByte
      BY <1>2, <3>1 DEF ByteIn
    <3>. QED  BY <1>1, <3>1, <3>2
  <2>. QED  BY <1>1, <1>2, <2>1, HoleStep
<1>3. CASE BandIn(files, band) # NoFile /\ pc' = "length"
           /\ UNCHANGED <<info, files, edits, position, len, unlinked, avail, copied,
                          returned, seen>>
  <2>1. UNCHANGED <<info, files, edits, position, len, unlinked, avail, copied,
                    reply, buffer, seen>>
    BY <1>3 DEF returned
  <2>2. Unopened' /\ SeesNow' /\ band' = band /\ opened' = opened
    BY <1>1, <1>3, <2>1, ProgressKeeps
  <2>3. TypeOK' /\ InRead' /\ Copying'
    BY <1>1, <1>3, <2>1 DEF BundleInv, TypeOK, InRead, Copying
  <2>4. band \in Names /\ opened = files[band] /\ files[band] # NoFile
        /\ BandIn(files, band) = files[band] /\ opened \in Seq(Cell)
    BY <1>1, <1>3 DEF BandIn, opened, BundleInv, TypeOK
  <2>5. ASSUME NEW d \in DOMAIN seen, d \div info.bandSize = band
        PROVE  ByteAt(opened, d % info.bandSize) \in seen[d]
    BY <1>1, <2>4, <2>5, ByteInBand
  <2>6. HandleShows'
    BY <2>1, <2>2, <2>4, <2>5 DEF HandleShows
  <2>. QED  BY <2>1, <2>2, <2>3, <2>6 DEF BundleInv, Hidden
<1>. QED  BY <1>2, <1>3 DEF OpenBand

LEMMA ProbeLengthStep ==
  ASSUME BundleInv, ProbeLength
  PROVE  BundleInv' /\ (Answers \/ Hidden)
<1>1. /\ pc = "length" /\ toRead \in Nat /\ toRead \in 0..MaxSize /\ off \in Nat
      /\ avail = 0 /\ copied = <<>> /\ Len(copied) = 0
      /\ opened \in Seq(Cell) /\ Len(opened) \in Nat
  <2>1. pc = "length" /\ avail = 0 /\ copied = <<>> /\ opened \in Seq(Cell)
    BY DEF ProbeLength, BundleInv, InRead, HandleShows
  <2>2. toRead \in 1..len /\ off \in Nat /\ len \in 0..MaxSize
    BY <2>1, WindowOfRead DEF BundleInv, TypeOK
  <2>3. toRead \in Nat /\ toRead \in 0..MaxSize
    BY <2>2, WordAssumption
  <2>. QED  BY <2>1, <2>2, <2>3
<1>2. CASE off >= Len(opened) /\ Finish(<<>>)
  <2>1. ASSUME NEW k \in 1..toRead PROVE ZeroByte \in seen[position + k - 1]
    <3>1. ~(off + k <= Len(opened))
      BY <1>1, <1>2
    <3>. QED  BY <1>1, <3>1, HandleAtWindow
  <2>. QED  BY <1>1, <1>2, <2>1, HoleStep
<1>3. CASE /\ ~(off >= Len(opened)) /\ avail' = Lesser(Len(opened) - off, toRead)
           /\ pc' = "copy"
           /\ UNCHANGED <<info, files, edits, position, len, unlinked, copied,
                          returned, seen>>
  <2>1. UNCHANGED <<info, files, edits, position, len, unlinked, copied, reply,
                    buffer, seen>>
    BY <1>3 DEF returned
  <2>2. /\ Unopened' /\ SeesNow'
        /\ toRead' = toRead /\ band' = band /\ off' = off /\ opened' = opened
    BY <1>1, <1>3, <2>1, ProgressKeeps
  <2>3. /\ avail' \in Nat /\ avail' <= toRead /\ avail' \in 0..MaxSize
        /\ avail' < toRead => avail' = Len(opened) - off
    BY <1>1, <1>3, WordAssumption DEF Lesser
  <2>4. TypeOK' /\ InRead'
    BY <1>1, <1>3, <2>1, <2>3 DEF BundleInv, TypeOK, InRead
  <2>5. HandleShows'
    BY <1>1, <2>1, <2>2 DEF BundleInv, HandleShows
  <2>6. ASSUME NEW k \in (avail' + 1)..toRead PROVE ZeroByte \in seen[position + k - 1]
    <3>1. PICK had \in Nat, start \in Nat, end \in Nat, n \in Nat :
            had = avail' /\ start = off /\ end = Len(opened) /\ n = toRead
      BY <1>1, <2>3, Zenon
    <3>2. k \in (had + 1)..n /\ (had < n => had = end - start)
      BY <2>3, <3>1, Zenon
    <3>3. k \in 1..n /\ ~(start + k <= end)
      BY <3>2
    <3>. QED  BY <1>1, <3>1, <3>3, HandleAtWindow, Zenon
  <2>7. /\ 1..Len(copied') = {} /\ avail' <= toRead'
        /\ position' = position /\ seen' = seen
    BY <1>1, <2>1, <2>2, <2>3
  <2>8. Copying'
    BY <2>2, <2>6, <2>7, Zenon DEF Copying
  <2>. QED  BY <2>1, <2>2, <2>4, <2>5, <2>8 DEF BundleInv, Hidden
<1>. QED  BY <1>2, <1>3 DEF ProbeLength

(* What one system call adds is the window's, too. *)
LEMMA CopyStep ==
  ASSUME BundleInv, Copy
  PROVE  BundleInv' /\ (Answers \/ Hidden)
<1>1. /\ pc = "copy" /\ toRead \in Nat /\ off \in Nat /\ avail \in Nat /\ avail <= toRead
      /\ copied \in Seq(Cell) /\ Len(copied) \in Nat
      /\ opened \in Seq(Cell) /\ Len(opened) \in Nat
      /\ \A k \in 1..Len(copied) : copied[k] \in seen[position + k - 1]
      /\ \A k \in (avail + 1)..toRead : ZeroByte \in seen[position + k - 1]
  <2>1. pc = "copy"
    BY DEF Copy
  <2>. QED  BY <2>1, WindowOfRead DEF BundleInv, TypeOK, HandleShows, Copying
<1>2. PICK more \in 1..(avail - Len(copied)) :
        LET from == off + Len(copied)
            bytes == copied \o SubSeq(opened, from + 1, from + more)
        IN  /\ from + more <= Len(opened)
            /\ IF Len(bytes) = avail
               THEN Finish(bytes)
               ELSE /\ copied' = bytes
                    /\ UNCHANGED <<info, files, edits, position, pc, len, unlinked,
                                   avail, returned, seen>>
  BY DEF Copy
<1>. DEFINE from == off + Len(copied)
            piece == SubSeq(opened, from + 1, from + more)
            bytes == copied \o piece
<1>3. from \in Nat /\ more \in Nat /\ from + more <= Len(opened)
      /\ Len(copied) + more <= avail
  BY <1>1, <1>2
<1>4. /\ piece \in Seq(Cell) /\ Len(piece) = more
      /\ \A k \in 1..more : piece[k] = opened[from + k]
  BY <1>1, <1>3
<1>. HIDE DEF piece
<1>5. /\ bytes \in Seq(Cell) /\ Len(bytes) = Len(copied) + more
      /\ \A k \in 1..Len(bytes) :
           bytes[k] = IF k <= Len(copied) THEN copied[k] ELSE piece[k - Len(copied)]
  BY <1>1, <1>3, <1>4
<1>6. ASSUME NEW k \in 1..Len(bytes) PROVE bytes[k] \in seen[position + k - 1]
  <2>1. CASE k <= Len(copied)
    BY <1>1, <1>5, <2>1
  <2>2. CASE ~(k <= Len(copied))
    <3>1. k - Len(copied) \in 1..more /\ k \in 1..toRead /\ off + k <= Len(opened)
          /\ from + (k - Len(copied)) = off + k
      BY <1>1, <1>3, <1>5, <2>2
    <3>2. bytes[k] = opened[off + k]
      BY <1>4, <1>5, <2>2, <3>1
    <3>. QED  BY <1>1, <3>1, <3>2, HandleAtWindow
  <2>. QED  BY <2>1, <2>2
<1>. HIDE DEF bytes
<1>7. CASE Len(bytes) = avail
  <2>1. Finish(bytes)
    BY <1>2, <1>7 DEF bytes, piece
  <2>. QED  BY <1>1, <1>5, <1>6, <1>7, <2>1, FinishStep DEF Answers
<1>8. CASE Len(bytes) # avail
  <2>1. /\ copied' = bytes
        /\ UNCHANGED <<info, files, edits, position, pc, len, unlinked, avail, reply,
                       buffer, seen>>
    BY <1>2, <1>8 DEF bytes, piece, returned
  <2>2. /\ Unopened' /\ SeesNow'
        /\ toRead' = toRead /\ band' = band /\ off' = off /\ opened' = opened
    BY <1>1, <2>1, ProgressKeeps
  <2>3. TypeOK' /\ InRead'
    BY <1>1, <1>3, <1>5, <2>1 DEF BundleInv, TypeOK, InRead
  <2>4. HandleShows'
    BY <1>1, <2>1, <2>2 DEF BundleInv, HandleShows
  <2>5. Copying'
    BY <1>1, <1>6, <2>1, <2>2 DEF Copying
  <2>. QED  BY <2>1, <2>2, <2>3, <2>4, <2>5 DEF BundleInv, Hidden
<1>. QED  BY <1>7, <1>8

LEMMA FailStep ==
  ASSUME BundleInv, Fail
  PROVE  /\ BundleInv'
         /\ UNCHANGED <<info, position, seen>>
         /\ reply' = Reply("read", "io", 0, len) /\ DOMAIN buffer' = 1..len
<1>1. /\ pc # "idle" /\ reply' = Reply("read", "io", 0, len)
      /\ buffer' = Filled(copied, len)
      /\ pc' = "idle" /\ len' = 0 /\ unlinked' = NoFile /\ avail' = 0 /\ copied' = <<>>
      /\ UNCHANGED <<info, files, edits, position, seen>>
  BY DEF Fail
<1>2. /\ copied \in Seq(Cell) /\ len \in Nat /\ len \in 0..MaxSize /\ info # NoFile
      /\ 0 \in 0..MaxSize /\ <<>> \in Seq(Cell) /\ Len(<<>>) <= 0
  BY <1>1, WindowOfRead, WordAssumption DEF BundleInv, TypeOK
<1>3. buffer' \in [1..len -> Cell]
  BY <1>1, <1>2, FilledFacts
<1>4. TypeOK'
  BY <1>1, <1>2, <1>3 DEF Reply, BundleInv, TypeOK
<1>5. Unopened' /\ SeesNow' /\ InRead' /\ HandleShows' /\ Copying'
  BY <1>1, <1>2 DEF BundleInv, Unopened, SeesNow, InRead, HandleShows, Copying
<1>. QED  BY <1>1, <1>3, <1>4, <1>5 DEF BundleInv

-----------------------------------------------------------------------------
(* The other program *)

(* What a band has shown stays seen, and the handle shows the band or a    *)
(* file that is out of reach.                                              *)
LEMMA EditStep ==
  ASSUME BundleInv, NEW b \in Names, NEW bytes, bytes = NoFile \/ bytes \in Seq(Cell),
         Edit(b, bytes),
         \/ unlinked' = unlinked /\ bytes # NoFile
         \/ unlinked' = IF pc \in {"length", "copy"} /\ b = band /\ unlinked = NoFile
                        THEN files[b] ELSE unlinked
  PROVE  /\ BundleInv'
         /\ info # NoFile /\ UNCHANGED <<info, position, reply, buffer>>
<1>1. /\ info # NoFile /\ edits < MaxEdits /\ edits' = edits + 1
      /\ files' = [files EXCEPT ![b] = bytes]
      /\ seen' = [d \in DOMAIN seen |-> seen[d] \cup MomentOf(info, files')[d]]
      /\ UNCHANGED <<info, position, pc, len, avail, copied, reply, buffer>>
  BY DEF Edit, returned
<1>2. /\ info.size \in Nat /\ DOMAIN seen = 0..info.size - 1 /\ DOMAIN files = Names
      /\ \A n \in Names : files[n] = NoFile \/ files[n] \in Seq(Cell)
      /\ edits \in 0..MaxEdits /\ MaxEdits \in Nat
  BY <1>1, InfoTypes, BundleAssumption DEF BundleInv, TypeOK, SeesNow
<1>3. /\ DOMAIN seen' = DOMAIN seen
      /\ \A d \in DOMAIN seen : /\ seen[d] \subseteq seen'[d]
                              /\ ByteIn(files', info.bandSize, d) \in seen'[d]
  <2>1. DOMAIN seen' = DOMAIN seen
    BY <1>1
  <2>2. ASSUME NEW d \in DOMAIN seen
        PROVE  /\ seen[d] \subseteq seen'[d]
               /\ ByteIn(files', info.bandSize, d) \in seen'[d]
    <3>1. MomentOf(info, files')[d] = {ByteIn(files', info.bandSize, d)}
      BY <1>2, <2>2, MomentFacts
    <3>2. seen'[d] = seen[d] \cup MomentOf(info, files')[d]
      BY <1>1, <2>2
    <3>. QED  BY <3>1, <3>2
  <2>. QED  BY <2>1, <2>2
<1>4. /\ DOMAIN files' = Names
      /\ \A n \in Names : files'[n] = IF n = b THEN bytes ELSE files[n]
  BY <1>1, <1>2
<1>5. /\ pc \in {"idle", "open"} => unlinked = NoFile /\ unlinked' = NoFile
      /\ unlinked' = NoFile \/ unlinked' \in Seq(Cell)
  BY <1>2 DEF BundleInv, InRead, TypeOK
<1>6. TypeOK'
  <2>1. edits' \in 0..MaxEdits
    BY <1>1, <1>2
  <2>. QED  BY <1>1, <1>2, <1>4, <1>5, <2>1 DEF BundleInv, TypeOK
<1>7. Unopened' /\ SeesNow' /\ InRead'
  BY <1>1, <1>2, <1>3, <1>5 DEF BundleInv, Unopened, SeesNow, InRead
<1>8. band' = band /\ toRead' = toRead
  BY <1>1 DEF band, toRead
<1>9. HandleShows'
  <2>. SUFFICES ASSUME pc \in {"length", "copy"} PROVE HandleShows'
    BY <1>1 DEF HandleShows
  <2>1. /\ opened \in Seq(Cell) /\ opened # NoFile /\ band \in Names
        /\ \A d \in DOMAIN seen :
             d \div info.bandSize = band => ByteAt(opened, d % info.bandSize) \in seen[d]
    BY DEF BundleInv, HandleShows
  <2>2. CASE opened' = opened
    <3>1. ASSUME NEW d \in DOMAIN seen, d \div info.bandSize = band
          PROVE  ByteAt(opened, d % info.bandSize) \in seen'[d]
      BY <1>3, <2>1, <3>1
    <3>. QED  BY <1>1, <1>3, <1>8, <2>1, <2>2, <3>1 DEF HandleShows
  <2>3. CASE opened' = bytes /\ bytes # NoFile /\ b = band
    <3>1. bytes \in Seq(Cell) /\ BandIn(files', band) = bytes
      BY <1>4, <2>1, <2>3 DEF BandIn
    <3>2. ASSUME NEW d \in DOMAIN seen, d \div info.bandSize = band
          PROVE  ByteAt(bytes, d % info.bandSize) \in seen'[d]
      BY <1>3, <3>1, <3>2, ByteInBand
    <3>. QED  BY <1>1, <1>3, <1>8, <2>1, <2>3, <3>1, <3>2 DEF HandleShows
  <2>4. opened' = opened \/ (opened' = bytes /\ bytes # NoFile /\ b = band)
    <3>1. opened' = IF unlinked' = NoFile THEN files'[band] ELSE unlinked'
      BY <1>8 DEF opened
    <3>2. opened = IF unlinked = NoFile THEN files[band] ELSE unlinked
      BY DEF opened
    <3>. QED  BY <1>4, <2>1, <3>1, <3>2
  <2>. QED  BY <2>2, <2>3, <2>4
<1>10. Copying'
  <2>. SUFFICES ASSUME pc = "copy" PROVE Copying'
    BY <1>1 DEF Copying
  <2>1. /\ avail <= toRead
        /\ \A k \in 1..Len(copied) : copied[k] \in seen[position + k - 1]
        /\ \A k \in (avail + 1)..toRead : ZeroByte \in seen[position + k - 1]
    BY DEF BundleInv, Copying
  <2>2. /\ toRead \in Nat /\ avail \in Nat /\ Len(copied) \in Nat /\ Len(copied) <= avail
        /\ \A k \in 1..toRead : position + k - 1 \in DOMAIN seen
    BY WindowOfRead DEF BundleInv, TypeOK
  <2>3. /\ \A k \in 1..Len(copied) : k \in 1..toRead
        /\ \A k \in (avail + 1)..toRead : k \in 1..toRead
    BY <2>1, <2>2
  <2>4. ASSUME NEW k \in 1..Len(copied) PROVE copied[k] \in seen'[position + k - 1]
    <3>1. position + k - 1 \in DOMAIN seen
      BY <2>2, <2>3
    <3>. QED  BY <1>3, <2>1, <3>1
  <2>5. ASSUME NEW k \in (avail + 1)..toRead PROVE ZeroByte \in seen'[position + k - 1]
    <3>1. position + k - 1 \in DOMAIN seen
      BY <2>2, <2>3
    <3>. QED  BY <1>3, <2>1, <3>1
  <2>. QED  BY <1>1, <1>8, <2>1, <2>4, <2>5 DEF Copying
<1>. QED  BY <1>1, <1>6, <1>7, <1>9, <1>10 DEF BundleInv

LEMMA EditsStep ==
  ASSUME BundleInv, NoFileIsApart, NEW b \in Names,
         Overwrite(b) \/ Truncate(b) \/ Unlink(b)
  PROVE  /\ BundleInv'
         /\ info # NoFile /\ UNCHANGED <<info, position, reply, buffer>>
<1>1. files[b] = NoFile \/ files[b] \in Seq(Cell)
  BY DEF BundleInv, TypeOK
<1>2. ASSUME NEW bytes \in Seq(Cell) PROVE bytes # NoFile
  BY DEF NoFileIsApart
<1>3. CASE Overwrite(b)
  <2>1. PICK at \in 1..(Len(files[b]) + 1), v \in NewBytes :
          Edit(b, [i \in 1..Max({at, Len(files[b])}) |-> IF i = at THEN v ELSE files[b][i]])
    BY <1>3 DEF Overwrite
  <2>. DEFINE old == files[b]
              end == Max({at, Len(old)})
              bytes == [i \in 1..end |-> IF i = at THEN v ELSE old[i]]
  <2>2. old \in Seq(Cell) /\ Len(old) \in Nat /\ v \in Cell /\ unlinked' = unlinked
    BY <1>1, <1>3, BundleAssumption DEF Overwrite
  <2>3. end \in {at, Len(old)}
    <3>1. {at, Len(old)} \subseteq 0..(Len(old) + 1) /\ {at, Len(old)} # {}
      BY <2>2
    <3>2. Len(old) + 1 \in Nat
      BY <2>2
    <3>. HIDE DEF old
    <3>. QED  BY <3>1, <3>2, LargestOf, Zenon
  <2>4. end \in Nat /\ end <= Len(old) + 1 /\ (end = Len(old) + 1 => end = at)
    BY <2>2, <2>3
  <2>. HIDE DEF end, old
  <2>5. ASSUME NEW i \in 1..end PROVE i = at \/ old[i] \in Cell
    BY <2>2, <2>4
  <2>6. bytes \in [1..end -> Cell]
    BY <2>2, <2>5
  <2>7. bytes \in Seq(Cell)
    BY <2>4, <2>6
  <2>8. Edit(b, bytes)
    BY <2>1 DEF old, end
  <2>. HIDE DEF bytes
  <2>. QED  BY <1>2, <2>2, <2>7, <2>8, EditStep
<1>4. CASE Truncate(b)
  <2>1. PICK n \in 0..(Len(files[b]) - 1) : Edit(b, SubSeq(files[b], 1, n))
    BY <1>4 DEF Truncate
  <2>2. files[b] \in Seq(Cell) /\ unlinked' = unlinked
    BY <1>1, <1>4 DEF Truncate
  <2>3. SubSeq(files[b], 1, n) \in Seq(Cell)
    BY <2>2
  <2>. QED  BY <1>2, <2>1, <2>2, <2>3, EditStep
<1>5. CASE Unlink(b)
  <2>1. unlinked' = IF pc \in {"length", "copy"} /\ b = band /\ unlinked = NoFile
                    THEN files[b] ELSE unlinked
    BY <1>5 DEF Unlink
  <2>2. CASE Edit(b, NoFile)
    BY <2>1, <2>2, EditStep
  <2>3. ASSUME NEW v \in NewBytes, Edit(b, <<v>>)
        PROVE  BundleInv' /\ info # NoFile /\ UNCHANGED <<info, position, reply, buffer>>
    <3>. DEFINE bytes == <<v>>
    <3>1. bytes \in Seq(Cell) /\ Edit(b, bytes)
      BY <2>3, BundleAssumption
    <3>. HIDE DEF bytes
    <3>. QED  BY <2>1, <3>1, EditStep
  <2>. QED  BY <1>5, <2>2, <2>3 DEF Unlink
<1>. QED  BY <1>3, <1>4, <1>5

-----------------------------------------------------------------------------
(* The invariant holds *)

LEMMA NextBundle == NoFileIsApart /\ BundleInv /\ [Next]_vars => BundleInv'
<1>. SUFFICES ASSUME NoFileIsApart, BundleInv, [Next]_vars PROVE BundleInv'
  OBVIOUS
<1>1. CASE UNCHANGED vars
  <2>1. UNCHANGED <<info, files, edits, position, pc, len, unlinked, avail, copied,
                    reply, buffer, seen>>
    BY <1>1 DEF vars, call, returned
  <2>2. toRead' = toRead /\ band' = band /\ opened' = opened
    BY <2>1 DEF toRead, band, opened
  <2>. QED
    BY <2>1, <2>2
       DEF BundleInv, TypeOK, Unopened, SeesNow, InRead, HandleShows, Copying
<1>2. CASE \E i \in Infos : Open(i)
  BY <1>2, OpenStep
<1>3. CASE \E n \in SeekStarts : SeekTo(n)
  BY <1>3, SeekStep, BundleAssumption
<1>4. CASE \E d \in SeekDeltas :
             SeekTo(SeekWithin(info.size, d)) \/ SeekTo(SeekWithin(position, d))
  <2>1. PICK d \in Delta :
          SeekTo(SeekWithin(info.size, d)) \/ SeekTo(SeekWithin(position, d))
    BY <1>4, BundleAssumption
  <2>2. info.size \in Word /\ position \in Word
    <3>1. info # NoFile
      BY <2>1 DEF SeekTo
    <3>. QED  BY <3>1, InfoTypes DEF BundleInv
  <2>. QED  BY <2>1, <2>2, SeekStep, SeekWithinType
<1>5. CASE \E length \in ReadLens : Read(length)
  BY <1>5, ReadStep
<1>6. CASE OpenBand \/ ProbeLength \/ Copy \/ Fail
  BY <1>6, OpenBandStep, ProbeLengthStep, CopyStep, FailStep
<1>7. CASE \E b \in Names : Overwrite(b) \/ Truncate(b) \/ Unlink(b)
  BY <1>7, EditsStep
<1>. QED  BY <1>1, <1>2, <1>3, <1>4, <1>5, <1>6, <1>7 DEF Next

(* The cursor stays in u64, and no call claims more bytes than its slice   *)
(* has, whatever happens to the bundle (core/src/sparse.rs,                *)
(* SparseBundleReader).                                                    *)
THEOREM SparseBundleTypeCorrect ==
  ASSUME NoFileIsApart
  PROVE  Spec => []TypeOK
<1>1. BundleInv => TypeOK
  BY DEF BundleInv
<1>2. BundleInv /\ [Next]_vars => BundleInv'
  BY NextBundle
<1>. QED  BY <1>1, <1>2, InitBundle, PTL DEF Spec

-----------------------------------------------------------------------------
(* The refinement: each call is a step of the virtual disk that the bundle *)
(* holds, and each change by the other program one of its Changes.         *)

TheDisk == IF info = NoFile THEN NoFile ELSE [size |-> info.size, bytes |-> seen]

LEMMA SameOperators ==
  /\ VD!StaleByte = StaleByte
  /\ \A n : VD!UntouchedBuffer(n) = UntouchedBuffer(n)
  /\ \A a, b : VD!Lesser(a, b) = Lesser(a, b)
  /\ \A base, d : VD!Offset(base, d) = SeekWithin(base, d)
  BY DEF VD!StaleByte, StaleByte, VD!UntouchedBuffer, UntouchedBuffer, VD!Lesser, Lesser,
         VD!Offset, SeekWithin, VD!SatAdd, SatAdd, VD!SatSub, SatSub

LEMMA DiskFacts ==
  ASSUME NoFileIsApart, info # NoFile
  PROVE  TheDisk # NoFile /\ TheDisk.size = info.size /\ TheDisk.bytes = seen
  BY DEF TheDisk, NoFileIsApart

LEMMA InitRefines == Init => VD!Init
  BY SameOperators DEF Init, VD!Init, Reply

LEMMA OpenRefines ==
  ASSUME BundleInv, NoFileIsApart, NEW i \in Infos, Open(i)
  PROVE  VD!Opens \/ VD!FailsToOpen
<1>1. /\ info = NoFile /\ position' = 0 /\ buffer' = UntouchedBuffer(0)
      /\ position = 0 /\ buffer = UntouchedBuffer(0) /\ files \in InitialFiles
  BY OpenStep DEF BundleInv, Unopened
<1>2. CASE /\ info' = NoFile /\ info' = info /\ seen' = seen
           /\ reply'.op = "open" /\ reply'.status # "ok"
  BY <1>1, <1>2 DEF VD!FailsToOpen
<1>3. CASE /\ info' \in Described /\ seen' = MomentOf(info', files)
           /\ reply' = Reply("open", "ok", 0, 0)
  <2>1. info' # NoFile
    BY <1>3 DEF Described, NoFileIsApart
  <2>. DEFINE opens == [size |-> info'.size, bytes |-> MomentOf(info', files)]
  <2>2. opens \in {[size |-> d.size, bytes |-> MomentOf(d, stored)] :
                     d \in Described, stored \in InitialFiles}
    BY <1>1, <1>3
  <2>. QED
    BY <1>1, <1>3, <2>1, <2>2, SameOperators DEF VD!Opens, Reply
<1>. QED  BY <1>2, <1>3, OpenStep

LEMMA SeekRefines ==
  ASSUME BundleInv, NoFileIsApart, NEW pos, SeekTo(pos),
         \/ pos \in SeekStarts
         \/ \E d \in SeekDeltas : pos = SeekWithin(info.size, d) \/ pos = SeekWithin(position, d)
  PROVE  VD!Seeks
<1>1. /\ info # NoFile /\ info' = info /\ seen' = seen
      /\ position' = pos /\ reply' = Reply("seek", "ok", 0, 0)
      /\ buffer' = UntouchedBuffer(0)
  BY DEF SeekTo
<1>2. TheDisk' = TheDisk /\ TheDisk # NoFile /\ TheDisk.size = info.size
  BY <1>1, DiskFacts DEF TheDisk
<1>3. \/ position' \in SeekStarts
      \/ \E d \in SeekDeltas : \/ position' = VD!Offset(TheDisk.size, d)
                               \/ position' = VD!Offset(position, d)
  BY <1>1, <1>2, SameOperators
<1>. QED  BY <1>1, <1>2, <1>3, SameOperators DEF VD!Seeks, Reply, TheDisk

LEMMA ReadRefines ==
  ASSUME BundleInv, NoFileIsApart, NEW length \in ReadLens, Read(length)
  PROVE  VD!ReadsNothing(length) \/ VD!Changes
<1>1. /\ info # NoFile /\ UNCHANGED <<info, position>>
      /\ info' # NoFile
  BY DEF Read
<1>2. /\ TheDisk # NoFile /\ TheDisk.size = info.size
      /\ TheDisk' # NoFile /\ TheDisk'.size = info.size
  BY <1>1 DEF TheDisk, NoFileIsApart
<1>3. CASE length = 0 \/ position >= info.size
  <2>1. /\ reply' = Reply("read", "ok", 0, length) /\ buffer' = UntouchedBuffer(length)
        /\ TheDisk' = TheDisk
    BY <1>1, <1>3 DEF Read, TheDisk
  <2>. QED
    BY <1>1, <1>2, <1>3, <2>1, SameOperators DEF VD!ReadsNothing, Reply, TheDisk
<1>4. CASE ~(length = 0 \/ position >= info.size)
  <2>1. UNCHANGED <<position, reply, buffer>>
    BY <1>1, <1>4 DEF Read, returned
  <2>. QED  BY <1>2, <2>1 DEF VD!Changes, TheDisk
<1>. QED  BY <1>3, <1>4

LEMMA AnswersRefine ==
  ASSUME BundleInv, NoFileIsApart, pc # "idle", Answers
  PROVE  \E length \in ReadLens : VD!ReadsBytes(length)
<1>1. /\ info # NoFile /\ len \in ReadLens /\ len \in Nat \ {0} /\ position \in Nat
      /\ toRead \in 1..len /\ position + toRead <= info.size /\ info.size \in Nat
  BY WindowOfRead, InfoTypes DEF BundleInv, InRead
<1>2. TheDisk' = TheDisk /\ TheDisk # NoFile
      /\ TheDisk.size = info.size /\ TheDisk.bytes = seen
  BY <1>1, DiskFacts DEF TheDisk, Answers
<1>3. position < info.size /\ toRead \in 1..Lesser(len, info.size - position)
  BY <1>1 DEF Lesser
<1>4. VD!ReadsBytes(len)
  BY <1>2, <1>3, SameOperators DEF VD!ReadsBytes, Answers, Reply, TheDisk
<1>. QED  BY <1>1, <1>4

LEMMA FailRefines ==
  ASSUME BundleInv, NoFileIsApart, Fail
  PROVE  \E length \in ReadLens : VD!FailsToRead(length)
<1>1. /\ info # NoFile /\ len \in ReadLens
      /\ UNCHANGED <<info, position, seen>>
      /\ reply' = Reply("read", "io", 0, len) /\ DOMAIN buffer' = 1..len
  BY FailStep, WindowOfRead DEF Fail, BundleInv, InRead
<1>2. TheDisk' = TheDisk /\ TheDisk # NoFile
  BY <1>1, DiskFacts DEF TheDisk
<1>3. VD!FailsToRead(len)
  BY <1>1, <1>2 DEF VD!FailsToRead, Reply, TheDisk
<1>. QED  BY <1>1, <1>3

LEMMA EditsRefine ==
  ASSUME BundleInv, NoFileIsApart, NEW b \in Names,
         Overwrite(b) \/ Truncate(b) \/ Unlink(b)
  PROVE  VD!Changes
<1>1. info # NoFile /\ UNCHANGED <<info, position, reply, buffer>>
  BY EditsStep
<1>2. /\ TheDisk' # NoFile /\ TheDisk # NoFile
      /\ TheDisk.size = info.size /\ TheDisk'.size = info.size
  BY <1>1 DEF TheDisk, NoFileIsApart
<1>. QED  BY <1>1, <1>2 DEF VD!Changes, TheDisk

LEMMA NextRefines ==
  NoFileIsApart /\ BundleInv /\ [Next]_vars
    => [VD!Next \/ VD!Changes]_VD!vars
<1>. SUFFICES ASSUME NoFileIsApart, BundleInv, [Next]_vars
              PROVE  [VD!Next \/ VD!Changes]_VD!vars
  OBVIOUS
<1>1. CASE UNCHANGED vars
  BY <1>1 DEF vars, returned, VD!vars
<1>2. CASE \E i \in Infos : Open(i)
  BY <1>2, OpenRefines DEF VD!Next
<1>3. CASE \E n \in SeekStarts : SeekTo(n)
  BY <1>3, SeekRefines DEF VD!Next
<1>4. CASE \E d \in SeekDeltas :
             SeekTo(SeekWithin(info.size, d)) \/ SeekTo(SeekWithin(position, d))
  BY <1>4, SeekRefines DEF VD!Next
<1>5. CASE \E length \in ReadLens : Read(length)
  BY <1>5, ReadRefines DEF VD!Next
<1>6. CASE OpenBand \/ ProbeLength \/ Copy
  <2>1. pc # "idle" /\ (Answers \/ Hidden)
    BY <1>6, OpenBandStep, ProbeLengthStep, CopyStep DEF OpenBand, ProbeLength, Copy
  <2>2. CASE Answers
    BY <2>1, <2>2, AnswersRefine DEF VD!Next
  <2>3. CASE Hidden
    BY <2>3 DEF Hidden, VD!vars
  <2>. QED  BY <2>1, <2>2, <2>3
<1>7. CASE Fail
  BY <1>7, FailRefines DEF VD!Next
<1>8. CASE \E b \in Names : Overwrite(b) \/ Truncate(b) \/ Unlink(b)
  BY <1>8, EditsRefine
<1>. QED  BY <1>1, <1>2, <1>3, <1>4, <1>5, <1>6, <1>7, <1>8 DEF Next

(* A read beside a changing bundle may mix moments but invents nothing,    *)
(* and in a quiet one it is the disk: for every set of bands, every file   *)
(* in them, any number of changes at any place of a read, and every way    *)
(* the system portions it (core/src/sparse.rs, read of                     *)
(* SparseBundleReader).                                                    *)
THEOREM ImplementsVirtualDiskHolds ==
  ASSUME NoFileIsApart
  PROVE  Spec => ImplementsVirtualDisk
<1>1. BundleInv /\ [Next]_vars => BundleInv'
  BY NextBundle
<1>2. BundleInv /\ [Next]_vars => [VD!Next \/ VD!Changes]_VD!vars
  BY NextRefines
<1>. QED
  BY <1>1, <1>2, InitRefines, InitBundle, PTL
     DEF Spec, VD!ChangingSpec, ImplementsVirtualDisk
=============================================================================
