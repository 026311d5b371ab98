--------------------------- MODULE BlkxPlistProofs ---------------------------
(***************************************************************************)
(* parse_plist and parse_mish, for every document: its types, and, where   *)
(* sections and keys have names, which blocks the partitions are.  It is   *)
(* compared with a scan of the whole sequence of events, and the scan with *)
(* the tree of the document, field by field, entry by entry, section by    *)
(* section.                                                                *)
(***************************************************************************)
EXTENDS BlkxPlist, SequenceTheorems, WellFoundedInduction, TLAPS

-----------------------------------------------------------------------------
(* Induction over the natural numbers, for a set that holds 0 and, with    *)
(* each n, n + 1.                                                          *)
LEMMA ClosedUnderSuccessor ==
  ASSUME NEW T, 0 \in T, \A n \in Nat : n \in T => n + 1 \in T
  PROVE  \A n \in Nat : n \in T
<1>. DEFINE Less == OpToRel(<, Nat)
            Rest == {n \in Nat : n \notin T}
<1>1. IsWellFoundedOn(Less, Nat)
  BY NatLessThanWellFounded
<1>2. \A m, n \in Nat : m < n => <<m, n>> \in Less
  BY DEF OpToRel
<1>. HIDE DEF Less
<1>3. ASSUME Rest # {} PROVE FALSE
  <2>1. PICK n \in Rest : \A m \in Rest : <<m, n>> \notin Less
    BY <1>1, <1>3, WFMin
  <2>2. n \in Nat /\ n # 0 /\ n - 1 \in Nat /\ n - 1 < n /\ (n - 1) + 1 = n
    BY <2>1
  <2>3. n - 1 \in Rest
    BY <2>1, <2>2
  <2>. QED  BY <1>2, <2>1, <2>2, <2>3
<1>. QED  BY <1>3

LEMMA SmallestOf ==
  ASSUME NEW S, S \subseteq Nat, S # {}
  PROVE  Min(S) \in S /\ \A y \in S : Min(S) <= y
<1>. DEFINE Less == OpToRel(<, Nat)
<1>1. IsWellFoundedOn(Less, Nat)
  BY NatLessThanWellFounded
<1>2. \A m, n \in Nat : m < n => <<m, n>> \in Less
  BY DEF OpToRel
<1>. HIDE DEF Less
<1>3. PICK x \in S : \A y \in S : <<y, x>> \notin Less
  BY <1>1, WFMin
<1>4. ASSUME NEW y \in S PROVE x <= y
  <2>1. x \in Nat /\ y \in Nat /\ ~(y < x)
    BY <1>2, <1>3
  <2>. QED  BY <2>1
<1>. QED  BY <1>3, <1>4 DEF Min

(* The first n of the sequences ss, one after the other. *)
Joined(ss) ==
  LET joined[n \in 0..Len(ss)] == IF n = 0 THEN <<>> ELSE joined[n - 1] \o ss[n] IN joined

LEMMA JoinedUnfolds ==
  ASSUME NEW ss, Len(ss) \in Nat
  PROVE  Joined(ss) = [n \in 0..Len(ss) |-> IF n = 0 THEN <<>> ELSE Joined(ss)[n - 1] \o ss[n]]
<1>. DEFINE Solves(g, m) == g = [n \in 0..m |-> IF n = 0 THEN <<>> ELSE g[n - 1] \o ss[n]]
            T == {m \in Nat : \E g : Solves(g, m)}
<1>1. 0 \in T
  <2>1. Solves([n \in 0..0 |-> <<>>], 0)
    OBVIOUS
  <2>. QED  BY <2>1
<1>2. ASSUME NEW m \in Nat, m \in T PROVE m + 1 \in T
  <2>1. PICK g : Solves(g, m)
    BY <1>2
  <2>. DEFINE h == [n \in 0..m + 1 |-> IF n = m + 1 THEN g[m] \o ss[n] ELSE g[n]]
  <2>2. \A n \in 0..m : h[n] = g[n]
    OBVIOUS
  <2>3. \A n \in 0..m : g[n] = IF n = 0 THEN <<>> ELSE g[n - 1] \o ss[n]
    BY <2>1
  <2>4. ASSUME NEW n \in 0..m + 1
        PROVE  h[n] = IF n = 0 THEN <<>> ELSE h[n - 1] \o ss[n]
    <3>1. CASE n = m + 1
      BY <2>2, <3>1
    <3>2. CASE n \in 0..m /\ n # 0
      <4>1. n - 1 \in 0..m
        BY <3>2
      <4>2. h[n] = g[n] /\ h[n - 1] = g[n - 1]
        BY <2>2, <3>2, <4>1
      <4>3. g[n] = g[n - 1] \o ss[n]
        BY <2>3, <3>2, Zenon
      <4>. QED  BY <3>2, <4>2, <4>3, Zenon
    <3>3. CASE n = 0
      BY <2>2, <2>3, <3>3
    <3>. QED  BY <3>1, <3>2, <3>3
  <2>5. h = [n \in 0..m + 1 |-> h[n]]
    OBVIOUS
  <2>. HIDE DEF h
  <2>6. Solves(h, m + 1)
    BY <2>4, <2>5
  <2>7. \E f : Solves(f, m + 1)
    BY <2>6, Zenon
  <2>. QED  BY <2>7
<1>. HIDE DEF T
<1>3. Len(ss) \in T
  BY <1>1, <1>2, ClosedUnderSuccessor
<1>4. \E g : Solves(g, Len(ss))
  BY <1>3 DEF T
<1>. QED  BY <1>4 DEF Joined

LEMMA JoinedFacts ==
  ASSUME NEW S, NEW ss \in Seq(Seq(S))
  PROVE  /\ Len(ss) \in Nat
         /\ Joined(ss)[0] = <<>>
         /\ \A n \in 0..Len(ss) : Joined(ss)[n] \in Seq(S)
         /\ \A n \in 1..Len(ss) : Joined(ss)[n] = Joined(ss)[n - 1] \o ss[n]
<1>. DEFINE J == Joined(ss)
            N == Len(ss)
            T == {n \in Nat : n <= N => J[n] \in Seq(S)}
<1>1. N \in Nat /\ \A n \in 1..N : ss[n] \in Seq(S)
  BY LenProperties, ElementOfSeq
<1>2. \A n \in 0..N : J[n] = IF n = 0 THEN <<>> ELSE J[n - 1] \o ss[n]
  BY <1>1, JoinedUnfolds
<1>. HIDE DEF J
<1>3. J[0] = <<>> /\ \A n \in 1..N : J[n] = J[n - 1] \o ss[n]
  <2>1. 0 \in 0..N /\ \A n \in 1..N : n \in 0..N /\ n # 0
    BY <1>1
  <2>. QED  BY <1>2, <2>1, Zenon
<1>4. 0 \in T
  BY <1>3, EmptySeq
<1>5. ASSUME NEW n \in Nat, n \in T PROVE n + 1 \in T
  <2>1. SUFFICES ASSUME n + 1 <= N PROVE J[n + 1] \in Seq(S)
    OBVIOUS
  <2>2. n + 1 \in 1..N /\ (n + 1) - 1 = n /\ n <= N
    BY <1>1, <2>1
  <2>3. J[n + 1] = J[n] \o ss[n + 1]
    BY <1>3, <2>2
  <2>4. J[n] \in Seq(S) /\ ss[n + 1] \in Seq(S)
    BY <1>1, <1>5, <2>2
  <2>. QED  BY <2>3, <2>4, ConcatProperties
<1>. HIDE DEF T
<1>6. \A n \in Nat : n \in T
  BY <1>4, <1>5, ClosedUnderSuccessor
<1>7. \A n \in 0..N : J[n] \in Seq(S)
  BY <1>1, <1>6 DEF T
<1>. QED  BY <1>1, <1>3, <1>7 DEF J

(* FlattenSeq joins all of them. *)
LEMMA FlattenIsJoined ==
  ASSUME NEW S, NEW ss \in Seq(Seq(S))
  PROVE  FlattenSeq(ss) = Joined(ss)[Len(ss)] /\ FlattenSeq(ss) \in Seq(S)
<1>. DEFINE J == Joined(ss)
            N == Len(ss)
            flatten == CHOOSE f : f = [i \in 1..N |-> IF i = 1 THEN ss[i] ELSE f[i - 1] \o ss[i]]
<1>1. /\ N \in Nat /\ J[0] = <<>>
      /\ \A n \in 0..N : J[n] \in Seq(S)
      /\ \A n \in 1..N : J[n] = J[n - 1] \o ss[n]
  BY JoinedFacts
<1>. HIDE DEF J
<1>2. CASE N = 0
  BY <1>1, <1>2, EmptySeq DEF FlattenSeq, J
<1>3. CASE N # 0
  <2>1. FlattenSeq(ss) = flatten[N]
    BY <1>3 DEF FlattenSeq
  <2>2. \A n \in 1..N : ss[n] \in Seq(S)
    BY ElementOfSeq
  <2>. DEFINE h == [i \in 1..N |-> J[i]]
  <2>3. ASSUME NEW i \in 1..N PROVE h[i] = IF i = 1 THEN ss[i] ELSE h[i - 1] \o ss[i]
    <3>1. CASE i = 1
      <4>1. J[1] = J[0] \o ss[1]
        <5>1. 1 \in 1..N /\ 1 - 1 = 0
          BY <1>1, <1>3
        <5>2. J[1] = J[1 - 1] \o ss[1]
          BY <1>1, <5>1, Zenon
        <5>. QED  BY <5>1, <5>2
      <4>2. <<>> \o ss[1] = ss[1]
        BY <2>2, <3>1, ConcatEmptySeq
      <4>. QED  BY <1>1, <3>1, <4>1, <4>2
    <3>2. CASE i # 1
      <4>1. i - 1 \in 1..N
        BY <1>1, <3>2
      <4>. QED  BY <1>1, <3>2, <4>1
    <3>. QED  BY <3>1, <3>2
  <2>4. h = [i \in 1..N |-> h[i]]
    OBVIOUS
  <2>. HIDE DEF h
  <2>5. h = [i \in 1..N |-> IF i = 1 THEN ss[i] ELSE h[i - 1] \o ss[i]]
    BY <2>3, <2>4
  <2>6. flatten = [i \in 1..N |-> IF i = 1 THEN ss[i] ELSE flatten[i - 1] \o ss[i]]
    BY <2>5
  <2>. HIDE DEF flatten
  <2>. DEFINE T == {n \in Nat : n + 1 <= N => flatten[n + 1] = J[n + 1]}
  <2>7. 0 \in T
    <3>1. flatten[1] = ss[1]
      BY <1>1, <1>3, <2>6
    <3>2. J[1] = <<>> \o ss[1] /\ ss[1] \in Seq(S)
      <4>1. 1 \in 1..N /\ 1 - 1 = 0
        BY <1>1, <1>3
      <4>2. J[1] = J[1 - 1] \o ss[1]
        BY <1>1, <4>1, Zenon
      <4>. QED  BY <1>1, <2>2, <4>1, <4>2
    <3>. QED  BY <3>1, <3>2, ConcatEmptySeq
  <2>8. ASSUME NEW n \in Nat, n \in T PROVE n + 1 \in T
    <3>1. SUFFICES ASSUME n + 2 <= N PROVE flatten[n + 2] = J[n + 2]
      OBVIOUS
    <3>2. n + 2 \in 1..N /\ n + 2 # 1 /\ (n + 2) - 1 = n + 1 /\ n + 1 <= N
      BY <1>1, <3>1
    <3>3. flatten[n + 2] = flatten[n + 1] \o ss[n + 2]
      BY <2>6, <3>2
    <3>4. J[n + 2] = J[n + 1] \o ss[n + 2]
      BY <1>1, <3>2
    <3>. QED  BY <2>8, <3>2, <3>3, <3>4
  <2>. HIDE DEF T
  <2>9. \A n \in Nat : n \in T
    BY <2>7, <2>8, ClosedUnderSuccessor
  <2>10. N - 1 \in Nat /\ (N - 1) + 1 = N /\ (N - 1) + 1 <= N
    BY <1>1, <1>3
  <2>11. flatten[N] = J[N]
    BY <2>9, <2>10 DEF T
  <2>12. J[N] \in Seq(S)
    BY <1>1
  <2>. QED  BY <2>1, <2>11, <2>12 DEF J
<1>. QED  BY <1>2, <1>3

-----------------------------------------------------------------------------
(* A scan of the events: the flags and the key of the parser, the texts it *)
(* took for blocks, and whether the last of them was none (not ok), after  *)
(* which nothing is read.                                                  *)
Scans ==
  [ok : BOOLEAN, inBlkx : BOOLEAN, inData : BOOLEAN, lastKey : STRING, taken : Seq(STRING)]

Fresh == [ok |-> TRUE, inBlkx |-> FALSE, inData |-> FALSE, lastKey |-> "", taken |-> <<>>]

StartSeen(st, tag) ==
  IF tag = "array" /\ st.lastKey = "blkx" THEN [st EXCEPT !.inBlkx = TRUE]
  ELSE IF tag = "data" /\ st.inBlkx THEN [st EXCEPT !.inData = TRUE]
  ELSE st

TextSeen(st, t) ==
  IF t = "blkx" \/ ~st.inBlkx THEN [st EXCEPT !.lastKey = t]
  ELSE IF ~st.inData THEN st
  ELSE IF Sound(t) THEN [st EXCEPT !.taken = Append(@, t), !.inData = FALSE]
  ELSE [st EXCEPT !.taken = Append(@, t), !.ok = FALSE]

EndSeen(st, tag) == IF tag = "array" THEN [st EXCEPT !.inBlkx = FALSE] ELSE st

Seen(st, e) ==
  IF ~st.ok THEN st
  ELSE IF e.type = "start" THEN StartSeen(st, e.of)
  ELSE IF e.type = "text" THEN TextSeen(st, e.of)
  ELSE IF e.type = "end" THEN EndSeen(st, e.of)
  ELSE st

(* The scan after each number of events, and after all of them. *)
After(st, es) ==
  LET after[n \in 0..Len(es)] == IF n = 0 THEN st ELSE Seen(after[n - 1], es[n]) IN after

AllSeen(st, es) == After(st, es)[Len(es)]

LEMMA SeenType ==
  ASSUME NEW st \in Scans, NEW e \in EventRecord
  PROVE  Seen(st, e) \in Scans
<1>1. e.of \in STRING
  BY DEF EventRecord
<1>2. /\ st.ok \in BOOLEAN /\ st.inBlkx \in BOOLEAN /\ st.inData \in BOOLEAN
      /\ st.lastKey \in STRING /\ st.taken \in Seq(STRING)
  BY DEF Scans
<1>3. Append(st.taken, e.of) \in Seq(STRING)
  BY <1>1, <1>2, AppendProperties
<1>4. StartSeen(st, e.of) \in Scans
  BY <1>2 DEF StartSeen, Scans
<1>5. EndSeen(st, e.of) \in Scans
  BY <1>2 DEF EndSeen, Scans
<1>6. TextSeen(st, e.of) \in Scans
  BY <1>1, <1>2, <1>3 DEF TextSeen, Scans
<1>. QED  BY <1>4, <1>5, <1>6, Zenon DEF Seen

LEMMA AfterUnfolds ==
  ASSUME NEW st, NEW es, Len(es) \in Nat
  PROVE  After(st, es) =
           [n \in 0..Len(es) |-> IF n = 0 THEN st ELSE Seen(After(st, es)[n - 1], es[n])]
<1>. DEFINE Solves(g, m) == g = [n \in 0..m |-> IF n = 0 THEN st ELSE Seen(g[n - 1], es[n])]
            T == {m \in Nat : \E g : Solves(g, m)}
<1>1. 0 \in T
  <2>1. Solves([n \in 0..0 |-> st], 0)
    OBVIOUS
  <2>. QED  BY <2>1
<1>2. ASSUME NEW m \in Nat, m \in T PROVE m + 1 \in T
  <2>1. PICK g : Solves(g, m)
    BY <1>2
  <2>. DEFINE h == [n \in 0..m + 1 |-> IF n = m + 1 THEN Seen(g[m], es[n]) ELSE g[n]]
  <2>2. \A n \in 0..m : h[n] = g[n]
    OBVIOUS
  <2>3. \A n \in 0..m : g[n] = IF n = 0 THEN st ELSE Seen(g[n - 1], es[n])
    BY <2>1
  <2>4. ASSUME NEW n \in 0..m + 1
        PROVE  h[n] = IF n = 0 THEN st ELSE Seen(h[n - 1], es[n])
    <3>1. CASE n = m + 1
      BY <2>2, <3>1
    <3>2. CASE n \in 0..m /\ n # 0
      <4>1. n - 1 \in 0..m
        BY <3>2
      <4>. QED  BY <2>2, <2>3, <3>2, <4>1
    <3>3. CASE n = 0
      BY <2>2, <2>3, <3>3
    <3>. QED  BY <3>1, <3>2, <3>3
  <2>5. h = [n \in 0..m + 1 |-> h[n]]
    OBVIOUS
  <2>. HIDE DEF h
  <2>6. Solves(h, m + 1)
    BY <2>4, <2>5
  <2>7. \E f : Solves(f, m + 1)
    BY <2>6, Zenon
  <2>. QED  BY <2>7
<1>. HIDE DEF T
<1>3. Len(es) \in T
  BY <1>1, <1>2, ClosedUnderSuccessor
<1>4. \E g : Solves(g, Len(es))
  BY <1>3 DEF T
<1>. QED  BY <1>4 DEF After

LEMMA AfterFacts ==
  ASSUME NEW st \in Scans, NEW es \in Seq(EventRecord)
  PROVE  /\ Len(es) \in Nat
         /\ After(st, es)[0] = st
         /\ \A n \in 1..Len(es) : After(st, es)[n] = Seen(After(st, es)[n - 1], es[n])
         /\ \A n \in 0..Len(es) : After(st, es)[n] \in Scans
         /\ AllSeen(st, es) \in Scans
<1>. DEFINE A == After(st, es)
            N == Len(es)
            T == {n \in Nat : n <= N => A[n] \in Scans}
<1>1. N \in Nat /\ \A n \in 1..N : es[n] \in EventRecord
  BY LenProperties, ElementOfSeq
<1>2. \A n \in 0..N : A[n] = IF n = 0 THEN st ELSE Seen(A[n - 1], es[n])
  BY <1>1, AfterUnfolds
<1>. HIDE DEF A
<1>3. A[0] = st /\ \A n \in 1..N : A[n] = Seen(A[n - 1], es[n])
  <2>1. 0 \in 0..N /\ \A n \in 1..N : n \in 0..N /\ n # 0
    BY <1>1
  <2>. QED  BY <1>2, <2>1, Zenon
<1>4. 0 \in T
  BY <1>3
<1>5. ASSUME NEW n \in Nat, n \in T PROVE n + 1 \in T
  <2>1. SUFFICES ASSUME n + 1 <= N PROVE A[n + 1] \in Scans
    OBVIOUS
  <2>2. n + 1 \in 1..N /\ (n + 1) - 1 = n /\ n <= N
    BY <1>1, <2>1
  <2>3. A[n + 1] = Seen(A[n], es[n + 1])
    BY <1>3, <2>2
  <2>. QED  BY <1>1, <1>5, <2>2, <2>3, SeenType
<1>. HIDE DEF T
<1>6. \A n \in Nat : n \in T
  BY <1>4, <1>5, ClosedUnderSuccessor
<1>7. \A n \in 0..N : A[n] \in Scans
  BY <1>1, <1>6 DEF T
<1>8. N \in 0..N
  BY <1>1
<1>. QED  BY <1>1, <1>3, <1>7, <1>8 DEF A, AllSeen

LEMMA SeenNothing ==
  ASSUME NEW st \in Scans
  PROVE  AllSeen(st, <<>>) = st
<1>1. <<>> \in Seq(EventRecord) /\ Len(<<>>) = 0
  BY EmptySeq
<1>. QED  BY <1>1, AfterFacts DEF AllSeen

(* Two sequences of events are seen one after the other. *)
LEMMA SeenInTurn ==
  ASSUME NEW st \in Scans, NEW s \in Seq(EventRecord), NEW t \in Seq(EventRecord)
  PROVE  AllSeen(st, s \o t) = AllSeen(AllSeen(st, s), t)
<1>. DEFINE A == After(st, s)
            B == After(AllSeen(st, s), t)
            C == After(st, s \o t)
            T == {n \in Nat : n <= Len(s) => C[n] = A[n]}
            U == {n \in Nat : n <= Len(t) => C[Len(s) + n] = B[n]}
<1>1. /\ Len(s) \in Nat /\ A[0] = st /\ AllSeen(st, s) \in Scans
      /\ \A n \in 1..Len(s) : A[n] = Seen(A[n - 1], s[n])
  BY AfterFacts
<1>2. /\ Len(t) \in Nat /\ B[0] = AllSeen(st, s)
      /\ \A n \in 1..Len(t) : B[n] = Seen(B[n - 1], t[n])
  BY <1>1, AfterFacts
<1>3. /\ s \o t \in Seq(EventRecord) /\ Len(s \o t) = Len(s) + Len(t)
      /\ \A i \in 1..Len(s) + Len(t) : (s \o t)[i] = IF i <= Len(s) THEN s[i] ELSE t[i - Len(s)]
  BY ConcatProperties
<1>4. C[0] = st /\ \A n \in 1..Len(s) + Len(t) : C[n] = Seen(C[n - 1], (s \o t)[n])
  <2>1. s \o t \in Seq(EventRecord)
    BY <1>3
  <2>2. C[0] = st /\ \A n \in 1..Len(s \o t) : C[n] = Seen(C[n - 1], (s \o t)[n])
    BY <2>1, AfterFacts, Zenon
  <2>. QED  BY <1>3, <2>2, Zenon
<1>5. A[Len(s)] = AllSeen(st, s) /\ B[Len(t)] = AllSeen(AllSeen(st, s), t)
      /\ C[Len(s) + Len(t)] = AllSeen(st, s \o t)
  BY <1>3 DEF AllSeen
<1>. HIDE DEF A, B, C
<1>6. 0 \in T
  BY <1>1, <1>4
<1>7. ASSUME NEW n \in Nat, n \in T PROVE n + 1 \in T
  <2>1. SUFFICES ASSUME n + 1 <= Len(s) PROVE C[n + 1] = A[n + 1]
    OBVIOUS
  <2>2. /\ n + 1 \in 1..Len(s) /\ n + 1 \in 1..Len(s) + Len(t) /\ (n + 1) - 1 = n
        /\ n <= Len(s)
    BY <1>1, <1>2, <2>1
  <2>3. (s \o t)[n + 1] = s[n + 1]
    BY <1>3, <2>2
  <2>4. C[n + 1] = Seen(C[n], s[n + 1]) /\ A[n + 1] = Seen(A[n], s[n + 1])
    BY <1>1, <1>4, <2>2, <2>3
  <2>. QED  BY <1>7, <2>2, <2>4
<1>. HIDE DEF T
<1>8. C[Len(s)] = A[Len(s)]
  <2>1. \A n \in Nat : n \in T
    BY <1>6, <1>7, ClosedUnderSuccessor
  <2>. QED  BY <1>1, <2>1 DEF T
<1>9. 0 \in U
  BY <1>1, <1>2, <1>5, <1>8
<1>10. ASSUME NEW n \in Nat, n \in U PROVE n + 1 \in U
  <2>1. SUFFICES ASSUME n + 1 <= Len(t) PROVE C[Len(s) + (n + 1)] = B[n + 1]
    OBVIOUS
  <2>2. /\ n + 1 \in 1..Len(t) /\ Len(s) + (n + 1) \in 1..Len(s) + Len(t) /\ (n + 1) - 1 = n
        /\ (Len(s) + (n + 1)) - 1 = Len(s) + n /\ n <= Len(t)
        /\ ~(Len(s) + (n + 1) <= Len(s)) /\ (Len(s) + (n + 1)) - Len(s) = n + 1
    BY <1>1, <1>2, <2>1
  <2>3. (s \o t)[Len(s) + (n + 1)] = t[n + 1]
    BY <1>3, <2>2
  <2>4. C[Len(s) + (n + 1)] = Seen(C[Len(s) + n], t[n + 1]) /\ B[n + 1] = Seen(B[n], t[n + 1])
    BY <1>2, <1>4, <2>2, <2>3
  <2>. QED  BY <1>10, <2>2, <2>4
<1>. HIDE DEF U
<1>11. C[Len(s) + Len(t)] = B[Len(t)]
  <2>1. \A n \in Nat : n \in U
    BY <1>9, <1>10, ClosedUnderSuccessor
  <2>. QED  BY <1>2, <2>1 DEF U
<1>. QED  BY <1>5, <1>11

LEMMA SeenOne ==
  ASSUME NEW st \in Scans, NEW e \in EventRecord
  PROVE  <<e>> \in Seq(EventRecord) /\ AllSeen(st, <<e>>) = Seen(st, e)
<1>1. <<e>> \in Seq(EventRecord) /\ Len(<<e>>) = 1 /\ <<e>>[1] = e
  OBVIOUS
<1>2. 1 \in 1..1 /\ 1 - 1 = 0
  OBVIOUS
<1>3. After(st, <<e>>)[0] = st /\ After(st, <<e>>)[1] = Seen(After(st, <<e>>)[1 - 1], <<e>>[1])
  BY <1>1, <1>2, AfterFacts
<1>. QED  BY <1>1, <1>2, <1>3 DEF AllSeen

LEMMA SeenTwo ==
  ASSUME NEW st \in Scans, NEW a \in EventRecord, NEW b \in EventRecord
  PROVE  <<a, b>> \in Seq(EventRecord) /\ AllSeen(st, <<a, b>>) = Seen(Seen(st, a), b)
<1>1. <<a, b>> \in Seq(EventRecord) /\ Len(<<a, b>>) = 2 /\ <<a, b>>[1] = a /\ <<a, b>>[2] = b
  OBVIOUS
<1>2. 1 \in 1..2 /\ 1 - 1 = 0 /\ 2 \in 1..2 /\ 2 - 1 = 1
  OBVIOUS
<1>3. /\ After(st, <<a, b>>)[0] = st
      /\ After(st, <<a, b>>)[1] = Seen(After(st, <<a, b>>)[1 - 1], <<a, b>>[1])
      /\ After(st, <<a, b>>)[2] = Seen(After(st, <<a, b>>)[2 - 1], <<a, b>>[2])
  BY <1>1, <1>2, AfterFacts
<1>. QED  BY <1>1, <1>2, <1>3 DEF AllSeen

LEMMA SeenThree ==
  ASSUME NEW st \in Scans, NEW a \in EventRecord, NEW b \in EventRecord, NEW c \in EventRecord
  PROVE  /\ <<a, b, c>> \in Seq(EventRecord)
         /\ AllSeen(st, <<a, b, c>>) = Seen(Seen(Seen(st, a), b), c)
<1>. DEFINE es == <<a, b, c>>
<1>1. es \in Seq(EventRecord) /\ Len(es) = 3 /\ es[1] = a /\ es[2] = b /\ es[3] = c
  OBVIOUS
<1>. HIDE DEF es
<1>2. 1 \in 1..3 /\ 1 - 1 = 0 /\ 2 \in 1..3 /\ 2 - 1 = 1 /\ 3 \in 1..3 /\ 3 - 1 = 2
  OBVIOUS
<1>. DEFINE A == After(st, es)
<1>3. A[0] = st /\ \A n \in 1..3 : A[n] = Seen(A[n - 1], es[n])
  <2>1. A[0] = st /\ \A n \in 1..Len(es) : A[n] = Seen(A[n - 1], es[n])
    BY <1>1, AfterFacts, Zenon
  <2>. QED  BY <1>1, <2>1, Zenon
<1>4. AllSeen(st, es) = A[3]
  BY <1>1 DEF AllSeen
<1>. HIDE DEF A
<1>5. A[1] = Seen(A[1 - 1], es[1])
  BY <1>2, <1>3, Zenon
<1>6. A[2] = Seen(A[2 - 1], es[2])
  BY <1>2, <1>3, Zenon
<1>7. A[3] = Seen(A[3 - 1], es[3])
  BY <1>2, <1>3, Zenon
<1>8. AllSeen(st, es) = Seen(Seen(Seen(st, a), b), c)
  BY <1>1, <1>2, <1>3, <1>4, <1>5, <1>6, <1>7, Zenon
<1>. QED  BY <1>1, <1>8 DEF es

(* Of what a scan has taken nothing is dropped, and a scan that stops has  *)
(* taken one more text, the last.                                          *)
Grows(st, x) ==
  /\ Len(st.taken) <= Len(x.taken)
  /\ \A k \in 1..Len(st.taken) : x.taken[k] = st.taken[k]
  /\ ~st.ok => x = st
  /\ st.ok /\ ~x.ok => Len(st.taken) < Len(x.taken)

LEMMA SeenGrows ==
  ASSUME NEW st \in Scans, NEW e \in EventRecord
  PROVE  Grows(st, Seen(st, e))
<1>1. st.taken \in Seq(STRING) /\ Len(st.taken) \in Nat /\ e.of \in STRING
  BY LenProperties DEF Scans, EventRecord
<1>2. Grows(st, st)
  BY <1>1 DEF Grows
<1>3. st.ok => Grows(st, StartSeen(st, e.of))
  BY <1>1 DEF Grows, StartSeen, Scans
<1>4. st.ok => Grows(st, EndSeen(st, e.of))
  BY <1>1 DEF Grows, EndSeen, Scans
<1>5. /\ Len(Append(st.taken, e.of)) = Len(st.taken) + 1
      /\ \A k \in 1..Len(st.taken) : Append(st.taken, e.of)[k] = st.taken[k]
  BY <1>1, AppendProperties
<1>6. st.ok => Grows(st, TextSeen(st, e.of))
  <2>1. SUFFICES ASSUME st.ok PROVE Grows(st, TextSeen(st, e.of))
    OBVIOUS
  <2>2. ASSUME NEW x \in Scans, x.taken = st.taken, x.ok PROVE Grows(st, x)
    BY <1>1, <2>1, <2>2 DEF Grows
  <2>3. ASSUME NEW x \in Scans, x.taken = Append(st.taken, e.of) PROVE Grows(st, x)
    BY <1>1, <1>5, <2>1, <2>3 DEF Grows
  <2>4. TextSeen(st, e.of) \in Scans
    <3>1. Append(st.taken, e.of) \in Seq(STRING)
      BY <1>1, AppendProperties
    <3>. QED  BY <1>1, <3>1 DEF TextSeen, Scans
  <2>5. \/ TextSeen(st, e.of).taken = st.taken /\ TextSeen(st, e.of).ok
        \/ TextSeen(st, e.of).taken = Append(st.taken, e.of)
    BY <2>1 DEF TextSeen, Scans
  <2>. QED  BY <2>2, <2>3, <2>4, <2>5
<1>. QED  BY <1>2, <1>3, <1>4, <1>6, Zenon DEF Seen

LEMMA AllSeenGrows ==
  ASSUME NEW st \in Scans, NEW es \in Seq(EventRecord)
  PROVE  Grows(st, AllSeen(st, es))
<1>. DEFINE A == After(st, es)
            N == Len(es)
            T == {n \in Nat : n <= N => Grows(st, A[n])}
<1>1. /\ N \in Nat /\ A[0] = st /\ A[N] = AllSeen(st, es)
      /\ \A n \in 1..N : A[n] = Seen(A[n - 1], es[n])
      /\ \A n \in 0..N : A[n] \in Scans
      /\ \A n \in 1..N : es[n] \in EventRecord
  BY AfterFacts, ElementOfSeq DEF AllSeen
<1>. HIDE DEF A
<1>2. \A x \in Scans : Len(x.taken) \in Nat /\ Grows(x, x)
  <2>. SUFFICES ASSUME NEW x \in Scans PROVE Len(x.taken) \in Nat /\ Grows(x, x)
    OBVIOUS
  <2>1. x.taken \in Seq(STRING)
    BY DEF Scans
  <2>2. Len(x.taken) \in Nat
    BY <2>1, LenProperties
  <2>. QED  BY <2>2 DEF Grows
<1>3. 0 \in T
  BY <1>1, <1>2
<1>4. ASSUME NEW n \in Nat, n \in T PROVE n + 1 \in T
  <2>1. SUFFICES ASSUME n + 1 <= N PROVE Grows(st, A[n + 1])
    OBVIOUS
  <2>2. n + 1 \in 1..N /\ (n + 1) - 1 = n /\ n <= N /\ n \in 0..N /\ n + 1 \in 0..N
    BY <1>1, <2>1
  <2>3. PICK x \in Scans : x = A[n]
    BY <1>1, <2>2
  <2>4. PICK y \in Scans : y = A[n + 1]
    BY <1>1, <2>2
  <2>5. Grows(st, x)
    BY <1>4, <2>2, <2>3
  <2>6. Grows(x, y)
    <3>1. y = Seen(x, es[n + 1])
      BY <1>1, <2>2, <2>3, <2>4
    <3>. QED  BY <1>1, <2>2, <3>1, SeenGrows
  <2>7. Grows(st, y)
    <3>1. Len(st.taken) \in Nat /\ Len(x.taken) \in Nat /\ Len(y.taken) \in Nat
      BY <1>2
    <3>2. Len(st.taken) <= Len(x.taken) /\ Len(x.taken) <= Len(y.taken)
      BY <2>5, <2>6 DEF Grows
    <3>3. \A k \in 1..Len(st.taken) : k \in 1..Len(x.taken)
      BY <3>1, <3>2
    <3>4. \A k \in 1..Len(st.taken) : y.taken[k] = st.taken[k]
      BY <2>5, <2>6, <3>3 DEF Grows
    <3>5. ~st.ok => y = st
      BY <2>5, <2>6 DEF Grows
    <3>6. st.ok /\ ~y.ok => Len(st.taken) < Len(y.taken)
      <4>1. st.ok /\ ~y.ok /\ ~x.ok => Len(st.taken) < Len(x.taken)
        BY <2>5 DEF Grows
      <4>2. x.ok /\ ~y.ok => Len(x.taken) < Len(y.taken)
        BY <2>6 DEF Grows
      <4>. QED  BY <3>1, <3>2, <4>1, <4>2
    <3>. QED  BY <3>1, <3>2, <3>4, <3>5, <3>6 DEF Grows
  <2>. QED  BY <2>4, <2>7
<1>. HIDE DEF T
<1>5. \A n \in Nat : n \in T
  BY <1>3, <1>4, ClosedUnderSuccessor
<1>6. N \in Nat /\ N <= N
  BY <1>1
<1>7. Grows(st, A[N])
  BY <1>5, <1>6 DEF T
<1>. QED  BY <1>1, <1>7

-----------------------------------------------------------------------------
(* The scan and the data of the document, side by side: when each part     *)
(* leads from one relation of the two to the next, all the parts lead from *)
(* the first relation to the last.  R gives the relations, as sets.        *)
LEMMA CarriedInTurn ==
  ASSUME NEW ess \in Seq(Seq(EventRecord)), NEW dss \in Seq(Seq(STRING)), Len(dss) = Len(ess),
         NEW R,
         \A n \in 1..Len(ess) : \A st \in Scans, d \in Seq(STRING) :
           <<st, d>> \in R[n - 1] => <<AllSeen(st, ess[n]), d \o dss[n]>> \in R[n],
         NEW st \in Scans, NEW d \in Seq(STRING), <<st, d>> \in R[0]
  PROVE  <<AllSeen(st, FlattenSeq(ess)), d \o FlattenSeq(dss)>> \in R[Len(ess)]
<1>. DEFINE E == Joined(ess)
            D == Joined(dss)
            N == Len(ess)
            T == {n \in Nat : n <= N => <<AllSeen(st, E[n]), d \o D[n]>> \in R[n]}
<1>1. /\ N \in Nat /\ E[0] = <<>>
      /\ \A n \in 0..N : E[n] \in Seq(EventRecord)
      /\ \A n \in 1..N : E[n] = E[n - 1] \o ess[n]
  BY JoinedFacts
<1>2. /\ D[0] = <<>>
      /\ \A n \in 0..N : D[n] \in Seq(STRING)
      /\ \A n \in 1..N : D[n] = D[n - 1] \o dss[n]
  BY JoinedFacts
<1>3. \A n \in 1..N : ess[n] \in Seq(EventRecord) /\ dss[n] \in Seq(STRING)
  BY ElementOfSeq
<1>4. FlattenSeq(ess) = E[N] /\ FlattenSeq(dss) = D[N]
  BY FlattenIsJoined
<1>. HIDE DEF E, D
<1>5. 0 \in T
  <2>1. AllSeen(st, E[0]) = st
    BY <1>1, SeenNothing
  <2>2. d \o D[0] = d
    BY <1>2, ConcatEmptySeq
  <2>. QED  BY <2>1, <2>2
<1>6. ASSUME NEW n \in Nat, n \in T PROVE n + 1 \in T
  <2>1. SUFFICES ASSUME n + 1 <= N PROVE <<AllSeen(st, E[n + 1]), d \o D[n + 1]>> \in R[n + 1]
    OBVIOUS
  <2>2. n + 1 \in 1..N /\ (n + 1) - 1 = n /\ n <= N /\ n \in 0..N
    BY <1>1, <2>1
  <2>3. <<AllSeen(st, E[n]), d \o D[n]>> \in R[n]
    BY <1>6, <2>2
  <2>4. E[n] \in Seq(EventRecord) /\ D[n] \in Seq(STRING)
        /\ ess[n + 1] \in Seq(EventRecord) /\ dss[n + 1] \in Seq(STRING)
    BY <1>1, <1>2, <1>3, <2>2
  <2>5. AllSeen(st, E[n]) \in Scans /\ d \o D[n] \in Seq(STRING)
    BY <2>4, AfterFacts, ConcatProperties
  <2>6. <<AllSeen(AllSeen(st, E[n]), ess[n + 1]), (d \o D[n]) \o dss[n + 1]>> \in R[n + 1]
    <3>1. <<AllSeen(st, E[n]), d \o D[n]>> \in R[(n + 1) - 1]
      BY <2>2, <2>3
    <3>. QED  BY <2>2, <2>5, <3>1
  <2>7. AllSeen(st, E[n + 1]) = AllSeen(AllSeen(st, E[n]), ess[n + 1])
    <3>1. E[n + 1] = E[n] \o ess[n + 1]
      BY <1>1, <2>2
    <3>. QED  BY <2>4, <3>1, SeenInTurn
  <2>8. d \o D[n + 1] = (d \o D[n]) \o dss[n + 1]
    <3>1. D[n + 1] = D[n] \o dss[n + 1]
      BY <1>2, <2>2
    <3>2. \A a, b, c \in Seq(STRING) : (a \o b) \o c = a \o (b \o c)
      <4>. SUFFICES ASSUME NEW a \in Seq(STRING), NEW b \in Seq(STRING), NEW c \in Seq(STRING)
                    PROVE  (a \o b) \o c = a \o (b \o c)
        OBVIOUS
      <4>. QED  BY ONLY ConcatAssociative
    <3>3. (d \o D[n]) \o dss[n + 1] = d \o (D[n] \o dss[n + 1])
      BY <2>4, <3>2, Zenon
    <3>. QED  BY <3>1, <3>3, Zenon
  <2>. QED  BY <2>6, <2>7, <2>8
<1>. HIDE DEF T
<1>7. N \in T
  BY <1>1, <1>5, <1>6, ClosedUnderSuccessor
<1>8. <<AllSeen(st, E[N]), d \o D[N]>> \in R[N]
  BY <1>1, <1>7 DEF T
<1>. QED  BY <1>4, <1>8

(* One relation that every part carries on. *)
LEMMA Carried ==
  ASSUME NEW ess \in Seq(Seq(EventRecord)), NEW dss \in Seq(Seq(STRING)), Len(dss) = Len(ess),
         NEW R,
         \A n \in 1..Len(ess) : \A st \in Scans, d \in Seq(STRING) :
           <<st, d>> \in R => <<AllSeen(st, ess[n]), d \o dss[n]>> \in R,
         NEW st \in Scans, NEW d \in Seq(STRING), <<st, d>> \in R
  PROVE  <<AllSeen(st, FlattenSeq(ess)), d \o FlattenSeq(dss)>> \in R
<1>. DEFINE Rs == [n \in 0..Len(ess) |-> R]
<1>1. Len(ess) \in Nat
  BY LenProperties
<1>2. Rs[0] = R /\ Rs[Len(ess)] = R /\ \A n \in 1..Len(ess) : Rs[n - 1] = R /\ Rs[n] = R
  BY <1>1
<1>. HIDE DEF Rs
<1>3. \A n \in 1..Len(ess) : \A x \in Scans, y \in Seq(STRING) :
        <<x, y>> \in Rs[n - 1] => <<AllSeen(x, ess[n]), y \o dss[n]>> \in Rs[n]
  BY <1>2, Zenon
<1>4. <<st, d>> \in Rs[0]
  BY <1>2
<1>5. <<AllSeen(st, FlattenSeq(ess)), d \o FlattenSeq(dss)>> \in Rs[Len(ess)]
  BY <1>3, <1>4, CarriedInTurn, Zenon
<1>. QED  BY <1>2, <1>5

-----------------------------------------------------------------------------
(* What an element and a keyed field make of the scan. *)

LEMMA EventTypes ==
  /\ Other \in EventRecord
  /\ \A s \in STRING : Start(s) \in EventRecord /\ Text(s) \in EventRecord /\ End(s) \in EventRecord
<1>1. Other \in EventRecord
  BY LiteralsAssumption DEF EventRecord, Other
<1>. SUFFICES ASSUME NEW s \in STRING
              PROVE  Start(s) \in EventRecord /\ Text(s) \in EventRecord /\ End(s) \in EventRecord
  BY <1>1
<1>. QED  BY DEF EventRecord, Start, Text, End

LEMMA SeenTags ==
  ASSUME NEW st \in Scans, st.ok, NEW tag \in STRING
  PROVE  /\ Seen(st, Start(tag)) = StartSeen(st, tag)
         /\ Seen(st, Text(tag)) = TextSeen(st, tag)
         /\ Seen(st, End(tag)) = EndSeen(st, tag)
         /\ Seen(st, Other) = st
BY DEF Seen, Start, Text, End, Other

LEMMA Stopped ==
  ASSUME NEW st \in Scans, ~st.ok, NEW es \in Seq(EventRecord)
  PROVE  AllSeen(st, es) = st
BY AllSeenGrows DEF Grows

ElementSeen(st, tag, text) ==
  LET opened == Seen(st, Start(tag))
  IN  Seen(IF text = "" THEN opened ELSE Seen(opened, Text(text)), End(tag))

LEMMA ElementIsSeen ==
  ASSUME NEW st \in Scans, NEW tag \in STRING, NEW text \in STRING
  PROVE  /\ Element(tag, text) \in Seq(EventRecord)
         /\ AllSeen(st, Element(tag, text)) = ElementSeen(st, tag, text)
         /\ ElementSeen(st, tag, text) \in Scans
<1>1. Start(tag) \in EventRecord /\ Text(text) \in EventRecord /\ End(tag) \in EventRecord
  BY EventTypes
<1>2. CASE text = ""
  <2>1. Element(tag, text) = <<Start(tag), End(tag)>>
    BY <1>2, Zenon DEF Element
  <2>2. ElementSeen(st, tag, text) = Seen(Seen(st, Start(tag)), End(tag))
    BY <1>2, Zenon DEF ElementSeen
  <2>3. AllSeen(st, <<Start(tag), End(tag)>>) = Seen(Seen(st, Start(tag)), End(tag))
        /\ <<Start(tag), End(tag)>> \in Seq(EventRecord)
    BY <1>1, SeenTwo
  <2>4. Seen(Seen(st, Start(tag)), End(tag)) \in Scans
    BY <1>1, SeenType
  <2>. QED  BY <2>1, <2>2, <2>3, <2>4, Zenon
<1>3. CASE text # ""
  <2>1. Element(tag, text) = <<Start(tag), Text(text), End(tag)>>
    BY <1>3, Zenon DEF Element
  <2>2. ElementSeen(st, tag, text) = Seen(Seen(Seen(st, Start(tag)), Text(text)), End(tag))
    BY <1>3, Zenon DEF ElementSeen
  <2>3. /\ <<Start(tag), Text(text), End(tag)>> \in Seq(EventRecord)
        /\ AllSeen(st, <<Start(tag), Text(text), End(tag)>>) =
             Seen(Seen(Seen(st, Start(tag)), Text(text)), End(tag))
    BY <1>1, SeenThree, Zenon
  <2>4. Seen(Seen(Seen(st, Start(tag)), Text(text)), End(tag)) \in Scans
    <3>1. Seen(Seen(st, Start(tag)), Text(text)) \in Scans
      BY <1>1, SeenType
    <3>. QED  BY <1>1, <3>1, SeenType
  <2>. QED  BY <2>1, <2>2, <2>3, <2>4, Zenon
<1>. QED  BY <1>2, <1>3

LEMMA PlainElementSeen ==
  ASSUME NEW st \in Scans, st.ok, NEW tag \in STRING, tag \notin {"array", "data"},
         NEW text \in STRING
  PROVE  ElementSeen(st, tag, text) = IF text = "" THEN st ELSE TextSeen(st, text)
<1>1. Seen(st, Start(tag)) = st
  <2>1. StartSeen(st, tag) = st
    BY Zenon DEF StartSeen
  <2>. QED  BY <2>1, SeenTags
<1>2. ASSUME NEW y \in Scans PROVE Seen(y, End(tag)) = y
  <2>1. EndSeen(y, tag) = y
    BY Zenon DEF EndSeen
  <2>. QED  BY <2>1, SeenTags DEF Seen
<1>3. Seen(st, Text(text)) = TextSeen(st, text) /\ Seen(st, Text(text)) \in Scans
  BY EventTypes, SeenTags, SeenType
<1>4. ElementSeen(st, tag, text) = Seen(IF text = "" THEN st ELSE TextSeen(st, text), End(tag))
  BY <1>1, <1>3, Zenon DEF ElementSeen
<1>. QED  BY <1>2, <1>3, <1>4, Zenon

LEMMA KeySeen ==
  ASSUME NEW st \in Scans, st.ok, NEW key \in STRING, key \notin {"", "blkx"}
  PROVE  /\ ~st.inBlkx => ElementSeen(st, "key", key) = [st EXCEPT !.lastKey = key]
         /\ st.inBlkx /\ ~st.inData => ElementSeen(st, "key", key) = st
         /\ st.inBlkx /\ st.inData /\ ~Sound(key) =>
              ElementSeen(st, "key", key) = [st EXCEPT !.taken = Append(@, key), !.ok = FALSE]
<1>1. "key" \in STRING /\ "key" \notin {"array", "data"}
  BY LiteralsAssumption
<1>2. ElementSeen(st, "key", key) = TextSeen(st, key)
  BY <1>1, PlainElementSeen
<1>. QED  BY <1>2, Zenon DEF TextSeen

(* Where the scan stands outside the array, and what it has taken.         *)
Outside(st, taken, flag) ==
  st.ok /\ ~st.inBlkx /\ st.taken = taken /\ st.inData = flag

LEMMA OutsideText ==
  ASSUME NEW st \in Scans, NEW taken, NEW flag, Outside(st, taken, flag), NEW t \in STRING
  PROVE  Outside(TextSeen(st, t), taken, flag)
BY DEF TextSeen, Outside, Scans

LEMMA OutsideElement ==
  ASSUME NEW st \in Scans, NEW taken, NEW flag, Outside(st, taken, flag),
         NEW tag \in STRING, tag # "array" \/ st.lastKey # "blkx", NEW text \in STRING
  PROVE  Outside(ElementSeen(st, tag, text), taken, flag)
<1>1. Seen(st, Start(tag)) = st
  <2>1. StartSeen(st, tag) = st
    BY Zenon DEF StartSeen, Outside
  <2>. QED  BY <2>1, SeenTags DEF Outside
<1>2. ASSUME NEW y \in Scans, Outside(y, taken, flag)
      PROVE  Outside(Seen(y, End(tag)), taken, flag)
  <2>1. Outside(EndSeen(y, tag), taken, flag)
    BY <1>2 DEF EndSeen, Outside, Scans
  <2>2. Seen(y, End(tag)) = EndSeen(y, tag)
    BY <1>2, SeenTags DEF Outside
  <2>. QED  BY <2>1, <2>2
<1>3. /\ Seen(st, Text(text)) = TextSeen(st, text) /\ Seen(st, Text(text)) \in Scans
      /\ Outside(TextSeen(st, text), taken, flag)
  BY EventTypes, SeenTags, SeenType, OutsideText DEF Outside
<1>. QED  BY <1>1, <1>2, <1>3, Zenon DEF ElementSeen

FieldSeen(st, f) ==
  LET keyed == ElementSeen(st, "key", f.key)
  IN  IF f.tag = "array"
      THEN Seen(ElementSeen(Seen(keyed, Start("array")), "string", f.text), End("array"))
      ELSE IF f.tag = "other" THEN keyed
      ELSE ElementSeen(keyed, f.tag, f.text)

LEMMA FieldIsSeen ==
  ASSUME NEW st \in Scans, NEW f \in Field
  PROVE  /\ FieldEvents(f) \in Seq(EventRecord)
         /\ AllSeen(st, FieldEvents(f)) = FieldSeen(st, f)
         /\ FieldSeen(st, f) \in Scans
<1>. DEFINE keyed == ElementSeen(st, "key", f.key)
            K == Element("key", f.key)
<1>1. /\ f.key \in STRING /\ f.tag \in STRING /\ f.text \in STRING
      /\ "key" \in STRING /\ "string" \in STRING /\ "array" \in STRING
  BY LiteralsAssumption DEF Field
<1>2. keyed \in Scans /\ K \in Seq(EventRecord) /\ AllSeen(st, K) = keyed
  BY <1>1, ElementIsSeen
<1>. HIDE DEF keyed, K
<1>3. CASE f.tag = "array"
  <2>. DEFINE opened == Seen(keyed, Start("array"))
              listed == ElementSeen(opened, "string", f.text)
              B == <<Start("array")>>
              L == Element("string", f.text)
              C == <<End("array")>>
  <2>1. FieldEvents(f) = ((K \o B) \o L) \o C
    BY <1>3, Zenon DEF FieldEvents, K
  <2>2. FieldSeen(st, f) = Seen(listed, End("array"))
    BY <1>3, Zenon DEF FieldSeen, keyed
  <2>3. Start("array") \in EventRecord /\ End("array") \in EventRecord
    BY <1>1, EventTypes
  <2>4. opened \in Scans /\ B \in Seq(EventRecord) /\ AllSeen(keyed, B) = opened
    BY <1>2, <2>3, SeenOne, SeenType
  <2>. HIDE DEF opened, B
  <2>5. listed \in Scans /\ L \in Seq(EventRecord) /\ AllSeen(opened, L) = listed
    BY <1>1, <2>4, ElementIsSeen
  <2>. HIDE DEF listed, L
  <2>6. /\ Seen(listed, End("array")) \in Scans /\ C \in Seq(EventRecord)
        /\ AllSeen(listed, C) = Seen(listed, End("array"))
    BY <2>3, <2>5, SeenOne, SeenType
  <2>. HIDE DEF C
  <2>7. K \o B \in Seq(EventRecord) /\ AllSeen(st, K \o B) = opened
    BY <1>2, <2>4, SeenInTurn, ConcatProperties
  <2>8. (K \o B) \o L \in Seq(EventRecord) /\ AllSeen(st, (K \o B) \o L) = listed
    BY <2>5, <2>7, SeenInTurn, ConcatProperties
  <2>9. /\ ((K \o B) \o L) \o C \in Seq(EventRecord)
        /\ AllSeen(st, ((K \o B) \o L) \o C) = Seen(listed, End("array"))
    BY <2>6, <2>8, SeenInTurn, ConcatProperties
  <2>. QED  BY <2>1, <2>2, <2>6, <2>9, Zenon
<1>4. CASE f.tag = "other"
  <2>1. FieldEvents(f) = K \o <<Other>>
    BY <1>4, Zenon DEF FieldEvents, Keyed, K
  <2>2. Seen(keyed, Other) = keyed
    BY DEF Seen, Other
  <2>3. <<Other>> \in Seq(EventRecord) /\ AllSeen(keyed, <<Other>>) = keyed
    BY <1>2, <2>2, EventTypes, SeenOne
  <2>4. K \o <<Other>> \in Seq(EventRecord) /\ AllSeen(st, K \o <<Other>>) = keyed
    BY <1>2, <2>3, SeenInTurn, ConcatProperties
  <2>5. FieldSeen(st, f) = keyed
    BY <1>4, Zenon DEF FieldSeen, keyed
  <2>. QED  BY <1>2, <2>1, <2>4, <2>5, Zenon
<1>5. CASE f.tag \notin {"array", "other"}
  <2>. DEFINE V == Element(f.tag, f.text)
              valued == ElementSeen(keyed, f.tag, f.text)
  <2>1. FieldEvents(f) = K \o V
    BY <1>5, Zenon DEF FieldEvents, Keyed, K
  <2>2. FieldSeen(st, f) = valued
    BY <1>5, Zenon DEF FieldSeen, keyed
  <2>3. V \in Seq(EventRecord) /\ AllSeen(keyed, V) = valued /\ valued \in Scans
    BY <1>1, <1>2, ElementIsSeen
  <2>. HIDE DEF V, valued
  <2>4. K \o V \in Seq(EventRecord) /\ AllSeen(st, K \o V) = valued
    BY <1>2, <2>3, SeenInTurn, ConcatProperties
  <2>. QED  BY <2>1, <2>2, <2>3, <2>4, Zenon
<1>. QED  BY <1>3, <1>4, <1>5

(* A keyed field outside the array changes the key at most.                *)
LEMMA OutsideField ==
  ASSUME NEW st \in Scans, NEW taken, NEW flag, Outside(st, taken, flag),
         NEW f \in Field, f.key \notin {"", "blkx"}
  PROVE  Outside(AllSeen(st, FieldEvents(f)), taken, flag)
<1>. DEFINE keyed == ElementSeen(st, "key", f.key)
<1>1. /\ f.key \in STRING /\ f.tag \in STRING /\ f.text \in STRING
      /\ "key" \in STRING /\ "string" \in STRING /\ "array" \in STRING
  BY LiteralsAssumption DEF Field
<1>2. keyed \in Scans /\ Outside(keyed, taken, flag) /\ keyed.lastKey # "blkx"
  <2>1. keyed = [st EXCEPT !.lastKey = f.key]
    BY <1>1, KeySeen DEF Outside
  <2>. QED  BY <1>1, <2>1 DEF Outside, Scans
<1>. HIDE DEF keyed
<1>3. CASE f.tag = "array"
  <2>1. Seen(keyed, Start("array")) = keyed
    <3>1. StartSeen(keyed, "array") = keyed
      BY <1>2, Zenon DEF StartSeen, Outside
    <3>. QED  BY <1>1, <1>2, <3>1, SeenTags DEF Outside
  <2>2. /\ ElementSeen(keyed, "string", f.text) \in Scans
        /\ Outside(ElementSeen(keyed, "string", f.text), taken, flag)
    BY <1>1, <1>2, ElementIsSeen, OutsideElement
  <2>3. ASSUME NEW y \in Scans, Outside(y, taken, flag)
        PROVE  Outside(Seen(y, End("array")), taken, flag)
    <3>1. Outside(EndSeen(y, "array"), taken, flag)
      BY <2>3 DEF EndSeen, Outside, Scans
    <3>2. Seen(y, End("array")) = EndSeen(y, "array")
      BY <1>1, <2>3, SeenTags DEF Outside
    <3>. QED  BY <3>1, <3>2
  <2>4. FieldSeen(st, f) = Seen(ElementSeen(keyed, "string", f.text), End("array"))
    BY <1>3, <2>1, Zenon DEF FieldSeen, keyed
  <2>. QED  BY <2>2, <2>3, <2>4, FieldIsSeen
<1>4. CASE f.tag = "other"
  <2>1. FieldSeen(st, f) = keyed
    BY <1>4, Zenon DEF FieldSeen, keyed
  <2>. QED  BY <1>2, <2>1, FieldIsSeen
<1>5. CASE f.tag \notin {"array", "other"}
  <2>1. FieldSeen(st, f) = ElementSeen(keyed, f.tag, f.text)
    BY <1>5, Zenon DEF FieldSeen, keyed
  <2>2. Outside(ElementSeen(keyed, f.tag, f.text), taken, flag)
    BY <1>1, <1>2, <1>5, OutsideElement
  <2>. QED  BY <2>1, <2>2, FieldIsSeen
<1>. QED  BY <1>3, <1>4, <1>5

-----------------------------------------------------------------------------
(* Inside the blkx section, d being the data up to here: as long as the    *)
(* scan goes on, what it took is the first of d, and all of d if it can    *)
(* still take more; when it stops, all but the last text are.  Of a plain  *)
(* section it takes everything, and stops only at data.                    *)
Held(t, n, d) == n <= Len(d) /\ \A k \in 1..n : t[k] = d[k]

Within(st, d) ==
  /\ st.ok => Held(st.taken, Len(st.taken), d)
  /\ ~st.ok => Len(st.taken) >= 1 /\ Held(st.taken, Len(st.taken) - 1, d)
  /\ st.ok /\ st.inBlkx => st.lastKey = "blkx" /\ (st.inData \/ st.taken = d)

Exactly(st, d) ==
  /\ st.ok => st.inBlkx /\ ~st.inData /\ st.taken = d
  /\ ~st.ok => Held(st.taken, Len(st.taken), d)

Inside(st, d, plain) == Within(st, d) /\ (plain => Exactly(st, d))

LEMMA HeldLonger ==
  ASSUME NEW t, NEW n \in Int, NEW d \in Seq(STRING), NEW e \in Seq(STRING), Held(t, n, d)
  PROVE  Held(t, n, d \o e)
<1>1. Len(d) \in Nat /\ Len(e) \in Nat /\ n <= Len(d) /\ \A k \in 1..n : t[k] = d[k]
  BY LenProperties DEF Held
<1>2. /\ Len(d \o e) = Len(d) + Len(e)
      /\ \A k \in 1..Len(d) + Len(e) : (d \o e)[k] = IF k <= Len(d) THEN d[k] ELSE e[k - Len(d)]
  BY ConcatProperties
<1>3. ASSUME NEW k \in 1..n PROVE (d \o e)[k] = t[k]
  <2>1. k \in 1..Len(d) + Len(e) /\ k <= Len(d)
    BY <1>1
  <2>. QED  BY <1>1, <1>2, <2>1
<1>. QED  BY <1>1, <1>2, <1>3 DEF Held

LEMMA InsideLonger ==
  ASSUME NEW st \in Scans, NEW d \in Seq(STRING), NEW e \in Seq(STRING), NEW plain \in BOOLEAN,
         ~st.ok \/ ~st.inBlkx, Inside(st, d, plain)
  PROVE  Inside(st, d \o e, plain)
<1>1. st.taken \in Seq(STRING) /\ Len(st.taken) \in Int /\ Len(st.taken) - 1 \in Int
  BY LenProperties DEF Scans
<1>2. Held(st.taken, Len(st.taken), d) => Held(st.taken, Len(st.taken), d \o e)
  BY <1>1, HeldLonger
<1>3. Held(st.taken, Len(st.taken) - 1, d) => Held(st.taken, Len(st.taken) - 1, d \o e)
  BY <1>1, HeldLonger
<1>. QED  BY <1>2, <1>3, Zenon DEF Inside, Within, Exactly

LEMMA AppendedIsHeld ==
  ASSUME NEW d \in Seq(STRING), NEW t \in STRING
  PROVE  /\ Append(d, t) = d \o <<t>> /\ Append(d, t) \in Seq(STRING)
         /\ Len(Append(d, t)) = Len(d) + 1 /\ Len(d) \in Nat
         /\ Held(d, Len(d), d)
         /\ Held(d, Len(d), Append(d, t))
         /\ Held(Append(d, t), Len(d), Append(d, t))
         /\ Held(Append(d, t), Len(Append(d, t)), Append(d, t))
<1>1. Append(d, t) = d \o <<t>>
  BY AppendIsConcat
<1>2. Len(d) \in Nat
  BY LenProperties
<1>3. Append(d, t) \in Seq(STRING) /\ Len(Append(d, t)) = Len(d) + 1
  BY AppendProperties
<1>4. \A k \in 1..Len(d) : Append(d, t)[k] = d[k]
  BY AppendProperties
<1>5. /\ Held(d, Len(d), d)
      /\ Held(d, Len(d), Append(d, t))
      /\ Held(Append(d, t), Len(d), Append(d, t))
      /\ Held(Append(d, t), Len(Append(d, t)), Append(d, t))
  BY <1>2, <1>3, <1>4 DEF Held
<1>. QED  BY <1>1, <1>2, <1>3, <1>5

LEMMA OneMore ==
  ASSUME NEW n \in Nat
  PROVE  n \in Int /\ n + 1 >= 1 /\ (n + 1) - 1 = n
OBVIOUS

LEMMA FieldDataType ==
  ASSUME NEW f \in Field
  PROVE  FieldData(f) \in Seq(STRING)
<1>1. f.text \in STRING
  BY DEF Field
<1>2. <<f.text>> \in Seq(STRING) /\ <<>> \in Seq(STRING)
  BY <1>1, EmptySeq
<1>. QED  BY <1>2, Zenon DEF FieldData

(* A field the scan takes nothing of: the key is passed over. *)
LEMMA InsideValue ==
  ASSUME NEW st \in Scans, st.ok, st.inBlkx, ~st.inData, st.lastKey = "blkx",
         NEW f \in Field, f.tag # "array",
         NEW plain \in BOOLEAN, plain => ~(f.tag = "data" /\ f.text \in {"", "blkx"}),
         NEW x, x = IF f.tag = "other" THEN st ELSE ElementSeen(st, f.tag, f.text)
  PROVE  Inside(x, st.taken \o FieldData(f), plain)
<1>. DEFINE d == st.taken
<1>1. /\ f.tag \in STRING /\ f.text \in STRING /\ "data" \in STRING /\ d \in Seq(STRING)
  BY LiteralsAssumption DEF Field, Scans
<1>2. /\ Append(d, f.text) = d \o <<f.text>> /\ Append(d, f.text) \in Seq(STRING)
      /\ Len(Append(d, f.text)) = Len(d) + 1 /\ Len(d) \in Nat
      /\ Held(d, Len(d), d)
      /\ Held(d, Len(d), Append(d, f.text))
      /\ Held(Append(d, f.text), Len(d), Append(d, f.text))
      /\ Held(Append(d, f.text), Len(Append(d, f.text)), Append(d, f.text))
      /\ d \o <<>> = d
  BY <1>1, AppendedIsHeld, ConcatEmptySeq
<1>3. CASE f.tag # "data"
  <2>1. d \o FieldData(f) = d
    BY <1>2, <1>3, Zenon DEF FieldData
  <2>2. x = st \/ x = TextSeen(st, f.text)
    BY <1>1, <1>3, PlainElementSeen
  <2>3. TextSeen(st, f.text) = st \/ TextSeen(st, f.text) = [st EXCEPT !.lastKey = "blkx"]
    BY Zenon DEF TextSeen
  <2>4. x.ok /\ x.inBlkx /\ ~x.inData /\ x.lastKey = "blkx" /\ x.taken = d
    BY <2>2, <2>3 DEF Scans
  <2>. QED  BY <1>2, <2>1, <2>4, Zenon DEF Inside, Within, Exactly
<1>4. CASE f.tag = "data"
  <2>. DEFINE opened == [st EXCEPT !.inData = TRUE]
              y == IF f.text = "" THEN opened ELSE TextSeen(opened, f.text)
  <2>1. Seen(st, Start("data")) = opened
    <3>1. StartSeen(st, "data") = opened
      BY Zenon DEF StartSeen
    <3>. QED  BY <1>1, <3>1, SeenTags
  <2>2. /\ opened \in Scans /\ opened.ok /\ opened.inBlkx /\ opened.inData
        /\ opened.lastKey = "blkx" /\ opened.taken = d
    BY DEF Scans
  <2>. HIDE DEF opened
  <2>3. Seen(opened, Text(f.text)) = TextSeen(opened, f.text) /\ TextSeen(opened, f.text) \in Scans
    BY <1>1, <2>2, EventTypes, SeenTags, SeenType
  <2>4. Seen(y, End("data")) = y
    <3>1. EndSeen(y, "data") = y
      BY Zenon DEF EndSeen
    <3>2. y \in Scans
      BY <2>2, <2>3
    <3>. QED  BY <1>1, <3>1, <3>2, SeenTags DEF Seen
  <2>5. x = y
    <3>1. x = Seen(y, End("data"))
      BY <1>4, <2>1, <2>3, Zenon DEF ElementSeen
    <3>. QED  BY <2>4, <3>1
  <2>6. CASE f.text = ""
    <3>1. x = opened /\ d \o FieldData(f) = d /\ ~plain
      BY <1>2, <1>4, <2>5, <2>6, Zenon DEF FieldData
    <3>. QED  BY <1>2, <2>2, <3>1, Zenon DEF Inside, Within
  <2>7. CASE f.text # ""
    <3>1. x = TextSeen(opened, f.text) /\ d \o FieldData(f) = Append(d, f.text)
      BY <1>2, <1>4, <2>5, <2>7, Zenon DEF FieldData
    <3>2. CASE f.text = "blkx"
      <4>1. x = [opened EXCEPT !.lastKey = "blkx"] /\ ~plain
        BY <1>4, <3>1, <3>2, Zenon DEF TextSeen
      <4>2. x.ok /\ x.inBlkx /\ x.inData /\ x.lastKey = "blkx" /\ x.taken = d
        BY <2>2, <4>1 DEF Scans
      <4>. QED  BY <1>2, <3>1, <4>1, <4>2, Zenon DEF Inside, Within
    <3>3. CASE f.text # "blkx" /\ Sound(f.text)
      <4>1. x = [opened EXCEPT !.taken = Append(@, f.text), !.inData = FALSE]
        BY <2>2, <3>1, <3>3, Zenon DEF TextSeen
      <4>2. /\ x.ok /\ x.inBlkx /\ ~x.inData /\ x.lastKey = "blkx"
            /\ x.taken = Append(d, f.text)
        BY <2>2, <4>1 DEF Scans
      <4>. QED  BY <1>2, <3>1, <4>2, Zenon DEF Inside, Within, Exactly
    <3>4. CASE f.text # "blkx" /\ ~Sound(f.text)
      <4>1. x = [opened EXCEPT !.taken = Append(@, f.text), !.ok = FALSE]
        BY <2>2, <3>1, <3>4, Zenon DEF TextSeen
      <4>2. ~x.ok /\ x.taken = Append(d, f.text)
        BY <2>2, <4>1 DEF Scans
      <4>3. Len(x.taken) >= 1 /\ Len(x.taken) - 1 = Len(d)
        <5>1. Len(x.taken) = Len(d) + 1
          BY <1>2, <4>2, Zenon
        <5>2. Len(d) + 1 >= 1 /\ (Len(d) + 1) - 1 = Len(d)
          BY <1>2, OneMore
        <5>. QED  BY <5>1, <5>2, Zenon
      <4>. QED  BY <1>2, <3>1, <4>2, <4>3, Zenon DEF Inside, Within, Exactly
    <3>. QED  BY <3>2, <3>3, <3>4
  <2>. QED  BY <2>6, <2>7
<1>. QED  BY <1>3, <1>4

LEMMA StoppedField ==
  ASSUME NEW st \in Scans, ~st.ok, NEW f \in Field
  PROVE  /\ FieldSeen(st, f) = st
         /\ f.tag # "other" => ElementSeen(st, f.tag, f.text) = st
         /\ Seen(ElementSeen(Seen(st, Start("array")), "string", f.text), End("array")) = st
<1>1. f.tag \in STRING /\ f.text \in STRING /\ "string" \in STRING
  BY LiteralsAssumption DEF Field
<1>2. FieldSeen(st, f) = st
  BY FieldIsSeen, Stopped
<1>3. \A tag \in STRING : ElementSeen(st, tag, f.text) = st
  BY <1>1, ElementIsSeen, Stopped
<1>4. \A e : Seen(st, e) = st
  BY Zenon DEF Seen
<1>. QED  BY <1>1, <1>2, <1>3, <1>4

(* Every field carries the relation on. *)
LEMMA FieldInside ==
  ASSUME NEW st \in Scans, NEW d \in Seq(STRING), NEW plain \in BOOLEAN, Inside(st, d, plain),
         NEW f \in Field, f.key \notin {"", "blkx"}, ~Sound(f.key),
         plain => f.tag # "array" /\ ~(f.tag = "data" /\ f.text \in {"", "blkx"})
  PROVE  Inside(AllSeen(st, FieldEvents(f)), d \o FieldData(f), plain)
<1>. DEFINE keyed == ElementSeen(st, "key", f.key)
            x == FieldSeen(st, f)
<1>1. /\ f.key \in STRING /\ f.tag \in STRING /\ f.text \in STRING /\ FieldData(f) \in Seq(STRING)
      /\ "key" \in STRING /\ "string" \in STRING /\ "array" \in STRING
      /\ st.taken \in Seq(STRING)
  BY FieldDataType, LiteralsAssumption DEF Field, Scans
<1>2. x \in Scans /\ AllSeen(st, FieldEvents(f)) = x
  BY FieldIsSeen
<1>3. keyed \in Scans
  BY <1>1, ElementIsSeen
<1>. HIDE DEF x, keyed
<1>4. CASE ~st.ok
  <2>1. x = st
    BY <1>4, StoppedField DEF x
  <2>2. Inside(st, d \o FieldData(f), plain)
    BY <1>1, <1>4, InsideLonger
  <2>. QED  BY <1>2, <2>1, <2>2, Zenon
<1>5. CASE st.ok /\ ~st.inBlkx
  <2>1. Outside(st, st.taken, st.inData)
    BY <1>5 DEF Outside
  <2>2. Outside(x, st.taken, st.inData)
    BY <1>2, <2>1, OutsideField
  <2>3. Inside(st, d \o FieldData(f), plain)
    BY <1>1, <1>5, InsideLonger
  <2>. QED  BY <1>2, <1>5, <2>2, <2>3, Zenon DEF Inside, Within, Exactly, Outside
<1>6. CASE st.ok /\ st.inBlkx /\ st.inData
  <2>1. keyed = [st EXCEPT !.taken = Append(@, f.key), !.ok = FALSE]
    BY <1>1, <1>6, KeySeen DEF keyed
  <2>2. ~keyed.ok /\ keyed.taken = Append(st.taken, f.key)
    BY <2>1 DEF Scans
  <2>3. x = keyed
    <3>1. f.tag = "array" => x = Seen(ElementSeen(Seen(keyed, Start("array")), "string", f.text), End("array"))
      BY Zenon DEF x, FieldSeen, keyed
    <3>2. f.tag = "other" => x = keyed
      BY Zenon DEF x, FieldSeen, keyed
    <3>3. f.tag \notin {"array", "other"} => x = ElementSeen(keyed, f.tag, f.text)
      BY Zenon DEF x, FieldSeen, keyed
    <3>4. /\ f.tag # "other" => ElementSeen(keyed, f.tag, f.text) = keyed
          /\ Seen(ElementSeen(Seen(keyed, Start("array")), "string", f.text), End("array")) = keyed
      BY <1>3, <2>2, StoppedField
    <3>. QED  BY <3>1, <3>2, <3>3, <3>4, Zenon
  <2>4. /\ Held(st.taken, Len(st.taken), d) /\ Len(st.taken) \in Nat /\ Len(st.taken) \in Int
        /\ \A k \in 1..Len(st.taken) : Append(st.taken, f.key)[k] = st.taken[k]
        /\ Len(Append(st.taken, f.key)) = Len(st.taken) + 1
        /\ Len(st.taken) + 1 >= 1 /\ (Len(st.taken) + 1) - 1 = Len(st.taken)
    <3>1. Held(st.taken, Len(st.taken), d)
      BY <1>6, Zenon DEF Inside, Within
    <3>2. Len(st.taken) \in Nat /\ Len(Append(st.taken, f.key)) = Len(st.taken) + 1
      BY <1>1, AppendedIsHeld
    <3>3. \A k \in 1..Len(st.taken) : Append(st.taken, f.key)[k] = st.taken[k]
      <4>1. Held(st.taken, Len(st.taken), Append(st.taken, f.key))
        BY <1>1, AppendedIsHeld
      <4>. QED  BY <4>1, Zenon DEF Held
    <3>. QED  BY <3>1, <3>2, <3>3, OneMore, Zenon
  <2>5. Held(Append(st.taken, f.key), Len(st.taken), d)
    BY <2>4, Zenon DEF Held
  <2>6. Held(Append(st.taken, f.key), Len(st.taken), d \o FieldData(f))
    BY <1>1, <2>4, <2>5, HeldLonger
  <2>7. Len(x.taken) >= 1 /\ Len(x.taken) - 1 = Len(st.taken)
    <3>1. Len(x.taken) = Len(st.taken) + 1
      BY <2>2, <2>3, <2>4, Zenon
    <3>. QED  BY <2>4, <3>1, Zenon
  <2>8. ~plain
    BY <1>6, Zenon DEF Inside, Exactly
  <2>. QED  BY <1>2, <2>2, <2>3, <2>6, <2>7, <2>8, Zenon DEF Inside, Within
<1>7. CASE st.ok /\ st.inBlkx /\ ~st.inData
  <2>1. keyed = st
    BY <1>1, <1>7, KeySeen DEF keyed
  <2>2. st.taken = d /\ st.lastKey = "blkx"
    BY <1>7, Zenon DEF Inside, Within
  <2>3. CASE f.tag = "array"
    <3>1. ~plain
      BY <2>3
    <3>. DEFINE opened == [st EXCEPT !.inBlkx = TRUE]
                y == IF f.text = "" THEN opened ELSE TextSeen(opened, f.text)
    <3>2. Seen(st, Start("array")) = opened
      <4>1. StartSeen(st, "array") = opened
        BY <2>2, Zenon DEF StartSeen
      <4>. QED  BY <1>1, <1>7, <4>1, SeenTags
    <3>3. opened \in Scans /\ opened.ok /\ ~opened.inData /\ opened.taken = d /\ opened.inBlkx
      BY <1>7, <2>2 DEF Scans
    <3>. HIDE DEF opened
    <3>4. ElementSeen(opened, "string", f.text) = y /\ y \in Scans
      <4>1. ElementSeen(opened, "string", f.text) = IF f.text = "" THEN opened ELSE TextSeen(opened, f.text)
        BY <1>1, <3>3, PlainElementSeen
      <4>2. ElementSeen(opened, "string", f.text) \in Scans
        BY <1>1, <3>3, ElementIsSeen
      <4>. QED  BY <4>1, <4>2, Zenon
    <3>5. y.ok /\ y.taken = d
      <4>1. \/ TextSeen(opened, f.text) = opened
            \/ TextSeen(opened, f.text) = [opened EXCEPT !.lastKey = f.text]
        BY <3>3, Zenon DEF TextSeen
      <4>2. TextSeen(opened, f.text).ok /\ TextSeen(opened, f.text).taken = d
        BY <3>3, <4>1 DEF Scans
      <4>. QED  BY <3>3, <4>2
    <3>. HIDE DEF y
    <3>6. x = [y EXCEPT !.inBlkx = FALSE]
      <4>1. x = Seen(y, End("array"))
        BY <2>1, <2>3, <3>2, <3>4, Zenon DEF x, FieldSeen, keyed
      <4>2. Seen(y, End("array")) = EndSeen(y, "array")
        BY <1>1, <3>4, <3>5, SeenTags
      <4>. QED  BY <4>1, <4>2, Zenon DEF EndSeen
    <3>7. x.ok /\ ~x.inBlkx /\ x.taken = d
      BY <3>4, <3>5, <3>6 DEF Scans
    <3>8. d \o FieldData(f) = d
      <4>1. FieldData(f) = <<>>
        BY <2>3, Zenon DEF FieldData
      <4>. QED  BY <4>1, ConcatEmptySeq
    <3>9. Held(d, Len(d), d)
      BY <1>1, AppendedIsHeld
    <3>. QED  BY <1>2, <3>1, <3>7, <3>8, <3>9, Zenon DEF Inside, Within
  <2>4. CASE f.tag # "array"
    <3>1. x = IF f.tag = "other" THEN st ELSE ElementSeen(st, f.tag, f.text)
      BY <2>1, <2>4, Zenon DEF x, FieldSeen, keyed
    <3>2. Inside(x, st.taken \o FieldData(f), plain)
      BY <1>7, <2>2, <2>4, <3>1, InsideValue
    <3>. QED  BY <1>2, <2>2, <3>2, Zenon
  <2>. QED  BY <2>3, <2>4
<1>. QED  BY <1>4, <1>5, <1>6, <1>7

-----------------------------------------------------------------------------
(* From the fields to the entries, from the entries to the sections.       *)

(* The start and the end of a dictionary mean nothing to the scan.         *)
LEMMA WrapIsSeen ==
  ASSUME NEW tag \in STRING, NEW parts \in Seq(Seq(EventRecord)), NEW st \in Scans
  PROVE  /\ Wrap(tag, parts) \in Seq(EventRecord)
         /\ AllSeen(st, Wrap(tag, parts)) =
              Seen(AllSeen(Seen(st, Start(tag)), FlattenSeq(parts)), End(tag))
<1>. DEFINE A == <<Start(tag)>>
            F == FlattenSeq(parts)
            C == <<End(tag)>>
            opened == Seen(st, Start(tag))
            filled == AllSeen(opened, F)
<1>1. Start(tag) \in EventRecord /\ End(tag) \in EventRecord
  BY EventTypes
<1>2. A \in Seq(EventRecord) /\ AllSeen(st, A) = opened /\ opened \in Scans
  BY <1>1, SeenOne, SeenType
<1>. HIDE DEF A, opened
<1>3. F \in Seq(EventRecord)
  BY FlattenIsJoined
<1>. HIDE DEF F
<1>4. filled \in Scans
  BY <1>2, <1>3, AfterFacts
<1>. HIDE DEF filled
<1>5. C \in Seq(EventRecord) /\ AllSeen(filled, C) = Seen(filled, End(tag))
  BY <1>1, <1>4, SeenOne
<1>. HIDE DEF C
<1>6. A \o F \in Seq(EventRecord) /\ AllSeen(st, A \o F) = filled
  BY <1>2, <1>3, SeenInTurn, ConcatProperties DEF filled
<1>7. (A \o F) \o C \in Seq(EventRecord) /\ AllSeen(st, (A \o F) \o C) = Seen(filled, End(tag))
  BY <1>5, <1>6, SeenInTurn, ConcatProperties
<1>8. Wrap(tag, parts) = (A \o F) \o C
  BY Zenon DEF Wrap, A, F, C
<1>. QED  BY <1>7, <1>8, Zenon DEF filled, opened, F

LEMMA DictIsSeen ==
  ASSUME NEW parts \in Seq(Seq(EventRecord)), NEW st \in Scans
  PROVE  /\ Wrap("dict", parts) \in Seq(EventRecord)
         /\ AllSeen(st, Wrap("dict", parts)) = AllSeen(st, FlattenSeq(parts))
<1>1. "dict" \in STRING
  BY LiteralsAssumption
<1>2. \A x : Seen(x, Start("dict")) = x /\ Seen(x, End("dict")) = x
  BY DEF Seen, StartSeen, EndSeen, Start, End
<1>. QED  BY <1>1, <1>2, WrapIsSeen, Zenon

Fields(entry) == [k \in DOMAIN entry |-> FieldEvents(entry[k])]
FieldsData(entry) == [k \in DOMAIN entry |-> FieldData(entry[k])]

LEMMA FieldsType ==
  ASSUME NEW entry \in Seq(Field)
  PROVE  /\ Fields(entry) \in Seq(Seq(EventRecord)) /\ Len(Fields(entry)) = Len(entry)
         /\ FieldsData(entry) \in Seq(Seq(STRING)) /\ Len(FieldsData(entry)) = Len(entry)
         /\ \A n \in 1..Len(entry) :
              /\ entry[n] \in Field
              /\ Fields(entry)[n] = FieldEvents(entry[n])
              /\ FieldsData(entry)[n] = FieldData(entry[n])
         /\ EntryEvents(entry) = Wrap("dict", Fields(entry))
         /\ EntryData(entry) = FlattenSeq(FieldsData(entry))
<1>1. DOMAIN entry = 1..Len(entry) /\ Len(entry) \in Nat
  BY LenProperties
<1>2. \A n \in 1..Len(entry) : entry[n] \in Field
  BY ElementOfSeq
<1>3. Fresh \in Scans
  BY LiteralsAssumption, EmptySeq DEF Fresh, Scans
<1>4. \A n \in 1..Len(entry) : FieldEvents(entry[n]) \in Seq(EventRecord)
  BY <1>2, <1>3, FieldIsSeen
<1>5. \A n \in 1..Len(entry) : FieldData(entry[n]) \in Seq(STRING)
  BY <1>2, FieldDataType
<1>6. Fields(entry) = [n \in 1..Len(entry) |-> FieldEvents(entry[n])]
  BY <1>1, Zenon DEF Fields
<1>7. FieldsData(entry) = [n \in 1..Len(entry) |-> FieldData(entry[n])]
  BY <1>1, Zenon DEF FieldsData
<1>8. Fields(entry) \in Seq(Seq(EventRecord)) /\ Len(Fields(entry)) = Len(entry)
      /\ \A n \in 1..Len(entry) : Fields(entry)[n] = FieldEvents(entry[n])
  BY <1>1, <1>4, <1>6
<1>9. FieldsData(entry) \in Seq(Seq(STRING)) /\ Len(FieldsData(entry)) = Len(entry)
      /\ \A n \in 1..Len(entry) : FieldsData(entry)[n] = FieldData(entry[n])
  BY <1>1, <1>5, <1>7
<1>10. EntryEvents(entry) = Wrap("dict", Fields(entry)) /\ EntryData(entry) = FlattenSeq(FieldsData(entry))
  BY Zenon DEF EntryEvents, Fields, EntryData, FieldsData
<1>. QED  BY <1>2, <1>8, <1>9, <1>10

(* A relation that every field of an entry carries on, the entry does; and *)
(* one that every field of every entry does, the entries do.               *)
FieldCarries(R, f) ==
  \A st \in Scans, d \in Seq(STRING) :
    <<st, d>> \in R => <<AllSeen(st, FieldEvents(f)), d \o FieldData(f)>> \in R

LEMMA EntryCarries ==
  ASSUME NEW R, NEW entry \in Seq(Field), \A n \in 1..Len(entry) : FieldCarries(R, entry[n]),
         NEW st \in Scans, NEW d \in Seq(STRING), <<st, d>> \in R
  PROVE  <<AllSeen(st, EntryEvents(entry)), d \o EntryData(entry)>> \in R
<1>1. /\ Fields(entry) \in Seq(Seq(EventRecord)) /\ Len(Fields(entry)) = Len(entry)
      /\ FieldsData(entry) \in Seq(Seq(STRING)) /\ Len(FieldsData(entry)) = Len(entry)
      /\ \A n \in 1..Len(entry) :
           /\ Fields(entry)[n] = FieldEvents(entry[n])
           /\ FieldsData(entry)[n] = FieldData(entry[n])
      /\ EntryEvents(entry) = Wrap("dict", Fields(entry))
      /\ EntryData(entry) = FlattenSeq(FieldsData(entry))
  BY FieldsType
<1>2. \A n \in 1..Len(Fields(entry)) : \A x \in Scans, y \in Seq(STRING) :
        <<x, y>> \in R => <<AllSeen(x, Fields(entry)[n]), y \o FieldsData(entry)[n]>> \in R
  BY <1>1, Zenon DEF FieldCarries
<1>3. <<AllSeen(st, FlattenSeq(Fields(entry))), d \o FlattenSeq(FieldsData(entry))>> \in R
  BY <1>1, <1>2, Carried, Zenon
<1>4. AllSeen(st, EntryEvents(entry)) = AllSeen(st, FlattenSeq(Fields(entry)))
  BY <1>1, DictIsSeen, Zenon
<1>. QED  BY <1>1, <1>3, <1>4, Zenon

Entries(s) == [k \in DOMAIN s.entries |-> EntryEvents(s.entries[k])]
EntriesData(s) == [k \in DOMAIN s.entries |-> EntryData(s.entries[k])]

LEMMA EntriesType ==
  ASSUME NEW s \in Section
  PROVE  /\ Entries(s) \in Seq(Seq(EventRecord)) /\ Len(Entries(s)) = Len(s.entries)
         /\ EntriesData(s) \in Seq(Seq(STRING)) /\ Len(EntriesData(s)) = Len(s.entries)
         /\ \A n \in 1..Len(s.entries) :
              /\ s.entries[n] \in Seq(Field)
              /\ Entries(s)[n] = EntryEvents(s.entries[n])
              /\ EntriesData(s)[n] = EntryData(s.entries[n])
         /\ SectionEvents(s) = Element("key", s.key) \o Wrap("array", Entries(s))
         /\ SectionData(s) = IF s.key = "blkx" THEN FlattenSeq(EntriesData(s)) ELSE <<>>
<1>. DEFINE es == s.entries
<1>1. es \in Seq(Seq(Field))
  BY DEF Section
<1>. HIDE DEF es
<1>2. DOMAIN es = 1..Len(es) /\ Len(es) \in Nat /\ \A n \in 1..Len(es) : es[n] \in Seq(Field)
  BY <1>1, LenProperties, ElementOfSeq
<1>3. ASSUME NEW n \in 1..Len(es)
      PROVE  EntryEvents(es[n]) \in Seq(EventRecord) /\ EntryData(es[n]) \in Seq(STRING)
  <2>1. PICK entry \in Seq(Field) : entry = es[n]
    BY <1>2
  <2>2. Fresh \in Scans
    BY LiteralsAssumption, EmptySeq DEF Fresh, Scans
  <2>3. /\ Fields(entry) \in Seq(Seq(EventRecord)) /\ FieldsData(entry) \in Seq(Seq(STRING))
        /\ EntryEvents(entry) = Wrap("dict", Fields(entry))
        /\ EntryData(entry) = FlattenSeq(FieldsData(entry))
    BY FieldsType
  <2>4. Wrap("dict", Fields(entry)) \in Seq(EventRecord)
    BY <2>2, <2>3, DictIsSeen
  <2>5. FlattenSeq(FieldsData(entry)) \in Seq(STRING)
    BY <2>3, FlattenIsJoined
  <2>. QED  BY <2>1, <2>3, <2>4, <2>5, Zenon
<1>4. Entries(s) = [n \in 1..Len(es) |-> EntryEvents(es[n])]
  BY <1>2, Zenon DEF Entries, es
<1>5. EntriesData(s) = [n \in 1..Len(es) |-> EntryData(es[n])]
  BY <1>2, Zenon DEF EntriesData, es
<1>6. Entries(s) \in Seq(Seq(EventRecord)) /\ Len(Entries(s)) = Len(es)
      /\ \A n \in 1..Len(es) : Entries(s)[n] = EntryEvents(es[n])
  BY <1>2, <1>3, <1>4
<1>7. EntriesData(s) \in Seq(Seq(STRING)) /\ Len(EntriesData(s)) = Len(es)
      /\ \A n \in 1..Len(es) : EntriesData(s)[n] = EntryData(es[n])
  BY <1>2, <1>3, <1>5
<1>8. /\ SectionEvents(s) = Element("key", s.key) \o Wrap("array", Entries(s))
      /\ SectionData(s) = IF s.key = "blkx" THEN FlattenSeq(EntriesData(s)) ELSE <<>>
  BY Zenon DEF SectionEvents, SectionData, Entries, EntriesData
<1>. QED  BY <1>2, <1>6, <1>7, <1>8, Zenon DEF es

LEMMA EntriesCarry ==
  ASSUME NEW R, NEW s \in Section,
         \A j \in 1..Len(s.entries) : \A l \in 1..Len(s.entries[j]) : FieldCarries(R, s.entries[j][l]),
         NEW st \in Scans, NEW d \in Seq(STRING), <<st, d>> \in R
  PROVE  <<AllSeen(st, FlattenSeq(Entries(s))), d \o FlattenSeq(EntriesData(s))>> \in R
<1>1. /\ Entries(s) \in Seq(Seq(EventRecord)) /\ Len(Entries(s)) = Len(s.entries)
      /\ EntriesData(s) \in Seq(Seq(STRING)) /\ Len(EntriesData(s)) = Len(s.entries)
      /\ \A n \in 1..Len(s.entries) :
           /\ s.entries[n] \in Seq(Field)
           /\ Entries(s)[n] = EntryEvents(s.entries[n])
           /\ EntriesData(s)[n] = EntryData(s.entries[n])
  BY EntriesType
<1>2. ASSUME NEW n \in 1..Len(s.entries), NEW x \in Scans, NEW y \in Seq(STRING), <<x, y>> \in R
      PROVE  <<AllSeen(x, Entries(s)[n]), y \o EntriesData(s)[n]>> \in R
  <2>1. <<AllSeen(x, EntryEvents(s.entries[n])), y \o EntryData(s.entries[n])>> \in R
    <3>1. PICK entry \in Seq(Field) : entry = s.entries[n]
      BY <1>1
    <3>2. \A l \in 1..Len(entry) : FieldCarries(R, entry[l])
      BY <3>1, Zenon
    <3>3. <<AllSeen(x, EntryEvents(entry)), y \o EntryData(entry)>> \in R
      BY <1>2, <3>2, EntryCarries
    <3>. QED  BY <3>1, <3>3, Zenon
  <2>. QED  BY <1>1, <2>1, Zenon
<1>3. \A n \in 1..Len(Entries(s)) : \A x \in Scans, y \in Seq(STRING) :
        <<x, y>> \in R => <<AllSeen(x, Entries(s)[n]), y \o EntriesData(s)[n]>> \in R
  BY <1>1, <1>2, Zenon
<1>. QED  BY <1>1, <1>3, Carried, Zenon

(* The keys of a section's fields are names.                               *)
ProperKeys(s) ==
  \A j \in 1..Len(s.entries) : \A l \in 1..Len(s.entries[j]) :
    LET key == s.entries[j][l].key IN key \notin {"", "blkx"} /\ ~Sound(key)

LEMMA FieldOfSection ==
  ASSUME NEW s \in Section, NEW j \in 1..Len(s.entries), NEW l \in 1..Len(s.entries[j])
  PROVE  s.entries[j][l] \in Field
<1>1. s.entries[j] \in Seq(Field)
  BY EntriesType
<1>2. PICK entry \in Seq(Field) : entry = s.entries[j]
  BY <1>1
<1>3. l \in 1..Len(entry)
  BY <1>2, Zenon
<1>4. entry[l] \in Field
  BY <1>3, ElementOfSeq
<1>. QED  BY <1>2, <1>4, Zenon

(* A section of another name changes the key at most.                      *)
LEMMA OtherSection ==
  ASSUME NEW s \in Section, s.key \notin {"", "blkx"}, ProperKeys(s),
         NEW st \in Scans, NEW taken, NEW flag, Outside(st, taken, flag)
  PROVE  Outside(AllSeen(st, SectionEvents(s)), taken, flag)
<1>. DEFINE K == Element("key", s.key)
            W == Wrap("array", Entries(s))
            keyed == ElementSeen(st, "key", s.key)
            R == {p \in Scans \X Seq(STRING) : Outside(p[1], taken, flag)}
            filled == AllSeen(keyed, FlattenSeq(Entries(s)))
<1>1. s.key \in STRING /\ "key" \in STRING /\ "array" \in STRING
  BY LiteralsAssumption DEF Section
<1>2. Entries(s) \in Seq(Seq(EventRecord)) /\ SectionEvents(s) = K \o W
  BY EntriesType
<1>3. K \in Seq(EventRecord) /\ AllSeen(st, K) = keyed /\ keyed \in Scans
  BY <1>1, ElementIsSeen
<1>4. Outside(keyed, taken, flag) /\ keyed.lastKey # "blkx"
  <2>1. keyed = [st EXCEPT !.lastKey = s.key]
    BY <1>1, KeySeen DEF Outside
  <2>. QED  BY <1>1, <2>1 DEF Outside, Scans
<1>. HIDE DEF K, keyed
<1>5. W \in Seq(EventRecord)
      /\ AllSeen(keyed, W) = Seen(AllSeen(Seen(keyed, Start("array")), FlattenSeq(Entries(s))), End("array"))
  BY <1>1, <1>2, <1>3, WrapIsSeen
<1>. HIDE DEF W
<1>6. Seen(keyed, Start("array")) = keyed
  <2>1. StartSeen(keyed, "array") = keyed
    BY <1>4, Zenon DEF StartSeen, Outside
  <2>. QED  BY <1>1, <1>3, <1>4, <2>1, SeenTags DEF Outside
<1>7. filled \in Scans /\ Outside(filled, taken, flag)
  <2>1. ASSUME NEW j \in 1..Len(s.entries), NEW l \in 1..Len(s.entries[j]),
               NEW x \in Scans, NEW y \in Seq(STRING), <<x, y>> \in R
        PROVE  <<AllSeen(x, FieldEvents(s.entries[j][l])), y \o FieldData(s.entries[j][l])>> \in R
    <3>1. PICK f \in Field : f = s.entries[j][l]
      BY FieldOfSection
    <3>2. f.key \notin {"", "blkx"}
      BY <3>1, Zenon DEF ProperKeys
    <3>3. Outside(x, taken, flag)
      BY <2>1
    <3>4. Outside(AllSeen(x, FieldEvents(f)), taken, flag)
      BY <3>2, <3>3, OutsideField
    <3>5. AllSeen(x, FieldEvents(f)) \in Scans /\ FieldData(f) \in Seq(STRING)
      BY FieldIsSeen, FieldDataType
    <3>6. y \o FieldData(f) \in Seq(STRING)
      BY <3>5, ConcatProperties
    <3>7. <<AllSeen(x, FieldEvents(f)), y \o FieldData(f)>> \in R
      BY <3>4, <3>5, <3>6
    <3>. QED  BY <3>1, <3>7, Zenon
  <2>2. <<>> \in Seq(STRING)
    BY EmptySeq
  <2>3. <<keyed, <<>>>> \in R
    BY <1>3, <1>4, <2>2
  <2>. HIDE DEF R
  <2>4. \A j \in 1..Len(s.entries) : \A l \in 1..Len(s.entries[j]) : FieldCarries(R, s.entries[j][l])
    BY <2>1, Zenon DEF FieldCarries
  <2>5. <<filled, <<>> \o FlattenSeq(EntriesData(s))>> \in R
    BY <1>3, <2>2, <2>3, <2>4, EntriesCarry
  <2>. QED  BY <2>5 DEF R
<1>. HIDE DEF filled
<1>8. Outside(Seen(filled, End("array")), taken, flag)
  <2>1. Outside(EndSeen(filled, "array"), taken, flag)
    BY <1>7 DEF EndSeen, Outside, Scans
  <2>2. Seen(filled, End("array")) = EndSeen(filled, "array")
    BY <1>1, <1>7, SeenTags DEF Outside
  <2>. QED  BY <2>1, <2>2
<1>9. AllSeen(st, SectionEvents(s)) = Seen(filled, End("array"))
  <2>1. AllSeen(st, K \o W) = AllSeen(keyed, W)
    BY <1>3, <1>5, SeenInTurn
  <2>. QED  BY <1>2, <1>5, <1>6, <2>1, Zenon DEF filled
<1>. QED  BY <1>8, <1>9

(* Behind the blkx section.                                                *)
Done(st, d, plain) ==
  /\ st.ok => ~st.inBlkx /\ Held(st.taken, Len(st.taken), d)
  /\ ~st.ok => Len(st.taken) >= 1 /\ Held(st.taken, Len(st.taken) - 1, d)
  /\ plain => /\ st.ok => st.taken = d
              /\ ~st.ok => Held(st.taken, Len(st.taken), d)

LEMMA OtherSectionStays ==
  ASSUME NEW s \in Section, s.key \notin {"", "blkx"}, ProperKeys(s),
         NEW st \in Scans, NEW d, NEW plain, Done(st, d, plain)
  PROVE  Done(AllSeen(st, SectionEvents(s)), d, plain)
<1>1. CASE ~st.ok
  <2>1. SectionEvents(s) \in Seq(EventRecord)
    <3>1. Entries(s) \in Seq(Seq(EventRecord))
          /\ SectionEvents(s) = Element("key", s.key) \o Wrap("array", Entries(s))
      BY EntriesType
    <3>2. "array" \in STRING /\ "key" \in STRING /\ s.key \in STRING
      BY LiteralsAssumption DEF Section
    <3>3. Element("key", s.key) \in Seq(EventRecord) /\ Wrap("array", Entries(s)) \in Seq(EventRecord)
      BY <3>1, <3>2, ElementIsSeen, WrapIsSeen
    <3>. QED  BY <3>1, <3>3, ConcatProperties
  <2>2. AllSeen(st, SectionEvents(s)) = st
    BY <1>1, <2>1, Stopped
  <2>. QED  BY <2>2
<1>2. CASE st.ok
  <2>1. Outside(st, st.taken, st.inData)
    BY <1>2 DEF Outside, Done
  <2>2. Outside(AllSeen(st, SectionEvents(s)), st.taken, st.inData)
    BY <2>1, OtherSection
  <2>. QED  BY <1>2, <2>2, Zenon DEF Outside, Done
<1>. QED  BY <1>1, <1>2

(* No data is empty or the name of the section, and no value is an array.  *)
PlainFields(s) ==
  \A j \in 1..Len(s.entries) : \A l \in 1..Len(s.entries[j]) :
    LET f == s.entries[j][l]
    IN  f.tag # "array" /\ ~(f.tag = "data" /\ f.text \in {"", "blkx"})

(* The blkx section itself.                                                *)
LEMMA BlkxSection ==
  ASSUME NEW s \in Section, s.key = "blkx", ProperKeys(s),
         NEW plain \in BOOLEAN, plain => PlainFields(s),
         NEW st \in Scans, Outside(st, <<>>, FALSE)
  PROVE  Done(AllSeen(st, SectionEvents(s)), SectionData(s), plain)
<1>. DEFINE K == Element("key", s.key)
            W == Wrap("array", Entries(s))
            keyed == ElementSeen(st, "key", s.key)
            opened == Seen(keyed, Start("array"))
            R == {p \in Scans \X Seq(STRING) : Inside(p[1], p[2], plain)}
            filled == AllSeen(opened, FlattenSeq(Entries(s)))
            d == SectionData(s)
<1>1. "blkx" # "" /\ s.key \in STRING /\ "key" \in STRING /\ "array" \in STRING
      /\ "key" \notin {"array", "data"}
  BY LiteralsAssumption DEF Section
<1>2. /\ Entries(s) \in Seq(Seq(EventRecord)) /\ EntriesData(s) \in Seq(Seq(STRING))
      /\ SectionEvents(s) = K \o W /\ d = FlattenSeq(EntriesData(s))
  BY EntriesType
<1>3. K \in Seq(EventRecord) /\ AllSeen(st, K) = keyed /\ keyed \in Scans
  BY <1>1, ElementIsSeen
<1>4. Outside(keyed, <<>>, FALSE) /\ keyed.lastKey = "blkx"
  <2>1. keyed = TextSeen(st, "blkx")
    <3>1. keyed = IF s.key = "" THEN st ELSE TextSeen(st, s.key)
      BY <1>1, PlainElementSeen DEF Outside
    <3>. QED  BY <1>1, <3>1, Zenon
  <2>2. keyed = [st EXCEPT !.lastKey = "blkx"]
    BY <2>1, Zenon DEF TextSeen
  <2>. QED  BY <2>2 DEF Outside, Scans
<1>. HIDE DEF K, keyed
<1>5. W \in Seq(EventRecord)
      /\ AllSeen(keyed, W) = Seen(AllSeen(Seen(keyed, Start("array")), FlattenSeq(Entries(s))), End("array"))
  BY <1>1, <1>2, <1>3, WrapIsSeen
<1>. HIDE DEF W
<1>6. opened \in Scans /\ Inside(opened, <<>>, plain)
  <2>1. opened = [keyed EXCEPT !.inBlkx = TRUE]
    <3>1. opened = StartSeen(keyed, "array")
      BY <1>1, <1>3, <1>4, SeenTags DEF Outside
    <3>. QED  BY <1>4, <3>1, Zenon DEF StartSeen
  <2>. HIDE DEF opened
  <2>2. /\ opened \in Scans /\ opened.ok /\ opened.inBlkx /\ ~opened.inData
        /\ opened.lastKey = "blkx" /\ opened.taken = <<>>
    BY <1>3, <1>4, <2>1 DEF Outside, Scans
  <2>3. Held(<<>>, Len(<<>>), <<>>)
    BY DEF Held
  <2>. QED  BY <2>2, <2>3, Zenon DEF Inside, Within, Exactly
<1>. HIDE DEF opened, d
<1>7. filled \in Scans /\ d \in Seq(STRING) /\ Inside(filled, d, plain)
  <2>1. ASSUME NEW j \in 1..Len(s.entries), NEW l \in 1..Len(s.entries[j]),
               NEW x \in Scans, NEW y \in Seq(STRING), <<x, y>> \in R
        PROVE  <<AllSeen(x, FieldEvents(s.entries[j][l])), y \o FieldData(s.entries[j][l])>> \in R
    <3>1. PICK f \in Field : f = s.entries[j][l]
      BY FieldOfSection
    <3>2. f.key \notin {"", "blkx"} /\ ~Sound(f.key)
      BY <3>1, Zenon DEF ProperKeys
    <3>3. plain => f.tag # "array" /\ ~(f.tag = "data" /\ f.text \in {"", "blkx"})
      BY <3>1, Zenon DEF PlainFields
    <3>4. Inside(x, y, plain)
      BY <2>1
    <3>5. Inside(AllSeen(x, FieldEvents(f)), y \o FieldData(f), plain)
      BY <3>2, <3>3, <3>4, FieldInside
    <3>6. AllSeen(x, FieldEvents(f)) \in Scans /\ FieldData(f) \in Seq(STRING)
      BY FieldIsSeen, FieldDataType
    <3>7. y \o FieldData(f) \in Seq(STRING)
      BY <3>6, ConcatProperties
    <3>8. <<AllSeen(x, FieldEvents(f)), y \o FieldData(f)>> \in R
      BY <3>5, <3>6, <3>7
    <3>. QED  BY <3>1, <3>8, Zenon
  <2>2. <<>> \in Seq(STRING)
    BY EmptySeq
  <2>3. <<opened, <<>>>> \in R
    BY <1>6, <2>2
  <2>. HIDE DEF R
  <2>4. \A j \in 1..Len(s.entries) : \A l \in 1..Len(s.entries[j]) : FieldCarries(R, s.entries[j][l])
    BY <2>1, Zenon DEF FieldCarries
  <2>5. <<filled, <<>> \o FlattenSeq(EntriesData(s))>> \in R
    BY <1>6, <2>2, <2>3, <2>4, EntriesCarry
  <2>6. d \in Seq(STRING)
    BY <1>2, FlattenIsJoined
  <2>7. <<>> \o FlattenSeq(EntriesData(s)) = d
    BY <1>2, <2>6, ConcatEmptySeq, Zenon
  <2>8. <<filled, d>> \in R
    BY <2>5, <2>7, Zenon
  <2>. QED  BY <2>6, <2>8 DEF R
<1>. HIDE DEF filled
<1>8. Done(Seen(filled, End("array")), d, plain)
  <2>1. CASE filled.ok
    <3>1. Seen(filled, End("array")) = [filled EXCEPT !.inBlkx = FALSE]
      <4>1. Seen(filled, End("array")) = EndSeen(filled, "array")
        BY <1>1, <1>7, <2>1, SeenTags
      <4>. QED  BY <4>1, Zenon DEF EndSeen
    <3>. DEFINE left == Seen(filled, End("array"))
    <3>2. left.ok /\ ~left.inBlkx /\ left.taken = filled.taken
      BY <1>7, <2>1, <3>1 DEF Scans
    <3>. HIDE DEF left
    <3>3. Done(left, d, plain)
      BY <1>7, <2>1, <3>2, Zenon DEF Done, Inside, Within, Exactly
    <3>. QED  BY <3>3 DEF left
  <2>2. CASE ~filled.ok
    <3>1. Seen(filled, End("array")) = filled
      BY <2>2, Zenon DEF Seen
    <3>. QED  BY <1>7, <2>2, <3>1, Zenon DEF Done, Inside, Within, Exactly
  <2>. QED  BY <2>1, <2>2
<1>9. AllSeen(st, SectionEvents(s)) = Seen(filled, End("array"))
  <2>1. AllSeen(st, K \o W) = AllSeen(keyed, W)
    BY <1>3, <1>5, SeenInTurn
  <2>. QED  BY <1>2, <1>5, <2>1, Zenon DEF filled, opened
<1>. QED  BY <1>8, <1>9 DEF d

Sections(d) == [k \in DOMAIN d |-> SectionEvents(d[k])]
SectionsData(d) == [k \in DOMAIN d |-> SectionData(d[k])]

LEMMA SectionType ==
  ASSUME NEW s \in Section
  PROVE  SectionEvents(s) \in Seq(EventRecord) /\ SectionData(s) \in Seq(STRING)
<1>1. /\ Entries(s) \in Seq(Seq(EventRecord)) /\ EntriesData(s) \in Seq(Seq(STRING))
      /\ SectionEvents(s) = Element("key", s.key) \o Wrap("array", Entries(s))
      /\ SectionData(s) = IF s.key = "blkx" THEN FlattenSeq(EntriesData(s)) ELSE <<>>
  BY EntriesType
<1>2. "array" \in STRING /\ "key" \in STRING /\ s.key \in STRING /\ Fresh \in Scans
  BY LiteralsAssumption, EmptySeq DEF Section, Fresh, Scans
<1>3. Element("key", s.key) \in Seq(EventRecord) /\ Wrap("array", Entries(s)) \in Seq(EventRecord)
  BY <1>1, <1>2, ElementIsSeen, WrapIsSeen
<1>4. FlattenSeq(EntriesData(s)) \in Seq(STRING) /\ <<>> \in Seq(STRING)
  BY <1>1, FlattenIsJoined, EmptySeq
<1>. QED  BY <1>1, <1>3, <1>4, ConcatProperties

LEMMA SectionsType ==
  ASSUME NEW d \in Seq(Section)
  PROVE  /\ Sections(d) \in Seq(Seq(EventRecord)) /\ Len(Sections(d)) = Len(d) /\ Len(d) \in Nat
         /\ SectionsData(d) \in Seq(Seq(STRING)) /\ Len(SectionsData(d)) = Len(d)
         /\ DOMAIN d = 1..Len(d)
         /\ \A n \in 1..Len(d) :
              /\ d[n] \in Section
              /\ Sections(d)[n] = SectionEvents(d[n])
              /\ SectionsData(d)[n] = SectionData(d[n])
         /\ BlkxData(d) = FlattenSeq(SectionsData(d))
<1>1. DOMAIN d = 1..Len(d) /\ Len(d) \in Nat
  BY LenProperties
<1>2. \A n \in 1..Len(d) : d[n] \in Section
  BY ElementOfSeq
<1>3. \A n \in 1..Len(d) : SectionEvents(d[n]) \in Seq(EventRecord) /\ SectionData(d[n]) \in Seq(STRING)
  BY <1>2, SectionType
<1>4. Sections(d) = [n \in 1..Len(d) |-> SectionEvents(d[n])]
  BY <1>1, Zenon DEF Sections
<1>5. SectionsData(d) = [n \in 1..Len(d) |-> SectionData(d[n])]
  BY <1>1, Zenon DEF SectionsData
<1>6. Sections(d) \in Seq(Seq(EventRecord)) /\ Len(Sections(d)) = Len(d)
      /\ \A n \in 1..Len(d) : Sections(d)[n] = SectionEvents(d[n])
  BY <1>1, <1>3, <1>4
<1>7. SectionsData(d) \in Seq(Seq(STRING)) /\ Len(SectionsData(d)) = Len(d)
      /\ \A n \in 1..Len(d) : SectionsData(d)[n] = SectionData(d[n])
  BY <1>1, <1>3, <1>5
<1>8. BlkxData(d) = FlattenSeq(SectionsData(d))
  BY Zenon DEF BlkxData, SectionsData
<1>. QED  BY <1>1, <1>2, <1>6, <1>7, <1>8

LEMMA NamedSections ==
  ASSUME NEW d \in Seq(Section), Named(d)
  PROVE  /\ \A k \in 1..Len(d) : d[k].key # "" /\ ProperKeys(d[k])
         /\ \A j, k \in 1..Len(d) : d[j].key = d[k].key => j = k
         /\ Plain(d) => \A k \in 1..Len(d) : PlainFields(d[k])
<1>2. DOMAIN d = 1..Len(d) /\ \A k \in 1..Len(d) : d[k] \in Section
  BY SectionsType
<1>3. \A k \in 1..Len(d) : /\ DOMAIN d[k].entries = 1..Len(d[k].entries)
                           /\ \A j \in 1..Len(d[k].entries) :
                                DOMAIN d[k].entries[j] = 1..Len(d[k].entries[j])
  <2>. SUFFICES ASSUME NEW k \in 1..Len(d)
                PROVE  /\ DOMAIN d[k].entries = 1..Len(d[k].entries)
                       /\ \A j \in 1..Len(d[k].entries) :
                            DOMAIN d[k].entries[j] = 1..Len(d[k].entries[j])
    OBVIOUS
  <2>1. PICK s \in Section : s = d[k]
    BY <1>2
  <2>2. s.entries \in Seq(Seq(Field))
    BY DEF Section
  <2>3. DOMAIN s.entries = 1..Len(s.entries)
    BY <2>2, LenProperties
  <2>4. \A j \in 1..Len(s.entries) : s.entries[j] \in Seq(Field)
    BY EntriesType
  <2>5. \A e \in Seq(Field) : DOMAIN e = 1..Len(e)
    BY LenProperties
  <2>. QED  BY <2>1, <2>3, <2>4, <2>5, Zenon
<1>4. \A k \in 1..Len(d) : d[k].key # "" /\ \A j \in 1..Len(d) : d[j].key = d[k].key => j = k
  BY <1>2, Zenon DEF Named
<1>5. \A k \in 1..Len(d) : ProperKeys(d[k])
  BY <1>2, <1>3, Zenon DEF Named, ProperKeys
<1>6. Plain(d) => \A k \in 1..Len(d) : PlainFields(d[k])
  BY <1>2, <1>3, Zenon DEF Plain, PlainFields
<1>. QED  BY <1>4, <1>5, <1>6

(* The sections in turn: before the blkx section nothing is taken, and     *)
(* there is one such section at most.                                      *)
LEMMA SectionsSeen ==
  ASSUME NEW d \in Seq(Section), Named(d), NEW st \in Scans, Outside(st, <<>>, FALSE)
  PROVE  Done(AllSeen(st, FlattenSeq(Sections(d))), BlkxData(d), Plain(d))
<1>. DEFINE N == Len(d)
            plain == Plain(d)
            Clean == {p \in Scans \X Seq(STRING) : Outside(p[1], <<>>, FALSE) /\ p[2] = <<>>}
            Behind == {p \in Scans \X Seq(STRING) : Done(p[1], p[2], plain)}
<1>1. /\ d \in Seq(Section) /\ N \in Nat
      /\ \A k \in 1..N : d[k].key # "" /\ ProperKeys(d[k])
      /\ \A j, k \in 1..N : d[j].key = d[k].key => j = k
      /\ plain => \A k \in 1..N : PlainFields(d[k])
  BY NamedSections, LenProperties
<1>2. plain \in BOOLEAN
  BY DEF Plain
<1>3. /\ Sections(d) \in Seq(Seq(EventRecord)) /\ Len(Sections(d)) = N
      /\ SectionsData(d) \in Seq(Seq(STRING)) /\ Len(SectionsData(d)) = N
      /\ \A n \in 1..N : /\ d[n] \in Section
                         /\ Sections(d)[n] = SectionEvents(d[n])
                         /\ SectionsData(d)[n] = SectionData(d[n])
      /\ BlkxData(d) = FlattenSeq(SectionsData(d))
  BY <1>1, SectionsType
<1>. HIDE DEF N, plain
<1>0. N \in Nat
  BY <1>1
<1>4. PICK b \in 1..N + 1 : \A k \in 1..N : d[k].key = "blkx" <=> k = b
  <2>1. CASE \E k \in 1..N : d[k].key = "blkx"
    <3>1. PICK k \in 1..N : d[k].key = "blkx"
      BY <2>1
    <3>2. \A j \in 1..N : d[j].key = "blkx" <=> j = k
      BY <1>1, <3>1, Zenon
    <3>3. k \in 1..N + 1
      BY <1>0
    <3>. QED  BY <3>2, <3>3, Zenon
  <2>2. CASE \A k \in 1..N : d[k].key # "blkx"
    <3>1. N + 1 \in 1..N + 1 /\ \A k \in 1..N : k # N + 1
      BY <1>0
    <3>. QED  BY <2>2, <3>1, Zenon
  <2>. QED  BY <2>1, <2>2
<1>. DEFINE R == [n \in 0..N |-> IF n < b THEN Clean ELSE Behind]
<1>5. ASSUME NEW n \in 1..N, NEW x \in Scans, NEW y \in Seq(STRING), <<x, y>> \in R[n - 1]
      PROVE  <<AllSeen(x, Sections(d)[n]), y \o SectionsData(d)[n]>> \in R[n]
  <2>1. PICK s \in Section : s = d[n]
    BY <1>3
  <2>2. /\ s.key # "" /\ ProperKeys(s) /\ (plain => PlainFields(s))
        /\ (s.key = "blkx" <=> n = b)
    BY <1>1, <1>4, <2>1, Zenon
  <2>. DEFINE z == AllSeen(x, SectionEvents(s))
  <2>3. /\ Sections(d)[n] = SectionEvents(s) /\ SectionsData(d)[n] = SectionData(s)
        /\ SectionEvents(s) \in Seq(EventRecord) /\ SectionData(s) \in Seq(STRING)
    BY <1>3, <2>1, SectionType
  <2>4. z \in Scans /\ y \o SectionData(s) \in Seq(STRING)
    BY <2>3, AfterFacts, ConcatProperties
  <2>5. /\ n - 1 \in 0..N /\ n \in 0..N
        /\ (n < b => n - 1 < b) /\ (n = b => n - 1 < b /\ ~(n < b))
        /\ (n # b /\ ~(n < b) => ~(n - 1 < b))
    BY <1>0
  <2>6. n # b => SectionData(s) = <<>> /\ y \o SectionData(s) = y
    <3>1. n # b => SectionData(s) = <<>>
      BY <2>2, Zenon DEF SectionData
    <3>. QED  BY <3>1, ConcatEmptySeq
  <2>7. CASE n < b
    <3>1. <<x, y>> \in Clean /\ R[n] = Clean /\ n # b
      BY <1>5, <2>5, <2>7
    <3>2. Outside(x, <<>>, FALSE) /\ y = <<>>
      BY <3>1
    <3>3. Outside(z, <<>>, FALSE)
      BY <2>2, <3>1, <3>2, OtherSection
    <3>. HIDE DEF z
    <3>4. <<z, y>> \in Clean
      BY <2>4, <3>2, <3>3
    <3>. QED  BY <2>3, <2>6, <3>1, <3>4, Zenon DEF z
  <2>8. CASE n = b
    <3>1. <<x, y>> \in Clean /\ R[n] = Behind
      BY <1>5, <2>5, <2>8
    <3>2. Outside(x, <<>>, FALSE) /\ y = <<>>
      BY <3>1
    <3>3. Done(z, SectionData(s), plain)
      BY <1>2, <2>2, <2>8, <3>2, BlkxSection
    <3>4. y \o SectionData(s) = SectionData(s)
      BY <2>3, <3>2, ConcatEmptySeq
    <3>. HIDE DEF z
    <3>5. <<z, SectionData(s)>> \in Behind
      BY <2>3, <2>4, <3>3
    <3>. QED  BY <2>3, <3>1, <3>4, <3>5, Zenon DEF z
  <2>9. CASE n # b /\ ~(n < b)
    <3>1. <<x, y>> \in Behind /\ R[n] = Behind
      BY <1>5, <2>5, <2>9
    <3>2. Done(x, y, plain)
      BY <3>1
    <3>3. Done(z, y, plain)
      BY <2>2, <2>9, <3>2, OtherSectionStays
    <3>. HIDE DEF z
    <3>4. <<z, y>> \in Behind
      BY <2>4, <3>3
    <3>. QED  BY <2>3, <2>6, <2>9, <3>1, <3>4, Zenon DEF z
  <2>. QED  BY <2>7, <2>8, <2>9
<1>6. <<>> \in Seq(STRING) /\ <<st, <<>>>> \in R[0]
  <2>1. <<>> \in Seq(STRING)
    BY EmptySeq
  <2>2. <<st, <<>>>> \in Clean
    BY <2>1
  <2>3. 0 \in 0..N /\ 0 < b
    BY <1>0
  <2>. QED  BY <2>1, <2>2, <2>3
<1>7. <<AllSeen(st, FlattenSeq(Sections(d))), BlkxData(d)>> \in R[N]
  <2>. HIDE DEF R
  <2>1. \A n \in 1..Len(Sections(d)) : \A x \in Scans, y \in Seq(STRING) :
          <<x, y>> \in R[n - 1] => <<AllSeen(x, Sections(d)[n]), y \o SectionsData(d)[n]>> \in R[n]
    BY <1>3, <1>5, Zenon
  <2>2. <<AllSeen(st, FlattenSeq(Sections(d))), <<>> \o FlattenSeq(SectionsData(d))>> \in R[Len(Sections(d))]
    BY <1>3, <1>6, <2>1, CarriedInTurn, Zenon
  <2>3. <<>> \o BlkxData(d) = BlkxData(d)
    BY <1>3, FlattenIsJoined, ConcatEmptySeq
  <2>. QED  BY <1>3, <2>2, <2>3, Zenon
<1>8. CASE N < b
  <2>. DEFINE z == AllSeen(st, FlattenSeq(Sections(d)))
  <2>1. N \in 0..N
    BY <1>0
  <2>2. <<z, BlkxData(d)>> \in Clean
    BY <1>7, <1>8, <2>1
  <2>. HIDE DEF z
  <2>3. Outside(z, <<>>, FALSE) /\ BlkxData(d) = <<>>
    BY <2>2
  <2>4. Held(<<>>, Len(<<>>), <<>>)
    BY DEF Held
  <2>. QED  BY <2>3, <2>4, Zenon DEF z, Done, Outside, plain
<1>9. CASE ~(N < b)
  <2>1. N \in 0..N
    BY <1>0
  <2>2. <<AllSeen(st, FlattenSeq(Sections(d))), BlkxData(d)>> \in Behind
    BY <1>7, <1>9, <2>1
  <2>. QED  BY <2>2 DEF plain
<1>. QED  BY <1>8, <1>9

LEMMA FreshType ==
  Fresh \in Scans /\ Outside(Fresh, <<>>, FALSE)
BY LiteralsAssumption, EmptySeq DEF Fresh, Scans, Outside

(* What the scan of a whole document takes.                                *)
LEMMA DocumentSeen ==
  ASSUME NEW d \in Seq(Section)
  PROVE  /\ Events(d) \in Seq(EventRecord) /\ BlkxData(d) \in Seq(STRING)
         /\ AllSeen(Fresh, Events(d)) \in Scans
         /\ Named(d) => Done(AllSeen(Fresh, Events(d)), BlkxData(d), Plain(d))
<1>. DEFINE P == <<Other, Start("plist"), Start("dict")>>
            K == Element("key", "resource-fork")
            W == Wrap("dict", Sections(d))
            Q == <<End("dict"), End("plist")>>
            keyed == ElementSeen(Fresh, "key", "resource-fork")
            x == AllSeen(keyed, FlattenSeq(Sections(d)))
<1>1. /\ "plist" \in STRING /\ "dict" \in STRING /\ "key" \in STRING /\ "resource-fork" \in STRING
      /\ Fresh \in Scans /\ Outside(Fresh, <<>>, FALSE)
  BY LiteralsAssumption, FreshType
<1>2. \A y : /\ Seen(y, Other) = y /\ Seen(y, Start("plist")) = y /\ Seen(y, Start("dict")) = y
             /\ Seen(y, End("dict")) = y /\ Seen(y, End("plist")) = y
  BY DEF Seen, StartSeen, EndSeen, Start, End, Other
<1>3. Sections(d) \in Seq(Seq(EventRecord))
      /\ BlkxData(d) = FlattenSeq(SectionsData(d)) /\ SectionsData(d) \in Seq(Seq(STRING))
  BY SectionsType
<1>4. P \in Seq(EventRecord) /\ AllSeen(Fresh, P) = Fresh
  <2>1. /\ P \in Seq(EventRecord)
        /\ AllSeen(Fresh, P) = Seen(Seen(Seen(Fresh, Other), Start("plist")), Start("dict"))
    BY <1>1, EventTypes, SeenThree
  <2>. QED  BY <1>2, <2>1, Zenon
<1>. HIDE DEF P
<1>5. K \in Seq(EventRecord) /\ AllSeen(Fresh, K) = keyed /\ keyed \in Scans
  BY <1>1, ElementIsSeen
<1>6. Outside(keyed, <<>>, FALSE)
  <2>1. "key" # "array"
    OBVIOUS
  <2>. QED  BY <1>1, <2>1, OutsideElement
<1>. HIDE DEF K, keyed
<1>7. W \in Seq(EventRecord) /\ AllSeen(keyed, W) = x
  BY <1>3, <1>5, DictIsSeen
<1>8. x \in Scans /\ (Named(d) => Done(x, BlkxData(d), Plain(d)))
  <2>1. FlattenSeq(Sections(d)) \in Seq(EventRecord)
    BY <1>3, FlattenIsJoined
  <2>. QED  BY <1>5, <1>6, <2>1, AfterFacts, SectionsSeen
<1>. HIDE DEF W, x
<1>9. Q \in Seq(EventRecord) /\ AllSeen(x, Q) = x
  <2>1. Q \in Seq(EventRecord) /\ AllSeen(x, Q) = Seen(Seen(x, End("dict")), End("plist"))
    BY <1>1, <1>8, EventTypes, SeenTwo
  <2>. QED  BY <1>2, <2>1, Zenon
<1>. HIDE DEF Q
<1>10. P \o K \in Seq(EventRecord) /\ AllSeen(Fresh, P \o K) = keyed
  BY <1>1, <1>4, <1>5, SeenInTurn, ConcatProperties
<1>11. (P \o K) \o W \in Seq(EventRecord) /\ AllSeen(Fresh, (P \o K) \o W) = x
  BY <1>1, <1>7, <1>10, SeenInTurn, ConcatProperties
<1>12. ((P \o K) \o W) \o Q \in Seq(EventRecord) /\ AllSeen(Fresh, ((P \o K) \o W) \o Q) = x
  BY <1>1, <1>9, <1>11, SeenInTurn, ConcatProperties
<1>13. Events(d) = ((P \o K) \o W) \o Q
  BY Zenon DEF Events, Sections, P, K, W, Q
<1>14. BlkxData(d) \in Seq(STRING)
  BY <1>3, FlattenIsJoined
<1>. QED  BY <1>8, <1>12, <1>13, <1>14, Zenon

(* The first of the events, then the others.                               *)
LEMMA SeenNext ==
  ASSUME NEW st \in Scans, NEW es \in Seq(EventRecord), es # <<>>
  PROVE  /\ Head(es) \in EventRecord /\ Tail(es) \in Seq(EventRecord)
         /\ AllSeen(st, es) = AllSeen(Seen(st, Head(es)), Tail(es))
<1>1. Head(es) \in EventRecord /\ Tail(es) \in Seq(EventRecord)
  BY HeadTailProperties
<1>2. es = <<Head(es)>> \o Tail(es)
  <2>1. Head(es) = es[1] /\ Len(es) \in Nat /\ Len(es) # 0
    BY EmptySeq, LenProperties
  <2>2. /\ Len(Tail(es)) = Len(es) - 1
        /\ \A i \in 1..Len(Tail(es)) : Tail(es)[i] = es[i + 1]
    BY HeadTailProperties
  <2>. DEFINE c == <<Head(es)>> \o Tail(es)
  <2>3. /\ c \in Seq(EventRecord) /\ Len(c) = 1 + Len(Tail(es))
        /\ \A i \in 1..1 + Len(Tail(es)) : c[i] = IF i <= 1 THEN Head(es) ELSE Tail(es)[i - 1]
    <3>1. <<Head(es)>> \in Seq(EventRecord) /\ Len(<<Head(es)>>) = 1 /\ <<Head(es)>>[1] = Head(es)
      BY <1>1
    <3>2. /\ c \in Seq(EventRecord) /\ Len(c) = Len(<<Head(es)>>) + Len(Tail(es))
          /\ \A i \in 1..Len(<<Head(es)>>) + Len(Tail(es)) :
               c[i] = IF i <= Len(<<Head(es)>>) THEN <<Head(es)>>[i] ELSE Tail(es)[i - Len(<<Head(es)>>)]
      BY <1>1, <3>1, ConcatProperties
    <3>. QED  BY <3>1, <3>2
  <2>. HIDE DEF c
  <2>4. Len(c) = Len(es)
    BY <2>1, <2>2, <2>3
  <2>5. ASSUME NEW i \in 1..Len(es) PROVE es[i] = c[i]
    <3>1. i \in 1..1 + Len(Tail(es))
      BY <2>1, <2>2
    <3>2. CASE i = 1
      BY <2>1, <2>3, <3>1, <3>2
    <3>3. CASE i # 1
      <4>1. i - 1 \in 1..Len(Tail(es)) /\ ~(i <= 1) /\ (i - 1) + 1 = i
        BY <2>1, <2>2, <3>3
      <4>2. c[i] = Tail(es)[i - 1]
        BY <2>3, <3>1, <4>1
      <4>. QED  BY <2>2, <4>1, <4>2
    <3>. QED  BY <3>2, <3>3
  <2>6. es = c
    BY <2>3, <2>4, <2>5, SeqEqual
  <2>. QED  BY <2>6 DEF c
<1>3. <<Head(es)>> \in Seq(EventRecord) /\ AllSeen(st, <<Head(es)>>) = Seen(st, Head(es))
  BY <1>1, SeenOne
<1>4. AllSeen(st, <<Head(es)>> \o Tail(es)) = AllSeen(AllSeen(st, <<Head(es)>>), Tail(es))
  BY <1>1, <1>3, SeenInTurn
<1>. QED  BY <1>1, <1>2, <1>3, <1>4, Zenon

-----------------------------------------------------------------------------
(* The run list of one block. *)

LEMMA RoomForRuns ==
  ASSUME NEW length \in Nat, NEW claimed \in Nat, length >= 204
  PROVE  length >= claimed * 40 + 204 <=> claimed <= (length - 204) \div 40
OBVIOUS

(* The length check of parse_mish admits the blocks that hold every run    *)
(* they claim.                                                             *)
LEMMA SoundIsReadable ==
  ASSUME NEW t \in DOMAIN Mish
  PROVE  Sound(t) <=> Readable(Mish[t])
<1>1. Mish[t] \in Block /\ MaxSize \in Nat
  BY PlistAssumption
<1>2. Len(Mish[t].runs) =
        IF Mish[t].length < RunsStart THEN 0 ELSE (Mish[t].length - RunsStart) \div RunSize
  BY PlistAssumption
<1>3. PICK b \in Block : b = Mish[t]
  BY <1>1
<1>4. PICK length \in Nat : length = b.length
  BY <1>1 DEF Block
<1>5. PICK claimed \in Nat : claimed = b.claimed
  BY DEF Block
<1>6. CASE length < 204
  <2>1. ~(length >= 204)
    BY <1>6
  <2>. QED  BY <1>3, <1>4, <2>1, Zenon DEF Sound, Readable, RunsStart
<1>7. CASE length >= 204
  <2>1. length >= claimed * 40 + 204 <=> claimed <= (length - 204) \div 40
    BY <1>7, RoomForRuns
  <2>2. ~(length < 204)
    BY <1>7
  <2>3. Len(b.runs) = (length - 204) \div 40
    BY <1>2, <1>3, <1>4, <2>2, Zenon DEF RunsStart, RunSize
  <2>4. Sound(t) <=> length >= 204 /\ b.magic /\ claimed <= (length - 204) \div 40
    BY <1>3, <1>4, <1>5, <2>3, Zenon DEF Sound, RunsStart
  <2>5. Readable(b) <=> length >= 204 /\ b.magic /\ length >= claimed * 40 + 204
    BY <1>4, <1>5, Zenon DEF Readable, RunsEnd, RunsStart, RunSize
  <2>. QED  BY <1>3, <2>1, <2>4, <2>5, Zenon
<1>. QED  BY <1>6, <1>7

BlockRuns == UNION {ToSet(Mish[t].runs) : t \in DOMAIN Mish}
Partition == [sectorBase : Nat, dataOffset : Nat, runs : Seq(BlockRuns)]

LEMMA ParsedBlock ==
  ASSUME NEW t \in DOMAIN Mish, Sound(t)
  PROVE  ParseMish(Mish[t]) \in Partition /\ Lists(ParseMish(Mish[t]), Mish[t])
<1>. DEFINE b == Mish[t]
            S == {k \in 1..b.claimed : Terminates(b, k)}
            n == RunCount(b)
            p == ParseMish(b)
<1>1. /\ b.sectorBase \in Nat /\ b.dataOffset \in Nat /\ b.claimed \in Nat
      /\ b.runs \in Seq([kind : STRING, id : Nat])
  BY PlistAssumption DEF Block
<1>2. Len(b.runs) \in Nat /\ DOMAIN b.runs = 1..Len(b.runs)
  BY <1>1, LenProperties
<1>3. b.claimed <= Len(b.runs)
  BY DEF Sound
<1>4. /\ n \in 0..b.claimed
      /\ \A k \in 1..n - 1 : ~Terminates(b, k)
      /\ n = b.claimed \/ (n \in 1..b.claimed /\ Terminates(b, n))
  <2>1. CASE S = {}
    <3>1. n = b.claimed
      BY <2>1, Zenon DEF RunCount
    <3>2. \A k \in 1..b.claimed : ~Terminates(b, k)
      BY <2>1
    <3>3. \A k \in 1..b.claimed - 1 : k \in 1..b.claimed
      BY <1>1
    <3>. QED  BY <1>1, <3>1, <3>2, <3>3
  <2>2. CASE S # {}
    <3>1. n = Min(S)
      BY <2>2, Zenon DEF RunCount
    <3>2. S \subseteq Nat
      BY <1>1
    <3>3. n \in S /\ \A y \in S : n <= y
      <4>. HIDE DEF S, n
      <4>. QED  BY <2>2, <3>1, <3>2, SmallestOf
    <3>. HIDE DEF n
    <3>4. n \in 1..b.claimed /\ Terminates(b, n)
      BY <3>3
    <3>5. ASSUME NEW k \in 1..n - 1 PROVE ~Terminates(b, k)
      <4>1. k \in 1..b.claimed /\ ~(n <= k)
        BY <1>1, <3>4
      <4>. QED  BY <3>3, <4>1
    <3>. QED  BY <1>1, <3>4, <3>5
  <2>. QED  BY <2>1, <2>2
<1>. HIDE DEF b
<1>5. /\ p.sectorBase = b.sectorBase /\ p.dataOffset = b.dataOffset
      /\ p.runs = [k \in 1..n |-> ReadRun(b, k)]
  BY DEF ParseMish
<1>. HIDE DEF n
<1>6. n \in Nat /\ \A k \in 1..n : k \in 1..Len(b.runs) /\ k <= Len(b.runs)
  BY <1>1, <1>2, <1>3, <1>4
<1>7. \A k \in 1..n : ReadRun(b, k) = b.runs[k]
  BY <1>6, Zenon DEF ReadRun
<1>8. Len(p.runs) = n /\ \A k \in 1..n : p.runs[k] = b.runs[k]
  BY <1>5, <1>6, <1>7
<1>9. \A k \in 1..n : b.runs[k] \in BlockRuns
  <2>. SUFFICES ASSUME NEW k \in 1..n PROVE b.runs[k] \in BlockRuns
    OBVIOUS
  <2>1. b.runs[k] \in ToSet(b.runs)
    BY <1>2, <1>6 DEF ToSet
  <2>. QED  BY <2>1 DEF BlockRuns, b
<1>10. p.runs \in Seq(BlockRuns)
  BY <1>5, <1>6, <1>7, <1>9
<1>11. p \in Partition
  BY <1>1, <1>5, <1>10 DEF Partition, ParseMish
<1>. HIDE DEF p
<1>12. IsPrefix(p.runs, b.runs)
  <2>1. n <= Len(b.runs)
    BY <1>1, <1>2, <1>3, <1>4
  <2>2. SubSeq(p.runs, 1, n) = [k \in 1..n |-> p.runs[k]]
    BY <1>6
  <2>3. SubSeq(b.runs, 1, n) = [k \in 1..n |-> b.runs[k]]
    BY <1>6
  <2>4. SubSeq(p.runs, 1, n) = SubSeq(b.runs, 1, n)
    BY <1>8, <2>2, <2>3
  <2>. QED  BY <1>8, <2>1, <2>4, Zenon DEF IsPrefix
<1>13. \A k \in 1..n : p.runs[k].kind = "term" <=> Terminates(b, k)
  BY <1>7, <1>8, Zenon DEF Terminates
<1>14. \A k \in 1..n - 1 : p.runs[k].kind # "term"
  <2>1. \A k \in 1..n - 1 : k \in 1..n
    BY <1>6
  <2>. QED  BY <1>4, <1>13, <2>1, Zenon
<1>15. n <= b.claimed
  BY <1>1, <1>4
<1>16. n = b.claimed \/ (p.runs # <<>> /\ Last(p.runs).kind = "term")
  <2>1. SUFFICES ASSUME n \in 1..b.claimed, Terminates(b, n)
                 PROVE  p.runs # <<>> /\ Last(p.runs).kind = "term"
    BY <1>4
  <2>2. n \in 1..n /\ n # 0
    BY <1>6, <2>1
  <2>3. p.runs # <<>>
    BY <1>8, <2>2
  <2>4. p.runs[n].kind = "term"
    BY <1>13, <2>1, <2>2, Zenon
  <2>. QED  BY <1>8, <2>3, <2>4, Zenon DEF Last
<1>17. Lists(p, b)
  BY <1>5, <1>8, <1>12, <1>14, <1>15, <1>16, Zenon DEF Lists
<1>. QED  BY <1>11, <1>17 DEF p, b

-----------------------------------------------------------------------------
(* The inductive invariant: the parser stands where the scan of what it    *)
(* has read stands, and its partitions are read from what that scan took;  *)
(* a whole document is refused at data that holds no readable block.       *)
Now(taken) ==
  [ok |-> TRUE, inBlkx |-> inBlkx, inData |-> inData, lastKey |-> lastKey, taken |-> taken]

Follows(taken) ==
  /\ AllSeen(Now(taken), events) = AllSeen(Fresh, Events(doc))
  /\ Len(partitions) = Len(taken)
  /\ \A k \in 1..Len(taken) : Sound(taken[k]) /\ Lists(partitions[k], Mish[taken[k]])

AtBadBlock ==
  /\ events # <<>> /\ Event.type = "text" /\ Event.of # "blkx"
  /\ inBlkx /\ inData /\ ~Sound(Event.of)
  /\ status = IF Event.of \in DOMAIN Mish THEN "bad_mish" ELSE "bad_plist"

Ends ==
  /\ status = "reading" => whole
  /\ whole /\ status = "ok" => events = <<>>
  /\ whole /\ status \in {"bad_plist", "bad_mish"} => AtBadBlock

ParserInv ==
  /\ doc \in Documents
  /\ events \in Seq(EventRecord)
  /\ inBlkx \in BOOLEAN /\ inData \in BOOLEAN /\ whole \in BOOLEAN
  /\ lastKey \in STRING
  /\ partitions \in Seq(Partition)
  /\ status \in {"reading", "ok", "bad_plist", "bad_mish"}
  /\ Ends
  /\ \E taken \in Seq(STRING) : Follows(taken)

LEMMA NowType ==
  ASSUME ParserInv, NEW taken \in Seq(STRING)
  PROVE  Now(taken) \in Scans
BY DEF ParserInv, Now, Scans

LEMMA ParserInit ==
  ASSUME Init
  PROVE  ParserInv
<1>1. doc \in Documents /\ doc \in Seq(Section)
  BY DocumentsAssumption DEF Init
<1>2. events \in Seq(EventRecord)
  BY <1>1, DocumentSeen DEF Init
<1>3. <<>> \in Seq(STRING) /\ Len(<<>>) = 0 /\ partitions \in Seq(Partition) /\ "" \in STRING
  BY EmptySeq, LiteralsAssumption DEF Init
<1>4. Now(<<>>) = Fresh
  BY DEF Now, Fresh, Init
<1>5. Follows(<<>>)
  <2>1. AllSeen(Now(<<>>), events) = AllSeen(Fresh, Events(doc))
    BY <1>4, Zenon DEF Init
  <2>2. partitions = <<>> /\ \A k \in 1..Len(<<>>) : FALSE
    <3>1. partitions = <<>>
      BY DEF Init
    <3>2. \A k \in 1..0 : FALSE
      OBVIOUS
    <3>. QED  BY <1>3, <3>1, <3>2, Zenon
  <2>. QED  BY <2>1, <2>2, Zenon DEF Follows
<1>6. \E taken \in Seq(STRING) : Follows(taken)
  BY <1>3, <1>5, Zenon
<1>7. Ends
  BY DEF Ends, Init
<1>. QED  BY <1>1, <1>2, <1>3, <1>6, <1>7 DEF ParserInv, Init

(* An event is read: the parser and the scan make the same of it. *)
LEMMA EventRead ==
  ASSUME ParserInv, More, Advance,
         inBlkx' \in BOOLEAN, inData' \in BOOLEAN, lastKey' \in STRING,
         NEW taken \in Seq(STRING), Follows(taken),
         NEW more \in Seq(STRING), Seen(Now(taken), Event) = Now(more)',
         partitions' \in Seq(Partition), Len(partitions') = Len(more),
         \A k \in 1..Len(more) : Sound(more[k]) /\ Lists(partitions'[k], Mish[more[k]])
  PROVE  ParserInv'
<1>1. Now(taken) \in Scans
  BY NowType
<1>2. events \in Seq(EventRecord) /\ events # <<>>
  BY DEF ParserInv, More
<1>3. /\ Tail(events) \in Seq(EventRecord)
      /\ AllSeen(Now(taken), events) = AllSeen(Seen(Now(taken), Event), Tail(events))
  BY <1>1, <1>2, SeenNext DEF Event
<1>4. events' = Tail(events) /\ doc' = doc /\ status' = status /\ whole' = whole
  BY DEF Advance
<1>5. Follows(more)'
  <2>1. AllSeen(Now(more)', Tail(events)) = AllSeen(Fresh, Events(doc))
    BY <1>3, Zenon DEF Follows
  <2>2. (AllSeen(Now(more), events) = AllSeen(Fresh, Events(doc)))'
    BY <1>4, <2>1, Zenon
  <2>. QED  BY <2>2, Zenon DEF Follows
<1>6. \E t \in Seq(STRING) : Follows(t)'
  BY <1>5, Zenon
<1>7. status = "reading" /\ whole
  BY DEF More, ParserInv, Ends
<1>8. Ends'
  BY <1>4, <1>7 DEF Ends
<1>9. /\ doc' \in Documents /\ events' \in Seq(EventRecord) /\ whole' \in BOOLEAN
      /\ status' \in {"reading", "ok", "bad_plist", "bad_mish"}
  BY <1>3, <1>4, Zenon DEF ParserInv
<1>. QED  BY <1>6, <1>8, <1>9, Zenon DEF ParserInv

(* An event that gives no partition. *)
LEMMA FlagsRead ==
  ASSUME ParserInv, More, Advance, partitions' = partitions,
         inBlkx' \in BOOLEAN, inData' \in BOOLEAN, lastKey' \in STRING,
         \A taken \in Seq(STRING) : Seen(Now(taken), Event) = Now(taken)'
  PROVE  ParserInv'
<1>1. PICK taken \in Seq(STRING) : Follows(taken)
  BY Zenon DEF ParserInv
<1>2. /\ Len(partitions) = Len(taken)
      /\ \A k \in 1..Len(taken) : Sound(taken[k]) /\ Lists(partitions[k], Mish[taken[k]])
  BY <1>1, Zenon DEF Follows
<1>3. partitions' \in Seq(Partition)
  BY Zenon DEF ParserInv
<1>4. /\ Len(partitions') = Len(taken)
      /\ \A k \in 1..Len(taken) : Sound(taken[k]) /\ Lists(partitions'[k], Mish[taken[k]])
  BY <1>2, Zenon
<1>5. Seen(Now(taken), Event) = Now(taken)'
  BY Zenon
<1>. QED  BY <1>1, <1>3, <1>4, <1>5, EventRead

LEMMA EventType ==
  ASSUME ParserInv, More
  PROVE  Event \in EventRecord /\ Event.of \in STRING
<1>1. events \in Seq(EventRecord) /\ events # <<>>
  BY DEF ParserInv, More
<1>2. Event \in EventRecord
  BY <1>1, HeadTailProperties DEF Event
<1>. QED  BY <1>2 DEF EventRecord

LEMMA EnterBlkxKeeps ==
  ASSUME ParserInv, EnterBlkx
  PROVE  ParserInv'
<1>1. /\ More /\ Advance /\ partitions' = partitions /\ inBlkx' = TRUE
      /\ inData' = inData /\ lastKey' = lastKey /\ lastKey = "blkx"
      /\ Event.type = "start" /\ Event.of = "array"
  BY DEF EnterBlkx, Sees
<1>2. ASSUME NEW taken \in Seq(STRING) PROVE Seen(Now(taken), Event) = Now(taken)'
  BY <1>1 DEF Seen, StartSeen, Now
<1>3. inBlkx' \in BOOLEAN /\ inData' \in BOOLEAN /\ lastKey' \in STRING
  BY <1>1 DEF ParserInv
<1>. QED  BY <1>1, <1>2, <1>3, FlagsRead, Zenon

LEMMA EnterDataKeeps ==
  ASSUME ParserInv, EnterData
  PROVE  ParserInv'
<1>1. /\ More /\ Advance /\ partitions' = partitions /\ inBlkx' = inBlkx /\ inBlkx
      /\ inData' = TRUE /\ lastKey' = lastKey
      /\ Event.type = "start" /\ Event.of = "data"
  BY DEF EnterData, Sees
<1>2. ASSUME NEW taken \in Seq(STRING) PROVE Seen(Now(taken), Event) = Now(taken)'
  BY <1>1 DEF Seen, StartSeen, Now
<1>3. inBlkx' \in BOOLEAN /\ inData' \in BOOLEAN /\ lastKey' \in STRING
  BY <1>1 DEF ParserInv
<1>. QED  BY <1>1, <1>2, <1>3, FlagsRead, Zenon

LEMMA RememberKeyKeeps ==
  ASSUME ParserInv, RememberKey
  PROVE  ParserInv'
<1>1. /\ More /\ Advance /\ partitions' = partitions /\ inBlkx' = inBlkx
      /\ inData' = inData /\ lastKey' = Event.of
      /\ Event.type = "text" /\ (Event.of = "blkx" \/ ~inBlkx)
  BY DEF RememberKey, IsText
<1>2. ASSUME NEW taken \in Seq(STRING) PROVE Seen(Now(taken), Event) = Now(taken)'
  BY <1>1 DEF Seen, TextSeen, Now
<1>3. inBlkx' \in BOOLEAN /\ inData' \in BOOLEAN /\ lastKey' \in STRING
  BY <1>1, EventType DEF ParserInv
<1>. QED  BY <1>1, <1>2, <1>3, FlagsRead, Zenon

LEMMA LeaveBlkxKeeps ==
  ASSUME ParserInv, LeaveBlkx
  PROVE  ParserInv'
<1>1. /\ More /\ Advance /\ partitions' = partitions /\ inBlkx' = FALSE
      /\ inData' = inData /\ lastKey' = lastKey
      /\ Event.type = "end" /\ Event.of = "array"
  BY DEF LeaveBlkx, Sees
<1>2. ASSUME NEW taken \in Seq(STRING) PROVE Seen(Now(taken), Event) = Now(taken)'
  BY <1>1 DEF Seen, EndSeen, Now
<1>3. inBlkx' \in BOOLEAN /\ inData' \in BOOLEAN /\ lastKey' \in STRING
  BY <1>1 DEF ParserInv
<1>. QED  BY <1>1, <1>2, <1>3, FlagsRead, Zenon

LEMMA IgnoreKeeps ==
  ASSUME ParserInv, Ignore
  PROVE  ParserInv'
<1>1. /\ More /\ Advance /\ partitions' = partitions /\ inBlkx' = inBlkx
      /\ inData' = inData /\ lastKey' = lastKey
  BY DEF Ignore, flags
<1>2. /\ Event.type = "start" => ~(Event.of = "array" /\ lastKey = "blkx") /\ ~(Event.of = "data" /\ inBlkx)
      /\ Event.type = "text" => Event.of # "blkx" /\ inBlkx /\ ~inData
      /\ Event.type = "end" => Event.of # "array"
  BY DEF Ignore
<1>3. ASSUME NEW taken \in Seq(STRING) PROVE Seen(Now(taken), Event) = Now(taken)'
  <2>1. Now(taken)' = Now(taken)
    BY <1>1, Zenon DEF Now
  <2>2. /\ Now(taken).inBlkx = inBlkx /\ Now(taken).inData = inData /\ Now(taken).lastKey = lastKey
    BY DEF Now
  <2>3. Event.type = "start" => StartSeen(Now(taken), Event.of) = Now(taken)
    BY <1>2, <2>2, Zenon DEF StartSeen
  <2>4. Event.type = "text" => TextSeen(Now(taken), Event.of) = Now(taken)
    BY <1>2, <2>2, Zenon DEF TextSeen
  <2>5. Event.type = "end" => EndSeen(Now(taken), Event.of) = Now(taken)
    BY <1>2, <2>2, Zenon DEF EndSeen
  <2>. QED  BY <2>1, <2>3, <2>4, <2>5, Zenon DEF Seen
<1>4. inBlkx' \in BOOLEAN /\ inData' \in BOOLEAN /\ lastKey' \in STRING
  BY <1>1 DEF ParserInv
<1>. QED  BY <1>1, <1>3, <1>4, FlagsRead, Zenon

LEMMA ScanTaking ==
  ASSUME NEW x \in Scans, NEW y \in Scans, NEW z \in Scans, NEW more \in Seq(STRING),
         y = [x EXCEPT !.taken = more, !.inData = FALSE],
         z.ok = x.ok, z.inBlkx = x.inBlkx, z.inData = FALSE, z.lastKey = x.lastKey, z.taken = more
  PROVE  y = z
BY DEF Scans

LEMMA TakeBlockKeeps ==
  ASSUME ParserInv, TakeBlock
  PROVE  ParserInv'
<1>. DEFINE t == Event.of
            p == ParseMish(Mish[t])
<1>1. /\ More /\ Advance /\ partitions' = Append(partitions, p) /\ inBlkx' = inBlkx
      /\ inData' = FALSE /\ lastKey' = lastKey
      /\ Event.type = "text" /\ t # "blkx" /\ inBlkx /\ inData
      /\ t \in DOMAIN Mish /\ Readable(Mish[t])
  BY DEF TakeBlock, AtBlock, IsText
<1>2. t \in STRING
  BY <1>1, EventType
<1>3. Sound(t)
  BY <1>1, SoundIsReadable
<1>4. p \in Partition /\ Lists(p, Mish[t])
  BY <1>1, <1>3, ParsedBlock
<1>. HIDE DEF p
<1>5. PICK taken \in Seq(STRING) : Follows(taken)
  BY Zenon DEF ParserInv
<1>. DEFINE N == Len(taken)
<1>6. /\ N \in Nat /\ Len(partitions) = N
      /\ \A k \in 1..N : Sound(taken[k]) /\ Lists(partitions[k], Mish[taken[k]])
  <2>1. N \in Nat
    BY LenProperties
  <2>. QED  BY <1>5, <2>1, Zenon DEF Follows
<1>7. PICK more \in Seq(STRING) : more = Append(taken, t)
  BY <1>2, AppendProperties
<1>8. Len(more) = N + 1 /\ more[N + 1] = t /\ \A k \in 1..N : more[k] = taken[k]
  <2>1. /\ Len(Append(taken, t)) = N + 1 /\ Append(taken, t)[N + 1] = t
        /\ \A k \in 1..N : Append(taken, t)[k] = taken[k]
    BY <1>2, AppendProperties
  <2>. QED  BY <1>7, <2>1, Zenon
<1>9. /\ partitions' \in Seq(Partition) /\ Len(partitions') = N + 1 /\ partitions'[N + 1] = p
      /\ \A k \in 1..N : partitions'[k] = partitions[k]
  <2>1. partitions \in Seq(Partition)
    BY Zenon DEF ParserInv
  <2>. DEFINE after == Append(partitions, p)
  <2>2. /\ after \in Seq(Partition) /\ Len(after) = Len(partitions) + 1
        /\ after[Len(partitions) + 1] = p
        /\ \A k \in 1..Len(partitions) : after[k] = partitions[k]
    BY <1>4, <2>1, AppendProperties
  <2>. HIDE DEF after
  <2>3. /\ after \in Seq(Partition) /\ Len(after) = N + 1 /\ after[N + 1] = p
        /\ \A k \in 1..N : after[k] = partitions[k]
    BY <1>6, <2>2, Zenon
  <2>4. partitions' = after
    BY <1>1 DEF after
  <2>. QED  BY <2>3, <2>4, Zenon
<1>10. Seen(Now(taken), Event) = Now(more)'
  <2>1. Seen(Now(taken), Event) = TextSeen(Now(taken), t)
    BY <1>1 DEF Seen, Now
  <2>2. TextSeen(Now(taken), t) = [Now(taken) EXCEPT !.taken = more, !.inData = FALSE]
    <3>1. TextSeen(Now(taken), t) = [Now(taken) EXCEPT !.taken = Append(@, t), !.inData = FALSE]
      BY <1>1, <1>3 DEF TextSeen, Now
    <3>2. Now(taken).taken = taken
      BY DEF Now
    <3>. QED  BY <1>7, <3>1, <3>2, Zenon
  <2>3. /\ Now(taken) \in Scans /\ Now(more)' \in Scans
        /\ [Now(taken) EXCEPT !.taken = more, !.inData = FALSE] \in Scans
    <3>1. Now(taken) \in Scans
      BY NowType
    <3>2. inBlkx' \in BOOLEAN /\ inData' \in BOOLEAN /\ lastKey' \in STRING
      BY <1>1 DEF ParserInv
    <3>. QED  BY <3>1, <3>2 DEF Now, Scans
  <2>4. /\ Now(more)'.ok = Now(taken).ok /\ Now(more)'.inBlkx = Now(taken).inBlkx
        /\ Now(more)'.inData = FALSE /\ Now(more)'.lastKey = Now(taken).lastKey
        /\ Now(more)'.taken = more
    BY <1>1 DEF Now
  <2>5. [Now(taken) EXCEPT !.taken = more, !.inData = FALSE] = Now(more)'
    BY <2>3, <2>4, ScanTaking
  <2>. QED  BY <2>1, <2>2, <2>5, Zenon
<1>. HIDE DEF N
<1>11. ASSUME NEW k \in 1..N + 1 PROVE Sound(more[k]) /\ Lists(partitions'[k], Mish[more[k]])
  <2>1. CASE k = N + 1
    BY <1>3, <1>4, <1>8, <1>9, <2>1, Zenon
  <2>2. CASE k # N + 1
    <3>1. k \in 1..N
      <4>1. N \in Nat
        BY <1>6
      <4>. QED  BY <2>2, <4>1
    <3>. QED  BY <1>6, <1>8, <1>9, <3>1, Zenon
  <2>. QED  BY <2>1, <2>2
<1>12. inBlkx' \in BOOLEAN /\ inData' \in BOOLEAN /\ lastKey' \in STRING
  BY <1>1 DEF ParserInv
<1>13. /\ Len(partitions') = Len(more)
       /\ \A k \in 1..Len(more) : Sound(more[k]) /\ Lists(partitions'[k], Mish[more[k]])
  BY <1>8, <1>9, <1>11, Zenon
<1>. QED  BY <1>1, <1>5, <1>8, <1>9, <1>10, <1>12, <1>13, EventRead

LEMMA RefuseBlockKeeps ==
  ASSUME ParserInv, RefuseBlock
  PROVE  ParserInv'
<1>1. /\ More /\ Event.type = "text" /\ Event.of # "blkx" /\ inBlkx /\ inData
      /\ events' = events /\ doc' = doc /\ partitions' = partitions /\ whole' = whole
      /\ inBlkx' = inBlkx /\ inData' = inData /\ lastKey' = lastKey
  BY DEF RefuseBlock, AtBlock, IsText, flags
<1>2. \/ Event.of \notin DOMAIN Mish /\ status' = "bad_plist"
      \/ Event.of \in DOMAIN Mish /\ ~Readable(Mish[Event.of]) /\ status' = "bad_mish"
  BY DEF RefuseBlock
<1>3. ~Sound(Event.of) /\ status' = IF Event.of \in DOMAIN Mish THEN "bad_mish" ELSE "bad_plist"
  <2>1. Sound(Event.of) => Event.of \in DOMAIN Mish
    BY DEF Sound
  <2>. QED  BY <1>2, <2>1, SoundIsReadable
<1>4. AtBadBlock'
  <2>1. events # <<>>
    BY <1>1 DEF More
  <2>. QED  BY <1>1, <1>3, <2>1 DEF AtBadBlock, Event
<1>5. Ends'
  BY <1>2, <1>4 DEF Ends
<1>6. (\E taken \in Seq(STRING) : Follows(taken))'
  <2>1. PICK taken \in Seq(STRING) : Follows(taken)
    BY Zenon DEF ParserInv
  <2>2. Follows(taken)'
    BY <1>1, <2>1, Zenon DEF Follows, Now
  <2>. QED  BY <2>2, Zenon
<1>7. status' \in {"reading", "ok", "bad_plist", "bad_mish"}
  BY <1>2
<1>. QED  BY <1>1, <1>5, <1>6, <1>7, Zenon DEF ParserInv

LEMMA EndKeeps ==
  ASSUME ParserInv, Eof \/ Damaged \/ UNCHANGED vars
  PROVE  ParserInv'
<1>1. /\ events' = events /\ doc' = doc /\ partitions' = partitions
      /\ inBlkx' = inBlkx /\ inData' = inData /\ lastKey' = lastKey
  BY DEF Eof, Damaged, vars, flags
<1>2. /\ status' \in {"reading", "ok", "bad_plist", "bad_mish"} /\ whole' \in BOOLEAN
      /\ Ends'
  <2>1. CASE Eof
    BY <2>1 DEF Eof, ParserInv, Ends
  <2>2. CASE Damaged
    BY <2>2 DEF Damaged, ParserInv, Ends
  <2>3. CASE UNCHANGED vars
    BY <2>3 DEF vars, flags, ParserInv, Ends, AtBadBlock, Event
  <2>. QED  BY <2>1, <2>2, <2>3
<1>3. (\E taken \in Seq(STRING) : Follows(taken))'
  <2>1. PICK taken \in Seq(STRING) : Follows(taken)
    BY Zenon DEF ParserInv
  <2>2. Follows(taken)'
    BY <1>1, <2>1, Zenon DEF Follows, Now
  <2>. QED  BY <2>2, Zenon
<1>. QED  BY <1>1, <1>2, <1>3, Zenon DEF ParserInv

LEMMA ParserInvariant == Spec => []ParserInv
<1>1. Init => ParserInv
  BY ParserInit
<1>2. ParserInv /\ [Next]_vars => ParserInv'
  BY EnterBlkxKeeps, EnterDataKeeps, RememberKeyKeeps, TakeBlockKeeps, RefuseBlockKeeps,
     LeaveBlkxKeeps, IgnoreKeeps, EndKeeps DEF Next
<1>. QED  BY <1>1, <1>2, PTL DEF Spec

-----------------------------------------------------------------------------
(* The parser keeps its variables to their types, and every run of a       *)
(* partition is one that some block holds, none made of the zeros that     *)
(* stand for bytes beyond a block's end (core/src/lib.rs, parse_mish).     *)
THEOREM ParserTypeCorrect == Spec => []TypeOK
<1>1. ParserInv => TypeOK
  <2>. SUFFICES ASSUME ParserInv PROVE TypeOK
    OBVIOUS
  <2>1. partitions \in Seq(Partition) /\ DOMAIN partitions = 1..Len(partitions)
    BY LenProperties DEF ParserInv
  <2>2. ASSUME NEW k \in DOMAIN partitions
        PROVE  /\ partitions[k].runs \in Seq(BlockRuns)
               /\ partitions[k].sectorBase \in Nat /\ partitions[k].dataOffset \in Nat
    <3>1. partitions[k] \in Partition
      BY <2>1, ElementOfSeq
    <3>. QED  BY <3>1 DEF Partition
  <2>3. {inBlkx, inData, whole} \subseteq BOOLEAN
    BY DEF ParserInv
  <2>. QED  BY <2>2, <2>3, Zenon DEF TypeOK, ParserInv, BlockRuns
<1>. QED  BY <1>1, ParserInvariant, PTL

(* What the scan took up to here is the first of what it takes of the      *)
(* whole document.                                                         *)
LEMMA TakenOfWhole ==
  ASSUME ParserInv, Named(doc), NEW taken \in Seq(STRING), Follows(taken)
  PROVE  LET x == AllSeen(Fresh, Events(doc))
         IN  /\ x \in Scans /\ Done(x, BlkxData(doc), Plain(doc)) /\ BlkxData(doc) \in Seq(STRING)
             /\ Grows(Now(taken), x)
             /\ Held(taken, Len(taken), BlkxData(doc))
<1>. DEFINE x == AllSeen(Fresh, Events(doc))
            data == BlkxData(doc)
            N == Len(taken)
            M == Len(x.taken)
<1>1. doc \in Seq(Section)
  BY DocumentsAssumption DEF ParserInv
<1>2. x \in Scans /\ Done(x, data, Plain(doc)) /\ data \in Seq(STRING)
  BY <1>1, DocumentSeen
<1>3. Grows(Now(taken), x)
  <2>1. Now(taken) \in Scans /\ events \in Seq(EventRecord)
    BY NowType DEF ParserInv
  <2>2. Grows(Now(taken), AllSeen(Now(taken), events))
    BY <2>1, AllSeenGrows
  <2>. QED  BY <2>2, Zenon DEF Follows
<1>. HIDE DEF x, data
<1>4. M \in Nat /\ N \in Nat /\ Len(data) \in Nat
  <2>1. x.taken \in Seq(STRING)
    BY <1>2 DEF Scans
  <2>. QED  BY <1>2, <2>1, LenProperties
<1>5. /\ N <= M /\ \A k \in 1..N : x.taken[k] = taken[k]
      /\ ~x.ok => N < M
  BY <1>3 DEF Grows, Now
<1>6. CASE x.ok
  <2>1. M <= Len(data) /\ \A k \in 1..M : x.taken[k] = data[k]
    BY <1>2, <1>6, Zenon DEF Done, Held
  <2>2. N <= Len(data) /\ \A k \in 1..N : k \in 1..M
    BY <1>4, <1>5, <2>1
  <2>3. \A k \in 1..N : taken[k] = data[k]
    BY <1>5, <2>1, <2>2, Zenon
  <2>4. Held(taken, N, data)
    BY <2>2, <2>3, Zenon DEF Held
  <2>. QED  BY <1>2, <1>3, <2>4 DEF x, data
<1>7. CASE ~x.ok
  <2>1. M - 1 <= Len(data) /\ \A k \in 1..M - 1 : x.taken[k] = data[k]
    BY <1>2, <1>7, Zenon DEF Done, Held
  <2>2. N <= Len(data) /\ \A k \in 1..N : k \in 1..M - 1
    BY <1>4, <1>5, <1>7, <2>1
  <2>3. \A k \in 1..N : taken[k] = data[k]
    BY <1>5, <2>1, <2>2, Zenon
  <2>4. Held(taken, N, data)
    BY <2>2, <2>3, Zenon DEF Held
  <2>. QED  BY <1>2, <1>3, <2>4 DEF x, data
<1>. QED  BY <1>6, <1>7

(* Of every document whose sections and keys have proper names, cut off or *)
(* refused where it may be, the partitions are the first blocks of the     *)
(* blkx array, in order, each with the runs its block holds.               *)
THEOREM PartitionsAreBlkxBlocksHolds == Spec => []PartitionsAreBlkxBlocks
<1>1. ParserInv => PartitionsAreBlkxBlocks
  <2>. SUFFICES ASSUME ParserInv, Named(doc) PROVE PartitionsAreBlkxBlocks
    BY DEF PartitionsAreBlkxBlocks
  <2>1. PICK taken \in Seq(STRING) : Follows(taken)
    BY Zenon DEF ParserInv
  <2>2. Held(taken, Len(taken), BlkxData(doc))
    BY <2>1, TakenOfWhole
  <2>3. DOMAIN partitions = 1..Len(partitions)
    BY LenProperties DEF ParserInv
  <2>4. /\ Len(partitions) <= Len(BlkxData(doc))
        /\ \A k \in DOMAIN partitions :
             Sound(BlkxData(doc)[k]) /\ Lists(partitions[k], Mish[BlkxData(doc)[k]])
    BY <2>1, <2>2, <2>3, Zenon DEF Follows, Held
  <2>. QED  BY <2>4, Zenon DEF PartitionsAreBlkxBlocks
<1>. QED  BY <1>1, ParserInvariant, PTL

(* The scan of a whole document that was refused stopped at the data it    *)
(* was refused at.                                                         *)
LEMMA StoppedAtBadBlock ==
  ASSUME ParserInv, AtBadBlock, NEW taken \in Seq(STRING), Follows(taken)
  PROVE  LET x == AllSeen(Fresh, Events(doc))
         IN  ~x.ok /\ x.taken = Append(taken, Event.of) /\ Event.of \in STRING
<1>1. Now(taken) \in Scans /\ events \in Seq(EventRecord) /\ events # <<>>
  BY NowType DEF ParserInv, AtBadBlock
<1>2. /\ Event \in EventRecord /\ Tail(events) \in Seq(EventRecord)
      /\ AllSeen(Now(taken), events) = AllSeen(Seen(Now(taken), Event), Tail(events))
  BY <1>1, SeenNext DEF Event
<1>3. Event.of \in STRING
  BY <1>2 DEF EventRecord
<1>. DEFINE y == Seen(Now(taken), Event)
<1>4. y \in Scans
  BY <1>1, <1>2, SeenType
<1>5. ~y.ok /\ y.taken = Append(taken, Event.of)
  <2>1. /\ Event.type = "text" /\ Event.of # "blkx" /\ inBlkx /\ inData /\ ~Sound(Event.of)
    BY DEF AtBadBlock
  <2>2. y = TextSeen(Now(taken), Event.of)
    BY <2>1 DEF Seen, Now
  <2>3. /\ Now(taken).inBlkx /\ Now(taken).inData /\ Now(taken).taken = taken
    BY <2>1 DEF Now
  <2>4. TextSeen(Now(taken), Event.of) =
          [Now(taken) EXCEPT !.taken = Append(@, Event.of), !.ok = FALSE]
    BY <2>1, <2>3, Zenon DEF TextSeen
  <2>. HIDE DEF y
  <2>5. PICK z \in Scans : z = Now(taken)
    BY <1>1
  <2>6. y = [z EXCEPT !.taken = Append(@, Event.of), !.ok = FALSE]
    BY <2>2, <2>4, <2>5, Zenon
  <2>7. ~y.ok /\ y.taken = Append(z.taken, Event.of)
    BY <2>6 DEF Scans
  <2>. QED  BY <2>3, <2>5, <2>7, Zenon
<1>. HIDE DEF y
<1>6. AllSeen(y, Tail(events)) = y
  BY <1>2, <1>4, <1>5, Stopped
<1>7. AllSeen(Fresh, Events(doc)) = y
  BY <1>2, <1>6, Zenon DEF Follows, y
<1>. QED  BY <1>3, <1>5, <1>7, Zenon

(* From a plain document every block is extracted; when one cannot be, the *)
(* parser fails, at the first such, with the error that names the culprit. *)
THEOREM ExtractsAllPartitionsHolds == Spec => []ExtractsAllPartitions
<1>1. ParserInv => ExtractsAllPartitions
  <2>. DEFINE data == BlkxData(doc)
              bad == {k \in DOMAIN data : ~Sound(data[k])}
              x == AllSeen(Fresh, Events(doc))
  <2>. SUFFICES ASSUME ParserInv, status # "reading", whole, Named(doc), Plain(doc)
                PROVE  IF bad = {} THEN status = "ok" /\ Len(partitions) = Len(data)
                       ELSE /\ Len(partitions) = Min(bad) - 1
                            /\ status = IF data[Min(bad)] \in DOMAIN Mish THEN "bad_mish"
                                        ELSE "bad_plist"
    BY DEF ExtractsAllPartitions
  <2>1. PICK taken \in Seq(STRING) : Follows(taken)
    BY Zenon DEF ParserInv
  <2>2. /\ x \in Scans /\ Done(x, data, TRUE) /\ data \in Seq(STRING)
        /\ Held(taken, Len(taken), data)
    BY <2>1, TakenOfWhole
  <2>3. /\ Len(partitions) = Len(taken) /\ \A k \in 1..Len(taken) : Sound(taken[k])
        /\ AllSeen(Now(taken), events) = x
    BY <2>1, Zenon DEF Follows
  <2>4. DOMAIN data = 1..Len(data) /\ Len(data) \in Nat /\ Len(taken) \in Nat
    BY <2>2, LenProperties
  <2>5. \A k \in 1..Len(taken) : Sound(data[k])
    BY <2>2, <2>3, Zenon DEF Held
  <2>. HIDE DEF data, x
  <2>6. CASE status = "ok"
    <3>1. events = <<>>
      BY <2>6 DEF ParserInv, Ends
    <3>2. x = Now(taken)
      BY <2>3, <3>1, NowType, SeenNothing
    <3>3. taken = data
      BY <2>2, <3>2 DEF Done, Now
    <3>4. bad = {}
      BY <2>4, <2>5, <3>3
    <3>. QED  BY <2>3, <2>6, <3>3, <3>4, Zenon
  <2>7. CASE status \in {"bad_plist", "bad_mish"}
    <3>1. AtBadBlock
      BY <2>7 DEF ParserInv, Ends
    <3>2. ~x.ok /\ x.taken = Append(taken, Event.of) /\ Event.of \in STRING
      BY <2>1, <3>1, StoppedAtBadBlock DEF x
    <3>. DEFINE n == Len(taken) + 1
    <3>3. Len(x.taken) = n /\ x.taken[n] = Event.of
      <4>1. Len(Append(taken, Event.of)) = n /\ Append(taken, Event.of)[n] = Event.of
        BY <3>2, AppendProperties
      <4>. QED  BY <3>2, <4>1, Zenon
    <3>4. n <= Len(data) /\ \A k \in 1..n : x.taken[k] = data[k]
      BY <2>2, <3>2, <3>3, Zenon DEF Done, Held
    <3>5. n \in 1..n /\ n \in 1..Len(data) /\ n - 1 = Len(taken)
      BY <2>4, <3>4
    <3>6. data[n] = Event.of /\ ~Sound(data[n])
      <4>1. data[n] = Event.of
        BY <3>3, <3>4, <3>5, Zenon
      <4>2. ~Sound(Event.of)
        BY <3>1 DEF AtBadBlock
      <4>. QED  BY <4>1, <4>2, Zenon
    <3>7. n \in bad /\ bad \subseteq Nat
      BY <2>4, <3>5, <3>6
    <3>8. \A k \in bad : n <= k
      <4>1. \A k \in bad : k \in Nat /\ k >= 1 /\ k \notin 1..Len(taken)
        BY <2>4, <2>5
      <4>. QED  BY <2>4, <4>1
    <3>. HIDE DEF bad
    <3>9. bad # {} /\ Min(bad) = n
      <4>1. bad # {}
        BY <3>7
      <4>2. Min(bad) \in bad /\ \A k \in bad : Min(bad) <= k
        BY <3>7, <4>1, SmallestOf
      <4>3. Min(bad) <= n /\ n <= Min(bad) /\ Min(bad) \in Nat /\ n \in Nat
        BY <2>4, <3>7, <3>8, <4>2
      <4>. QED  BY <4>1, <4>3
    <3>10. status = IF data[n] \in DOMAIN Mish THEN "bad_mish" ELSE "bad_plist"
      BY <3>1, <3>6, Zenon DEF AtBadBlock
    <3>. QED  BY <2>3, <3>5, <3>9, <3>10, Zenon
  <2>8. status \in {"reading", "ok", "bad_plist", "bad_mish"}
    BY DEF ParserInv
  <2>. QED  BY <2>6, <2>7, <2>8
<1>. QED  BY <1>1, ParserInvariant, PTL
=============================================================================
