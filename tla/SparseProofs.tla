---------------------------- MODULE SparseProofs ----------------------------
(***************************************************************************)
(* SparseImageReader, for every band table, header, disk size and sequence *)
(* of calls: it is a virtual disk.                                         *)
(*                                                                         *)
(* The argument has three parts: that the inverted table and the table     *)
(* agree (InvertedFacts), that one read stays within a band, where the     *)
(* place of a byte is linear in the cursor (WindowFacts, ServedBytes), and *)
(* that the slots which open counts are those which begin in the file      *)
(* (StoredSlotsFacts).                                                     *)
(***************************************************************************)
EXTENDS FuzzSparse, WellFoundedInduction, TLAPS

-----------------------------------------------------------------------------
(* Facts about what the two sparse readers share, for every band size and  *)
(* every width of the machine integers: a read's window stays in one band, *)
(* where the place of a byte is linear in the cursor, and a seek in u64.   *)

LEMMA DivisionFacts ==
  ASSUME NEW n \in Nat, NEW d \in Nat \ {0}
  PROVE  /\ n \div d \in Nat
         /\ n % d \in 0..d - 1
         /\ n = (n \div d) * d + (n % d)
  OBVIOUS

LEMMA QuotientIsUnique ==
  ASSUME NEW q \in Nat, NEW r \in Nat, NEW d \in Nat \ {0}, r < d
  PROVE  (q * d + r) \div d = q /\ (q * d + r) % d = r
  OBVIOUS

LEMMA LargestOf ==
  ASSUME NEW n \in Nat, NEW S, S \subseteq 0..n, S # {}
  PROVE  Max(S) \in S /\ \A y \in S : y <= Max(S)
<1>. DEFINE D == {n - x : x \in S}
<1>1. D \subseteq Nat
  <2>. SUFFICES ASSUME NEW x \in S PROVE n - x \in Nat
    OBVIOUS
  <2>1. x \in 0..n
    OBVIOUS
  <2>. QED  BY <2>1
<1>2. D # {}
  <2>1. PICK x : x \in S
    OBVIOUS
  <2>2. n - x \in D
    BY <2>1
  <2>. QED  BY <2>2
<1>3. PICK d \in D : \A y \in D : d <= y
  <2>. HIDE DEF D
  <2>1. PICK x \in D : \A y \in D : <<y, x>> \notin OpToRel(<, Nat)
    BY <1>1, <1>2, NatLessThanWellFounded, WFMin
  <2>2. ASSUME NEW y \in D PROVE x <= y
    <3>1. <<y, x>> \in Nat \X Nat /\ <<y, x>> \notin OpToRel(<, Nat)
      BY <1>1, <2>1
    <3>2. ~(y < x)
      BY <3>1 DEF OpToRel
    <3>3. x \in Nat /\ y \in Nat
      BY <1>1
    <3>. QED  BY <3>2, <3>3
  <2>. QED  BY <2>2
<1>4. PICK x \in S : d = n - x
  BY <1>3
<1>5. \A y \in S : x >= y
  <2>. SUFFICES ASSUME NEW y \in S PROVE x >= y
    OBVIOUS
  <2>1. n - y \in D
    OBVIOUS
  <2>2. d <= n - y
    BY <1>3, <2>1
  <2>3. x \in Nat /\ y \in Nat
    OBVIOUS
  <2>. QED  BY <1>4, <2>2, <2>3
<1>6. /\ Max(S) \in S
      /\ \A y \in S : Max(S) >= y
  BY <1>5 DEF Max
<1>7. \A y \in S : y \in Int
  OBVIOUS
<1>. QED  BY <1>6, <1>7

(* A window is not empty, and every byte of it lies in the cursor's band. *)
LEMMA WindowFacts ==
  ASSUME NEW pos \in Nat, NEW len \in Nat \ {0}, NEW d \in Nat \ {0}, NEW size \in Nat,
         pos < size
  PROVE  /\ Window(pos, len, d, size) \in 1..len
         /\ pos + Window(pos, len, d, size) <= size
         /\ \A i \in 1..Window(pos, len, d, size) :
              /\ (pos + i - 1) \div d = pos \div d
              /\ (pos + i - 1) % d = (pos % d) + i - 1
              /\ (pos % d) + i - 1 \in 0..d - 1
<1>. DEFINE n == Window(pos, len, d, size)
            q == pos \div d
            r == pos % d
<1>1. q \in Nat /\ r \in 0..d - 1 /\ pos = q * d + r
  BY DivisionFacts
<1>2. n = Lesser(Lesser(len, d - r), size - pos)
  BY DEF Window
<1>. HIDE DEF n, q, r
<1>3. n \in 1..len /\ n <= d - r /\ n <= size - pos
  BY <1>1, <1>2 DEF Lesser
<1>4. ASSUME NEW i \in 1..n
      PROVE  (pos + i - 1) \div d = q /\ (pos + i - 1) % d = r + i - 1
             /\ r + i - 1 \in 0..d - 1
  <2>1. i \in Nat /\ r + i - 1 \in Nat /\ r + i - 1 < d /\ q * d \in Nat
    BY <1>1, <1>3
  <2>2. pos + i - 1 = q * d + (r + i - 1)
    BY <1>1, <2>1
  <2>3. (q * d + (r + i - 1)) \div d = q /\ (q * d + (r + i - 1)) % d = r + i - 1
    BY <1>1, <2>1, QuotientIsUnique
  <2>4. (pos + i - 1) \div d = q /\ (pos + i - 1) % d = r + i - 1
    BY <2>2, <2>3, Zenon
  <2>5. r + i - 1 \in 0..d - 1
    BY <2>1
  <2>. QED  BY <2>4, <2>5
<1>. QED  BY <1>3, <1>4 DEF n, q, r

LEMMA UntouchedType ==
  ASSUME NEW len \in Nat
  PROVE  /\ UntouchedBuffer(len) \in [1..len -> Cell]
         /\ \A i \in 1..len : UntouchedBuffer(len)[i].src # "file"
  BY DEF UntouchedBuffer, StaleByte, Cell

LEMMA FilledFacts ==
  ASSUME NEW s \in Seq(Cell), NEW len \in Nat
  PROVE  /\ Filled(s, len) \in [1..len -> Cell]
         /\ \A i \in 1..len : Filled(s, len)[i] = IF i <= Len(s) THEN s[i] ELSE StaleByte
<1>1. StaleByte \in Cell
  BY DEF StaleByte, Cell
<1>2. \A i \in 1..len : i <= Len(s) => s[i] \in Cell
  OBVIOUS
<1>. QED  BY <1>1, <1>2 DEF Filled

LEMMA SeekWithinType ==
  ASSUME NEW base \in Word, NEW d \in Delta
  PROVE  SeekWithin(base, d) \in Word
<1>1. d \in Int /\ MaxWord \in Nat
  BY WordAssumption DEF Delta
<1>. QED  BY <1>1 DEF SeekWithin, SatAdd, SatSub, Word

-----------------------------------------------------------------------------
(* Files that open *)

(* div_ceil counts the multiples of d below n. *)
LEMMA CeilingFacts ==
  ASSUME NEW n \in Nat, NEW d \in Nat \ {0}, NEW s \in Nat
  PROVE  /\ (n + d - 1) \div d \in Nat
         /\ s < (n + d - 1) \div d <=> s * d < n
  OBVIOUS

Opens(f) == f \in Files /\ "ok" \in OpenOutcomes(f)

LEMMA FileFacts ==
  ASSUME NEW f \in Files
  PROVE  /\ f.size \in Nat /\ f.sectorsPerBand \in Nat /\ f.totalSectors \in Nat
         /\ f.table \in [Slots -> Nat]
         /\ HeaderSize \in Nat /\ SectorSize \in Nat \ {0} /\ MaxSlots \in Nat
         /\ MaxWord \in Nat
         /\ f.totalSectors * SectorSize <= MaxWord
         /\ HeaderSize + (MaxSlots + 1) * f.sectorsPerBand * SectorSize <= MaxWord
<1>1. f \in SparseFile /\ Word \subseteq Nat /\ MaxWord \in Nat
  BY SparseAssumption, WordAssumption DEF Word
<1>2. /\ f.size \in Word /\ f.sectorsPerBand \in Word /\ f.totalSectors \in Word
      /\ f.table \in [Slots -> Word]
  BY <1>1 DEF SparseFile
<1>. QED  BY <1>1, <1>2, SparseAssumption

LEMMA MultiplesFit ==
  ASSUME NEW h \in Nat, NEW m \in Nat, NEW d \in Nat, NEW w \in Nat,
         h + (m + 1) * d <= w
  PROVE  /\ d <= w
         /\ \A s \in 0..m, r \in 0..d - 1 : s * d <= w /\ h + s * d <= w /\ h + s * d + r <= w
<1>1. m * d \in Nat /\ (m + 1) * d = m * d + d
  OBVIOUS
<1>2. ASSUME NEW s \in 0..m PROVE s * d \in Nat /\ s * d <= m * d
  <2>1. PICK t \in Nat : m = s + t
    <3>1. m - s \in Nat /\ m = s + (m - s)
      OBVIOUS
    <3>. QED  BY <3>1
  <2>2. m * d = s * d + t * d /\ t * d \in Nat /\ s * d \in Nat
    BY <2>1
  <2>. QED  BY <2>2
<1>3. ASSUME NEW s \in 0..m, NEW r \in 0..d - 1
      PROVE  s * d <= w /\ h + s * d <= w /\ h + s * d + r <= w
  BY <1>1, <1>2
<1>. QED  BY <1>1, <1>3

(* A product of u32 fields saturates nowhere. *)
LEMMA SizesAreExact ==
  ASSUME NEW f \in Files
  PROVE  /\ BandSize(f) = f.sectorsPerBand * SectorSize
         /\ BandSize(f) \in Nat
         /\ HeaderSize + (MaxSlots + 1) * BandSize(f) <= MaxWord
         /\ VirtualSize(f) = f.totalSectors * SectorSize
         /\ VirtualSize(f) \in Nat /\ VirtualSize(f) \in Word
<1>. DEFINE d == f.sectorsPerBand * SectorSize
<1>1. d \in Nat /\ f.totalSectors * SectorSize \in Nat
  BY FileFacts
<1>2. (MaxSlots + 1) * f.sectorsPerBand * SectorSize = (MaxSlots + 1) * d
  BY FileFacts
<1>3. HeaderSize + (MaxSlots + 1) * d <= MaxWord
  BY <1>2, FileFacts
<1>. HIDE DEF d
<1>4. d <= MaxWord
  BY <1>1, <1>3, FileFacts, MultiplesFit
<1>5. BandSize(f) = d
  BY <1>4 DEF BandSize, SatMul, d
<1>6. VirtualSize(f) = f.totalSectors * SectorSize /\ VirtualSize(f) <= MaxWord
  BY FileFacts DEF VirtualSize, SatMul
<1>. QED  BY <1>1, <1>3, <1>5, <1>6 DEF d, Word

(* The slots that open counts are those that begin in the file. *)
LEMMA StoredSlotsFacts ==
  ASSUME NEW f, Opens(f)
  PROVE  /\ BandSize(f) \in Nat \ {0}
         /\ StoredSlots(f) \in 0..MaxSlots
         /\ \A s \in Nat :
              s \in 0..StoredSlots(f) - 1 <=> HeaderSize + s * BandSize(f) < f.size
<1>1. /\ f \in Files /\ f.size >= HeaderSize /\ f.sectorsPerBand # 0
      /\ ~(StoredSlots(f) > MaxSlots)
  BY FileFacts DEF Opens, OpenOutcomes
<1>2. BandSize(f) \in Nat \ {0}
  BY <1>1, FileFacts, SizesAreExact
<1>3. SatSub(f.size, HeaderSize) = f.size - HeaderSize /\ f.size - HeaderSize \in Nat
  BY <1>1, FileFacts DEF SatSub
<1>4. /\ StoredSlots(f) \in Nat
      /\ \A s \in Nat : s < StoredSlots(f) <=> s * BandSize(f) < f.size - HeaderSize
  BY <1>2, <1>3, CeilingFacts DEF StoredSlots
<1>5. \A s \in Nat : s * BandSize(f) \in Nat
  BY <1>2
<1>6. \A s \in Nat : s \in 0..StoredSlots(f) - 1 <=> s < StoredSlots(f)
  BY <1>4
<1>7. \A s \in Nat : s * BandSize(f) < f.size - HeaderSize
                       <=> HeaderSize + s * BandSize(f) < f.size
  BY <1>1, <1>5, FileFacts
<1>8. StoredSlots(f) \in 0..MaxSlots
  BY <1>1, <1>4, FileFacts
<1>. QED  BY <1>2, <1>4, <1>6, <1>7, <1>8

(* The slots that name a band, as the definition of the disk has them. *)
LEMMA SlotsOfFacts ==
  ASSUME NEW f, Opens(f), NEW b \in Nat
  PROVE  /\ SlotsOf(f, b) = {s \in Slots : /\ HeaderSize + s * BandSize(f) < f.size
                                           /\ f.table[s] = b + 1}
         /\ SlotsOf(f, b) # {} => /\ Max(SlotsOf(f, b)) \in SlotsOf(f, b)
                                  /\ Max(SlotsOf(f, b)) \in Slots
<1>1. f \in Files /\ MaxSlots \in Nat
  BY SparseAssumption DEF Opens
<1>2. StoredSlots(f) \in 0..MaxSlots
  BY StoredSlotsFacts
<1>3. 0..StoredSlots(f) - 1 \subseteq Slots /\ Slots \subseteq Nat
  BY <1>1, <1>2 DEF Slots
<1>4. SlotsOf(f, b) = {s \in Slots : /\ HeaderSize + s * BandSize(f) < f.size
                                     /\ f.table[s] = b + 1}
  <2>1. \A s \in Slots : s \in 0..StoredSlots(f) - 1
                           <=> HeaderSize + s * BandSize(f) < f.size
    BY <1>3, StoredSlotsFacts
  <2>. QED  BY <1>3, <2>1 DEF SlotsOf
<1>5. SlotsOf(f, b) \subseteq Slots
  BY <1>4
<1>6. SlotsOf(f, b) # {} => Max(SlotsOf(f, b)) \in SlotsOf(f, b)
  <2>1. SlotsOf(f, b) \subseteq 0..MaxSlots
    BY <1>1, <1>5 DEF Slots
  <2>. QED  BY <1>1, <2>1, LargestOf
<1>. QED  BY <1>4, <1>5, <1>6

(* The inverted table has the last slot of each band that has one. *)
LEMMA InvertedFacts ==
  ASSUME NEW f, Opens(f)
  PROVE  /\ DOMAIN Invert(f) \subseteq Nat
         /\ \A b \in Nat : b \in DOMAIN Invert(f) <=> SlotsOf(f, b) # {}
         /\ \A b \in DOMAIN Invert(f) : Invert(f)[b] = Max(SlotsOf(f, b))
<1>. DEFINE stored == 0..StoredSlots(f) - 1
            used == {t \in stored : f.table[t] # 0}
            named == {f.table[s] - 1 : s \in used}
<1>1. Invert(f) = [b \in named |-> Max(SlotsOf(f, b))]
  BY DEF Invert
<1>2. \A s \in stored : f.table[s] \in Nat
  <2>1. f \in Files /\ stored \subseteq Slots
    BY StoredSlotsFacts, SparseAssumption DEF Opens, Slots
  <2>. QED  BY <2>1, FileFacts
<1>3. named \subseteq Nat
  BY <1>2
<1>4. ASSUME NEW b \in Nat PROVE b \in named <=> SlotsOf(f, b) # {}
  <2>1. ASSUME b \in named PROVE SlotsOf(f, b) # {}
    <3>1. PICK s \in used : b = f.table[s] - 1
      BY <2>1
    <3>2. s \in SlotsOf(f, b)
      BY <1>2, <3>1 DEF SlotsOf
    <3>. QED  BY <3>2
  <2>2. ASSUME SlotsOf(f, b) # {} PROVE b \in named
    <3>1. PICK s : s \in SlotsOf(f, b)
      BY <2>2
    <3>2. s \in stored /\ f.table[s] = b + 1
      BY <3>1 DEF SlotsOf
    <3>3. s \in used /\ b = f.table[s] - 1
      BY <3>2
    <3>. QED  BY <3>3
  <2>. QED  BY <2>1, <2>2
<1>. QED  BY <1>1, <1>3, <1>4

-----------------------------------------------------------------------------
(* One read *)

(* No place saturates. *)
LEMMA PlaceIsExact ==
  ASSUME NEW f, Opens(f), NEW slots, NEW pos \in Nat,
         slots[pos \div BandSize(f)] \in Slots
  PROVE  /\ PlaceOf(f, slots, pos)
              = HeaderSize + slots[pos \div BandSize(f)] * BandSize(f) + (pos % BandSize(f))
         /\ PlaceOf(f, slots, pos) \in Nat
<1>. DEFINE d == BandSize(f)
            slot == slots[pos \div d]
            off == pos % d
<1>1. d \in Nat \ {0} /\ f \in Files
  BY StoredSlotsFacts DEF Opens
<1>2. off \in 0..d - 1
  BY <1>1, DivisionFacts
<1>3. slot \in 0..MaxSlots /\ HeaderSize \in Nat /\ MaxSlots \in Nat /\ MaxWord \in Nat
  BY <1>1, FileFacts DEF Slots
<1>4. HeaderSize + (MaxSlots + 1) * d <= MaxWord
  BY <1>1, SizesAreExact
<1>. HIDE DEF d, slot, off
<1>5. /\ slot * d <= MaxWord /\ HeaderSize + slot * d <= MaxWord
      /\ HeaderSize + slot * d + off <= MaxWord
  BY <1>1, <1>2, <1>3, <1>4, MultiplesFit
<1>6. slot * d \in Nat /\ off \in Nat
  BY <1>1, <1>2, <1>3
<1>7. SatMul(slot, d) = slot * d
  BY <1>5 DEF SatMul
<1>8. SatAdd(HeaderSize, slot * d) = HeaderSize + slot * d
  BY <1>5 DEF SatAdd
<1>9. SatAdd(HeaderSize + slot * d, off) = HeaderSize + slot * d + off
  BY <1>5 DEF SatAdd
<1>10. PlaceOf(f, slots, pos) = HeaderSize + slot * d + off
  BY <1>7, <1>8, <1>9 DEF PlaceOf, slot, d, off
<1>. QED  BY <1>3, <1>6, <1>10 DEF slot, d, off

(* The bytes that a read of len bytes at pos finds: those of the file are  *)
(* stored there for the byte of the disk they are served as, and with the  *)
(* zeros after them they are the disk.                                     *)
LEMMA ServedBytes ==
  ASSUME NEW f, Opens(f), NEW pos \in Nat, NEW len \in Nat \ {0}, pos < VirtualSize(f),
         NEW n, n = Window(pos, len, BandSize(f), VirtualSize(f)),
         NEW avail, avail = StoredHere(f, Invert(f), pos, n)
  PROVE  /\ n \in 1..len /\ pos + n <= VirtualSize(f) /\ avail \in 0..n
         /\ \A i \in 1..avail :
              /\ PlaceOf(f, Invert(f), pos) + i - 1 \in Nat
              /\ StoredFor(f, PlaceOf(f, Invert(f), pos) + i - 1, pos + i - 1)
         /\ \A i \in 1..n :
              ByteOf(f, pos + i - 1)
                = IF i <= avail THEN FileByte(PlaceOf(f, Invert(f), pos) + i - 1)
                  ELSE ZeroByte
<1>. DEFINE d == BandSize(f)
            band == pos \div d
            off == pos % d
            named == SlotsOf(f, band)
            slot == Max(named)
            place == PlaceOf(f, Invert(f), pos)
<1>1. /\ f \in Files /\ d \in Nat \ {0} /\ d = f.sectorsPerBand * SectorSize
      /\ VirtualSize(f) \in Nat /\ f.size \in Nat /\ HeaderSize \in Nat
      /\ f.table \in [Slots -> Nat]
  BY FileFacts, SizesAreExact, StoredSlotsFacts DEF Opens
<1>2. band \in Nat /\ off \in 0..d - 1 /\ pos = band * d + off
  BY <1>1, DivisionFacts
<1>3. /\ n \in 1..len /\ pos + n <= VirtualSize(f)
      /\ \A i \in 1..n : /\ (pos + i - 1) \div d = band
                         /\ (pos + i - 1) % d = off + i - 1
                         /\ off + i - 1 \in 0..d - 1
  BY <1>1, WindowFacts
<1>4. /\ named = {s \in Slots : HeaderSize + s * d < f.size /\ f.table[s] = band + 1}
      /\ named # {} => slot \in named /\ slot \in Slots
  BY <1>2, SlotsOfFacts
<1>5. /\ band \in DOMAIN Invert(f) <=> named # {}
      /\ band \in DOMAIN Invert(f) => Invert(f)[band] = slot
  BY <1>2, InvertedFacts
<1>6. ASSUME NEW i \in 1..n
      PROVE  ByteOf(f, pos + i - 1)
               = IF named = {} THEN ZeroByte
                 ELSE IF HeaderSize + slot * d + (off + i - 1) >= f.size THEN ZeroByte
                 ELSE FileByte(HeaderSize + slot * d + (off + i - 1))
  <2>1. (pos + i - 1) \div d = band /\ (pos + i - 1) % d = off + i - 1
    BY <1>3
  <2>. HIDE DEF d, band, off, slot
  <2>. QED  BY <1>1, <1>4, <2>1 DEF ByteOf, slot
<1>7. CASE named = {}
  <2>1. avail = 0
    BY <1>5, <1>7 DEF StoredHere
  <2>2. \A i \in 1..n : ByteOf(f, pos + i - 1) = ZeroByte
    BY <1>6, <1>7
  <2>. HIDE DEF d, band, off, named, slot, place
  <2>. QED  BY <1>3, <2>1, <2>2
<1>8. CASE named # {}
  <2>1. slot \in Slots /\ slot \in named /\ Invert(f)[band] = slot
    BY <1>4, <1>5, <1>8
  <2>2. place = HeaderSize + slot * d + off /\ place \in Nat
    BY <2>1, PlaceIsExact
  <2>3. slot \in Nat /\ slot * d \in Nat /\ f.table[slot] = band + 1
    BY <1>1, <1>4, <2>1, SparseAssumption DEF Slots
  <2>4. avail = Lesser(SatSub(f.size, place), n)
    BY <1>5, <1>8 DEF StoredHere
  <2>. HIDE DEF d, band, off, named, slot, place
  <2>5. /\ avail \in 0..n
        /\ \A i \in 1..n : i <= avail <=> place + i - 1 < f.size
    BY <1>1, <1>3, <2>2, <2>4 DEF Lesser, SatSub
  <2>6. ASSUME NEW i \in 1..avail
        PROVE  /\ place + i - 1 \in Nat
               /\ StoredFor(f, place + i - 1, pos + i - 1)
    <3>1. i \in 1..n /\ i \in Nat /\ place + i - 1 < f.size
      BY <1>3, <2>5
    <3>2. off \in Nat /\ off + i - 1 \in Nat /\ off + i - 1 < d
      BY <1>1, <1>2, <1>3, <3>1
    <3>3. place + i - 1 = HeaderSize + (slot * d + (off + i - 1))
      BY <1>1, <2>2, <2>3, <3>1, <3>2
    <3>4. slot * d + (off + i - 1) \in Nat
      BY <2>3, <3>2
    <3>5. place + i - 1 \in Nat /\ (place + i - 1) - HeaderSize = slot * d + (off + i - 1)
          /\ HeaderSize <= place + i - 1
      BY <1>1, <3>3, <3>4
    <3>6. /\ (slot * d + (off + i - 1)) \div d = slot
          /\ (slot * d + (off + i - 1)) % d = off + i - 1
      BY <1>1, <2>3, <3>2, QuotientIsUnique
    <3>7. /\ ((place + i - 1) - HeaderSize) \div d = slot
          /\ ((place + i - 1) - HeaderSize) % d = off + i - 1
      BY <3>5, <3>6
    <3>8. f.table[slot] - 1 = band /\ f.table[slot] # 0
      BY <1>2, <2>3
    <3>9. band * d \in Nat
      BY <1>1, <1>2
    <3>10. pos + i - 1 = (f.table[slot] - 1) * d + (off + i - 1)
      BY <1>2, <3>1, <3>2, <3>8, <3>9
    <3>11. StoredFor(f, place + i - 1, pos + i - 1)
      BY <1>1, <3>1, <3>5, <3>7, <3>8, <3>10 DEF StoredFor
    <3>. QED  BY <3>5, <3>11
  <2>7. ASSUME NEW i \in 1..n
        PROVE  ByteOf(f, pos + i - 1)
                 = IF i <= avail THEN FileByte(place + i - 1) ELSE ZeroByte
    <3>1. HeaderSize + slot * d + (off + i - 1) = place + i - 1
      BY <1>1, <1>2, <1>3, <2>2, <2>3
    <3>2. i <= avail <=> ~(place + i - 1 >= f.size)
      BY <1>1, <1>3, <2>2, <2>5
    <3>. QED  BY <1>6, <1>8, <3>1, <3>2
  <2>. QED  BY <1>3, <2>5, <2>6, <2>7 DEF place
<1>. QED  BY <1>7, <1>8

-----------------------------------------------------------------------------
(* The inductive invariant *)

(* An open reader has the table of its file inverted; nothing has happened *)
(* to one that is not open.                                                *)
Prepared ==
  IF file = NoFile THEN position = 0 /\ buffer = UntouchedBuffer(0)
  ELSE Opens(file) /\ bandSlot = Invert(file)

SparseInv == TypeOK /\ Prepared

LEMMA InvertType ==
  ASSUME NEW f, Opens(f)
  PROVE  /\ DOMAIN Invert(f) \subseteq Word
         /\ \A b \in DOMAIN Invert(f) : Invert(f)[b] \in Slots
<1>1. ASSUME NEW b \in DOMAIN Invert(f) PROVE b \in Word /\ Invert(f)[b] \in Slots
  <2>1. b \in Nat /\ SlotsOf(f, b) # {} /\ Invert(f)[b] = Max(SlotsOf(f, b))
    BY InvertedFacts
  <2>2. PICK s \in Slots : f.table[s] = b + 1
    BY <2>1, SlotsOfFacts
  <2>3. f.table[s] \in Word
    BY <2>2, SparseAssumption DEF Opens, SparseFile
  <2>4. b \in Word
    BY <2>1, <2>2, <2>3, WordAssumption DEF Word
  <2>. QED  BY <2>1, <2>4, SlotsOfFacts
<1>. QED  BY <1>1

LEMMA InitSparse == Init => SparseInv
<1>. SUFFICES ASSUME Init PROVE SparseInv
  OBVIOUS
<1>1. 0 \in 0..MaxSize /\ 0 \in Word
  BY WordAssumption DEF Word
<1>2. buffer \in [1..0 -> Cell]
  BY UntouchedType DEF Init
<1>. QED  BY <1>1, <1>2 DEF Init, SparseInv, TypeOK, Prepared, Reply

LEMMA OpenStep ==
  ASSUME SparseInv, NEW f \in Files, Open(f)
  PROVE  /\ SparseInv'
         /\ reply'.op = "open" /\ position' = 0 /\ buffer' = UntouchedBuffer(0)
         /\ file' = f \/ (file' = NoFile /\ reply'.status # "ok")
         /\ file' = f => Opens(f) /\ reply' = Reply("open", "ok", 0, 0)
<1>1. PICK status \in OpenOutcomes(f) :
        /\ reply' = Reply("open", status, 0, 0)
        /\ IF status = "ok" THEN file' = f /\ bandSlot' = Invert(f)
           ELSE UNCHANGED <<file, bandSlot>>
  BY DEF Open
<1>2. file = NoFile /\ position' = 0 /\ buffer' = UntouchedBuffer(0) /\ f # NoFile
  BY SparseAssumption DEF Open
<1>3. /\ 0 \in 0..MaxSize /\ 0 \in Word /\ buffer' \in [1..0 -> Cell]
      /\ status \in {"ok", "io", "bad_header", "not_sparse"}
  BY <1>2, WordAssumption, UntouchedType DEF Word, OpenOutcomes
<1>4. /\ reply' \in [op : {"none", "open", "read", "seek"},
                     status : {"ok", "io", "bad_header", "not_sparse"},
                     len : 0..MaxSize, n : 0..MaxSize]
      /\ reply'.op = "open" /\ reply'.status = status /\ reply'.len = 0 /\ reply'.n = 0
  BY <1>1, <1>3 DEF Reply
<1>5. CASE status = "ok"
  <2>1. Opens(f) /\ file' = f /\ bandSlot' = Invert(f)
    BY <1>1, <1>5 DEF Opens
  <2>. QED  BY <1>1, <1>2, <1>3, <1>4, <1>5, <2>1, InvertType DEF SparseInv, TypeOK, Prepared
<1>6. CASE status # "ok"
  BY <1>1, <1>2, <1>3, <1>4, <1>6 DEF SparseInv, TypeOK, Prepared
<1>. QED  BY <1>5, <1>6

LEMMA SeekStep ==
  ASSUME SparseInv, NEW pos \in Word, SeekTo(pos)
  PROVE  SparseInv'
<1>1. 0 \in 0..MaxSize /\ UntouchedBuffer(0) \in [1..0 -> Cell]
  BY WordAssumption, UntouchedType
<1>. QED  BY <1>1 DEF SeekTo, Reply, SparseInv, TypeOK, Prepared

(* What a read call returns and writes. *)
LEMMA ReadBandFacts ==
  ASSUME SparseInv, NEW len \in 0..MaxSize, ReadBand(len)
  PROVE  \E n \in 1..len :
           /\ position < VirtualSize(file) /\ position + n <= VirtualSize(file)
           /\ position' = position + n
           /\ reply' = Reply("read", "ok", len, n)
           /\ buffer' \in [1..len -> Cell]
           /\ \A i \in 1..len :
                /\ buffer'[i] = IF i <= n THEN ByteOf(file, position + i - 1) ELSE StaleByte
                /\ buffer'[i].src = "file" =>
                     StoredFor(file, buffer'[i].at, position + i - 1)
<1>. DEFINE n == Window(position, len, BandSize(file), VirtualSize(file))
            avail == StoredHere(file, bandSlot, position, n)
            place == PlaceOf(file, bandSlot, position)
            stored == StoredBytes(file, bandSlot, position, avail)
<1>1. /\ Opens(file) /\ bandSlot = Invert(file) /\ position \in Nat /\ len \in Nat \ {0}
      /\ position < VirtualSize(file)
  BY WordAssumption DEF ReadBand, SparseInv, Prepared, TypeOK, Word
<1>2. /\ position' = position + n /\ reply' = Reply("read", "ok", len, n)
      /\ buffer' = Filled(stored \o Zeros(n - avail), len)
  BY DEF ReadBand
<1>3. /\ n \in 1..len /\ position + n <= VirtualSize(file) /\ avail \in 0..n
      /\ \A i \in 1..avail : /\ place + i - 1 \in Nat
                             /\ StoredFor(file, place + i - 1, position + i - 1)
      /\ \A i \in 1..n : ByteOf(file, position + i - 1)
                           = IF i <= avail THEN FileByte(place + i - 1) ELSE ZeroByte
  BY <1>1, ServedBytes
<1>4. stored = [i \in 1..avail |-> FileByte(place + i - 1)]
  BY DEF StoredBytes
<1>. HIDE DEF n, avail, place, stored
<1>5. stored \in Seq(Cell) /\ Len(stored) = avail
  BY <1>3, <1>4 DEF FileByte, Cell
<1>6. Zeros(n - avail) \in Seq(Cell) /\ Len(Zeros(n - avail)) = n - avail
  BY <1>3 DEF Zeros, ZeroByte, Cell
<1>. DEFINE s == stored \o Zeros(n - avail)
<1>7. s \in Seq(Cell) /\ Len(s) = n
  BY <1>3, <1>5, <1>6
<1>8. ASSUME NEW i \in 1..n
      PROVE  s[i] = IF i <= avail THEN FileByte(place + i - 1) ELSE ZeroByte
  BY <1>3, <1>4, <1>5, <1>6 DEF Zeros
<1>. HIDE DEF s
<1>9. /\ buffer' \in [1..len -> Cell]
      /\ \A i \in 1..len : buffer'[i] = IF i <= n THEN s[i] ELSE StaleByte
  BY <1>1, <1>2, <1>7, FilledFacts DEF s
<1>10. ASSUME NEW i \in 1..len
       PROVE  /\ buffer'[i] = IF i <= n THEN ByteOf(file, position + i - 1) ELSE StaleByte
              /\ buffer'[i].src = "file" => StoredFor(file, buffer'[i].at, position + i - 1)
  <2>1. CASE i <= n
    <3>1. i \in 1..n
      BY <1>1, <1>3, <2>1
    <3>2. buffer'[i] = ByteOf(file, position + i - 1)
      BY <1>3, <1>8, <1>9, <2>1, <3>1
    <3>3. CASE i <= avail
      <4>1. i \in 1..avail /\ buffer'[i] = FileByte(place + i - 1)
        BY <1>3, <1>8, <1>9, <2>1, <3>1, <3>3
      <4>2. buffer'[i].at = place + i - 1
        BY <4>1 DEF FileByte
      <4>. QED  BY <1>3, <2>1, <3>2, <4>1, <4>2
    <3>4. CASE ~(i <= avail)
      <4>1. buffer'[i] = ZeroByte
        BY <1>8, <1>9, <2>1, <3>1, <3>4
      <4>. QED  BY <2>1, <3>2, <4>1 DEF ZeroByte
    <3>. QED  BY <3>3, <3>4
  <2>2. CASE ~(i <= n)
    BY <1>9, <2>2 DEF StaleByte
  <2>. QED  BY <2>1, <2>2
<1>. QED  BY <1>1, <1>2, <1>3, <1>9, <1>10

LEMMA ReadFailsFacts ==
  ASSUME SparseInv, NEW len \in 0..MaxSize, ReadFails(len)
  PROVE  /\ reply' = Reply("read", "io", len, 0) /\ position' = position
         /\ buffer' \in [1..len -> Cell]
         /\ \A i \in 1..len :
              buffer'[i].src = "file" => StoredFor(file, buffer'[i].at, position + i - 1)
<1>. DEFINE n == Window(position, len, BandSize(file), VirtualSize(file))
            avail == StoredHere(file, bandSlot, position, n)
            place == PlaceOf(file, bandSlot, position)
<1>1. /\ Opens(file) /\ bandSlot = Invert(file) /\ position \in Nat /\ len \in Nat \ {0}
      /\ position < VirtualSize(file)
  BY WordAssumption DEF ReadFails, SparseInv, Prepared, TypeOK, Word
<1>2. PICK k \in 0..avail - 1 :
        buffer' = Filled(StoredBytes(file, bandSlot, position, k), len)
  BY DEF ReadFails
<1>3. /\ n \in 1..len /\ avail \in 0..n
      /\ \A i \in 1..avail : /\ place + i - 1 \in Nat
                             /\ StoredFor(file, place + i - 1, position + i - 1)
  BY <1>1, ServedBytes
<1>. DEFINE s == [i \in 1..k |-> FileByte(place + i - 1)]
<1>4. s = StoredBytes(file, bandSlot, position, k)
  BY DEF StoredBytes
<1>. HIDE DEF n, avail, place
<1>5. k \in Nat /\ \A i \in 1..k : i \in 1..avail
  BY <1>3
<1>6. s \in Seq(Cell) /\ Len(s) = k /\ \A i \in 1..k : s[i] = FileByte(place + i - 1)
  BY <1>3, <1>5 DEF FileByte, Cell
<1>. HIDE DEF s
<1>7. /\ buffer' \in [1..len -> Cell]
      /\ \A i \in 1..len : buffer'[i] = IF i <= k THEN s[i] ELSE StaleByte
  BY <1>1, <1>2, <1>4, <1>6, FilledFacts
<1>8. ASSUME NEW i \in 1..len, buffer'[i].src = "file"
      PROVE  StoredFor(file, buffer'[i].at, position + i - 1)
  <2>1. i <= k
    BY <1>7, <1>8 DEF StaleByte
  <2>2. i \in 1..k
    BY <1>1, <1>5, <2>1
  <2>3. buffer'[i] = FileByte(place + i - 1)
    BY <1>6, <1>7, <2>1, <2>2
  <2>4. buffer'[i].at = place + i - 1
    BY <2>3 DEF FileByte
  <2>. QED  BY <1>3, <1>5, <2>2, <2>4
<1>. QED  BY <1>7, <1>8 DEF ReadFails

LEMMA ReadStep ==
  ASSUME SparseInv, NEW len \in 0..MaxSize, Read(len)
  PROVE  /\ SparseInv' /\ file' = file
         /\ \A i \in DOMAIN buffer' :
              buffer'[i].src = "file" => StoredFor(file, buffer'[i].at, position + i - 1)
<1>1. file # NoFile /\ file \in Files /\ position \in Word /\ Opens(file)
  BY DEF Read, ReadNothing, ReadBand, ReadFails, SparseInv, TypeOK, Prepared
<1>2. UNCHANGED <<file, bandSlot>>
  BY DEF Read, ReadNothing, ReadBand, ReadFails
<1>3. len \in Nat /\ 0 \in 0..MaxSize /\ 0 <= len /\ MaxWord \in Nat /\ position \in Nat
      /\ VirtualSize(file) <= MaxWord /\ VirtualSize(file) \in Nat
  BY <1>1, SizesAreExact, WordAssumption DEF Word
<1>4. ASSUME NEW n \in 0..MaxSize, n <= len, NEW status \in {"ok", "io"},
             reply' = Reply("read", status, len, n), buffer' \in [1..len -> Cell],
             position' \in Word
      PROVE  SparseInv'
  <2>1. /\ reply' \in [op : {"none", "open", "read", "seek"},
                       status : {"ok", "io", "bad_header", "not_sparse"},
                       len : 0..MaxSize, n : 0..MaxSize]
        /\ reply'.len = len /\ reply'.n = n
    BY <1>4 DEF Reply
  <2>. QED  BY <1>1, <1>2, <1>4, <2>1 DEF SparseInv, TypeOK, Prepared
<1>5. CASE ReadNothing(len)
  <2>1. /\ buffer' \in [1..len -> Cell] /\ \A i \in 1..len : buffer'[i].src # "file"
        /\ reply' = Reply("read", "ok", len, 0) /\ position' \in Word
    BY <1>1, <1>3, <1>5, UntouchedType DEF ReadNothing
  <2>2. SparseInv'
    BY <1>3, <1>4, <2>1
  <2>. QED  BY <1>2, <2>1, <2>2
<1>6. CASE ReadBand(len)
  <2>1. PICK n \in 1..len :
           /\ position + n <= VirtualSize(file)
           /\ position' = position + n
           /\ reply' = Reply("read", "ok", len, n)
           /\ buffer' \in [1..len -> Cell]
           /\ \A i \in 1..len : buffer'[i].src = "file" =>
                                  StoredFor(file, buffer'[i].at, position + i - 1)
    BY <1>6, ReadBandFacts
  <2>2. n \in 0..MaxSize /\ n <= len /\ position' \in Word
    <3>1. MaxSize \in Nat /\ len <= MaxSize
      BY WordAssumption
    <3>2. n \in 0..MaxSize /\ n <= len
      BY <1>3, <2>1, <3>1
    <3>3. position + n \in Word
      BY <1>3, <2>1 DEF Word
    <3>. QED  BY <2>1, <3>2, <3>3
  <2>3. SparseInv'
    BY <1>4, <2>1, <2>2
  <2>. QED  BY <1>2, <2>1, <2>3
<1>7. CASE ReadFails(len)
  <2>1. /\ reply' = Reply("read", "io", len, 0) /\ position' \in Word
        /\ buffer' \in [1..len -> Cell]
        /\ \A i \in 1..len : buffer'[i].src = "file" =>
                               StoredFor(file, buffer'[i].at, position + i - 1)
    BY <1>1, <1>7, ReadFailsFacts
  <2>2. SparseInv'
    BY <1>3, <1>4, <2>1
  <2>. QED  BY <1>2, <2>1, <2>2
<1>. QED  BY <1>5, <1>6, <1>7 DEF Read

LEMMA NextSparse == SparseInv /\ [Next]_vars => SparseInv'
<1>. SUFFICES ASSUME SparseInv, [Next]_vars PROVE SparseInv'
  OBVIOUS
<1>1. CASE UNCHANGED vars
  BY <1>1 DEF vars, SparseInv, TypeOK, Prepared
<1>2. CASE \E f \in Files : Open(f)
  BY <1>2, OpenStep
<1>3. CASE \E len \in ReadLens : Read(len)
  BY <1>3, ReadStep, SparseAssumption
<1>4. CASE \E n \in SeekStarts : SeekTo(n)
  BY <1>4, SeekStep, SparseAssumption
<1>5. CASE \E d \in SeekDeltas :
             SeekTo(SeekWithin(VirtualSize(file), d)) \/ SeekTo(SeekWithin(position, d))
  <2>1. PICK d \in Delta :
          SeekTo(SeekWithin(VirtualSize(file), d)) \/ SeekTo(SeekWithin(position, d))
    BY <1>5, SparseAssumption
  <2>2. VirtualSize(file) \in Word /\ position \in Word
    <3>1. file \in Files /\ position \in Word
      BY <2>1 DEF SeekTo, SparseInv, TypeOK
    <3>. QED  BY <3>1, SizesAreExact
  <2>. QED  BY <2>1, <2>2, SeekStep, SeekWithinType
<1>. QED  BY <1>1, <1>2, <1>3, <1>4, <1>5 DEF Next

(* The cursor stays in u64, the inverted table maps u64 bands to slots of  *)
(* the table, and no call claims more than its slice has                   *)
(* (core/src/sparse.rs, SparseImageReader).                                *)
THEOREM SparseTypeCorrect == Spec => []TypeOK
<1>1. SparseInv => TypeOK
  BY DEF SparseInv
<1>. QED  BY <1>1, InitSparse, NextSparse, PTL DEF Spec

(* A byte that read takes from the file is stored there for the byte of    *)
(* the disk that it is returned as, whatever the table, also when the read *)
(* fails half-way (core/src/sparse.rs, read of SparseImageReader).         *)
THEOREM BytesComeFromOwnBandHolds == Spec => BytesComeFromOwnBand
<1>. DEFINE Own == reply'.op = "read" =>
                     \A i \in DOMAIN buffer' : buffer'[i].src = "file" =>
                       StoredFor(file, buffer'[i].at, position + i - 1)
<1>1. SparseInv /\ [Next]_vars => [Own]_vars
  <2>. SUFFICES ASSUME SparseInv, Next PROVE Own
    OBVIOUS
  <2>1. CASE \E f \in Files : Open(f)
    BY <2>1, OpenStep
  <2>2. CASE \E len \in ReadLens : Read(len)
    BY <2>2, ReadStep, SparseAssumption
  <2>3. ASSUME NEW pos, SeekTo(pos) PROVE Own
    BY <2>3 DEF SeekTo, Reply
  <2>. QED  BY <2>1, <2>2, <2>3 DEF Next
<1>. QED  BY <1>1, InitSparse, NextSparse, PTL DEF Spec, BytesComeFromOwnBand

-----------------------------------------------------------------------------
(* The refinement: every call is a step of the virtual disk that the file  *)
(* holds.                                                                  *)

LEMMA DiskFacts ==
  ASSUME NEW f, Opens(f)
  PROVE  /\ f # NoFile /\ NoFile # DiskOf(f)
         /\ DiskOf(f) \in {DiskOf(g) : g \in {h \in Files : "ok" \in OpenOutcomes(h)}}
         /\ DiskOf(f).size = VirtualSize(f)
         /\ \A b \in 0..VirtualSize(f) - 1 : DiskOf(f).bytes[b] = {ByteOf(f, b)}
  BY SparseAssumption, NoFileIsNoDisk DEF Opens, DiskOf

LEMMA InitRefines == Init => VD!Init
  BY DEF Init, VD!Init, Reply, UntouchedBuffer, StaleByte, VD!UntouchedBuffer, VD!StaleByte

LEMMA OpenRefines ==
  ASSUME SparseInv, NEW f \in Files, Open(f)
  PROVE  VD!Opens \/ VD!FailsToOpen
<1>1. file = NoFile /\ position = 0 /\ buffer = UntouchedBuffer(0)
  BY DEF Open, SparseInv, Prepared
<1>2. /\ reply'.op = "open" /\ position' = 0 /\ buffer' = UntouchedBuffer(0)
      /\ file' = f \/ (file' = NoFile /\ reply'.status # "ok")
      /\ file' = f => Opens(f) /\ reply' = Reply("open", "ok", 0, 0)
  BY OpenStep
<1>3. CASE file' = f
  <2>1. f # NoFile /\ NoFile # DiskOf(f)
        /\ DiskOf(f) \in {DiskOf(g) : g \in {h \in Files : "ok" \in OpenOutcomes(h)}}
    BY <1>2, <1>3, DiskFacts
  <2>. QED
    BY <1>1, <1>2, <1>3, <2>1
       DEF VD!Opens, Reply, UntouchedBuffer, StaleByte, VD!UntouchedBuffer, VD!StaleByte
<1>4. CASE file' = NoFile /\ reply'.status # "ok"
  BY <1>1, <1>2, <1>4 DEF VD!FailsToOpen
<1>. QED  BY <1>2, <1>3, <1>4

LEMMA ReadRefines ==
  ASSUME SparseInv, NEW len \in ReadLens, Read(len)
  PROVE  VD!ReadsBytes(len) \/ VD!ReadsNothing(len) \/ VD!FailsToRead(len)
<1>. DEFINE disk == IF file = NoFile THEN NoFile ELSE DiskOf(file)
<1>1. /\ Opens(file) /\ file # NoFile /\ file' = file /\ len \in 0..MaxSize /\ len \in Nat
      /\ position \in Nat /\ VirtualSize(file) \in Nat
  <2>1. file # NoFile /\ file' = file /\ file \in Files /\ position \in Word /\ Opens(file)
    BY DEF Read, ReadNothing, ReadBand, ReadFails, SparseInv, TypeOK, Prepared
  <2>. QED  BY <2>1, SizesAreExact, SparseAssumption, WordAssumption DEF Word
<1>2. disk = DiskOf(file) /\ disk' = disk /\ disk # NoFile /\ disk.size = VirtualSize(file)
      /\ \A b \in 0..VirtualSize(file) - 1 : disk.bytes[b] = {ByteOf(file, b)}
  BY <1>1, DiskFacts
<1>3. CASE ReadNothing(len)
  <2>1. len = 0 \/ position >= disk.size
    BY <1>2, <1>3 DEF ReadNothing
  <2>. HIDE DEF disk
  <2>2. VD!ReadsNothing(len)
    BY <1>2, <1>3, <2>1
       DEF VD!ReadsNothing, ReadNothing, Reply, UntouchedBuffer, StaleByte,
           VD!UntouchedBuffer, VD!StaleByte, disk
  <2>. QED  BY <2>2
<1>4. CASE ReadBand(len)
  <2>1. PICK n \in 1..len :
           /\ position < VirtualSize(file) /\ position + n <= VirtualSize(file)
           /\ position' = position + n
           /\ reply' = Reply("read", "ok", len, n)
           /\ buffer' \in [1..len -> Cell]
           /\ \A i \in 1..len :
                buffer'[i] = IF i <= n THEN ByteOf(file, position + i - 1) ELSE StaleByte
    BY <1>1, <1>4, ReadBandFacts
  <2>2. n \in 1..VD!Lesser(len, disk.size - position)
    BY <1>1, <1>2, <2>1 DEF VD!Lesser
  <2>3. ASSUME NEW i \in 1..len
        PROVE  buffer'[i] \in IF i <= n THEN disk.bytes[position + i - 1]
                              ELSE {StaleByte}
    <3>1. CASE i <= n
      <4>1. position + i - 1 \in 0..VirtualSize(file) - 1
        BY <1>1, <2>1, <3>1
      <4>. QED  BY <1>2, <2>1, <3>1, <4>1
    <3>2. CASE ~(i <= n)
      BY <2>1, <3>2
    <3>. QED  BY <3>1, <3>2
  <2>4. DOMAIN buffer' = 1..len
    BY <2>1
  <2>5. position < disk.size
    BY <1>2, <2>1
  <2>. HIDE DEF disk
  <2>6. VD!ReadsBytes(len)
    BY <1>2, <2>1, <2>2, <2>3, <2>4, <2>5
       DEF VD!ReadsBytes, Reply, StaleByte, VD!StaleByte, disk
  <2>. QED  BY <2>6
<1>5. CASE ReadFails(len)
  <2>1. /\ reply' = Reply("read", "io", len, 0) /\ position' = position
        /\ buffer' \in [1..len -> Cell]
    BY <1>1, <1>5, ReadFailsFacts
  <2>2. DOMAIN buffer' = 1..len
    BY <2>1
  <2>. HIDE DEF disk
  <2>3. VD!FailsToRead(len)
    BY <1>2, <2>1, <2>2 DEF VD!FailsToRead, Reply, disk
  <2>. QED  BY <2>3
<1>. QED  BY <1>3, <1>4, <1>5 DEF Read

LEMMA SeekRefines ==
  ASSUME SparseInv, NEW pos, SeekTo(pos),
         \/ pos \in SeekStarts
         \/ \E d \in SeekDeltas : \/ pos = SeekWithin(VirtualSize(file), d)
                                  \/ pos = SeekWithin(position, d)
  PROVE  VD!Seeks
<1>. DEFINE disk == IF file = NoFile THEN NoFile ELSE DiskOf(file)
<1>1. file # NoFile /\ file' = file /\ Opens(file)
  BY DEF SeekTo, SparseInv, Prepared
<1>2. disk' = disk /\ disk # NoFile /\ disk.size = VirtualSize(file)
  BY <1>1, DiskFacts
<1>3. position' = pos /\ reply' = Reply("seek", "ok", 0, 0) /\ buffer' = UntouchedBuffer(0)
  BY DEF SeekTo
<1>. HIDE DEF disk
<1>4. \A base, d : SeekWithin(base, d) = VD!Offset(base, d)
  BY DEF SeekWithin, SatAdd, SatSub, VD!Offset, VD!SatAdd, VD!SatSub
<1>5. \/ position' \in SeekStarts
      \/ \E d \in SeekDeltas : \/ position' = VD!Offset(disk.size, d)
                               \/ position' = VD!Offset(position, d)
  BY <1>2, <1>3, <1>4
<1>. QED
  BY <1>2, <1>3, <1>5
     DEF VD!Seeks, Reply, UntouchedBuffer, StaleByte, VD!UntouchedBuffer, VD!StaleByte, disk

LEMMA NextRefines == SparseInv /\ [Next]_vars => [VD!Next]_VD!vars
<1>. SUFFICES ASSUME SparseInv, [Next]_vars PROVE [VD!Next]_VD!vars
  OBVIOUS
<1>1. CASE UNCHANGED vars
  BY <1>1 DEF vars, VD!vars
<1>2. CASE \E f \in Files : Open(f)
  BY <1>2, OpenRefines DEF VD!Next
<1>3. CASE \E len \in ReadLens : Read(len)
  BY <1>3, ReadRefines DEF VD!Next
<1>4. CASE \E n \in SeekStarts : SeekTo(n)
  BY <1>4, SeekRefines DEF VD!Next
<1>5. CASE \E d \in SeekDeltas :
             SeekTo(SeekWithin(VirtualSize(file), d)) \/ SeekTo(SeekWithin(position, d))
  BY <1>5, SeekRefines DEF VD!Next
<1>. QED  BY <1>1, <1>2, <1>3, <1>4, <1>5 DEF Next

(* Every file that opens is a virtual disk, whatever its header and table  *)
(* say (core/src/sparse.rs, Read and Seek of SparseImageReader).           *)
THEOREM ImplementsVirtualDiskHolds == Spec => ImplementsVirtualDisk
<1>. QED
  BY InitRefines, InitSparse, NextSparse, NextRefines, PTL
     DEF Spec, VD!Spec, ImplementsVirtualDisk

-----------------------------------------------------------------------------
(* Under the fuzz target *)

(* What the target sets out to read. *)
Goal == Lesser(VirtualSize(file), FuzzCap)

(* Before the loop of the target the whole of the goal is left, in it the  *)
(* rest after the cursor.                                                  *)
OnItsWay ==
  /\ phase \in {"free", "open", "seek", "read", "done"}
  /\ remaining \in Nat
  /\ phase = "seek" => file # NoFile /\ remaining = Goal /\ remaining > 0
  /\ phase = "read" => file # NoFile /\ remaining > 0 /\ position + remaining = Goal

FuzzInv == SparseInv /\ OnItsWay /\ FuzzedDiskIsReadWhole

LEMMA GoalFacts ==
  ASSUME NEW f \in Files
  PROVE  /\ Lesser(VirtualSize(f), FuzzCap) \in Nat
         /\ Lesser(VirtualSize(f), FuzzCap) <= VirtualSize(f)
         /\ VirtualSize(f) \in Nat
  BY SizesAreExact, FuzzAssumption DEF Lesser

LEMMA FuzzInitHolds == FuzzInit => FuzzInv
<1>. SUFFICES ASSUME FuzzInit PROVE FuzzInv
  OBVIOUS
<1>1. SparseInv
  BY InitSparse DEF FuzzInit
<1>. QED
  BY <1>1 DEF FuzzInit, Init, DriverInit, FuzzInv, OnItsWay, FuzzedDiskIsReadWhole

LEMMA FuzzOpenStep ==
  ASSUME FuzzInv, FuzzOpens
  PROVE  FuzzInv'
<1>1. PICK f \in Files : Open(f) /\ AfterOpen(reply'.status = "ok", VirtualSize(f))
  BY DEF FuzzOpens
<1>2. /\ SparseInv' /\ position' = 0
      /\ file' = f \/ (file' = NoFile /\ reply'.status # "ok")
      /\ file' = f => Opens(f) /\ reply' = Reply("open", "ok", 0, 0)
  BY <1>1, OpenStep DEF FuzzInv
<1>3. CASE file' = f
  <2>1. file' # NoFile /\ reply'.status = "ok"
    BY <1>2, <1>3, SparseAssumption DEF Reply
  <2>2. /\ remaining' = Lesser(VirtualSize(f), FuzzCap)
        /\ phase' = IF remaining' > 0 THEN "seek" ELSE "done"
    BY <1>1, <2>1 DEF AfterOpen
  <2>3. Goal' = remaining' /\ remaining' \in Nat
    BY <1>3, <2>2, GoalFacts DEF Goal
  <2>. QED
    BY <1>2, <2>1, <2>2, <2>3 DEF FuzzInv, OnItsWay, FuzzedDiskIsReadWhole, Goal
<1>4. CASE file' = NoFile /\ reply'.status # "ok"
  <2>1. remaining' = 0 /\ phase' = "done"
    BY <1>1, <1>4 DEF AfterOpen
  <2>. QED  BY <1>2, <1>4, <2>1 DEF FuzzInv, OnItsWay, FuzzedDiskIsReadWhole
<1>. QED  BY <1>2, <1>3, <1>4

LEMMA FuzzSeekStep ==
  ASSUME FuzzInv, FuzzSeeks
  PROVE  FuzzInv'
<1>1. /\ phase = "seek" /\ file # NoFile /\ remaining = Goal /\ remaining > 0
      /\ remaining \in Nat /\ SeekTo(0)
  BY DEF FuzzSeeks, FuzzInv, OnItsWay
<1>2. SparseInv'
  <2>1. 0 \in Word
    BY WordAssumption DEF Word
  <2>. QED  BY <1>1, <2>1, SeekStep DEF FuzzInv
<1>3. reply'.status = "ok" /\ position' = 0 /\ file' = file
  BY <1>1 DEF SeekTo, Reply
<1>4. phase' = "read" /\ remaining' = remaining
  BY <1>3 DEF FuzzSeeks, AfterSeek
<1>5. Goal' = Goal
  BY <1>3 DEF Goal
<1>. QED
  BY <1>1, <1>2, <1>3, <1>4, <1>5 DEF FuzzInv, OnItsWay, FuzzedDiskIsReadWhole

(* A turn of the loop reads something or fails. *)
LEMMA FuzzReadStep ==
  ASSUME FuzzInv, FuzzReads
  PROVE  FuzzInv'
<1>1. /\ phase = "read" /\ file # NoFile /\ remaining > 0 /\ remaining \in Nat
      /\ position + remaining = Goal /\ file \in Files /\ position \in Nat
      /\ Read(FuzzBufLen)
  BY WordAssumption DEF FuzzReads, FuzzInv, SparseInv, OnItsWay, TypeOK, Word
<1>2. /\ FuzzBufLen \in 0..MaxSize /\ FuzzBufLen # 0 /\ FuzzBufLen \in Nat
      /\ Goal \in Nat /\ Goal <= VirtualSize(file) /\ VirtualSize(file) \in Nat
  BY <1>1, FuzzAssumption, WordAssumption, GoalFacts DEF Goal
<1>3. SparseInv' /\ file' = file
  BY <1>1, <1>2, ReadStep DEF FuzzInv
<1>4. Goal' = Goal
  BY <1>3 DEF Goal
<1>5. CASE ReadFails(FuzzBufLen)
  <2>1. reply'.status = "io"
    BY <1>5 DEF ReadFails, Reply
  <2>2. remaining' = remaining /\ phase' = "done"
    BY <2>1 DEF FuzzReads, AfterRead
  <2>. QED  BY <1>1, <1>3, <2>1, <2>2 DEF FuzzInv, OnItsWay, FuzzedDiskIsReadWhole
<1>6. CASE ReadBand(FuzzBufLen)
  <2>1. PICK n \in 1..FuzzBufLen :
          position' = position + n /\ reply' = Reply("read", "ok", FuzzBufLen, n)
    BY <1>2, <1>6, ReadBandFacts DEF FuzzInv
  <2>2. n \in Nat /\ n > 0 /\ reply'.status = "ok" /\ reply'.n = n
    BY <1>2, <2>1 DEF Reply
  <2>3. /\ remaining' = SatSub(remaining, n)
        /\ phase' = IF remaining' > 0 THEN "read" ELSE "done"
    BY <2>2 DEF FuzzReads, AfterRead
  <2>4. remaining' \in Nat
    BY <1>1, <2>2, <2>3 DEF SatSub
  <2>5. CASE n < remaining
    <3>1. remaining' = remaining - n /\ phase' = "read"
      BY <1>1, <2>2, <2>3, <2>5 DEF SatSub
    <3>2. remaining' > 0 /\ position' + remaining' = Goal'
      BY <1>1, <1>4, <2>1, <2>2, <2>5, <3>1
    <3>. QED  BY <1>1, <1>3, <2>4, <3>1, <3>2 DEF FuzzInv, OnItsWay, FuzzedDiskIsReadWhole
  <2>6. CASE ~(n < remaining)
    <3>1. remaining' = 0 /\ phase' = "done"
      BY <1>1, <2>2, <2>3, <2>6 DEF SatSub
    <3>2. position' >= Goal'
      BY <1>1, <1>2, <1>4, <2>1, <2>2, <2>6
    <3>. QED
      BY <1>1, <1>3, <2>4, <3>1, <3>2 DEF FuzzInv, OnItsWay, FuzzedDiskIsReadWhole, Goal
  <2>. QED  BY <2>5, <2>6
<1>7. ~ReadNothing(FuzzBufLen)
  BY <1>1, <1>2 DEF ReadNothing
<1>. QED  BY <1>1, <1>5, <1>6, <1>7 DEF Read

LEMMA FuzzStepHolds == FuzzInv /\ [FuzzNext]_fuzzVars => FuzzInv'
<1>. SUFFICES ASSUME FuzzInv, [FuzzNext]_fuzzVars PROVE FuzzInv'
  OBVIOUS
<1>1. CASE UNCHANGED fuzzVars
  BY <1>1 DEF fuzzVars, vars, driver, FuzzInv, SparseInv, TypeOK, Prepared, OnItsWay,
              FuzzedDiskIsReadWhole, Goal
<1>2. CASE FreeCaller
  <2>1. SparseInv' /\ phase' = "free" /\ remaining' = remaining
    BY <1>2, NextSparse DEF FreeCaller, FuzzInv, driver
  <2>. QED  BY <2>1 DEF FuzzInv, OnItsWay, FuzzedDiskIsReadWhole
<1>. QED
  BY <1>1, <1>2, FuzzOpenStep, FuzzSeekStep, FuzzReadStep DEF FuzzNext, FuzzTarget

(* fuzz_sparse leaves out nothing of a disk whose reads succeed, up to its *)
(* cap, in spite of reads that stop at each band (fuzz_sparse.rs).         *)
THEOREM FuzzedSparseDiskIsReadWhole == FuzzSpec => []FuzzedDiskIsReadWhole
<1>1. FuzzInv => FuzzedDiskIsReadWhole
  BY DEF FuzzInv
<1>. QED  BY <1>1, FuzzInitHolds, FuzzStepHolds, PTL DEF FuzzSpec
=============================================================================
