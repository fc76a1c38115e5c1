-------------------------- MODULE PingWindowsProofs --------------------------
(***************************************************************************)
(* For every window length: the loss figures LossStats publishes are those *)
(* of the last Size pings (PingWindows refines SlidingWindow), both        *)
(* windows cover the same answered pings, and a CRIT of the mean or of the *)
(* jitter has its pings.                                                   *)
(***************************************************************************)
EXTENDS PingWindows, FoldLemmas, FunctionTheorems, SequenceTheorems, TLAPS

\* The slot that holds the k-th oldest outcome of a ring.
Slot(r, k) == IF ~r.filled THEN k - 1
              ELSE IF r.pos + k - 1 < Size THEN r.pos + k - 1 ELSE r.pos + k - 1 - Size

\* The instances count with the same Cardinality as this module.
LEMMA CountDefs ==
  /\ \A r : R!CountOf(r, {TRUE}) = Cardinality(R!Holding(r, {TRUE}))
  /\ \A w : Window!LostIn(w) = Cardinality({k \in 1 .. Len(w) : w[k] = TRUE})
<1>1. \A S : R!Cardinality(S) = Cardinality(S)
  BY DEF R!Cardinality, Cardinality
<1>2. \A S : Window!Cardinality(S) = Cardinality(S)
  BY DEF Window!Cardinality, Cardinality
<1> QED
  BY <1>1, <1>2 DEF R!CountOf, Window!LostIn

\* The cursor advances by one and wraps at the end of the slots.
LEMMA NextPos ==
  ASSUME NEW p \in 0 .. Size - 1
  PROVE  (p + 1) % Size = IF p + 1 = Size THEN 0 ELSE p + 1
<1>1. Size \in Nat \ {0}
  BY PingWindowsAssumption
<1>2. CASE p + 1 = Size
  <2>1. Size % Size = 0
    BY <1>1, Z3
  <2> QED
    BY <1>2, <2>1
<1>3. CASE p + 1 # Size
  BY <1>1, <1>3, Z3
<1> QED
  BY <1>2, <1>3

\* Put keeps a ring a ring.
LEMMA PutType ==
  ASSUME NEW r \in R!Rings, NEW o \in BOOLEAN
  PROVE  R!Put(r, o) \in R!Rings
BY NextPos, PingWindowsAssumption DEF R!Put, R!Rings, R!Slots

\* A new ring is a ring that holds nothing.
LEMMA NewRingType == R!NewRing \in R!Rings /\ R!Valid(R!NewRing) = 0
BY PingWindowsAssumption DEF R!NewRing, R!Rings, R!Slots, R!Valid

\* The fields of a ring after Put.
LEMMA PutFields ==
  ASSUME NEW r \in R!Rings, NEW o \in BOOLEAN
  PROVE  /\ R!Put(r, o).slots = [r.slots EXCEPT ![r.pos] = o]
         /\ R!Put(r, o).pos = IF r.pos + 1 = Size THEN 0 ELSE r.pos + 1
         /\ R!Put(r, o).filled <=> r.filled \/ r.pos + 1 = Size
<1>1. r.pos \in 0 .. Size - 1
  BY DEF R!Rings, R!Slots
<1>2. (r.pos + 1) % Size = IF r.pos + 1 = Size THEN 0 ELSE r.pos + 1
  BY <1>1, NextPos
<1>3. (r.pos + 1) % Size = 0 <=> r.pos + 1 = Size
  BY <1>1, <1>2, PingWindowsAssumption
<1> QED
  BY <1>2, <1>3 DEF R!Put

\* One more outcome fills one more slot until all of them are in use.
LEMMA PutValid ==
  ASSUME NEW r \in R!Rings, NEW o \in BOOLEAN
  PROVE  /\ R!Valid(r) \in 0 .. Size
         /\ R!Valid(R!Put(r, o)) = IF R!Valid(r) < Size THEN R!Valid(r) + 1 ELSE Size
<1> DEFINE q == R!Put(r, o)
<1>1. Size \in Nat \ {0} /\ r.pos \in 0 .. Size - 1 /\ r.filled \in BOOLEAN
  BY PingWindowsAssumption DEF R!Rings, R!Slots
<1>2. /\ q.pos = IF r.pos + 1 = Size THEN 0 ELSE r.pos + 1
      /\ q.filled <=> r.filled \/ r.pos + 1 = Size
  BY PutFields
<1>3. CASE r.filled
  BY <1>1, <1>2, <1>3 DEF R!Valid
<1>4. CASE ~r.filled
  BY <1>1, <1>2, <1>4 DEF R!Valid
<1> QED
  BY <1>1, <1>3, <1>4

\* The contents of a ring, oldest first: one outcome per valid slot.
LEMMA ContentsType ==
  ASSUME NEW r \in R!Rings
  PROVE  /\ Contents(r) \in Seq(BOOLEAN)
         /\ Len(Contents(r)) = R!Valid(r)
         /\ \A k \in 1 .. R!Valid(r) : /\ Slot(r, k) \in 0 .. R!Valid(r) - 1
                                      /\ Contents(r)[k] = r.slots[Slot(r, k)]
<1>1. Size \in Nat \ {0} /\ r.pos \in 0 .. Size - 1 /\ r.filled \in BOOLEAN
      /\ r.slots \in [0 .. Size - 1 -> BOOLEAN]
  BY PingWindowsAssumption DEF R!Rings, R!Slots
<1>2. R!Valid(r) \in 0 .. Size
  BY <1>1 DEF R!Valid
<1>3. ASSUME NEW k \in 1 .. R!Valid(r)
      PROVE  Slot(r, k) \in 0 .. R!Valid(r) - 1
  <2>1. CASE r.filled
    BY <1>1, <1>3, <2>1 DEF R!Valid, Slot
  <2>2. CASE ~r.filled
    BY <1>1, <1>3, <2>2 DEF R!Valid, Slot
  <2> QED
    BY <1>1, <2>1, <2>2
<1>4. Contents(r) = [k \in 1 .. R!Valid(r) |-> r.slots[Slot(r, k)]]
  BY DEF Contents, Slot
<1>5. \A k \in 1 .. R!Valid(r) : r.slots[Slot(r, k)] \in BOOLEAN
  BY <1>1, <1>2, <1>3
<1>6. Contents(r) \in [1 .. R!Valid(r) -> BOOLEAN]
  BY <1>4, <1>5
<1> QED
  BY <1>2, <1>3, <1>4, <1>6

\* Put on the ring is Slide on its contents.
LEMMA PutSlides ==
  ASSUME NEW r \in R!Rings, NEW o \in BOOLEAN
  PROVE  Contents(R!Put(r, o)) = Window!Slide(Contents(r), o)
<1> DEFINE q == R!Put(r, o)
           w == Contents(r)
           v == Window!Slide(w, o)
<1>1. Size \in Nat \ {0} /\ r.pos \in 0 .. Size - 1 /\ r.filled \in BOOLEAN
      /\ r.slots \in [0 .. Size - 1 -> BOOLEAN]
  BY PingWindowsAssumption DEF R!Rings, R!Slots
<1>2. q \in R!Rings
  BY PutType
<1>3. /\ q.slots = [r.slots EXCEPT ![r.pos] = o]
      /\ q.pos = IF r.pos + 1 = Size THEN 0 ELSE r.pos + 1
      /\ q.filled <=> r.filled \/ r.pos + 1 = Size
  BY PutFields
<1>4. w \in Seq(BOOLEAN) /\ Len(w) = R!Valid(r)
      /\ \A k \in 1 .. R!Valid(r) : w[k] = r.slots[Slot(r, k)]
  BY ContentsType
<1>5. Contents(q) \in Seq(BOOLEAN) /\ Len(Contents(q)) = R!Valid(q)
      /\ \A k \in 1 .. R!Valid(q) : Contents(q)[k] = q.slots[Slot(q, k)]
  BY <1>2, ContentsType
<1>6. /\ R!Valid(r) \in 0 .. Size
      /\ R!Valid(q) = IF R!Valid(r) < Size THEN R!Valid(r) + 1 ELSE Size
  BY PutValid
<1> HIDE DEF q, w
<1>7. CASE r.filled
  <2>1. R!Valid(r) = Size /\ q.filled
    BY <1>3, <1>7 DEF R!Valid
  <2>2. v = Append(Tail(w), o)
    BY <1>1, <1>4, <2>1 DEF Window!Slide
  <2>3. /\ Tail(w) \in Seq(BOOLEAN) /\ Len(Tail(w)) = Size - 1
        /\ \A k \in 1 .. Size - 1 : Tail(w)[k] = w[k + 1]
    BY <1>1, <1>4, <2>1, HeadTailProperties
  <2>4. /\ v \in Seq(BOOLEAN) /\ Len(v) = Size
        /\ \A k \in 1 .. Size - 1 : v[k] = w[k + 1]
        /\ v[Size] = o
    BY <1>1, <2>2, <2>3, AppendProperties
  <2>5. ASSUME NEW k \in 1 .. Size - 1
        PROVE  Contents(q)[k] = v[k]
    <3>1. Slot(q, k) = Slot(r, k + 1) /\ Slot(q, k) # r.pos /\ Slot(q, k) \in 0 .. Size - 1
      <4>1. Slot(r, k + 1) = IF r.pos + k < Size THEN r.pos + k ELSE r.pos + k - Size
        BY <1>1, <1>7, <2>5 DEF Slot
      <4>2. Slot(q, k) = IF q.pos + k - 1 < Size THEN q.pos + k - 1 ELSE q.pos + k - 1 - Size
        BY <2>1 DEF Slot
      <4>3. CASE r.pos + 1 = Size
        BY <1>1, <1>3, <2>5, <4>1, <4>2, <4>3
      <4>4. CASE r.pos + 1 # Size
        BY <1>1, <1>3, <2>5, <4>1, <4>2, <4>4
      <4> QED
        BY <4>3, <4>4
    <3>2. Contents(q)[k] = q.slots[Slot(q, k)] /\ w[k + 1] = r.slots[Slot(r, k + 1)]
      BY <1>1, <1>4, <1>5, <1>6, <2>1, <2>5
    <3> QED
      BY <1>1, <1>3, <2>4, <3>1, <3>2
  <2>6. Contents(q)[Size] = o
    <3>1. Slot(q, Size) = r.pos
      BY <1>1, <1>3, <2>1 DEF Slot
    <3> QED
      BY <1>1, <1>3, <1>5, <1>6, <2>1, <3>1
  <2>7. \A k \in 1 .. Size : Contents(q)[k] = v[k]
    BY <1>1, <2>4, <2>5, <2>6
  <2>8. Len(Contents(q)) = Len(v)
    BY <1>5, <1>6, <2>1, <2>4
  <2> QED
    BY <1>5, <2>4, <2>7, <2>8, SeqEqual DEF q, w
<1>8. CASE ~r.filled
  <2>1. R!Valid(r) = r.pos /\ R!Valid(q) = r.pos + 1
    BY <1>1, <1>6, <1>8 DEF R!Valid
  <2>2. v = Append(w, o)
    BY <1>1, <1>4, <2>1 DEF Window!Slide
  <2>3. /\ v \in Seq(BOOLEAN) /\ Len(v) = r.pos + 1
        /\ \A k \in 1 .. r.pos : v[k] = w[k]
        /\ v[r.pos + 1] = o
    BY <1>1, <1>4, <2>1, <2>2, AppendProperties
  <2>4. ASSUME NEW k \in 1 .. r.pos + 1
        PROVE  Slot(q, k) = k - 1 /\ (k <= r.pos => Slot(r, k) = k - 1)
    BY <1>1, <1>3, <1>8, <2>4 DEF Slot
  <2>5. ASSUME NEW k \in 1 .. r.pos
        PROVE  Contents(q)[k] = v[k]
    <3>1. Contents(q)[k] = q.slots[k - 1] /\ w[k] = r.slots[k - 1]
      BY <1>1, <1>4, <1>5, <2>1, <2>4, <2>5
    <3> QED
      BY <1>1, <1>3, <2>3, <3>1
  <2>6. Contents(q)[r.pos + 1] = o
    <3>1. Contents(q)[r.pos + 1] = q.slots[r.pos]
      BY <1>1, <1>5, <2>1, <2>4
    <3> QED
      BY <1>1, <1>3, <3>1
  <2>7. \A k \in 1 .. r.pos + 1 : Contents(q)[k] = v[k]
    BY <1>1, <2>3, <2>5, <2>6
  <2>8. Len(Contents(q)) = Len(v)
    BY <1>5, <2>1, <2>3
  <2> QED
    BY <1>5, <2>1, <2>3, <2>7, <2>8, SeqEqual DEF q, w
<1> QED
  BY <1>1, <1>7, <1>8

\* As many lost pings in the ring as in its contents.
LEMMA SameCount ==
  ASSUME NEW r \in R!Rings
  PROVE  R!CountOf(r, {TRUE}) = Window!LostIn(Contents(r))
<1> DEFINE n == R!Valid(r)
           A == {k \in 1 .. n : Contents(r)[k] = TRUE}
           B == R!Holding(r, {TRUE})
           f == [k \in A |-> Slot(r, k)]
<1>1. Size \in Nat \ {0} /\ r.pos \in 0 .. Size - 1 /\ r.filled \in BOOLEAN
  BY PingWindowsAssumption DEF R!Rings, R!Slots
<1>2. n \in 0 .. Size
  BY <1>1 DEF R!Valid
<1>3. \A k \in 1 .. n : Slot(r, k) \in 0 .. n - 1 /\ Contents(r)[k] = r.slots[Slot(r, k)]
  BY ContentsType
<1>4. B = {i \in 0 .. n - 1 : r.slots[i] = TRUE}
  BY DEF R!Holding
<1>5. IsFiniteSet(A)
  <2>1. IsFiniteSet(1 .. n)
    BY <1>2, FS_Interval
  <2> QED
    BY <2>1, FS_Subset
<1>6. f \in [A -> B]
  BY <1>3, <1>4
<1>7. ASSUME NEW j \in A, NEW k \in A, f[j] = f[k]
      PROVE  j = k
  <2>1. j \in 1 .. n /\ k \in 1 .. n /\ Slot(r, j) = Slot(r, k)
    BY <1>7
  <2>2. CASE r.filled
    BY <1>1, <1>2, <2>1, <2>2 DEF Slot, R!Valid
  <2>3. CASE ~r.filled
    BY <1>1, <1>2, <2>1, <2>3 DEF Slot, R!Valid
  <2> QED
    BY <1>1, <2>2, <2>3
<1>8. ASSUME NEW i \in B
      PROVE  \E k \in A : f[k] = i
  <2>1. i \in 0 .. n - 1 /\ r.slots[i] = TRUE
    BY <1>4
  <2>2. PICK k \in 1 .. n : Slot(r, k) = i
    <3>1. CASE r.filled
      <4>1. n = Size
        BY <3>1 DEF R!Valid
      <4>2. CASE i >= r.pos
        <5>1. i - r.pos + 1 \in 1 .. n /\ Slot(r, i - r.pos + 1) = i
          BY <1>1, <2>1, <3>1, <4>1, <4>2 DEF Slot
        <5> QED
          BY <5>1
      <4>3. CASE i < r.pos
        <5>1. i - r.pos + 1 + Size \in 1 .. n /\ Slot(r, i - r.pos + 1 + Size) = i
          BY <1>1, <2>1, <3>1, <4>1, <4>3 DEF Slot
        <5> QED
          BY <5>1
      <4> QED
        BY <1>1, <1>2, <2>1, <4>2, <4>3
    <3>2. CASE ~r.filled
      <4>1. i + 1 \in 1 .. n /\ Slot(r, i + 1) = i
        BY <1>1, <1>2, <2>1, <3>2 DEF Slot
      <4> QED
        BY <4>1
    <3> QED
      BY <1>1, <3>1, <3>2
  <2>3. k \in A
    BY <1>3, <2>1, <2>2
  <2> QED
    BY <2>2, <2>3
<1>9. f \in Bijection(A, B)
  BY <1>6, <1>7, <1>8, Fun_IsBij
<1>10. ExistsBijection(A, B)
  BY <1>9 DEF ExistsBijection
<1>11. Cardinality(B) = Cardinality(A)
  BY <1>5, <1>10, FS_Bijection
<1>12. Window!LostIn(Contents(r)) = Cardinality(A)
  BY ContentsType, CountDefs
<1> QED
  BY <1>11, <1>12, CountDefs

\* The counts of a ring of Size slots are at most Size.
LEMMA CountType ==
  ASSUME NEW r \in R!Rings
  PROVE  R!CountOf(r, {TRUE}) \in 0 .. Size
<1>1. R!Valid(r) \in 0 .. Size
  BY PingWindowsAssumption DEF R!Rings, R!Slots, R!Valid
<1>2. IsFiniteSet(0 .. R!Valid(r) - 1) /\ Cardinality(0 .. R!Valid(r) - 1) = R!Valid(r)
  BY <1>1, FS_Interval
<1>3. R!Holding(r, {TRUE}) \in SUBSET (0 .. R!Valid(r) - 1)
  BY DEF R!Holding
<1>4. IsFiniteSet(R!Holding(r, {TRUE})) /\ R!CountOf(r, {TRUE}) <= R!Valid(r)
  BY <1>2, <1>3, FS_Subset, CountDefs
<1>5. R!CountOf(r, {TRUE}) \in Nat
  BY <1>4, FS_CardinalityType, CountDefs
<1> QED
  BY <1>1, <1>4, <1>5, PingWindowsAssumption

\* Put replaces the outcome of one slot, the one at pos: an answered ping takes at
\* most one lost ping out of the count, and none while the ring is filling.
LEMMA PutCount ==
  ASSUME NEW r \in R!Rings, NEW o \in BOOLEAN
  PROVE  LET c == R!CountOf(r, {TRUE})
             d == R!CountOf(R!Put(r, o), {TRUE})
         IN  /\ o => d >= c
             /\ o /\ ~r.filled => d = c + 1
             /\ ~o => d >= c - 1
             /\ ~o /\ ~r.filled => d = c
<1> DEFINE q == R!Put(r, o)
           A == R!Holding(r, {TRUE})
           B == R!Holding(q, {TRUE})
           p == r.pos
<1>1. Size \in Nat \ {0} /\ p \in 0 .. Size - 1 /\ r.filled \in BOOLEAN
      /\ r.slots \in [0 .. Size - 1 -> BOOLEAN]
  BY PingWindowsAssumption DEF R!Rings, R!Slots
<1>2. q.slots = [r.slots EXCEPT ![p] = o]
  BY PutFields
<1>3. /\ R!Valid(q) = IF r.filled THEN Size ELSE p + 1
      /\ R!Valid(r) = IF r.filled THEN Size ELSE p
  <2>1. CASE r.filled
    BY <1>1, <2>1, PutValid DEF R!Valid
  <2>2. CASE ~r.filled
    BY <1>1, <2>2, PutValid DEF R!Valid
  <2> QED
    BY <1>1, <2>1, <2>2
<1>4. /\ A = {i \in 0 .. R!Valid(r) - 1 : r.slots[i] = TRUE}
      /\ B = {i \in 0 .. R!Valid(q) - 1 : q.slots[i] = TRUE}
  BY DEF R!Holding
<1>5. IsFiniteSet(A)
  <2>1. IsFiniteSet(0 .. R!Valid(r) - 1)
    BY <1>1, <1>3, FS_Interval
  <2> QED
    BY <1>4, <2>1, FS_Subset
<1>6. ~r.filled => p \notin A
  BY <1>1, <1>3, <1>4
<1>7. B = IF o THEN A \cup {p} ELSE A \ {p}
  <2> HIDE DEF A, B, q
  <2>1. ASSUME NEW i
        PROVE  i \in B <=> i \in (IF o THEN A \cup {p} ELSE A \ {p})
    <3>1. p \in 0 .. R!Valid(q) - 1
      BY <1>1, <1>3
    <3>2. i \in 0 .. R!Valid(q) - 1 /\ i # p => i \in 0 .. R!Valid(r) - 1
      BY <1>1, <1>3
    <3>3. i \in 0 .. R!Valid(r) - 1 => i \in 0 .. R!Valid(q) - 1 /\ i \in 0 .. Size - 1
      BY <1>1, <1>3
    <3>4. CASE i = p
      BY <1>1, <1>2, <1>4, <3>1, <3>4
    <3>5. CASE i # p
      BY <1>1, <1>2, <1>4, <3>2, <3>3, <3>5
    <3> QED
      BY <3>4, <3>5
  <2> QED
    BY <2>1
<1>8. Cardinality(A) \in Nat
  BY <1>5, FS_CardinalityType
<1>9. o => Cardinality(B) = IF p \in A THEN Cardinality(A) ELSE Cardinality(A) + 1
  BY <1>5, <1>7, FS_AddElement
<1>10. ~o => Cardinality(B) = IF p \in A THEN Cardinality(A) - 1 ELSE Cardinality(A)
  BY <1>5, <1>7, FS_RemoveElement
<1>11. R!CountOf(r, {TRUE}) = Cardinality(A) /\ R!CountOf(q, {TRUE}) = Cardinality(B)
  BY CountDefs
<1> HIDE DEF A, B
<1> QED
  BY <1>6, <1>8, <1>9, <1>10, <1>11

-----------------------------------------------------------------------------
(***************************************************************************)
(* The invariant: the published figures are those of the ring, and the RTT *)
(* window has a round-trip time for every answered ping the ring counts.   *)
(***************************************************************************)
FiguresOfRing == /\ ring \in R!Rings
                 /\ total = R!Valid(ring)
                 /\ lost = R!CountOf(ring, {TRUE})

RTTsBounded == rtts \in Seq(RTTs) /\ Len(rtts) <= Size

IInv == FiguresOfRing /\ RTTsBounded /\ AnsweredPingsHaveRTTs

\* A new ring counts no lost ping.
LEMMA NewRingCount == R!CountOf(R!NewRing, {TRUE}) = 0
<1>1. R!Holding(R!NewRing, {TRUE}) = {}
  BY DEF R!Holding, R!NewRing, R!Slots, R!Valid
<1> QED
  BY <1>1, FS_EmptySet, CountDefs

\* Init and Rotate both start from an empty ring.
LEMMA EmptyWindows ==
  /\ Init => IInv
  /\ Rotate => IInv'
<1>1. R!NewRing \in R!Rings /\ R!Valid(R!NewRing) = 0 /\ R!CountOf(R!NewRing, {TRUE}) = 0
  BY NewRingType, NewRingCount
<1>2. << >> \in Seq(RTTs) /\ Len(<< >>) = 0
  OBVIOUS
<1>3. Init => IInv
  BY <1>1, <1>2, PingWindowsAssumption
     DEF Init, IInv, FiguresOfRing, RTTsBounded, AnsweredPingsHaveRTTs
<1>4. Rotate => IInv'
  BY <1>1, <1>2, PingWindowsAssumption
     DEF Rotate, IInv, FiguresOfRing, RTTsBounded, AnsweredPingsHaveRTTs
<1> QED
  BY <1>3, <1>4

\* record keeps the figures those of the ring, and says how they move.
LEMMA RecordStep ==
  ASSUME FiguresOfRing, NEW o \in BOOLEAN, record(o)
  PROVE  /\ FiguresOfRing'
         /\ total \in 0 .. Size /\ lost \in 0 .. Size /\ total' \in 0 .. Size /\ lost' \in 0 .. Size
         /\ total' = IF total < Size THEN total + 1 ELSE Size
         /\ o => total' - lost' <= total - lost
         /\ ~o => total' - lost' <= total - lost + 1
<1>1. ring \in R!Rings /\ total = R!Valid(ring) /\ lost = R!CountOf(ring, {TRUE})
  BY DEF FiguresOfRing
<1>2. ring' = R!Put(ring, o) /\ total' = R!Valid(ring') /\ lost' = R!CountOf(ring', {TRUE})
  BY DEF record
<1>3. ring' \in R!Rings
  BY <1>1, <1>2, PutType
<1>4. total \in 0 .. Size /\ total' = IF total < Size THEN total + 1 ELSE Size
  BY <1>1, <1>2, PutValid
<1>5. total' \in 0 .. Size
  BY <1>4, PingWindowsAssumption
<1>6. lost \in 0 .. Size /\ lost' \in 0 .. Size
  BY <1>1, <1>2, <1>3, CountType
<1>7. /\ o => lost' >= lost
      /\ o /\ ~ring.filled => lost' = lost + 1
      /\ ~o => lost' >= lost - 1
      /\ ~o /\ ~ring.filled => lost' = lost
  BY <1>1, <1>2, PutCount
<1>8. ring.filled => total = Size
  BY <1>1 DEF R!Valid
<1>9. ring.filled \in BOOLEAN
  BY <1>1 DEF R!Rings
<1>10. FiguresOfRing'
  BY <1>2, <1>3 DEF FiguresOfRing
<1>11. total \in Int /\ lost \in Int /\ total' \in Int /\ lost' \in Int /\ total' <= total + 1
  BY <1>4, <1>5, <1>6, PingWindowsAssumption
<1>12. ring.filled => total' = total
  BY <1>4, <1>8, PingWindowsAssumption
<1>13. (o => total' - lost' <= total - lost) /\ (~o => total' - lost' <= total - lost + 1)
  <2> DEFINE t == total  t2 == total'  l == lost  l2 == lost'  f == ring.filled
  <2>1. /\ t \in Int /\ l \in Int /\ t2 \in Int /\ l2 \in Int /\ f \in BOOLEAN
        /\ t2 <= t + 1
        /\ f => t2 = t
        /\ o => l2 >= l
        /\ o /\ ~f => l2 = l + 1
        /\ ~o => l2 >= l - 1
        /\ ~o /\ ~f => l2 = l
    BY <1>7, <1>9, <1>11, <1>12
  <2> HIDE DEF t, t2, l, l2, f
  <2>2. (o => t2 - l2 <= t - l) /\ (~o => t2 - l2 <= t - l + 1)
    BY <2>1
  <2> QED
    BY <2>2 DEF t, t2, l, l2
<1> QED
  BY <1>4, <1>5, <1>6, <1>10, <1>13

\* Every step keeps the invariant.
LEMMA Invariance == IInv /\ [Next]_vars => IInv'
<1> SUFFICES ASSUME IInv, [Next]_vars
             PROVE  IInv'
  OBVIOUS
<1> USE PingWindowsAssumption
<1>1. FiguresOfRing /\ RTTsBounded /\ total - lost <= Len(rtts)
  BY DEF IInv, AnsweredPingsHaveRTTs
<1>2. CASE OnPingFailure
  <2>1. record(TRUE) /\ rtts' = rtts
    BY <1>2 DEF OnPingFailure
  <2>2. FiguresOfRing' /\ total' - lost' <= total - lost
        /\ total \in 0 .. Size /\ lost \in 0 .. Size /\ total' \in 0 .. Size /\ lost' \in 0 .. Size
    BY <1>1, <2>1, RecordStep
  <2>3. Len(rtts) \in Int
    BY <1>1 DEF RTTsBounded
  <2>4. total' - lost' <= Len(rtts')
    <3> DEFINE t == total  t2 == total'  l == lost  l2 == lost'  n == Len(rtts)
    <3>1. /\ t \in 0 .. Size /\ l \in 0 .. Size /\ t2 \in 0 .. Size /\ l2 \in 0 .. Size
          /\ n \in Int /\ t - l <= n /\ t2 - l2 <= t - l
      BY <1>1, <2>2, <2>3
    <3> HIDE DEF t, t2, l, l2, n
    <3>2. t2 - l2 <= n
      BY <3>1
    <3> QED
      BY <2>1, <3>2 DEF t2, l2, n
  <2> QED
    BY <1>1, <2>1, <2>2, <2>4 DEF IInv, RTTsBounded, AnsweredPingsHaveRTTs
<1>3. ASSUME NEW ms \in RTTs, OnPingSuccess(ms)
      PROVE  IInv'
  <2> DEFINE w == Append(rtts, ms)
  <2>1. record(FALSE) /\ rtts' = IF Len(w) > Size THEN Tail(w) ELSE w
    BY <1>3 DEF OnPingSuccess
  <2>2. FiguresOfRing' /\ total' - lost' <= total - lost + 1
        /\ total \in 0 .. Size /\ lost \in 0 .. Size /\ total' \in 0 .. Size /\ lost' \in 0 .. Size
    BY <1>1, <2>1, RecordStep
  <2>3. rtts \in Seq(RTTs) /\ Len(rtts) \in 0 .. Size
    BY <1>1 DEF RTTsBounded
  <2>4. w \in Seq(RTTs) /\ w # << >> /\ Len(w) = Len(rtts) + 1
    BY <2>3, AppendProperties
  <2>5. Tail(w) \in Seq(RTTs) /\ Len(Tail(w)) = Len(rtts)
    BY <2>3, <2>4, HeadTailProperties
  <2>6. /\ rtts' \in Seq(RTTs)
        /\ Len(rtts') = IF Len(rtts) < Size THEN Len(rtts) + 1 ELSE Size
    <3> HIDE DEF w
    <3> QED
      BY <2>1, <2>3, <2>4, <2>5
  <2>7. total' - lost' <= Len(rtts')
    <3> DEFINE t == total  t2 == total'  l == lost  l2 == lost'
               n == Len(rtts)  n2 == Len(rtts')
    <3>1. /\ t \in 0 .. Size /\ l \in 0 .. Size /\ t2 \in 0 .. Size /\ l2 \in 0 .. Size
          /\ n \in 0 .. Size /\ n2 = (IF n < Size THEN n + 1 ELSE Size)
          /\ t - l <= n /\ t2 - l2 <= t - l + 1
      BY <1>1, <2>2, <2>3, <2>6
    <3> HIDE DEF t, t2, l, l2, n, n2
    <3>2. t2 - l2 <= n2
      BY <3>1
    <3> QED
      BY <3>2 DEF t2, l2, n2
  <2> QED
    BY <2>2, <2>3, <2>6, <2>7 DEF IInv, RTTsBounded, AnsweredPingsHaveRTTs
<1>4. CASE Rotate
  BY <1>4, EmptyWindows
<1>5. CASE UNCHANGED vars
  BY <1>1, <1>5 DEF vars, IInv, FiguresOfRing, RTTsBounded, AnsweredPingsHaveRTTs
<1> QED
  BY <1>2, <1>3, <1>4, <1>5 DEF Next

\* LossStats and PingStats, for every window length: the figures stay those of the
\* ring and every answered ping of the loss window has its round-trip time.
THEOREM WindowsInvariant == Spec => []IInv
<1>1. Init => IInv
  BY EmptyWindows
<1> QED
  BY <1>1, Invariance, PTL DEF Spec

\* Every answered ping of the loss window has its round-trip time among the RTTs
\* kept, for all window lengths (OnPingSuccess, dim/ping.go:21-31 and 100-107).
THEOREM AnsweredPings == Spec => []AnsweredPingsHaveRTTs
<1>1. IInv => AnsweredPingsHaveRTTs
  BY DEF IInv
<1> QED
  BY <1>1, WindowsInvariant, PTL

\* A full window of lost pings is not GOOD, for every window that has room for the samples
\* the score asks for; the default has 60 for 25.
THEOREM FullLoss ==
  ASSUME MinSamples <= Size
  PROVE  Spec => []FullLossIsSeen
<1>1. IInv => FullLossIsSeen
  <2> SUFFICES ASSUME total = Size, lost = Size PROVE LossScore(lost, total) # "Good"
    BY DEF FullLossIsSeen
  <2>1. Size \in Nat \ {0} /\ ~(Size < MinSamples) /\ 100 * Size >= 5 * Size
    BY PingWindowsAssumption
  <2>2. LossScore(Size, Size) = "Crit"
    BY <2>1 DEF LossScore, ScoreOfRatio
  <2> QED
    BY <2>2
<1> QED
  BY <1>1, WindowsInvariant, PTL

\* The other side of it: `nstat start --window` takes shorter windows too
\* (cmd/start.go:28-37), and then the score stays GOOD whatever is lost.
THEOREM ShortWindowIsGood ==
  ASSUME MinSamples > Size
  PROVE  Spec => [](LossScore(lost, total) = "Good")
<1>1. IInv => LossScore(lost, total) = "Good"
  <2> SUFFICES ASSUME IInv PROVE total < MinSamples
    BY DEF LossScore
  <2>1. total \in 0 .. Size
    BY PutValid, PingWindowsAssumption DEF IInv, FiguresOfRing
  <2> QED
    BY <2>1, PingWindowsAssumption
<1> QED
  BY <1>1, WindowsInvariant, PTL

-----------------------------------------------------------------------------
(* The scores of round-trip time and jitter. *)

\* The code's sum of a window is the sum over its positions.
LEMMA SumOfIs == ASSUME NEW w PROVE SumOf(w) = SumOver(w, DOMAIN w)
BY DEF SumOf, FoldSeq, FoldFunction, FoldFunctionOnSet, SumOver, MapThenSumSet

\* Numbers between m and M have squares that the chord over m and M bounds.
LEMMA SquaresBelow ==
  ASSUME NEW n \in Nat, NEW w, \A i \in 1 .. n : w[i] \in Int,
         NEW q, \A i \in 1 .. n : q[i] = w[i] * w[i],
         NEW m \in Int, NEW M \in Int, \A i \in 1 .. n : m <= w[i] /\ w[i] <= M
  PROVE  SumOver(q, 1 .. n) <= (m + M) * SumOver(w, 1 .. n) - n * (m * M)
<1> DEFINE W(k) == SumOver(w, 1 .. k)
           Q(k) == SumOver(q, 1 .. k)
           Bad == {k \in Nat : k <= n /\ ~ (Q(k) <= (m + M) * W(k) - k * (m * M))}
<1>1. ASSUME NEW k \in Bad, \A j \in Bad : k <= j
      PROVE  FALSE
  <2>1. k # 0
    <3>1. 1 .. 0 = {}
      OBVIOUS
    <3> QED
      BY <3>1, SumEmpty
  <2>2. k \in Nat /\ k \in 1 .. n /\ k - 1 \in Nat /\ k - 1 <= n
    BY <2>1
  <2>3. k - 1 \notin Bad
    <3> HIDE DEF Bad
    <3> QED
      BY <1>1, <2>2
  <2>4. \A i \in 1 .. n : q[i] \in Int
    OBVIOUS
  <2>5. W(k) = W(k - 1) + w[k] /\ Q(k) = Q(k - 1) + q[k]
    BY <2>2, <2>4, SumUpto
  <2>6. W(k - 1) \in Int /\ Q(k - 1) \in Int
    <3>1. IsFiniteSet(1 .. k - 1) /\ \A i \in 1 .. k - 1 : w[i] \in Int /\ q[i] \in Int
      BY <2>2, <2>4, FS_Interval
    <3> QED
      BY <3>1, SumType
  <2> DEFINE a == W(k - 1)
             b == Q(k - 1)
             x == w[k]
             u == W(k)
             v == Q(k)
  <2>7. b <= (m + M) * a - (k - 1) * (m * M)
    BY <2>2, <2>3
  <2>8. /\ a \in Int /\ b \in Int /\ x \in Int /\ m <= x /\ x <= M
        /\ u = a + x /\ v = b + x * x
    BY <2>2, <2>5, <2>6
  <2>9. ~ (v <= (m + M) * u - k * (m * M))
    OBVIOUS
  <2> HIDE DEF W, Q, Bad, a, b, x, u, v
  <2>10. (x - m) * (M - x) >= 0
    <3>1. x - m \in Nat /\ M - x \in Nat
      BY <2>8
    <3> QED
      BY <3>1
  <2>11. (x - m) * (M - x) = (m + M) * x - x * x - m * M
    BY <2>8
  <2>12. (m + M) * u = (m + M) * a + (m + M) * x
    BY <2>8
  <2>13. (k - 1) * (m * M) = k * (m * M) - m * M
    BY <2>2
  <2> QED
    BY <2>2, <2>7, <2>8, <2>9, <2>10, <2>11, <2>12, <2>13
<1>2. Bad = {}
  <2>1. Bad \in SUBSET Nat
    OBVIOUS
  <2> HIDE DEF Bad
  <2> QED
    BY <1>1, <2>1, LeastNatural
<1> QED
  BY <1>2

\* The deviation of numbers is at most half their range.
LEMMA HalfRange ==
  ASSUME NEW n \in Nat \ {0}, NEW s \in Int, NEW t \in Int, NEW m \in Int, NEW M \in Int,
         t <= (m + M) * s - n * (m * M), M - m = 59
  PROVE  n * t - s * s < 900 * (n * n)
<1> DEFINE e == 2 * s - n * (m + M)
<1>1. e * e >= 0
  <2>1. e \in Int
    OBVIOUS
  <2> HIDE DEF e
  <2> QED
    BY <2>1
<1>2. n * t <= n * ((m + M) * s - n * (m * M))
  OBVIOUS
<1>3. 4 * (n * ((m + M) * s - n * (m * M)) - s * s) = 3481 * (n * n) - e * e
  <2>1. M = m + 59
    OBVIOUS
  <2>2. /\ n * ((m + M) * s - n * (m * M)) = 2 * (n * m * s) + 59 * (n * s) - n * n * m * m - 59 * (n * n * m)
        /\ e * e = 4 * (s * s) - 8 * (n * m * s) - 236 * (n * s) + 4 * (n * n * m * m) + 236 * (n * n * m) + 3481 * (n * n)
    BY <2>1
  <2> QED
    BY <2>2
<1>4. n * n > 0
  OBVIOUS
<1> QED
  BY <1>1, <1>2, <1>3, <1>4

\* A window of round-trip times is a sequence of naturals.
LEMMA WindowNumbers ==
  ASSUME NEW w \in Seq(RTTs)
  PROVE  Len(w) \in Nat /\ DOMAIN w = 1 .. Len(w) /\ \A k \in 1 .. Len(w) : w[k] \in Nat
<1>1. Len(w) \in Nat /\ DOMAIN w = 1 .. Len(w)
  OBVIOUS
<1>2. \A k \in 1 .. Len(w) : w[k] \in RTTs
  BY <1>1
<1> QED
  BY <1>1, <1>2, PingWindowsAssumption

\* A mean of 200 ms needs a ping of 200 ms.
LEMMA MeanHasACause ==
  ASSUME NEW w \in Seq(RTTs), RTTScore(w) = "Crit"
  PROVE  \E k \in DOMAIN w : w[k] >= 200
<1> DEFINE n == Len(w)
<1>1. n \in Nat /\ DOMAIN w = 1 .. n /\ \A k \in 1 .. n : w[k] \in Int
  BY WindowNumbers
<1>2. SumOver(w, 1 .. n) \in Int
  <2>1. IsFiniteSet(1 .. n)
    BY <1>1, FS_Interval
  <2> HIDE DEF n
  <2> QED
    BY <1>1, <2>1, SumType
<1>3. w # << >> /\ SumOver(w, 1 .. n) >= 200 * n
  BY <1>1, SumOfIs DEF RTTScore, ScoreOfRatio
<1>4. n # 0
  BY <1>3
<1>5. SUFFICES ASSUME \A k \in 1 .. n : w[k] <= 199
               PROVE  FALSE
  BY <1>1
<1>6. SumOver(w, 1 .. n) <= n * 199
  BY <1>1, <1>5, SumBelow
<1> HIDE DEF n
<1> QED
  BY <1>1, <1>2, <1>3, <1>4, <1>6

\* A deviation of 30 ms needs two pings that are 60 ms apart.
LEMMA DeviationHasACause ==
  ASSUME NEW w \in Seq(RTTs), JitterScore(w) = "Crit"
  PROVE  \E j, k \in DOMAIN w : w[j] - w[k] >= 60
<1> DEFINE n == Len(w)
           q == [k \in 1 .. n |-> w[k] * w[k]]
           s == SumOver(w, 1 .. n)
           t == SumOver(q, 1 .. n)
<1>1. n \in Nat /\ DOMAIN w = 1 .. n /\ \A k \in 1 .. n : w[k] \in Nat
  BY WindowNumbers
<1>2. w # << >> /\ n # 0
  BY <1>1 DEF JitterScore
<1>3. SumOf(w) = s /\ SumOf([k \in DOMAIN w |-> w[k] * w[k]]) = t
  BY <1>1, SumOfIs
<1>4. s \in Int /\ t \in Int
  <2>1. IsFiniteSet(1 .. n)
    BY <1>1, FS_Interval
  <2>2. \A k \in 1 .. n : w[k] \in Int /\ q[k] \in Int
    BY <1>1
  <2> HIDE DEF q, n
  <2> QED
    BY <2>1, <2>2, SumType
<1>5. n * t - s * s >= 900 * (n * n)
  <2>1. Spread(w) >= 900 * (Len(w) * Len(w))
    BY <1>2 DEF JitterScore, ScoreOfRatio
  <2>2. Spread(w) = n * t - s * s
    BY <1>3 DEF Spread
  <2> QED
    BY <2>1, <2>2
<1> SUFFICES ASSUME \A j, k \in 1 .. n : ~(w[j] - w[k] >= 60)
             PROVE  FALSE
  BY <1>1
<1> DEFINE Values == {w[k] : k \in 1 .. n}
<1>6. PICK i \in 1 .. n : \A k \in 1 .. n : w[i] <= w[k]
  <2>1. Values \in SUBSET Nat /\ Values # {}
    BY <1>1, <1>2
  <2>2. PICK m \in Values : \A v \in Values : m <= v
    <3> HIDE DEF Values
    <3> QED
      BY <2>1, LeastNatural
  <2> QED
    BY <2>2
<1> DEFINE m == w[i]
           M == m + 59
<1>7. m \in Int /\ M \in Int /\ \A k \in 1 .. n : m <= w[k] /\ w[k] <= M
  BY <1>1, <1>6
<1>8. t <= (m + M) * s - n * (m * M)
  <2>1. \A k \in 1 .. n : w[k] \in Int /\ q[k] = w[k] * w[k]
    BY <1>1
  <2> HIDE DEF q, M, m
  <2> QED
    BY <1>1, <1>7, <2>1, SquaresBelow
<1>9. n \in Nat \ {0} /\ M - m = 59
  BY <1>1, <1>2, <1>7
<1> HIDE DEF n, s, t, m, M
<1>10. n * t - s * s < 900 * (n * n)
  BY <1>4, <1>7, <1>8, <1>9, HalfRange
<1> QED
  BY <1>4, <1>5, <1>9, <1>10

\* A CRIT of the mean or of the jitter is never an artefact of the averaging: some ping
\* took 200 ms, two of them are 60 ms apart, for every window and all round-trip times.
THEOREM CritIsCaused == Spec => []CritHasACause
<1>1. IInv => CritHasACause
  BY MeanHasACause, DeviationHasACause DEF IInv, RTTsBounded, CritHasACause
<1> QED
  BY <1>1, WindowsInvariant, PTL

-----------------------------------------------------------------------------
\* LossStats publishes the figures of the last Size pings of the session, for every
\* window length: PingWindows implements SlidingWindow.
THEOREM Refinement == Spec => WindowIsRecentPings
<1>1. Init => Window!Init
  <2> SUFFICES ASSUME Init PROVE Window!Init
    OBVIOUS
  <2>1. ring \in R!Rings /\ R!Valid(ring) = 0
    BY NewRingType DEF Init
  <2>2. Contents(ring) \in Seq(BOOLEAN) /\ Len(Contents(ring)) = 0
    BY <2>1, ContentsType
  <2> QED
    BY <2>2 DEF Init, Window!Init
<1>2. IInv /\ IInv' /\ [Next]_vars => [Window!Next]_Window!vars
  <2> SUFFICES ASSUME IInv, IInv', [Next]_vars
               PROVE  [Window!Next]_Window!vars
    OBVIOUS
  <2>1. ring \in R!Rings
    BY DEF IInv, FiguresOfRing
  <2>2. ASSUME NEW o \in BOOLEAN, record(o)
        PROVE  Window!Record(o)
    <3>1. ring' = R!Put(ring, o) /\ ring' \in R!Rings
      BY <2>1, <2>2, PutType DEF record
    <3>2. Contents(ring') = Window!Slide(Contents(ring), o)
      BY <2>1, <3>1, PutSlides
    <3>3. total' = Len(Contents(ring'))
      BY <2>2, <3>1, ContentsType DEF record
    <3>4. lost' = Window!LostIn(Contents(ring'))
      BY <2>2, <3>1, SameCount DEF record
    <3>5. Contents(ring)' = Contents(ring')
      BY DEF Contents, R!Valid
    <3> QED
      BY <3>2, <3>3, <3>4, <3>5 DEF Window!Record
  <2>3. CASE Rotate
    <3>1. ring' \in R!Rings /\ R!Valid(ring') = 0
      BY <2>3, NewRingType DEF Rotate
    <3>2. Contents(ring') = << >>
      BY <3>1, ContentsType
    <3>3. Contents(ring)' = Contents(ring')
      BY DEF Contents, R!Valid
    <3>4. Window!Clear
      BY <2>3, <3>2, <3>3 DEF Rotate, Window!Clear
    <3> QED
      BY <3>4 DEF Window!Next
  <2>4. CASE OnPingFailure
    <3>1. Window!Record(TRUE)
      BY <2>2, <2>4 DEF OnPingFailure
    <3> QED
      BY <3>1 DEF Window!Next
  <2>5. ASSUME NEW ms \in RTTs, OnPingSuccess(ms)
        PROVE  Window!Next
    <3>1. Window!Record(FALSE)
      BY <2>2, <2>5 DEF OnPingSuccess
    <3> QED
      BY <3>1 DEF Window!Next
  <2>6. CASE UNCHANGED vars
    <3>1. Contents(ring)' = Contents(ring)
      BY <2>6 DEF vars, Contents, R!Valid
    <3> QED
      BY <2>6, <3>1 DEF vars, Window!vars
  <2> QED
    BY <2>3, <2>4, <2>5, <2>6 DEF Next
<1> QED
  BY <1>1, <1>2, WindowsInvariant, PTL DEF Spec, WindowIsRecentPings, Window!Spec

=============================================================================
