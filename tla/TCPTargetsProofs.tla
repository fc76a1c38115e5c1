--------------------------- MODULE TCPTargetsProofs ---------------------------
(***************************************************************************)
(* For every number of targets and length of window: the loss of a target  *)
(* is that of its last attempts (each window implements SlidingWindow),    *)
(* the two trackers of the first target agree between two rounds, and a    *)
(* target that times out is not GOOD.                                      *)
(***************************************************************************)
EXTENDS TCPTargets, FoldLemmas, FunctionTheorems, SequenceTheorems, TLAPS

\* The slot that holds the k-th oldest outcome of a ring.
Slot(r, k) == IF ~r.filled THEN k - 1
              ELSE IF r.pos + k - 1 < Size THEN r.pos + k - 1 ELSE r.pos + k - 1 - Size

\* The outcomes of a ring, oldest first.
Contents(r) == [k \in 1 .. R!Valid(r) |-> r.slots[Slot(r, k)]]

\* What a failed connection attempt is classified as.
LEMMA FailuresAre == Failures = {"timeout", "refused", "reset", "dns", "other"}
<1>1. Failures \subseteq {"timeout", "refused", "reset", "dns", "other"}
  BY DEF Failures, Errors, classifyTCPError
<1> DEFINE Err(t, e, l) == [timeout |-> t, errno |-> e, lookup |-> l]
<1>2. /\ Err(TRUE, "none", FALSE) \in Errors /\ Err(FALSE, "ECONNREFUSED", FALSE) \in Errors
      /\ Err(FALSE, "ECONNRESET", FALSE) \in Errors /\ Err(FALSE, "none", TRUE) \in Errors
      /\ Err(FALSE, "none", FALSE) \in Errors
  BY DEF Errors
<1>3. /\ classifyTCPError(Err(TRUE, "none", FALSE)) = "timeout"
      /\ classifyTCPError(Err(FALSE, "ECONNREFUSED", FALSE)) = "refused"
      /\ classifyTCPError(Err(FALSE, "ECONNRESET", FALSE)) = "reset"
      /\ classifyTCPError(Err(FALSE, "none", TRUE)) = "dns"
      /\ classifyTCPError(Err(FALSE, "none", FALSE)) = "other"
  BY DEF classifyTCPError
<1> HIDE DEF Err
<1>4. {"timeout", "refused", "reset", "dns", "other"} \subseteq Failures
  BY <1>2, <1>3 DEF Failures
<1> QED
  BY <1>1, <1>4

\* A number of less than twice the size wraps at most once.
LEMMA Wraps ==
  ASSUME NEW x \in Nat, x < 2 * Size
  PROVE  x % Size = IF x < Size THEN x ELSE x - Size
<1>1. Size \in Nat \ {0}
  BY TCPTargetsAssumption
<1>2. CASE x < Size
  BY <1>1, <1>2, Z3
<1>3. CASE ~(x < Size)
  <2> DEFINE y == x - Size
  <2>1. y \in Nat /\ y < Size /\ x = Size + y
    BY <1>1, <1>3
  <2>2. (Size + y) % Size = y
    BY <1>1, <2>1, Z3
  <2> QED
    BY <1>3, <2>1, <2>2
<1> QED
  BY <1>2, <1>3

\* The recent attempts of a target are read off its ring.
Read(r) == IF r.filled THEN [k \in 1 .. Size |-> r.slots[(r.pos + k - 1) % Size]]
           ELSE [k \in 1 .. r.pos |-> r.slots[k - 1]]

\* This is the order in which the ring was filled.
LEMMA RecentIs ==
  ASSUME NEW r \in R!Rings
  PROVE  Read(r) = Contents(r)
<1>1. Size \in Nat \ {0} /\ r.pos \in 0 .. Size - 1 /\ r.filled \in BOOLEAN
  BY TCPTargetsAssumption DEF R!Rings, R!Slots
<1>2. CASE r.filled
  <2>1. \A k \in 1 .. Size : (r.pos + k - 1) % Size = Slot(r, k)
    <3> TAKE k \in 1 .. Size
    <3> DEFINE x == r.pos + k - 1
    <3>1. x \in Nat /\ x < 2 * Size
      BY <1>1
    <3>2. Slot(r, k) = IF x < Size THEN x ELSE x - Size
      BY <1>1, <1>2 DEF Slot
    <3> HIDE DEF x
    <3>3. x % Size = IF x < Size THEN x ELSE x - Size
      BY <3>1, Wraps
    <3>4. x % Size = Slot(r, k)
      BY <3>2, <3>3
    <3> QED
      BY <3>4 DEF x
  <2> QED
    BY <1>2, <2>1 DEF Read, Contents, R!Valid
<1>3. CASE ~r.filled
  BY <1>3 DEF Read, Contents, R!Valid, Slot
<1> QED
  BY <1>1, <1>2, <1>3

\* The instances count with the same Cardinality as this module.
LEMMA CountDefs ==
  /\ \A r, S : R!CountOf(r, S) = Cardinality(R!Holding(r, S))
  /\ \A t, w : Window(t)!LostIn(w) = Cardinality({k \in 1 .. Len(w) : w[k] = "timeout"})
<1>1. \A S : R!Cardinality(S) = Cardinality(S)
  BY DEF R!Cardinality, Cardinality
<1>2. \A t, S : Window(t)!Cardinality(S) = Cardinality(S)
  BY DEF Window!Cardinality, Cardinality
<1> QED
  BY <1>1, <1>2 DEF R!CountOf, Window!LostIn

\* The cursor advances by one and wraps at the end of the slots.
LEMMA NextPos ==
  ASSUME NEW p \in 0 .. Size - 1
  PROVE  (p + 1) % Size = IF p + 1 = Size THEN 0 ELSE p + 1
<1>1. Size \in Nat \ {0}
  BY TCPTargetsAssumption
<1>2. CASE p + 1 = Size
  <2>1. Size % Size = 0
    BY <1>1, Z3
  <2> QED
    BY <1>2, <2>1
<1>3. CASE p + 1 # Size
  BY <1>1, <1>3, Z3
<1> QED
  BY <1>2, <1>3

\* Put keeps a ring a ring.
LEMMA PutType ==
  ASSUME NEW r \in R!Rings, NEW o \in Reasons
  PROVE  R!Put(r, o) \in R!Rings
BY NextPos, TCPTargetsAssumption DEF R!Put, R!Rings, R!Slots

\* A new ring is a ring that holds nothing.
LEMMA NewRingType == R!NewRing \in R!Rings /\ R!Valid(R!NewRing) = 0
BY TCPTargetsAssumption DEF R!NewRing, R!Rings, R!Slots, R!Valid, Reasons

\* The fields of a ring after Put.
LEMMA PutFields ==
  ASSUME NEW r \in R!Rings, NEW o \in Reasons
  PROVE  /\ R!Put(r, o).slots = [r.slots EXCEPT ![r.pos] = o]
         /\ R!Put(r, o).pos = IF r.pos + 1 = Size THEN 0 ELSE r.pos + 1
         /\ R!Put(r, o).filled <=> r.filled \/ r.pos + 1 = Size
<1>1. r.pos \in 0 .. Size - 1
  BY DEF R!Rings, R!Slots
<1>2. (r.pos + 1) % Size = IF r.pos + 1 = Size THEN 0 ELSE r.pos + 1
  BY <1>1, NextPos
<1>3. (r.pos + 1) % Size = 0 <=> r.pos + 1 = Size
  BY <1>1, <1>2, TCPTargetsAssumption
<1> QED
  BY <1>2, <1>3 DEF R!Put

\* One more outcome fills one more slot until all of them are in use.
LEMMA PutValid ==
  ASSUME NEW r \in R!Rings, NEW o \in Reasons
  PROVE  /\ R!Valid(r) \in 0 .. Size
         /\ R!Valid(R!Put(r, o)) = IF R!Valid(r) < Size THEN R!Valid(r) + 1 ELSE Size
<1> DEFINE q == R!Put(r, o)
<1>1. Size \in Nat \ {0} /\ r.pos \in 0 .. Size - 1 /\ r.filled \in BOOLEAN
  BY TCPTargetsAssumption DEF R!Rings, R!Slots
<1>2. /\ q.pos = IF r.pos + 1 = Size THEN 0 ELSE r.pos + 1
      /\ q.filled <=> r.filled \/ r.pos + 1 = Size
  BY PutFields
<1>3. CASE r.filled
  BY <1>1, <1>2, <1>3 DEF R!Valid
<1>4. CASE ~r.filled
  BY <1>1, <1>2, <1>4 DEF R!Valid
<1> QED
  BY <1>1, <1>3, <1>4

\* The contents of a ring, oldest first: one outcome per valid slot.
LEMMA ContentsType ==
  ASSUME NEW r \in R!Rings
  PROVE  /\ Contents(r) \in Seq(Reasons)
         /\ Len(Contents(r)) = R!Valid(r)
         /\ \A k \in 1 .. R!Valid(r) : /\ Slot(r, k) \in 0 .. R!Valid(r) - 1
                                      /\ Contents(r)[k] = r.slots[Slot(r, k)]
<1>1. Size \in Nat \ {0} /\ r.pos \in 0 .. Size - 1 /\ r.filled \in BOOLEAN
      /\ r.slots \in [0 .. Size - 1 -> Reasons]
  BY TCPTargetsAssumption DEF R!Rings, R!Slots
<1>2. R!Valid(r) \in 0 .. Size
  BY <1>1 DEF R!Valid
<1>3. ASSUME NEW k \in 1 .. R!Valid(r)
      PROVE  Slot(r, k) \in 0 .. R!Valid(r) - 1
  <2>1. CASE r.filled
    BY <1>1, <1>3, <2>1 DEF R!Valid, Slot
  <2>2. CASE ~r.filled
    BY <1>1, <1>3, <2>2 DEF R!Valid, Slot
  <2> QED
    BY <1>1, <2>1, <2>2
<1>4. Contents(r) = [k \in 1 .. R!Valid(r) |-> r.slots[Slot(r, k)]]
  BY DEF Contents
<1>5. \A k \in 1 .. R!Valid(r) : r.slots[Slot(r, k)] \in Reasons
  BY <1>1, <1>2, <1>3
<1>6. Contents(r) \in [1 .. R!Valid(r) -> Reasons]
  BY <1>4, <1>5
<1> QED
  BY <1>2, <1>3, <1>4, <1>6

\* Put on the ring is Slide on its contents.
LEMMA PutSlides ==
  ASSUME NEW t \in Targets, NEW r \in R!Rings, NEW o \in Reasons
  PROVE  Contents(R!Put(r, o)) = Window(t)!Slide(Contents(r), o)
<1> DEFINE q == R!Put(r, o)
           w == Contents(r)
           v == Window(t)!Slide(w, o)
<1>1. Size \in Nat \ {0} /\ r.pos \in 0 .. Size - 1 /\ r.filled \in BOOLEAN
      /\ r.slots \in [0 .. Size - 1 -> Reasons]
  BY TCPTargetsAssumption DEF R!Rings, R!Slots
<1>2. q \in R!Rings
  BY PutType
<1>3. /\ q.slots = [r.slots EXCEPT ![r.pos] = o]
      /\ q.pos = IF r.pos + 1 = Size THEN 0 ELSE r.pos + 1
      /\ q.filled <=> r.filled \/ r.pos + 1 = Size
  BY PutFields
<1>4. w \in Seq(Reasons) /\ Len(w) = R!Valid(r)
      /\ \A k \in 1 .. R!Valid(r) : w[k] = r.slots[Slot(r, k)]
  BY ContentsType
<1>5. Contents(q) \in Seq(Reasons) /\ Len(Contents(q)) = R!Valid(q)
      /\ \A k \in 1 .. R!Valid(q) : Contents(q)[k] = q.slots[Slot(q, k)]
  BY <1>2, ContentsType
<1>6. /\ R!Valid(r) \in 0 .. Size
      /\ R!Valid(q) = IF R!Valid(r) < Size THEN R!Valid(r) + 1 ELSE Size
  BY PutValid
<1> HIDE DEF q, w
<1>7. CASE r.filled
  <2>1. R!Valid(r) = Size /\ q.filled
    BY <1>3, <1>7 DEF R!Valid
  <2>2. v = Append(Tail(w), o)
    BY <1>1, <1>4, <2>1 DEF Window!Slide
  <2>3. /\ Tail(w) \in Seq(Reasons) /\ Len(Tail(w)) = Size - 1
        /\ \A k \in 1 .. Size - 1 : Tail(w)[k] = w[k + 1]
    BY <1>1, <1>4, <2>1, HeadTailProperties
  <2>4. /\ v \in Seq(Reasons) /\ Len(v) = Size
        /\ \A k \in 1 .. Size - 1 : v[k] = w[k + 1]
        /\ v[Size] = o
    BY <1>1, <2>2, <2>3, AppendProperties
  <2>5. ASSUME NEW k \in 1 .. Size - 1
        PROVE  Contents(q)[k] = v[k]
    <3>1. Slot(q, k) = Slot(r, k + 1) /\ Slot(q, k) # r.pos /\ Slot(q, k) \in 0 .. Size - 1
      <4>1. Slot(r, k + 1) = IF r.pos + k < Size THEN r.pos + k ELSE r.pos + k - Size
        BY <1>1, <1>7, <2>5 DEF Slot
      <4>2. Slot(q, k) = IF q.pos + k - 1 < Size THEN q.pos + k - 1 ELSE q.pos + k - 1 - Size
        BY <2>1 DEF Slot
      <4>3. CASE r.pos + 1 = Size
        BY <1>1, <1>3, <2>5, <4>1, <4>2, <4>3
      <4>4. CASE r.pos + 1 # Size
        BY <1>1, <1>3, <2>5, <4>1, <4>2, <4>4
      <4> QED
        BY <4>3, <4>4
    <3>2. Contents(q)[k] = q.slots[Slot(q, k)] /\ w[k + 1] = r.slots[Slot(r, k + 1)]
      BY <1>1, <1>4, <1>5, <1>6, <2>1, <2>5
    <3> QED
      BY <1>1, <1>3, <2>4, <3>1, <3>2
  <2>6. Contents(q)[Size] = o
    <3>1. Slot(q, Size) = r.pos
      BY <1>1, <1>3, <2>1 DEF Slot
    <3> QED
      BY <1>1, <1>3, <1>5, <1>6, <2>1, <3>1
  <2>7. \A k \in 1 .. Size : Contents(q)[k] = v[k]
    BY <1>1, <2>4, <2>5, <2>6
  <2>8. Len(Contents(q)) = Len(v)
    BY <1>5, <1>6, <2>1, <2>4
  <2> QED
    BY <1>5, <2>4, <2>7, <2>8, SeqEqual DEF q, w
<1>8. CASE ~r.filled
  <2>1. R!Valid(r) = r.pos /\ R!Valid(q) = r.pos + 1
    BY <1>1, <1>6, <1>8 DEF R!Valid
  <2>2. v = Append(w, o)
    BY <1>1, <1>4, <2>1 DEF Window!Slide
  <2>3. /\ v \in Seq(Reasons) /\ Len(v) = r.pos + 1
        /\ \A k \in 1 .. r.pos : v[k] = w[k]
        /\ v[r.pos + 1] = o
    BY <1>1, <1>4, <2>1, <2>2, AppendProperties
  <2>4. ASSUME NEW k \in 1 .. r.pos + 1
        PROVE  Slot(q, k) = k - 1 /\ (k <= r.pos => Slot(r, k) = k - 1)
    BY <1>1, <1>3, <1>8, <2>4 DEF Slot
  <2>5. ASSUME NEW k \in 1 .. r.pos
        PROVE  Contents(q)[k] = v[k]
    <3>1. Contents(q)[k] = q.slots[k - 1] /\ w[k] = r.slots[k - 1]
      BY <1>1, <1>4, <1>5, <2>1, <2>4, <2>5
    <3> QED
      BY <1>1, <1>3, <2>3, <3>1
  <2>6. Contents(q)[r.pos + 1] = o
    <3>1. Contents(q)[r.pos + 1] = q.slots[r.pos]
      BY <1>1, <1>5, <2>1, <2>4
    <3> QED
      BY <1>1, <1>3, <3>1
  <2>7. \A k \in 1 .. r.pos + 1 : Contents(q)[k] = v[k]
    BY <1>1, <2>3, <2>5, <2>6
  <2>8. Len(Contents(q)) = Len(v)
    BY <1>5, <2>1, <2>3
  <2> QED
    BY <1>5, <2>1, <2>3, <2>7, <2>8, SeqEqual DEF q, w
<1> QED
  BY <1>1, <1>7, <1>8

\* As many timeouts in the ring as in its contents.
LEMMA SameCount ==
  ASSUME NEW t \in Targets, NEW r \in R!Rings
  PROVE  R!CountOf(r, {"timeout"}) = Window(t)!LostIn(Contents(r))
<1> DEFINE n == R!Valid(r)
           A == {k \in 1 .. n : Contents(r)[k] = "timeout"}
           B == R!Holding(r, {"timeout"})
           f == [k \in A |-> Slot(r, k)]
<1>1. Size \in Nat \ {0} /\ r.pos \in 0 .. Size - 1 /\ r.filled \in BOOLEAN
  BY TCPTargetsAssumption DEF R!Rings, R!Slots
<1>2. n \in 0 .. Size
  BY <1>1 DEF R!Valid
<1>3. \A k \in 1 .. n : Slot(r, k) \in 0 .. n - 1 /\ Contents(r)[k] = r.slots[Slot(r, k)]
  BY ContentsType
<1>4. B = {i \in 0 .. n - 1 : r.slots[i] = "timeout"}
  BY DEF R!Holding
<1>5. IsFiniteSet(A)
  <2>1. IsFiniteSet(1 .. n)
    BY <1>2, FS_Interval
  <2> QED
    BY <2>1, FS_Subset
<1>6. f \in [A -> B]
  BY <1>3, <1>4
<1>7. ASSUME NEW j \in A, NEW k \in A, f[j] = f[k]
      PROVE  j = k
  <2>1. j \in 1 .. n /\ k \in 1 .. n /\ Slot(r, j) = Slot(r, k)
    BY <1>7
  <2>2. CASE r.filled
    BY <1>1, <1>2, <2>1, <2>2 DEF Slot, R!Valid
  <2>3. CASE ~r.filled
    BY <1>1, <1>2, <2>1, <2>3 DEF Slot, R!Valid
  <2> QED
    BY <1>1, <2>2, <2>3
<1>8. ASSUME NEW i \in B
      PROVE  \E k \in A : f[k] = i
  <2>1. i \in 0 .. n - 1 /\ r.slots[i] = "timeout"
    BY <1>4
  <2>2. PICK k \in 1 .. n : Slot(r, k) = i
    <3>1. CASE r.filled
      <4>1. n = Size
        BY <3>1 DEF R!Valid
      <4>2. CASE i >= r.pos
        <5>1. i - r.pos + 1 \in 1 .. n /\ Slot(r, i - r.pos + 1) = i
          BY <1>1, <2>1, <3>1, <4>1, <4>2 DEF Slot
        <5> QED
          BY <5>1
      <4>3. CASE i < r.pos
        <5>1. i - r.pos + 1 + Size \in 1 .. n /\ Slot(r, i - r.pos + 1 + Size) = i
          BY <1>1, <2>1, <3>1, <4>1, <4>3 DEF Slot
        <5> QED
          BY <5>1
      <4> QED
        BY <1>1, <1>2, <2>1, <4>2, <4>3
    <3>2. CASE ~r.filled
      <4>1. i + 1 \in 1 .. n /\ Slot(r, i + 1) = i
        BY <1>1, <1>2, <2>1, <3>2 DEF Slot
      <4> QED
        BY <4>1
    <3> QED
      BY <1>1, <3>1, <3>2
  <2>3. k \in A
    BY <1>3, <2>1, <2>2
  <2> QED
    BY <2>2, <2>3
<1>9. f \in Bijection(A, B)
  BY <1>6, <1>7, <1>8, Fun_IsBij
<1>10. ExistsBijection(A, B)
  BY <1>9 DEF ExistsBijection
<1>11. Cardinality(B) = Cardinality(A)
  BY <1>5, <1>10, FS_Bijection
<1>12. Window(t)!LostIn(Contents(r)) = Cardinality(A)
  BY ContentsType, CountDefs
<1> QED
  BY <1>11, <1>12, CountDefs


\* The counts of a ring are those of finite sets, and no more than it holds.
LEMMA CountType ==
  ASSUME NEW r \in R!Rings, NEW S
  PROVE  /\ IsFiniteSet(R!Holding(r, S)) /\ R!CountOf(r, S) = Cardinality(R!Holding(r, S))
         /\ R!CountOf(r, S) \in Nat /\ R!CountOf(r, S) <= R!Valid(r)
         /\ R!Valid(r) \in 0 .. Size
<1>1. R!Valid(r) \in 0 .. Size
  BY TCPTargetsAssumption DEF R!Rings, R!Slots, R!Valid
<1>2. IsFiniteSet(0 .. R!Valid(r) - 1) /\ Cardinality(0 .. R!Valid(r) - 1) = R!Valid(r)
  BY <1>1, FS_Interval
<1>3. R!Holding(r, S) \in SUBSET (0 .. R!Valid(r) - 1)
  BY DEF R!Holding
<1>4. IsFiniteSet(R!Holding(r, S)) /\ Cardinality(R!Holding(r, S)) <= R!Valid(r)
  BY <1>2, <1>3, FS_Subset
<1> QED
  BY <1>1, <1>4, FS_CardinalityType, CountDefs

\* Every slot in use holds one of the outcomes.
LEMMA CountAll ==
  ASSUME NEW r \in R!Rings
  PROVE  R!CountOf(r, Reasons) = R!Valid(r)
<1>1. R!Valid(r) \in 0 .. Size /\ r.slots \in [0 .. Size - 1 -> Reasons] /\ Size \in Nat
  BY CountType, TCPTargetsAssumption DEF R!Rings, R!Slots
<1>2. R!Holding(r, Reasons) = 0 .. R!Valid(r) - 1
  BY <1>1 DEF R!Holding
<1> QED
  BY <1>1, <1>2, FS_Interval, CountDefs

\* The outcomes of two disjoint sets are counted apart.
LEMMA CountUnion ==
  ASSUME NEW r \in R!Rings, NEW S, NEW T, S \cap T = {}
  PROVE  R!CountOf(r, S \cup T) = R!CountOf(r, S) + R!CountOf(r, T)
<1> DEFINE A == R!Holding(r, S)
           B == R!Holding(r, T)
<1>1. R!Holding(r, S \cup T) = A \cup B /\ A \cap B = {}
  BY DEF R!Holding
<1>2. IsFiniteSet(A) /\ IsFiniteSet(B)
  BY CountType
<1>3. Cardinality({}) = 0 /\ Cardinality(A) \in Nat /\ Cardinality(B) \in Nat
  BY <1>2, FS_EmptySet, FS_CardinalityType
<1>4. Cardinality(A \cup B) = Cardinality(A) + Cardinality(B) - Cardinality(A \cap B)
  BY <1>2, FS_Union
<1>5. /\ R!CountOf(r, S) = Cardinality(A) /\ R!CountOf(r, T) = Cardinality(B)
      /\ R!CountOf(r, S \cup T) = Cardinality(A \cup B)
  BY <1>1, CountDefs
<1>6. Cardinality(A \cap B) = 0
  BY <1>1, <1>3
<1> HIDE DEF A, B
<1> QED
  BY <1>3, <1>4, <1>5, <1>6

\* What recompute makes of a ring: figures that are numbers, no more attempts than slots,
\* and a reason for each failure.
LEMMA Recomputed ==
  ASSUME NEW r \in R!Rings
  PROVE  LET c == recompute(r)
         IN  /\ c \in FigureRecords
             /\ c["Total"] = R!Valid(r) /\ c["Total"] <= Size
             /\ c["Timeout"] = R!CountOf(r, {"timeout"}) /\ c["Timeout"] <= c["Total"]
             /\ c["Fail"] = c["Timeout"] + c["Refused"] + c["Reset"] + c["Other"]
<1> DEFINE c == recompute(r)
<1>1. \A f \in Figures : c[f] = R!CountOf(r, Members(f))
  BY DEF recompute
<1>2. \A f \in Figures : R!CountOf(r, Members(f)) \in Nat
  BY CountType
<1>3. c \in FigureRecords
  BY <1>2 DEF recompute, FigureRecords
<1>4. /\ c["Total"] = R!CountOf(r, Reasons) /\ c["Fail"] = R!CountOf(r, Failures)
      /\ c["Timeout"] = R!CountOf(r, {"timeout"}) /\ c["Refused"] = R!CountOf(r, {"refused"})
      /\ c["Reset"] = R!CountOf(r, {"reset"}) /\ c["Other"] = R!CountOf(r, {"dns", "other"})
  BY <1>1 DEF Figures, Members
<1>5. c["Total"] = R!Valid(r) /\ R!Valid(r) <= Size /\ c["Timeout"] <= R!Valid(r)
  BY <1>4, CountAll, CountType, TCPTargetsAssumption
<1>6. c["Fail"] = c["Timeout"] + c["Refused"] + c["Reset"] + c["Other"]
  <2>1. R!CountOf(r, {"reset"} \cup {"dns", "other"})
          = R!CountOf(r, {"reset"}) + R!CountOf(r, {"dns", "other"})
    BY CountUnion
  <2>2. R!CountOf(r, {"refused"} \cup ({"reset"} \cup {"dns", "other"}))
          = R!CountOf(r, {"refused"}) + R!CountOf(r, {"reset"} \cup {"dns", "other"})
    BY CountUnion
  <2>3. R!CountOf(r, {"timeout"} \cup ({"refused"} \cup ({"reset"} \cup {"dns", "other"})))
          = R!CountOf(r, {"timeout"})
            + R!CountOf(r, {"refused"} \cup ({"reset"} \cup {"dns", "other"}))
    BY CountUnion
  <2>4. Failures = {"timeout"} \cup ({"refused"} \cup ({"reset"} \cup {"dns", "other"}))
    BY FailuresAre
  <2>5. \A S : R!CountOf(r, S) \in Nat
    BY CountType
  <2> QED
    BY <1>4, <2>1, <2>2, <2>3, <2>4, <2>5
<1>7. c["Total"] <= Size /\ c["Timeout"] <= c["Total"]
  BY <1>5
<1> HIDE DEF c
<1>8. /\ c \in FigureRecords
      /\ c["Total"] = R!Valid(r) /\ c["Total"] <= Size
      /\ c["Timeout"] = R!CountOf(r, {"timeout"}) /\ c["Timeout"] <= c["Total"]
      /\ c["Fail"] = c["Timeout"] + c["Refused"] + c["Reset"] + c["Other"]
  BY <1>3, <1>4, <1>5, <1>6, <1>7
<1> QED
  BY <1>8 DEF c

-----------------------------------------------------------------------------
(***************************************************************************)
(* The invariant.  Between two rounds all the targets are added up, during *)
(* one those before the next: their number is what the loss of a single    *)
(* target is compared with.                                                *)
(***************************************************************************)
Added == IF next = 0 THEN Count ELSE next - 1

Types == /\ next \in 0 .. Count
         /\ ring \in [Targets -> R!Rings]
         /\ last \in [Targets -> Attempts \cup {Untried}]
         /\ sums \in FigureRecords

ShownIsRing == shown = [t \in Targets |-> recompute(ring[t])]

\* Both trackers of the first target have had the same attempts.
SameAttempts == primary = ring[1] /\ snapLast = last[1]

\* The sums know of each target that is added up.
SumsKnow == /\ sums["Total"] <= Size * Added
            /\ \A t \in 1 .. Added : shown[t]["Timeout"] <= sums["Timeout"]
            /\ (\A t \in 1 .. Added : shown[t]["Timeout"] = 0) => sums["Timeout"] = 0
            /\ FailuresAddUp

\* The checks of the round to come fit into the session.
ChecksLeft == /\ life \in [total : Nat, fail : Nat]
              /\ life.total + (Count - Added) <= SessionChecks

IInv == Types /\ ShownIsRing /\ SameAttempts /\ SumsKnow /\ ChecksLeft

\* The invariant holds of empty trackers.
LEMMA InitInv == Init => IInv
<1> SUFFICES ASSUME Init PROVE IInv
  OBVIOUS
<1> USE TCPTargetsAssumption DEF Init
<1>1. next = 0 /\ Added = Count /\ 1 \in Targets
  BY DEF Added, Targets
<1>2. R!NewRing \in R!Rings /\ R!Valid(R!NewRing) = 0
  BY NewRingType
<1>3. Untried \in Attempts \cup {Untried} /\ Nothing \in FigureRecords
  BY DEF FigureRecords, Nothing
<1>4. Types
  BY <1>2, <1>3 DEF Types
<1>5. \A S : R!CountOf(R!NewRing, S) = 0
  <2> TAKE S
  <2>1. R!CountOf(R!NewRing, S) \in Nat /\ R!CountOf(R!NewRing, S) <= 0
    BY <1>2, CountType
  <2> QED
    BY <2>1
<1>6. recompute(R!NewRing) = Nothing
  BY <1>5 DEF recompute, Nothing
<1>7. ShownIsRing
  BY <1>6 DEF ShownIsRing
<1>8. SameAttempts
  BY <1>1 DEF SameAttempts
<1>9. SumsKnow
  <2>1. \A f \in Figures : sums[f] = 0
    BY DEF Nothing
  <2>2. /\ sums["Total"] = 0 /\ sums["Fail"] = 0 /\ sums["Timeout"] = 0
        /\ sums["Refused"] = 0 /\ sums["Reset"] = 0 /\ sums["Other"] = 0
    BY <2>1 DEF Figures
  <2>3. \A t \in 1 .. Added : shown[t]["Timeout"] = 0
    BY <1>1 DEF Nothing, Figures, Targets
  <2>4. 0 <= Size * Added
    BY <1>1
  <2> QED
    BY <2>2, <2>3, <2>4 DEF SumsKnow, FailuresAddUp
<1>10. ChecksLeft
  BY <1>1 DEF ChecksLeft
<1> QED
  BY <1>4, <1>7, <1>8, <1>9, <1>10 DEF IInv

\* The start of a round sets the totals to zero and leaves the trackers alone.
LEMMA BeginStep == IInv /\ Begin => IInv'
<1> SUFFICES ASSUME IInv, Begin PROVE IInv'
  OBVIOUS
<1> USE TCPTargetsAssumption
<1>1. /\ next = 0 /\ next' = 1 /\ Added = Count /\ Added' = 0
      /\ sums' = Nothing /\ ring' = ring /\ primary' = primary /\ last' = last
      /\ snapLast' = snapLast /\ shown' = shown /\ life' = life
      /\ life.total + Count <= SessionChecks
  BY DEF Begin, Added
<1>2. sums' \in FigureRecords /\ \A f \in Figures : sums'[f] = 0
  BY <1>1 DEF Nothing, FigureRecords
<1>3. Types'
  BY <1>1, <1>2 DEF IInv, Types
<1>4. ShownIsRing' /\ SameAttempts'
  BY <1>1 DEF IInv, ShownIsRing, SameAttempts, recompute
<1>5. SumsKnow'
  <2>1. /\ sums'["Total"] = 0 /\ sums'["Fail"] = 0 /\ sums'["Timeout"] = 0
        /\ sums'["Refused"] = 0 /\ sums'["Reset"] = 0 /\ sums'["Other"] = 0
    BY <1>2 DEF Figures
  <2>2. 1 .. Added' = {} /\ Size * Added' = 0
    BY <1>1
  <2> QED
    BY <2>1, <2>2 DEF SumsKnow, FailuresAddUp
<1>6. ChecksLeft'
  BY <1>1 DEF IInv, ChecksLeft
<1> QED
  BY <1>3, <1>4, <1>5, <1>6 DEF IInv

\* A rotation resets the session tallies only.
LEMMA RotateStep == IInv /\ Rotate => IInv'
<1> SUFFICES ASSUME IInv, Rotate PROVE IInv'
  OBVIOUS
<1> USE TCPTargetsAssumption
<1>1. Added = Count /\ Added' = Added /\ life' = [total |-> 0, fail |-> 0]
      /\ UNCHANGED <<next, ring, primary, last, snapLast, shown, sums>>
  BY DEF Rotate, Added
<1>2. Types' /\ ShownIsRing' /\ SameAttempts' /\ SumsKnow'
  BY <1>1 DEF IInv, Types, ShownIsRing, SameAttempts, SumsKnow, FailuresAddUp, recompute
<1>3. ChecksLeft'
  BY <1>1 DEF ChecksLeft
<1> QED
  BY <1>2, <1>3 DEF IInv

\* What a check does to the figures of the targets.
LEMMA CheckFacts ==
  ASSUME IInv, NEW a \in Attempts, Check(a.reason, a.ms)
  PROVE  /\ next \in Targets /\ Added = next - 1 /\ Added' = next
         /\ next' \in 0 .. Count
         /\ a.reason \in Reasons
         /\ ring' \in [Targets -> R!Rings]
         /\ ring'[next] = R!Put(ring[next], a.reason)
         /\ \A t \in Targets : t # next => ring'[t] = ring[t]
         /\ shown' = [t \in Targets |-> recompute(ring'[t])]
         /\ sums' = Plus(sums, shown'[next])
<1> USE TCPTargetsAssumption
<1>1. next \in Targets /\ Added = next - 1
  BY DEF IInv, Types, Check, Added, Targets
<1>2. next' = IF next = Count THEN 0 ELSE next + 1
  BY DEF Check
<1>3. Added' = next /\ next' \in 0 .. Count
  BY <1>1, <1>2 DEF Added, Targets
<1>4. a.reason \in Reasons
  BY DEF Attempts, Reasons
<1>5. ring' = [ring EXCEPT ![next] = R!Put(@, a.reason)] /\ ring \in [Targets -> R!Rings]
  BY DEF Check, IInv, Types
<1>6. R!Put(ring[next], a.reason) \in R!Rings
  BY <1>1, <1>4, <1>5, PutType
<1>7. /\ ring' \in [Targets -> R!Rings]
      /\ ring'[next] = R!Put(ring[next], a.reason)
      /\ \A t \in Targets : t # next => ring'[t] = ring[t]
  BY <1>1, <1>5, <1>6
<1>8. shown' = [shown EXCEPT ![next] = recompute(ring'[next])]
      /\ shown = [t \in Targets |-> recompute(ring[t])] /\ sums' = Plus(sums, shown'[next])
  BY DEF Check, IInv, ShownIsRing
<1>9. shown' = [t \in Targets |-> recompute(ring'[t])]
  BY <1>1, <1>7, <1>8
<1> QED
  BY <1>1, <1>3, <1>4, <1>7, <1>8, <1>9

\* A check of the next target keeps the invariant.
LEMMA CheckStep ==
  ASSUME IInv, NEW a \in Attempts, Check(a.reason, a.ms)
  PROVE  IInv'
<1> DEFINE t == next
           c == recompute(ring'[t])
<1> USE TCPTargetsAssumption
<1>1. /\ t \in Targets /\ Added = t - 1 /\ Added' = t /\ next' \in 0 .. Count
      /\ a.reason \in Reasons
      /\ ring' \in [Targets -> R!Rings]
      /\ ring'[t] = R!Put(ring[t], a.reason)
      /\ \A i \in Targets : i # t => ring'[i] = ring[i]
      /\ shown' = [i \in Targets |-> recompute(ring'[i])]
      /\ sums' = Plus(sums, shown'[t])
  BY CheckFacts
<1>2. t \in Nat \ {0} /\ t \in 1 .. Count
  BY <1>1 DEF Targets
<1>3. sums \in FigureRecords /\ shown = [i \in Targets |-> recompute(ring[i])]
  BY DEF IInv, Types, ShownIsRing
<1>4. /\ c \in FigureRecords /\ c["Total"] <= Size /\ c["Timeout"] <= c["Total"]
      /\ c["Fail"] = c["Timeout"] + c["Refused"] + c["Reset"] + c["Other"]
  <2>1. ring'[t] \in R!Rings
    BY <1>1
  <2> QED
    BY <2>1, Recomputed
<1>5. shown'[t] = c /\ \A i \in Targets : i # t => shown'[i] = shown[i]
  BY <1>1, <1>3
<1>6. sums' = [f \in Figures |-> sums[f] + c[f]]
  BY <1>1, <1>5 DEF Plus
<1> HIDE DEF c, t
<1>7. sums' \in FigureRecords
  BY <1>3, <1>4, <1>6 DEF FigureRecords
<1>8. Types'
  <2>1. last' \in [Targets -> Attempts \cup {Untried}]
    <3>1. last' = [last EXCEPT ![t] = [reason |-> a.reason, ms |-> a.ms]]
      BY DEF Check, t
    <3>2. [reason |-> a.reason, ms |-> a.ms] \in Attempts
      BY DEF Attempts
    <3> QED
      BY <3>1, <3>2 DEF IInv, Types
  <2> QED
    BY <1>1, <1>7, <2>1 DEF Types
<1>9. ShownIsRing'
  BY <1>1 DEF ShownIsRing, recompute
<1>10. SameAttempts'
  <2> DEFINE attempt == [reason |-> a.reason, ms |-> a.ms]
  <2>1. primary = ring[1] /\ snapLast = last[1] /\ last \in [Targets -> Attempts \cup {Untried}]
        /\ 1 \in Targets
    BY DEF IInv, Types, SameAttempts, Targets
  <2>2. /\ primary' = (IF t = 1 THEN R!Put(primary, a.reason) ELSE primary)
        /\ last' = [last EXCEPT ![t] = attempt]
        /\ snapLast' = (IF t = 1 THEN attempt ELSE snapLast)
    BY DEF Check, t
  <2> HIDE DEF attempt
  <2>3. CASE t = 1
    BY <1>1, <2>1, <2>2, <2>3 DEF SameAttempts
  <2>4. CASE t # 1
    BY <1>1, <2>1, <2>2, <2>4 DEF SameAttempts
  <2> QED
    BY <2>3, <2>4
<1>11. SumsKnow'
  <2> DEFINE T == sums["Total"]  T2 == sums'["Total"]
             L == sums["Timeout"]  L2 == sums'["Timeout"]
  <2>1. \A f \in Figures : sums[f] \in Nat /\ c[f] \in Nat /\ sums'[f] = sums[f] + c[f]
    BY <1>3, <1>4, <1>6 DEF FigureRecords
  <2>2. /\ T \in Nat /\ c["Total"] \in Nat /\ T2 = T + c["Total"]
        /\ L \in Nat /\ c["Timeout"] \in Nat /\ L2 = L + c["Timeout"]
    BY <2>1 DEF Figures
  <2>3. /\ T <= Size * (t - 1)
        /\ \A i \in 1 .. t - 1 : shown[i]["Timeout"] <= L
        /\ (\A i \in 1 .. t - 1 : shown[i]["Timeout"] = 0) => L = 0
    BY <1>1 DEF IInv, SumsKnow
  <2>4. \A i \in 1 .. t - 1 : shown'[i] = shown[i] /\ shown[i]["Timeout"] \in Nat
    <3> TAKE i \in 1 .. t - 1
    <3>1. i \in Targets /\ i # t
      BY <1>2 DEF Targets
    <3>2. ring[i] \in R!Rings /\ shown[i] = recompute(ring[i])
      BY <1>3, <3>1 DEF IInv, Types
    <3>3. shown[i] \in FigureRecords
      BY <3>2, Recomputed
    <3> QED
      BY <1>5, <3>1, <3>3 DEF FigureRecords, Figures
  <2>5. T2 <= Size * t
    <3> HIDE DEF T, T2
    <3>1. Size * t = Size * (t - 1) + Size /\ Size * t \in Nat /\ Size * (t - 1) \in Nat
      BY <1>2
    <3> QED
      BY <1>4, <2>2, <2>3, <3>1
  <2>6. \A i \in 1 .. t : shown'[i]["Timeout"] <= L2
    <3> TAKE i \in 1 .. t
    <3> HIDE DEF L, L2
    <3>1. CASE i = t
      BY <1>5, <2>2, <3>1
    <3>2. CASE i # t
      <4>1. i \in 1 .. t - 1
        BY <1>2, <3>2
      <4> QED
        BY <2>2, <2>3, <2>4, <4>1
    <3> QED
      BY <3>1, <3>2
  <2>7. (\A i \in 1 .. t : shown'[i]["Timeout"] = 0) => L2 = 0
    <3> SUFFICES ASSUME \A i \in 1 .. t : shown'[i]["Timeout"] = 0 PROVE L2 = 0
      OBVIOUS
    <3> HIDE DEF L, L2
    <3>1. c["Timeout"] = 0
      BY <1>2, <1>5
    <3>2. \A i \in 1 .. t - 1 : shown[i]["Timeout"] = 0
      BY <1>2, <2>4
    <3> QED
      BY <2>2, <2>3, <3>1, <3>2
  <2>8. sums'["Fail"] = sums'["Timeout"] + sums'["Refused"] + sums'["Reset"] + sums'["Other"]
    <3>1. sums["Fail"] = sums["Timeout"] + sums["Refused"] + sums["Reset"] + sums["Other"]
      BY DEF IInv, SumsKnow, FailuresAddUp
    <3>2. /\ "Fail" \in Figures /\ "Timeout" \in Figures /\ "Refused" \in Figures
          /\ "Reset" \in Figures /\ "Other" \in Figures
      BY DEF Figures
    <3> QED
      BY <1>4, <2>1, <3>1, <3>2
  <2> QED
    BY <1>1, <2>5, <2>6, <2>7, <2>8 DEF SumsKnow, FailuresAddUp
<1>12. ChecksLeft'
  <2> DEFINE n == life.total  k == IF a.reason = "none" THEN 0 ELSE 1
  <2>1. life' = [total |-> n + 1, fail |-> life.fail + k]
    BY DEF Check
  <2>2. n \in Nat /\ life.fail \in Nat /\ k \in Nat /\ n + (Count - (t - 1)) <= SessionChecks
    BY <1>1 DEF IInv, ChecksLeft
  <2> HIDE DEF n, k
  <2>3. life'.total = n + 1 /\ life' \in [total : Nat, fail : Nat]
    BY <2>1, <2>2
  <2>4. n + 1 + (Count - t) <= SessionChecks
    BY <1>2, <2>2
  <2> QED
    BY <1>1, <2>3, <2>4 DEF ChecksLeft
<1> QED
  BY <1>8, <1>9, <1>10, <1>11, <1>12 DEF IInv

\* Every step keeps the invariant.
LEMMA Invariance == IInv /\ [Next]_vars => IInv'
<1> SUFFICES ASSUME IInv, [Next]_vars PROVE IInv'
  OBVIOUS
<1>1. CASE UNCHANGED vars
  BY <1>1 DEF vars, IInv, Types, ShownIsRing, SameAttempts, SumsKnow, FailuresAddUp, ChecksLeft, Added,
              recompute
<1> QED
  BY <1>1, BeginStep, RotateStep, CheckStep DEF Next

\* The invariant holds in every behaviour.
LEMMA SpecInv == Spec => []IInv
  BY InitInv, Invariance, PTL DEF Spec

-----------------------------------------------------------------------------
(* What `nstat status` makes of it. *)

\* The score of a target's last attempt, and that of the loss of all targets.
RowScore(t) == ScoreOf(last[t].ms, last[t].reason = "none", 150, 150)
SumScore == LossScore(sums["Timeout"], sums["Total"])

\* A score is one of three.
LEMMA ScoreType ==
  /\ \A v, ok, warn, crit : ScoreOf(v, ok, warn, crit) \in {Good, Warn, Crit}
  /\ \A l, t : LossScore(l, t) \in {Good, Warn, Crit}
  BY DEF ScoreOf, LossScore

\* Any set of scores has a worst one.
LEMMA MaxOfScores ==
  ASSUME NEW S, S # {}, \A x \in S : x \in {Good, Warn, Crit}
  PROVE  Max(S) \in S /\ \A y \in S : y <= Max(S)
<1>1. \E x \in S : \A y \in S : x >= y
  <2>1. CASE Crit \in S
    BY <2>1 DEF Good, Warn, Crit
  <2>2. CASE Crit \notin S /\ Warn \in S
    BY <2>2 DEF Good, Warn, Crit
  <2>3. CASE Crit \notin S /\ Warn \notin S
    BY <2>3 DEF Good, Warn, Crit
  <2> QED
    BY <2>1, <2>2, <2>3
<1>2. Max(S) \in S /\ \A y \in S : Max(S) >= y
  BY <1>1 DEF Max
<1> QED
  BY <1>2 DEF Good, Warn, Crit

\* All is well but for TCP.
LEMMA SeenFields ==
  /\ Seen.RTTAvg = 20 /\ Seen.RTTJitter = 2 /\ Seen.LossWinLost = 0 /\ Seen.LossWinTotal = 0
  /\ Seen.TCPTargets = [t \in Targets |-> [LastMs |-> last[t].ms,
                                           LastOK |-> last[t].reason = "none"]]
  /\ Seen.TCPLastMs = snapLast.ms /\ Seen.TCPLastOK = (snapLast.reason = "none")
  /\ Seen.TCPTotal = sums["Total"] /\ Seen.TCPTimeoutCount = sums["Timeout"]
  /\ Seen.MTUDetected = 1500
  /\ Seen.DNSLastMs = 20 /\ Seen.DNSLastOK = TRUE
  /\ Seen.GatewayLastMs = 2 /\ Seen.GatewayLastOK = TRUE /\ Seen.DHCPLease = Good
  /\ Seen.KernelDeltaOutSegs = 0 /\ Seen.KernelRetransPct = 0 /\ Seen.KernelCurrEstab = 0
  BY DEF Seen, Healthy

\* So the only scores that may not be GOOD are those of TCP.
LEMMA SeenScores ==
  /\ ScoreOf(Seen.RTTAvg, TRUE, 80, 200) = Good /\ ScoreOf(Seen.RTTJitter, TRUE, 10, 30) = Good
  /\ LossScore(Seen.LossWinLost, Seen.LossWinTotal) = Good
  /\ ScoreOf(Seen.DNSLastMs, Seen.DNSLastOK, 100, 500) = Good
  /\ ScoreOf(Seen.GatewayLastMs, Seen.GatewayLastOK, 10, 50) = Good
  /\ Seen.DHCPLease = Good
  /\ ScoreOf(0, TRUE, 1, 3) = Good
  /\ LossScore(Seen.TCPTimeoutCount, Seen.TCPTotal) = SumScore
<1>1. /\ Seen.RTTAvg = 20 /\ Seen.RTTJitter = 2 /\ Seen.LossWinLost = 0 /\ Seen.LossWinTotal = 0
      /\ Seen.DNSLastMs = 20 /\ Seen.DNSLastOK = TRUE
      /\ Seen.GatewayLastMs = 2 /\ Seen.GatewayLastOK = TRUE /\ Seen.DHCPLease = Good
      /\ Seen.TCPTotal = sums["Total"] /\ Seen.TCPTimeoutCount = sums["Timeout"]
  BY SeenFields
<1>2. /\ ScoreOf(Seen.RTTAvg, TRUE, 80, 200) = Good /\ ScoreOf(Seen.RTTJitter, TRUE, 10, 30) = Good
      /\ ScoreOf(Seen.DNSLastMs, Seen.DNSLastOK, 100, 500) = Good
      /\ ScoreOf(Seen.GatewayLastMs, Seen.GatewayLastOK, 10, 50) = Good
      /\ ScoreOf(0, TRUE, 1, 3) = Good
  BY <1>1 DEF ScoreOf
<1>3. LossScore(Seen.LossWinLost, Seen.LossWinTotal) = Good
  <2>1. Seen.LossWinTotal < MinSamples
    BY <1>1, StatusViewAssumption
  <2> QED
    BY <2>1 DEF LossScore
<1> QED
  BY <1>1, <1>2, <1>3 DEF SumScore

\* The overall score is the worst of the first target's and the loss of all.
LEMMA OverallIs ==
  ASSUME SameAttempts
  PROVE  overallScore(Seen, 0) = Max({Good, RowScore(1), SumScore})
<1>1. ScoreOf(Seen.TCPLastMs, Seen.TCPLastOK, 150, 150) = RowScore(1)
  BY SeenFields DEF SameAttempts, RowScore
<1>2. overallScore(Seen, 0) = Max({Good, Good, Good, RowScore(1), SumScore, Good, Good, Good, Good})
  BY <1>1, SeenScores DEF overallScore
<1>3. {Good, Good, Good, RowScore(1), SumScore, Good, Good, Good, Good}
        = {Good, RowScore(1), SumScore}
  OBVIOUS
<1> QED
  BY <1>2, <1>3

-----------------------------------------------------------------------------
(* The theorems. *)

\* The state stays of its type for any number of targets, window and session.
THEOREM TypeCorrect == Spec => []TypeOK
<1>1. IInv => TypeOK
  <2> SUFFICES ASSUME IInv PROVE TypeOK
    OBVIOUS
  <2> USE TCPTargetsAssumption DEF IInv
  <2>1. next \in 0 .. Count /\ ring \in [Targets -> R!Rings] /\ sums \in FigureRecords
        /\ last \in [Targets -> Attempts \cup {Untried}]
    BY DEF Types
  <2>2. 1 \in Targets
    BY DEF Targets
  <2>3. primary \in R!Rings /\ snapLast \in Attempts \cup {Untried}
    BY <2>1, <2>2 DEF SameAttempts
  <2>4. \A t \in Targets : recompute(ring[t]) \in FigureRecords
                           /\ recompute(ring[t])["Total"] <= Size
    BY <2>1, Recomputed
  <2>5. shown \in [Targets -> FigureRecords] /\ \A t \in Targets : shown[t]["Total"] <= Size
    BY <2>4 DEF ShownIsRing
  <2>6. life \in [total : 0 .. SessionChecks, fail : Nat]
    <3>1. life \in [total : Nat, fail : Nat] /\ life.total + (Count - Added) <= SessionChecks
      BY DEF ChecksLeft
    <3>2. Added \in 0 .. Count
      BY <2>1 DEF Added
    <3>3. life.total \in 0 .. SessionChecks
      BY <3>1, <3>2
    <3> QED
      BY <3>1, <3>3
  <2> QED
    BY <2>1, <2>3, <2>5, <2>6 DEF TypeOK
<1> QED
  BY <1>1, SpecInv, PTL

\* The two trackers of the first target, the one behind the dimensions and the one behind
\* the table, are never apart: each attempt reaches both (daemon.go:300-316).
THEOREM FirstTargetOnce == Spec => []TrackersAgree
<1>1. IInv => TrackersAgree
  BY DEF IInv, SameAttempts, TrackersAgree
<1> QED
  BY <1>1, SpecInv, PTL

\* Every failure of the snapshot has its reason, during a round too: "dns" and whatever
\* else there is are in TCPOtherCount (daemon.go:335-342, tcp.go:80-103).
THEOREM EveryFailureHasAReason == Spec => []FailuresAddUp
<1>1. IInv => FailuresAddUp
  BY DEF IInv, SumsKnow
<1> QED
  BY <1>1, SpecInv, PTL

\* The snapshot's totals are those of the targets added up so far, figure by figure: after
\* the last one of all of them.
SumsAreOf(v, s, n) == \A f \in Figures : s[f] = SumOver([t \in Targets |-> v[t][f]], 1 .. n)

SumsOfRound == SumsAreOf(shown, sums, Added)

\* A sum over the targets' records, as the property states it.
FigureSum(v, f, S) == MapThenSumSet(LAMBDA t : v[t][f], S)

\* A sum as the property states it is one of the lemmas on sums.
LEMMA SumOfFigure ==
  ASSUME NEW v, NEW f, NEW S, IsFiniteSet(S), \A t \in S : v[t][f] \in Int
  PROVE  FigureSum(v, f, S) = SumOver([t \in S |-> v[t][f]], S)
<1> DEFINE w == [t \in S |-> v[t][f]]
           Solves(h) == h = [s \in SUBSET S |->
                               IF s = {} THEN 0
                               ELSE v[CHOOSE x \in s : TRUE][f] + h[s \ {CHOOSE x \in s : TRUE}]]
<1>1. FigureSum(v, f, S) = (CHOOSE h : Solves(h))[S]
  BY DEF FigureSum, MapThenSumSet, MapThenFoldSet
<1>2. \A s \in SUBSET S : s # {} => w[CHOOSE x \in s : TRUE] = v[CHOOSE x \in s : TRUE][f]
  OBVIOUS
<1>3. \A h : Solves(h) <=> IsSum(h, w, S)
  <2> SUFFICES ASSUME NEW h PROVE Solves(h) <=> IsSum(h, w, S)
    OBVIOUS
  <2>1. [s \in SUBSET S |->
           IF s = {} THEN 0
           ELSE v[CHOOSE x \in s : TRUE][f] + h[s \ {CHOOSE x \in s : TRUE}]]
        = [s \in SUBSET S |->
             IF s = {} THEN 0
             ELSE w[CHOOSE x \in s : TRUE] + h[s \ {CHOOSE x \in s : TRUE}]]
    <3> HIDE DEF w
    <3> QED
      BY <1>2
  <2> HIDE DEF w
  <2> QED
    BY <2>1 DEF IsSum
<1>4. \A x \in S : w[x] \in Int
  OBVIOUS
<1> HIDE DEF w, Solves
<1>5. \E h : Solves(h)
  BY <1>3, <1>4, SumExists
<1>6. Solves(CHOOSE h : Solves(h))
  BY <1>5
<1>7. SumOver(w, S) = (CHOOSE h : Solves(h))[S]
  BY <1>3, <1>4, <1>6, SumIs
<1> QED
  BY <1>1, <1>7 DEF w

\* One more target is added up.
LEMMA SumsGrow ==
  ASSUME NEW n \in Targets, NEW v \in [Targets -> FigureRecords],
         NEW u \in [Targets -> FigureRecords], \A t \in Targets : t # n => u[t] = v[t],
         NEW s \in FigureRecords, SumsAreOf(v, s, n - 1)
  PROVE  SumsAreOf(u, Plus(s, u[n]), n)
<1> SUFFICES ASSUME NEW f \in Figures
             PROVE  Plus(s, u[n])[f] = SumOver([t \in Targets |-> u[t][f]], 1 .. n)
  BY DEF SumsAreOf
<1> DEFINE w == [t \in Targets |-> v[t][f]]
           x == [t \in Targets |-> u[t][f]]
<1>1. Count \in Nat /\ n \in 1 .. Count /\ Targets = 1 .. Count
  BY TCPTargetsAssumption DEF Targets
<1>2. \A t \in 1 .. Count : w[t] \in Int /\ x[t] \in Int /\ (t # n => x[t] = w[t])
  BY <1>1 DEF FigureRecords
<1>3. x[n] = u[n][f] /\ s[f] = SumOver(w, 1 .. n - 1) /\ Plus(s, u[n])[f] = s[f] + u[n][f]
  BY DEF SumsAreOf, Plus
<1> HIDE DEF w, x
<1>4. SumOver(x, 1 .. n) = SumOver(x, 1 .. n - 1) + x[n]
  BY <1>1, <1>2, SumUpto
<1>5. SumOver(x, 1 .. n - 1) = SumOver(w, 1 .. n - 1)
  <2>1. IsFiniteSet(1 .. n - 1)
    BY <1>1, FS_Interval
  <2>2. \A t \in 1 .. n - 1 : w[t] \in Int /\ x[t] = w[t]
    BY <1>1, <1>2
  <2> QED
    BY <2>1, <2>2, SumSame
<1>6. Plus(s, u[n])[f] = SumOver(x, 1 .. n)
  BY <1>3, <1>4, <1>5
<1> QED
  BY <1>6 DEF x

\* What `nstat status` reads between two rounds is the sum of the targets it lists, and
\* the breakdown accounts for every failure (daemon.go:281-286, 317-343): the totals are
\* added up anew on each round, and no target is left out or counted twice.
THEOREM TotalsAreOfTheTargets == Spec => []TotalsAddUp
<1> USE TCPTargetsAssumption
<1>1. Init => SumsOfRound
  <2> SUFFICES ASSUME Init, NEW f \in Figures
               PROVE  sums[f] = SumOver([t \in Targets |-> shown[t][f]], 1 .. Added)
    BY DEF SumsOfRound, SumsAreOf
  <2> DEFINE w == [t \in Targets |-> shown[t][f]]
  <2>1. Added = Count /\ Count \in Nat /\ sums[f] = 0 /\ \A t \in 1 .. Count : w[t] = 0
    BY DEF Init, Added, Nothing, Targets
  <2> HIDE DEF w
  <2>2. SumOver(w, 1 .. Count) = 0
    BY <2>1, SumZero
  <2> QED
    BY <2>1, <2>2 DEF w
<1>2. IInv /\ IInv' /\ SumsOfRound /\ [Next]_vars => SumsOfRound'
  <2> SUFFICES ASSUME IInv, IInv', SumsOfRound, [Next]_vars
               PROVE  SumsOfRound'
    OBVIOUS
  <2>1. CASE Begin
    <3> SUFFICES ASSUME NEW f \in Figures
                 PROVE  sums'[f] = SumOver([t \in Targets |-> shown'[t][f]], 1 .. Added')
      BY DEF SumsOfRound, SumsAreOf
    <3>1. Added' = 0 /\ sums'[f] = 0 /\ 1 .. 0 = {}
      BY <2>1 DEF Begin, Added, Nothing
    <3> QED
      BY <3>1, SumEmpty
  <2>2. ASSUME NEW a \in Attempts, Check(a.reason, a.ms)
        PROVE  SumsOfRound'
    <3>1. /\ next \in Targets /\ Added = next - 1 /\ Added' = next
          /\ \A t \in Targets : t # next => ring'[t] = ring[t]
          /\ shown' = [t \in Targets |-> recompute(ring'[t])]
          /\ sums' = Plus(sums, shown'[next])
      BY <2>2, CheckFacts
    <3>2. /\ ring \in [Targets -> R!Rings] /\ ring' \in [Targets -> R!Rings]
          /\ shown = [t \in Targets |-> recompute(ring[t])] /\ sums \in FigureRecords
      BY DEF IInv, Types, ShownIsRing
    <3>3. shown \in [Targets -> FigureRecords] /\ shown' \in [Targets -> FigureRecords]
      <4>1. \A r \in R!Rings : recompute(r) \in FigureRecords
        BY Recomputed
      <4> QED
        BY <3>1, <3>2, <4>1
    <3>4. \A t \in Targets : t # next => shown'[t] = shown[t]
      BY <3>1, <3>2
    <3>5. SumsAreOf(shown, sums, next - 1)
      BY <3>1 DEF SumsOfRound
    <3>6. SumsAreOf(shown', Plus(sums, shown'[next]), next)
      BY <3>1, <3>2, <3>3, <3>4, <3>5, SumsGrow
    <3>7. SumsAreOf(shown', sums', Added')
      BY <3>1, <3>6
    <3> QED
      BY <3>7 DEF SumsOfRound, SumsAreOf
  <2>3. CASE Rotate \/ UNCHANGED vars
    <3>1. shown' = shown /\ sums' = sums /\ next' = next
      BY <2>3 DEF Rotate, vars
    <3> QED
      BY <3>1 DEF SumsOfRound, SumsAreOf, Added
  <2> QED
    BY <2>1, <2>2, <2>3 DEF Next
<1>3. IInv /\ SumsOfRound => TotalsAddUp
  <2> SUFFICES ASSUME IInv, SumsOfRound, next = 0
               PROVE  /\ \A f \in Figures : sums[f] = MapThenSumSet(LAMBDA t : shown[t][f], Targets)
                      /\ FailuresAddUp
    BY DEF TotalsAddUp
  <2>1. FailuresAddUp
    BY DEF IInv, SumsKnow
  <2>2. ASSUME NEW f \in Figures
        PROVE  sums[f] = MapThenSumSet(LAMBDA t : shown[t][f], Targets)
    <3>1. Added = Count /\ Targets = 1 .. Count /\ IsFiniteSet(Targets)
      BY FS_Interval DEF Added, Targets
    <3>2. \A t \in Targets : shown[t][f] \in Int
      <4>1. \A t \in Targets : shown[t] \in FigureRecords
        BY Recomputed DEF IInv, Types, ShownIsRing
      <4> QED
        BY <4>1 DEF FigureRecords
    <3>3. FigureSum(shown, f, Targets) = SumOver([t \in Targets |-> shown[t][f]], Targets)
      BY <3>1, <3>2, SumOfFigure
    <3>4. sums[f] = FigureSum(shown, f, Targets)
      BY <3>1, <3>3 DEF SumsOfRound, SumsAreOf
    <3>5. FigureSum(shown, f, Targets) = MapThenSumSet(LAMBDA t : shown[t][f], Targets)
      BY DEF FigureSum, MapThenSumSet, MapThenFoldSet
    <3>6. sums[f] = MapThenSumSet(LAMBDA t : shown[t][f], Targets)
      BY <3>4, <3>5, Zenon
    <3> QED
      BY <3>6, Zenon
  <2> QED
    BY <2>1, <2>2
<1>4. Spec => []SumsOfRound
  BY <1>1, <1>2, SpecInv, PTL DEF Spec
<1> QED
  BY <1>3, <1>4, SpecInv, PTL

\* The window of each target implements the sliding window, for any number of targets:
\* a check of one target shifts that target's window and leaves the others alone.
THEOREM LossIsRecent == Spec => LossIsRecentTimeouts
<1>1. Init => \A t \in Targets : Window(t)!Init
  <2> SUFFICES ASSUME Init, NEW t \in Targets PROVE Window(t)!Init
    OBVIOUS
  <2>1. ring[t] = R!NewRing /\ R!NewRing \in R!Rings /\ R!Valid(R!NewRing) = 0
    BY NewRingType DEF Init
  <2>2. Recent(t) = Contents(R!NewRing)
    BY <2>1, RecentIs DEF Recent, Read
  <2>3. Contents(R!NewRing) \in Seq(Reasons) /\ Len(Contents(R!NewRing)) = 0
    BY <2>1, ContentsType
  <2>4. shown[t]["Total"] = 0 /\ shown[t]["Timeout"] = 0
    BY DEF Init, Nothing, Figures
  <2> QED
    BY <2>2, <2>3, <2>4 DEF Window!Init
<1>2. IInv /\ [Next]_vars
        => [\A t \in Targets : IF next = t THEN \E o \in Reasons : Window(t)!Record(o)
                               ELSE UNCHANGED <<Recent(t), shown[t]>>]_vars
  <2> SUFFICES ASSUME IInv, Next, NEW t \in Targets
               PROVE  IF next = t THEN \E o \in Reasons : Window(t)!Record(o)
                      ELSE UNCHANGED <<Recent(t), shown[t]>>
    OBVIOUS
  <2>1. CASE Begin \/ Rotate
    <3>1. next = 0 /\ UNCHANGED <<ring, shown>>
      BY <2>1 DEF Begin, Rotate
    <3>2. next # t
      BY <3>1 DEF Targets
    <3> QED
      BY <3>1, <3>2 DEF Recent
  <2>2. ASSUME NEW a \in Attempts, Check(a.reason, a.ms)
        PROVE  IF next = t THEN \E o \in Reasons : Window(t)!Record(o)
               ELSE UNCHANGED <<Recent(t), shown[t]>>
    <3>1. /\ a.reason \in Reasons
          /\ ring' \in [Targets -> R!Rings]
          /\ ring'[next] = R!Put(ring[next], a.reason)
          /\ t # next => ring'[t] = ring[t]
          /\ shown' = [i \in Targets |-> recompute(ring'[i])]
      BY <2>2, CheckFacts
    <3>2. ring[t] \in R!Rings /\ shown[t] = recompute(ring[t])
      BY DEF IInv, Types, ShownIsRing
    <3>3. CASE next = t
      <4> DEFINE r == ring[t]  q == ring'[t]
      <4>1. q = R!Put(r, a.reason) /\ q \in R!Rings /\ shown'[t] = recompute(q)
        BY <3>1, <3>3
      <4>2. Recent(t) = Contents(r)
        BY <3>2, RecentIs DEF Recent, Read
      <4>3. Recent(t)' = Contents(q)
        <5>1. Read(q) = Contents(q)
          BY <4>1, RecentIs
        <5> QED
          BY <5>1 DEF Recent, Read
      <4>4. Contents(q) = Window(t)!Slide(Contents(r), a.reason)
        BY <3>1, <3>2, <4>1, PutSlides
      <4>5. shown'[t]["Total"] = Len(Contents(q))
        BY <4>1, ContentsType, Recomputed
      <4>6. shown'[t]["Timeout"] = Window(t)!LostIn(Contents(q))
        BY <4>1, SameCount, Recomputed
      <4>7. Window(t)!Record(a.reason)
        BY <4>2, <4>3, <4>4, <4>5, <4>6 DEF Window!Record
      <4> QED
        BY <3>1, <3>3, <4>7
    <3>4. CASE next # t
      BY <3>1, <3>2, <3>4 DEF Recent
    <3> QED
      BY <3>3, <3>4
  <2> QED
    BY <2>1, <2>2 DEF Next
<1> QED
  BY <1>1, <1>2, SpecInv, PTL DEF Spec, LossIsRecentTimeouts

\* A window of timeouts only counts them all, one without any counts none.
LEMMA TimeoutsOf ==
  ASSUME NEW t \in Targets, NEW r \in R!Rings
  PROVE  LET w == Contents(r)
             outcomes == {w[k] : k \in DOMAIN w}
             n == recompute(r)["Timeout"]
         IN  /\ outcomes = {"timeout"} /\ Len(w) = Size => n = Size
             /\ "timeout" \notin outcomes => n = 0
<1> DEFINE w == Contents(r)
           outcomes == {w[k] : k \in DOMAIN w}
           n == recompute(r)["Timeout"]
           A == {k \in 1 .. Len(w) : w[k] = "timeout"}
<1>1. w \in Seq(Reasons) /\ DOMAIN w = 1 .. Len(w) /\ Len(w) \in Nat
  BY ContentsType
<1>2. n = Cardinality(A)
  <2>1. n = R!CountOf(r, {"timeout"})
    BY Recomputed
  <2>2. R!CountOf(r, {"timeout"}) = Window(t)!LostIn(w)
    BY SameCount
  <2> QED
    BY <2>1, <2>2, CountDefs
<1> HIDE DEF w, n
<1>3. ASSUME outcomes = {"timeout"}, Len(w) = Size
      PROVE  n = Size
  <2>1. A = 1 .. Size
    BY <1>1, <1>3
  <2>2. Cardinality(1 .. Size) = Size
    BY TCPTargetsAssumption, FS_Interval
  <2> QED
    BY <1>2, <2>1, <2>2
<1>4. ASSUME "timeout" \notin outcomes
      PROVE  n = 0
  <2>1. A = {}
    BY <1>1, <1>4
  <2> QED
    BY <1>2, <2>1, FS_EmptySet
<1> QED
  BY <1>3, <1>4 DEF w, n

\* For any window and up to a hundred targets: once the window of one of them is full of
\* timeouts the overall score is not GOOD, however well the others answer, and as long as
\* each is reached, if only to refuse or reset, it is that of the first target's last
\* handshake (tcp.go:55-58).
THEOREM TimeoutsCount ==
  ASSUME Count <= 100
  PROVE  Spec => []TimeoutsReachOverall
<1> USE TCPTargetsAssumption
<1>1. ASSUME IInv, next = 0
      PROVE  LET overall == overallScore(Seen, 0)
             IN  /\ \A t \in Targets :
                      Outcomes(t) = {"timeout"} /\ Len(Recent(t)) = Size
                      /\ sums["Total"] >= MinSamples
                        => overall # Good
                 /\ (\A t \in Targets : Outcomes(t) \subseteq {"none", "refused", "reset"})
                      => overall = ScoreOf(last[1].ms, last[1].reason = "none", 150, 150)
  <2> DEFINE overall == overallScore(Seen, 0)
             total == sums["Total"]
             lost == sums["Timeout"]
  <2>1. overall = Max({Good, RowScore(1), SumScore})
    BY <1>1, OverallIs DEF IInv
  <2>2. /\ RowScore(1) \in {Good, Warn, Crit} /\ SumScore \in {Good, Warn, Crit}
        /\ \A x \in {Good, RowScore(1), SumScore} : x \in {Good, Warn, Crit}
    BY ScoreType DEF RowScore, SumScore
  <2>3. overall \in {Good, RowScore(1), SumScore} /\ SumScore <= overall /\ RowScore(1) <= overall
    BY <2>1, <2>2, MaxOfScores
  <2>4. Added = Count /\ 1 .. Added = Targets
    BY <1>1 DEF Added, Targets
  <2>5. /\ total \in Nat /\ lost \in Nat /\ total <= Size * Count
        /\ \A t \in Targets : shown[t]["Timeout"] <= lost
        /\ (\A t \in Targets : shown[t]["Timeout"] = 0) => lost = 0
    BY <1>1, <2>4 DEF IInv, Types, SumsKnow, FigureRecords, Figures
  <2>6. \A t \in Targets : /\ ring[t] \in R!Rings /\ shown[t] = recompute(ring[t])
                           /\ Recent(t) = Contents(ring[t])
    BY <1>1, RecentIs DEF IInv, Types, ShownIsRing, Recent, Read
  <2>7. \A t \in Targets :
          /\ Outcomes(t) = {"timeout"} /\ Len(Recent(t)) = Size => shown[t]["Timeout"] = Size
          /\ "timeout" \notin Outcomes(t) => shown[t]["Timeout"] = 0
    BY <2>6, TimeoutsOf DEF Outcomes
  <2> HIDE DEF overall, total, lost
  <2>8. ASSUME NEW t \in Targets, Outcomes(t) = {"timeout"}, Len(Recent(t)) = Size,
               total >= MinSamples
        PROVE  overall # Good
    <3>1. lost >= Size
      BY <2>5, <2>7, <2>8
    <3>2. Size * Count <= 100 * Size
      <4>1. Size * Count <= Size * 100
        BY Z3
      <4> QED
        BY <4>1
    <3>3. 100 * lost >= total
      <4>1. Size * Count \in Nat
        OBVIOUS
      <4> QED
        BY <2>5, <3>1, <3>2, <4>1
    <3>4. LossScore(lost, total) # Good
      BY <2>5, <2>8, <3>3, StatusViewAssumption DEF LossScore, ScoreOf, Good, Warn, Crit
    <3>5. SumScore # Good
      BY <3>4 DEF SumScore, total, lost
    <3> QED
      BY <2>2, <2>3, <3>5 DEF Good, Warn, Crit
  <2>9. ASSUME \A t \in Targets : Outcomes(t) \subseteq {"none", "refused", "reset"}
        PROVE  overall = RowScore(1)
    <3>1. lost = 0
      <4>1. \A t \in Targets : "timeout" \notin Outcomes(t)
        BY <2>9
      <4> QED
        BY <2>5, <2>7, <4>1
    <3>2. LossScore(0, total) = Good
      BY <2>5, StatusViewAssumption DEF LossScore, ScoreOf
    <3>3. SumScore = Good
      BY <3>1, <3>2 DEF SumScore, total, lost
    <3> QED
      BY <2>2, <2>3, <3>3 DEF Good, Warn, Crit
  <2> QED
    BY <2>8, <2>9 DEF overall, total, RowScore
<1>2. IInv => TimeoutsReachOverall
  BY <1>1 DEF TimeoutsReachOverall
<1> QED
  BY <1>2, SpecInv, PTL

=============================================================================
