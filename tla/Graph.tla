-------------------------------- MODULE Graph --------------------------------
(***************************************************************************)
(* One panel of `nstat graph` (graph/graph.go) over the CSV file of its    *)
(* dimension: the rows are loaded, too many of them are sampled down to    *)
(* MaxPts (sampleData: from each bucket of rows the one that makes the     *)
(* largest triangle with the point before and the mean of the bucket       *)
(* after), and the line is broken where two drawn points are far apart     *)
(* (gapThreshold).  The command only reads, so it is a function of the     *)
(* file, and each property speaks of the file as any step of CSVStore      *)
(* leaves it.                                                              *)
(*                                                                         *)
(* The file may also be one that former daemons have filled: then it has   *)
(* the rows of Histories, and this daemon only rotates it.  A row is due   *)
(* every interval, but the rows may be any distances apart: the panels of  *)
(* RTT and jitter get none for a lost ping (daemon.go:241), a LAN round    *)
(* keeps the loop from its next ping (daemon.go:249), no daemon may run,   *)
(* and once a year a clock is put back, as the times are local.            *)
(***************************************************************************)
EXTENDS CSVStore

CONSTANTS MaxPts,     \* points of a panel (3000)
          Interval,   \* PingInterval, the time from one row to the next
          Apart,      \* the times that may pass between two rows
          Back,       \* how far a row may be before the last, by a clock put back
          Long,       \* lengths of a file with all kinds of values
          Uneven,     \* lengths of a file with all kinds of times
          Hours       \* the --hours of the command, 0 for all rows

ASSUME GraphAssumption == /\ MaxPts \in Nat \ (0 .. 2)
                          /\ Interval \in Nat \ {0} /\ Apart \subseteq Nat /\ Back \subseteq Nat
                          /\ Long \subseteq Nat \ {0} /\ Uneven \subseteq Nat \ {0}
                          /\ Hours \subseteq Nat
                          \* no sample is added to the file of a former daemon
                          /\ \A n \in Long \cup Uneven : Samples <= n

VARIABLE points  \* time and value of each sample: chosen at the start, never changed

gvars == <<storeVars, points>>

T(n) == points[n].T
V(n) == points[n].V

Distances == Apart \cup {-d : d \in Back}

\* Times at these distances; the first is the origin.
TimesOf(d) ==
  LET time[n \in 1 .. Len(d) + 1] == IF n = 1 THEN 0 ELSE time[n - 1] + d[n - 1]
  IN  time

Regular(v) == [n \in 1 .. Len(v) |-> [T |-> Interval * n, V |-> v[n]]]
Histories == {Regular(v) : v \in UNION {[1 .. n -> {0, 1}] : n \in Long}}
             \cup {[n \in 1 .. Len(d) + 1 |-> [T |-> TimesOf(d)[n], V |-> n % 2]] :
                     d \in UNION {[1 .. n - 1 -> Distances] : n \in Uneven}}

FileOf(h) == [exists |-> TRUE, lines |-> <<Header>> \o [n \in 1 .. Len(h) |-> Row(n)]]

GInit == \/ StoreInit /\ points = Regular([n \in 1 .. Samples |-> 0])
         \/ /\ call = "idle" /\ needHeader = FALSE /\ place = 0 /\ torn = FALSE
            /\ backup = [i \in 1 .. Backups |-> NoFile]
            /\ points \in Histories
            /\ file = FileOf(points) /\ sample = Len(points)

GNext == StoreNext /\ UNCHANGED points

GSpec == GInit /\ [][GNext]_gvars

-----------------------------------------------------------------------------
(* LoadCSV with a cutoff *)

Loaded(hours) ==
  LET rows == LoadCSV(file)
  IN  Chosen(rows, {i \in DOMAIN rows : hours = 0 \/ T(rows[i]) >= T(sample) - hours})

-----------------------------------------------------------------------------
(* sampleData.  n rows are cut into MaxPts - 2 buckets between the first and the    *)
(* last; `low` are the bounds that floating point puts one too low: a quotient that *)
(* is rounded down times a whole number may miss the whole number it should be.     *)

MayRoundDown(n) ==
  {i \in 1 .. MaxPts - 1 : /\ (n - 2) % (MaxPts - 2) # 0
                           /\ (i * (n - 2)) % (MaxPts - 2) = 0}

Bound(i, n, low) == (i * (n - 2)) \div (MaxPts - 2) - (IF i \in low THEN 1 ELSE 0)

\* Mutant of Bucket: the buckets begin at the second row of each.
BucketShort(i, n, low) == Bound(i - 1, n, low) + 3 .. Min({Bound(i, n, low) + 1, n - 1})

Bucket(i, n, low) == Bound(i - 1, n, low) + 2 .. Min({Bound(i, n, low) + 1, n - 1})

After(i, n, low) == Min({Bound(i, n, low) + 2, n}) .. Min({Bound(i + 1, n, low) + 1, n})

Abs(x) == IF x < 0 THEN -x ELSE x

\* Mutant of Area: the sign is kept.
AreaSigned(p, q, sumT, sumV, count) ==
  T(p) * (count * V(q) - sumV) + T(q) * (sumV - count * V(p)) + sumT * (V(p) - V(q))

\* Twice triangleArea of two rows and the mean of others, times the number of these.
Area(p, q, sumT, sumV, count) ==
  Abs(T(p) * (count * V(q) - sumV) + T(q) * (sumV - count * V(p)) + sumT * (V(p) - V(q)))

\* The row of bucket i that is kept, as a position in the data: the first with the
\* largest area.
Kept(data, before, i, low) ==
  LET n == Len(data)
      next == After(i, n, low)
      sumT == MapThenSumSet(LAMBDA j : T(data[j]), next)
      sumV == MapThenSumSet(LAMBDA j : V(data[j]), next)
      area == [j \in Bucket(i, n, low) |->
                 Area(data[before], data[j], sumT, sumV, Max({Cardinality(next), 1}))]
  IN  Min({j \in DOMAIN area : \A k \in DOMAIN area : area[k] <= area[j]})

\* The positions of the rows that are drawn.
sampleData(data, low) ==
  LET n == Len(data)
      kept[i \in 0 .. MaxPts - 2] ==
        IF i = 0 THEN <<1>>
        ELSE LET before == kept[i - 1]
             IN  IF Bucket(i, n, low) = {} THEN before
                 ELSE Append(before, Kept(data, Last(before), i, low))
  IN  IF n <= MaxPts THEN [j \in 1 .. n |-> j] ELSE Append(kept[MaxPts - 2], n)

-----------------------------------------------------------------------------
(* gapThreshold and the breaks of writeJSONPanel *)

\* The distances of neighbouring points, those backwards in time left out.
Deltas(times) ==
  LET distance == [i \in 1 .. Len(times) - 1 |-> times[i + 1] - times[i]]
  IN  Chosen(distance, {i \in DOMAIN distance : distance[i] > 0})

\* What stands in the middle of a sequence once it is sorted: at most half of the entries
\* are less, and more than half no greater.
Median(s) ==
  CHOOSE m \in Range(s) :
    /\ Cardinality({i \in DOMAIN s : s[i] < m}) <= Len(s) \div 2
    /\ Cardinality({i \in DOMAIN s : s[i] <= m}) > Len(s) \div 2

\* Mutant of gapThreshold: the distances are not sorted.
gapThresholdUnsorted(times) ==
  LET deltas == Deltas(times)
  IN  IF Len(times) < 3 \/ deltas = << >> THEN 0 ELSE 4 * deltas[Len(deltas) \div 2 + 1]

gapThreshold(times) ==
  LET deltas == Deltas(times)
  IN  IF Len(times) < 3 \/ deltas = << >> THEN 0 ELSE 4 * Median(deltas)

\* The k for which a null is put between the points k and k + 1.
Breaks(times) ==
  LET gap == gapThreshold(times)
  IN  {k \in 1 .. Len(times) - 1 : gap > 0 /\ times[k + 1] - times[k] > gap}

-----------------------------------------------------------------------------
(* Properties: of every panel the command may draw. *)

ForEachPanel(P(_, _)) ==
  \A h \in Hours : LET data == Loaded(h)
                   IN  \A low \in SUBSET MayRoundDown(Len(data)) :
                         data # << >> => P(data, sampleData(data, low))

\* Sampling skips no stretch of rows: points are drawn in the order of the rows, the
\* first and the last among them, and two neighbours are rows of neighbouring buckets.
\* One bound that floating point puts too low adds one to the distance.
FairSample(data, kept) ==
  LET n == Len(data)
      width == IF n <= MaxPts THEN 1 ELSE 2 * ((n - 3) \div (MaxPts - 2) + 1)
  IN  /\ Len(kept) = Min({n, MaxPts})
      /\ kept[1] = 1 /\ kept[Len(kept)] = n
      /\ \A k \in 1 .. Len(kept) - 1 : kept[k + 1] - kept[k] \in 1 .. width

SamplingIsFair == ForEachPanel(FairSample)

\* What stands out is drawn: of rows that are not all zero some are drawn that are not,
\* although one in many is kept.  The row before the last is the exception: floating
\* point may leave it out of every bucket.
SpikeDrawn(data, kept) ==
  LET n == Len(data)
  IN  (\E j \in (1 .. n) \ {n - 1} : V(data[j]) > 0)
        => \E k \in 1 .. Len(kept) : V(data[kept[k]]) > 0

SpikesAreDrawn == ForEachPanel(SpikeDrawn)

\* A break is a silence (graph.go:132-138).  With every row drawn, and one interval for
\* more than half of the distances forward in time, the line is broken exactly where more
\* than four intervals have passed without a row: three lost pings never break it, four
\* do, like a pause of the daemon.  As long as about every second row is drawn, and no two
\* rows are less than an interval apart, no break lies over rows that are all on time.
SilencesBroken(data, kept) ==
  LET Time(j) == T(data[j])
      Passed(j) == Time(j + 1) - Time(j)
      broken == Breaks([k \in 1 .. Len(kept) |-> Time(kept[k])])
      between == 1 .. Len(data) - 1
      regular == {j \in between : Passed(j) = Interval}
      forward == {j \in between : Passed(j) > 0}
  IN  /\ Len(data) <= MaxPts /\ 2 * Cardinality(regular) > Cardinality(forward)
           => broken = {j \in between : Passed(j) > 4 * Interval}
      /\ Len(data) <= 2 * (MaxPts - 1) /\ (\A j \in between : Passed(j) >= Interval)
           => \A k \in broken : \E j \in kept[k] .. kept[k + 1] - 1 : Passed(j) > Interval

BreaksAreSilences == ForEachPanel(SilencesBroken)

=============================================================================
