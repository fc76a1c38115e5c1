------------------------------- MODULE GraphProofs -------------------------------
(***************************************************************************)
(* The CSV file of a dimension and what `nstat graph` draws of it, for     *)
(* every number of backups, samples, rows and points of a panel.           *)
(*                                                                         *)
(* The file (SInv).  The backups are in order, also where a rotation was   *)
(* cut short, and only the rows of the last are dropped.  Both need to     *)
(* know that a row is newer than all that are stored, and that the place   *)
(* above the backup that is moved next is free: a rename would overwrite   *)
(* it.                                                                     *)
(*                                                                         *)
(* The reader (GInv).  As long as no write has stopped half-way every line *)
(* is whole, so none ends the reading; and the rows ascend, so what is     *)
(* loaded is in the order of the samples.                                  *)
(*                                                                         *)
(* The sampling.  Each bucket between the first row and the last has a row *)
(* and at most RowsPerBucket or one more, however the bounds are rounded,  *)
(* and one of its rows has the largest area: so a row is kept of each.  Of *)
(* a bucket with a nonzero row, all later rows of which are zero, the rows *)
(* that are not have the larger areas where the times ascend.              *)
(*                                                                         *)
(* The breaks.  The median is one of the distances between points: of rows *)
(* at least an interval apart it is at least an interval, and four rows on *)
(* time are no more than four intervals apart, so no break.  Where most    *)
(* distances are one interval, so is the median: more than half can be     *)
(* neither all below it nor all above.                                     *)
(*                                                                         *)
(* The loops of the code are recursive functions; what they compute is     *)
(* proved of their least counterexample (FoldLemmas).                      *)
(***************************************************************************)
EXTENDS Graph, FoldLemmas, SequenceTheorems, TLAPS

-----------------------------------------------------------------------------
(* The file and its backups. *)

\* A line that was cut before its second field was whole is of no sample.
GoodLines ==
  {l \in [fields : Nat \ {0}, row : Nat, ended : BOOLEAN] :
     l.fields < Width => l.row = 0}

\* A file that is not there has no lines.
GoodFiles ==
  {f \in [exists : BOOLEAN, lines : Seq(GoodLines)] : ~f.exists => f.lines = << >>}

StoreTypes == /\ call \in Calls /\ place \in 0 .. Backups - 1
              /\ file \in GoodFiles /\ backup \in [1 .. Backups -> GoodFiles]
              /\ sample \in Nat

\* A row is only written to a file that was opened.
Opened == call \in {"header", "row"} => file.exists

\* No row is of a later sample than the last, and the row to be written is new.
NewSample == /\ \A n \in Stored : n <= sample
             /\ call \in {"open", "header", "row"} => sample \notin Stored

\* The place above the backup that is moved next is free.
RoomAbove == call = "shift" => backup[place + 1].lines = << >>

SInv == StoreTypes /\ Opened /\ InOrder /\ NewSample /\ RoomAbove

\* An absent file is one, and has no rows.
LEMMA NoFileFacts ==
  /\ NoFile \in GoodFiles /\ Rows(NoFile) = {}
  /\ ~NoFile.exists /\ NoFile.lines = << >>
<1>1. << >> \in Seq(GoodLines) /\ Len(<< >>) = 0
  OBVIOUS
<1> QED
  BY <1>1 DEF NoFile, GoodFiles, Rows

\* The rows of a file are the samples its lines name.
LEMMA RowsOf ==
  ASSUME NEW f, NEW n
  PROVE  n \in Rows(f) <=> n # 0 /\ \E i \in 1 .. Len(f.lines) : n = f.lines[i].row
  BY DEF Rows

\* Text after a torn line leaves it its sample, if it has one.
LEMMA Joins ==
  ASSUME NEW part \in GoodLines, NEW l \in GoodLines
  PROVE  /\ Joined(part, l) \in GoodLines
         /\ Joined(part, l).row \in {0, l.row, part.row}
         /\ part.row # 0 => Joined(part, l).row = part.row
<1>1. /\ part.fields \in Nat \ {0} /\ l.fields \in Nat \ {0} /\ part.row \in Nat /\ l.row \in Nat
      /\ l.ended \in BOOLEAN
      /\ part.fields < 3 => part.row = 0
      /\ l.fields < 3 => l.row = 0
  BY DEF GoodLines, Width
<1> DEFINE r == CASE part.fields = 1 -> l.row [] part.fields = 2 -> 0 [] OTHER -> part.row
           w == part.fields + l.fields - 1
<1>2. Joined(part, l) = [fields |-> w, row |-> r, ended |-> l.ended]
  BY DEF Joined, Line
<1>3. w \in Nat \ {0}
  BY <1>1
<1>4. /\ part.fields = 1 => r = l.row /\ w = l.fields
      /\ part.fields = 2 => r = 0
      /\ part.fields \notin {1, 2} => r = part.row /\ w >= 3
  BY <1>1
<1> HIDE DEF r, w
<1>5. r \in {0, l.row, part.row} /\ (w < 3 => r = 0) /\ (part.row # 0 => r = part.row)
  BY <1>1, <1>3, <1>4
<1> QED
  BY <1>1, <1>2, <1>3, <1>5 DEF GoodLines, Width

\* What a line added at the end of a file does to its lines.
LEMMA AddedLines ==
  ASSUME NEW f \in GoodFiles, f.exists, NEW l \in GoodLines
  PROVE  LET s == f.lines
             t == Add(f, l).lines
             n == Len(s)
         IN  /\ s \in Seq(GoodLines) /\ t \in Seq(GoodLines)
             /\ Add(f, l) = [exists |-> TRUE, lines |-> t]
             /\ \/ /\ n # 0 => s[n].ended
                   /\ Len(t) = n + 1 /\ t[n + 1] = l
                   /\ \A i \in 1 .. n : t[i] = s[i]
                \/ /\ n # 0 /\ ~s[n].ended
                   /\ Len(t) = n /\ t[n] = Joined(s[n], l)
                   /\ \A i \in 1 .. n - 1 : t[i] = s[i]
<1> DEFINE s == f.lines
           n == Len(s)
           joins == s # << >> /\ ~Last(s).ended
           t == IF joins THEN Append(Front(s), Joined(Last(s), l))
                ELSE Append(s, l)
<1>1. s \in Seq(GoodLines) /\ f.exists = TRUE /\ n \in Nat
  BY DEF GoodFiles
<1>2. Add(f, l) = [exists |-> TRUE, lines |-> t]
  <2>1. f \in [exists : BOOLEAN, lines : Seq(GoodLines)]
    BY DEF GoodFiles
  <2>2. Add(f, l) = [f EXCEPT !.lines = t]
    BY DEF Add
  <2> HIDE DEF t
  <2> QED
    BY <1>1, <2>1, <2>2
<1>3. CASE ~joins
  <2>1. t = Append(s, l)
    BY <1>3
  <2>2. n # 0 => s[n].ended
    BY <1>1, <1>3 DEF Last
  <2>3. /\ t \in Seq(GoodLines) /\ Len(t) = n + 1 /\ t[n + 1] = l
        /\ \A i \in 1 .. n : t[i] = s[i]
    <3> HIDE DEF s, t
    <3> QED
      BY <1>1, <2>1
  <2> HIDE DEF t
  <2> QED
    BY <1>1, <1>2, <2>2, <2>3
<1>4. CASE joins
  <2> DEFINE j == Joined(s[n], l)
  <2>1. Last(s) = s[n] /\ t = Append(Front(s), j) /\ n # 0 /\ ~s[n].ended
    <3>1. s # << >> /\ n # 0
      BY <1>1, <1>4
    <3> QED
      BY <1>4, <3>1 DEF Last
  <2>2. s[n] \in GoodLines
    BY <1>1, <2>1
  <2>3. j \in GoodLines
    BY <2>2, Joins
  <2>4. Front(s) \in Seq(GoodLines) /\ Len(Front(s)) = n - 1
        /\ \A i \in 1 .. n - 1 : Front(s)[i] = s[i]
    BY <1>1, <2>1 DEF Front
  <2>5. /\ t \in Seq(GoodLines) /\ Len(t) = n /\ t[n] = j
        /\ \A i \in 1 .. n - 1 : t[i] = s[i]
    <3> HIDE DEF j
    <3> QED
      BY <1>1, <2>1, <2>3, <2>4
  <2> HIDE DEF t
  <2> QED
    BY <1>1, <1>2, <2>1, <2>5
<1> QED
  BY <1>3, <1>4

\* What a line adds to the rows of a file: at most its own, and it hides none.
LEMMA Adds ==
  ASSUME NEW f \in GoodFiles, f.exists, NEW l \in GoodLines
  PROVE  /\ Add(f, l) \in GoodFiles /\ Add(f, l).exists
         /\ Rows(f) \subseteq Rows(Add(f, l))
         /\ Rows(Add(f, l)) \subseteq Rows(f) \cup {l.row}
<1> DEFINE s == f.lines
           t == Add(f, l).lines
           n == Len(s)
<1>1. /\ s \in Seq(GoodLines) /\ t \in Seq(GoodLines)
      /\ Add(f, l) = [exists |-> TRUE, lines |-> t]
  BY AddedLines
<1>2. \/ Len(t) = n + 1 /\ t[n + 1] = l /\ \A i \in 1 .. n : t[i] = s[i]
      \/ /\ n # 0 /\ Len(t) = n /\ t[n] = Joined(s[n], l)
         /\ \A i \in 1 .. n - 1 : t[i] = s[i]
  BY AddedLines
<1>3. Add(f, l) \in GoodFiles /\ Add(f, l).exists
  <2> HIDE DEF t
  <2> QED
    BY <1>1 DEF GoodFiles
<1>4. n \in Nat /\ \A i \in 1 .. n : s[i] \in GoodLines
  BY <1>1
<1>5. \A x : (x \in Rows(f) <=> x # 0 /\ \E i \in 1 .. n : x = s[i].row)
             /\ (x \in Rows(Add(f, l)) <=> x # 0 /\ \E i \in 1 .. Len(t) : x = t[i].row)
  BY RowsOf
<1>6. n # 0 => LET j == Joined(s[n], l)
               IN  j.row \in {0, l.row, s[n].row} /\ (s[n].row # 0 => j.row = s[n].row)
  BY <1>4, Joins
<1> HIDE DEF s, t, n
<1>7. ASSUME NEW x \in Rows(f) PROVE x \in Rows(Add(f, l))
  <2>1. PICK i \in 1 .. n : x = s[i].row /\ x # 0
    BY <1>5, <1>7
  <2>2. i \in 1 .. Len(t) /\ t[i].row = x
    BY <1>2, <1>4, <1>6, <2>1
  <2> QED
    BY <1>5, <2>1, <2>2
<1>8. ASSUME NEW x \in Rows(Add(f, l)) PROVE x \in Rows(f) \cup {l.row}
  <2>1. PICK i \in 1 .. Len(t) : x = t[i].row /\ x # 0
    BY <1>5, <1>8
  <2>2. x = l.row \/ (i \in 1 .. n /\ x = s[i].row)
    BY <1>2, <1>4, <1>6, <2>1
  <2> QED
    BY <1>5, <2>1, <2>2
<1> QED
  BY <1>3, <1>7, <1>8

\* A write, whole or in part.
LEMMA Writes ==
  ASSUME file \in GoodFiles, file.exists, NEW l \in GoodLines,
         Written(l) \/ Failed(l), l.fields = Width
  PROVE  /\ file' \in GoodFiles /\ file'.exists
         /\ Rows(file) \subseteq Rows(file')
         /\ Rows(file') \subseteq Rows(file) \cup {l.row}
<1>1. CASE file' = file
  BY <1>1
<1>2. CASE file' = Add(file, l)
  BY <1>2, Adds
<1>3. ASSUME NEW k \in 1 .. Width, file' = Add(file, Torn(l, k)) PROVE
         /\ file' \in GoodFiles /\ file'.exists
         /\ Rows(file) \subseteq Rows(file')
         /\ Rows(file') \subseteq Rows(file) \cup {l.row}
  <2>1. Torn(l, k) \in GoodLines /\ Torn(l, k).row \in {0, l.row}
    BY DEF Torn, Line, GoodLines, Width
  <2>2. 0 \notin Rows(file')
    BY DEF Rows
  <2> QED
    BY <1>3, <2>1, <2>2, Adds
<1> QED
  BY <1>1, <1>2, <1>3 DEF Written, Failed

\* Where a stored row is.
LEMMA StoredRows ==
  ASSUME NEW n
  PROVE  n \in Stored <=> \/ n \in Rows(file)
                           \/ \E i \in 1 .. Backups : n \in Rows(backup[i])
  BY DEF Stored

\* And after a call.
LEMMA StoredRowsNext ==
  ASSUME NEW n
  PROVE  n \in Stored' <=> \/ n \in Rows(file')
                            \/ \E i \in 1 .. Backups : n \in Rows(backup'[i])
  BY DEF Stored, Rows

\* Rows are numbers.
LEMMA RowsAreNumbers == \A f \in GoodFiles : Rows(f) \subseteq Nat
<1> SUFFICES ASSUME NEW f \in GoodFiles, NEW n \in Rows(f) PROVE n \in Nat
  OBVIOUS
<1>1. PICK i \in 1 .. Len(f.lines) : n = f.lines[i].row
  BY RowsOf
<1>2. f.lines \in Seq(GoodLines)
  BY DEF GoodFiles
<1>3. f.lines[i] \in GoodLines
  BY <1>2
<1> QED
  BY <1>1, <1>3 DEF GoodLines

\* So the stored ones are.
LEMMA StoredNumbers == ASSUME StoreTypes PROVE Stored \subseteq Nat
  BY StoredRows, RowsAreNumbers DEF StoreTypes

\* A call that leaves the files alone, but for their being there.
LEMMA FilesStay ==
  ASSUME SInv, Rows(file') = Rows(file), backup' = backup,
         StoreTypes', Opened', RoomAbove',
         \A n \in Stored : n <= sample',
         call' \in {"open", "header", "row"} => sample' \notin Stored
  PROVE  SInv' /\ Stored' = Stored
<1>1. Stored' = Stored
  BY DEF Stored, Rows
<1>2. InOrder'
  BY DEF SInv, InOrder
<1> QED
  BY <1>1, <1>2 DEF SInv, NewSample

\* A sample begins, below the limit: its number is new.
LEMMA StatStore == SInv /\ Stat => SInv' /\ Stored' = Stored
<1> SUFFICES ASSUME SInv, Stat PROVE SInv' /\ Stored' = Stored
  OBVIOUS
<1>1. /\ call' = "open" /\ sample' = sample + 1 /\ UNCHANGED <<place, file, backup>>
      /\ StoreTypes /\ sample \in Nat
  BY DEF Stat, SInv, StoreTypes
<1>2. \A n \in Stored : n \in Nat /\ n <= sample
  BY <1>1, StoredNumbers DEF SInv, NewSample
<1>3. \A n \in Stored : n <= sample' /\ n # sample'
  BY <1>1, <1>2
<1>4. StoreTypes'
  BY <1>1 DEF StoreTypes, Calls
<1> QED
  BY <1>1, <1>3, <1>4, FilesStay DEF Opened, RoomAbove

\* The file is created if it was not there.
LEMMA OpenStore == SInv /\ Open => SInv' /\ Stored' = Stored
<1> SUFFICES ASSUME SInv, Open PROVE SInv' /\ Stored' = Stored
  OBVIOUS
<1>1. /\ call = "open" /\ call' \in {"header", "row"} /\ UNCHANGED <<place, backup, sample>>
      /\ StoreTypes /\ file' = [file EXCEPT !.exists = TRUE]
  BY DEF Open, SInv
<1>2. file \in [exists : BOOLEAN, lines : Seq(GoodLines)]
  BY <1>1 DEF StoreTypes, GoodFiles
<1>3. file' \in GoodFiles /\ file'.exists /\ file'.lines = file.lines
  BY <1>1, <1>2 DEF GoodFiles
<1>4. Rows(file') = Rows(file)
  BY <1>3 DEF Rows
<1>5. StoreTypes'
  BY <1>1, <1>3 DEF StoreTypes, Calls
<1> QED
  BY <1>1, <1>3, <1>4, <1>5, FilesStay DEF SInv, NewSample, Opened, RoomAbove

\* A crash, or a file that cannot be opened.
LEMMA AbandonStore == SInv /\ Abandon => SInv' /\ Stored' = Stored
<1> SUFFICES ASSUME SInv, Abandon PROVE SInv' /\ Stored' = Stored
  OBVIOUS
<1>1. call' = "idle" /\ UNCHANGED <<place, file, backup, sample>> /\ StoreTypes
  BY DEF Abandon, SInv
<1>2. StoreTypes'
  BY <1>1 DEF StoreTypes, Calls
<1> QED
  BY <1>1, <1>2, FilesStay DEF SInv, NewSample, Opened, RoomAbove

\* A write adds the new row, to the file, or nothing.
LEMMA WriteStore ==
  ASSUME SInv, call \in {"header", "row"}, NEW l \in {Header, Row(sample)},
         Written(l) \/ Failed(l),
         UNCHANGED <<place, backup, sample>>,
         call' = "idle" \/ (call' = "row" /\ l = Header)
  PROVE  SInv' /\ Stored \subseteq Stored'
<1>1. StoreTypes /\ file.exists /\ sample \in Nat
  BY DEF SInv, Opened, StoreTypes
<1>2. /\ l \in GoodLines /\ l.fields = Width
      /\ l.row \in {0, sample} /\ (l = Header => l.row = 0)
  <2>1. Header = [fields |-> 3, row |-> 0, ended |-> TRUE]
        /\ Row(sample) = [fields |-> 3, row |-> sample, ended |-> TRUE]
    BY DEF Header, Row, Line, Width
  <2>2. CASE l = Header
    BY <2>1, <2>2 DEF GoodLines, Width
  <2>3. CASE l = Row(sample) /\ l # Header
    BY <1>1, <2>1, <2>3 DEF GoodLines, Width
  <2> QED
    BY <2>2, <2>3
<1>3. /\ file' \in GoodFiles /\ file'.exists
      /\ Rows(file) \subseteq Rows(file')
      /\ Rows(file') \subseteq Rows(file) \cup {l.row}
  BY <1>1, <1>2, Writes DEF StoreTypes
<1>4. StoreTypes'
  BY <1>1, <1>3 DEF StoreTypes, Calls
<1>5. \A n \in Rows(file') : n # 0
  BY DEF Rows
<1>6. \A n \in Rows(file') : n \in Rows(file) \/ (n = sample /\ l # Header)
  <2>1. ASSUME NEW n \in Rows(file'), n \notin Rows(file)
        PROVE  n = sample /\ l # Header
    <3>1. n = l.row /\ n # 0
      BY <1>3, <1>5, <2>1
    <3> QED
      BY <1>2, <3>1
  <2> QED
    BY <2>1
<1>7. \A n \in Stored : n \in Nat /\ n <= sample /\ n # sample
  BY <1>1, StoredNumbers DEF SInv, NewSample
<1>8. InOrder'
  <2>1. ASSUME NEW i \in 1 .. Backups,
               NEW m \in Rows(backup[i]), NEW n \in Rows(file')
        PROVE  m < n
    <3>1. m \in Stored
      BY StoredRows
    <3>2. CASE n \in Rows(file)
      BY <3>2 DEF SInv, InOrder
    <3>3. CASE n = sample
      BY <1>1, <1>7, <3>1, <3>3
    <3> QED
      BY <1>6, <3>2, <3>3
  <2> QED
    BY <2>1 DEF SInv, InOrder
<1>9. \A n \in Stored' : n \in Stored \/ (n = sample /\ l # Header)
  <2>1. ASSUME NEW n \in Stored', n \notin Stored PROVE n = sample /\ l # Header
    <3>1. n \in Rows(file')
      BY <2>1, StoredRows, StoredRowsNext
    <3>2. n \notin Rows(file)
      BY <2>1, StoredRows
    <3> QED
      BY <1>6, <3>1, <3>2
  <2> QED
    BY <2>1
<1>10. NewSample'
  BY <1>1, <1>7, <1>9 DEF NewSample
<1>11. Stored \subseteq Stored'
  BY <1>3, StoredRows, StoredRowsNext
<1> QED
  BY <1>3, <1>4, <1>8, <1>10, <1>11 DEF SInv, Opened, RoomAbove

\* The oldest backup goes.
LEMMA DropStore ==
  SInv /\ DropOldest => /\ SInv'
                        /\ \A m \in Stored \ Stored' :
                             /\ m \in Rows(backup[Backups])
                             /\ \A n \in Stored' : m < n
<1> SUFFICES ASSUME SInv, DropOldest
             PROVE  /\ SInv'
                    /\ \A m \in Stored \ Stored' :
                         /\ m \in Rows(backup[Backups])
                         /\ \A n \in Stored' : m < n
  OBVIOUS
<1>1. /\ call' = "shift" /\ place' = Backups - 1 /\ UNCHANGED <<file, sample>>
      /\ backup' = [backup EXCEPT ![Backups] = NoFile]
      /\ StoreTypes /\ InOrder /\ NewSample /\ Backups \in Nat \ {0}
  BY CSVStoreAssumption DEF DropOldest, SInv
<1>2. /\ backup'[Backups] = NoFile /\ Rows(backup'[Backups]) = {}
      /\ \A i \in 1 .. Backups : i # Backups => backup'[i] = backup[i]
  BY <1>1, NoFileFacts DEF StoreTypes
<1>3. StoreTypes'
  BY <1>1, NoFileFacts DEF StoreTypes, Calls
<1>4. \A i \in 1 .. Backups : Rows(backup'[i]) \subseteq Rows(backup[i])
  BY <1>2
<1>5. InOrder'
  <2>1. /\ \A i \in 1 .. Backups : \A m \in Rows(backup'[i]), n \in Rows(file) : m < n
        /\ \A i, j \in 1 .. Backups :
             i < j => \A m \in Rows(backup'[j]), n \in Rows(backup'[i]) : m < n
    BY <1>1, <1>4 DEF InOrder
  <2> QED
    BY <1>1, <2>1 DEF InOrder, Rows
<1>6. Stored' \subseteq Stored
  BY <1>1, <1>4, StoredRows, StoredRowsNext
<1>7. NewSample'
  BY <1>1, <1>6 DEF NewSample
<1>8. RoomAbove'
  <2>1. place' + 1 = Backups
    BY <1>1
  <2> QED
    BY <1>2, <2>1, NoFileFacts DEF RoomAbove
<1>9. ASSUME NEW m \in Stored \ Stored'
      PROVE  m \in Rows(backup[Backups]) /\ \A n \in Stored' : m < n
  <2>1. m \in Rows(backup[Backups])
    BY <1>1, <1>2, <1>9, StoredRows, StoredRowsNext
  <2>2. ASSUME NEW n \in Stored' PROVE m < n
    <3>1. \/ n \in Rows(file)
          \/ \E i \in 1 .. Backups : i # Backups /\ n \in Rows(backup[i])
      BY <1>1, <1>2, <2>2, StoredRowsNext
    <3>2. \A i \in 1 .. Backups : i # Backups => i < Backups /\ Backups \in 1 .. Backups
      BY <1>1
    <3>3. Backups \in 1 .. Backups
      BY <1>1
    <3> QED
      BY <1>1, <2>1, <3>1, <3>2, <3>3 DEF InOrder
  <2> QED
    BY <2>1, <2>2
<1> QED
  BY <1>1, <1>3, <1>5, <1>7, <1>8, <1>9 DEF SInv, Opened

\* A backup moves to the place that is free above it.
LEMMA ShiftStore ==
  SInv /\ Shift => SInv' /\ Stored' = Stored
<1> SUFFICES ASSUME SInv, Shift PROVE SInv' /\ Stored' = Stored
  OBVIOUS
<1>1. /\ call = "shift" /\ call' = call /\ place > 0 /\ place' = place - 1
      /\ UNCHANGED <<file, sample>>
      /\ backup' = Moved(place)
      /\ StoreTypes /\ InOrder /\ NewSample /\ backup[place + 1].lines = << >>
  BY DEF Shift, SInv, RoomAbove
<1> DEFINE p == place
<1>2. p \in 1 .. Backups /\ p + 1 \in 1 .. Backups /\ p - 1 \in 0 .. Backups - 1 /\ p \in Nat
  BY <1>1, CSVStoreAssumption DEF StoreTypes
<1>3. Rows(backup[p + 1]) = {}
  BY <1>1 DEF Rows
<1>4. CASE ~backup[p].exists
  <2>1. backup' = backup
    BY <1>1, <1>4 DEF Moved
  <2>2. backup[p].lines = << >>
    BY <1>1, <1>2, <1>4 DEF StoreTypes, GoodFiles
  <2>3. RoomAbove'
    <3>1. place' + 1 = p
      BY <1>1, <1>2
    <3> QED
      BY <2>1, <2>2, <3>1 DEF RoomAbove
  <2>4. StoreTypes'
    BY <1>1, <1>2, <2>1 DEF StoreTypes
  <2> QED
    BY <1>1, <2>1, <2>3, <2>4, FilesStay DEF Opened, NewSample
<1>5. CASE backup[p].exists
  <2>1. backup' = [backup EXCEPT ![p + 1] = backup[p], ![p] = NoFile]
    BY <1>1, <1>5 DEF Moved
  <2>2. /\ backup'[p + 1] = backup[p] /\ backup'[p] = NoFile
        /\ \A i \in 1 .. Backups : i # p /\ i # p + 1 => backup'[i] = backup[i]
    BY <1>1, <1>2, <2>1 DEF StoreTypes
  <2>3. Rows(backup'[p]) = {}
    BY <2>2, NoFileFacts
  <2>4. StoreTypes'
    BY <1>1, <1>2, <2>1, NoFileFacts DEF StoreTypes
  <2>5. RoomAbove'
    <3>1. place' + 1 = p
      BY <1>1, <1>2
    <3> QED
      BY <2>2, <3>1, NoFileFacts DEF RoomAbove
  <2>6. ASSUME NEW i \in 1 .. Backups, NEW m \in Rows(backup'[i])
        PROVE  i # p /\ m \in Rows(backup[IF i = p + 1 THEN p ELSE i])
    <3>1. CASE i = p
      BY <2>3, <2>6, <3>1
    <3>2. CASE i = p + 1
      BY <1>2, <2>2, <2>6, <3>2
    <3>3. CASE i # p /\ i # p + 1
      BY <2>2, <2>6, <3>3
    <3> QED
      BY <3>1, <3>2, <3>3
  <2> HIDE DEF p
  <2>7. InOrder'
    <3>1. ASSUME NEW i \in 1 .. Backups,
                 NEW m \in Rows(backup'[i]), NEW n \in Rows(file)
          PROVE  m < n
      <4>1. (IF i = p + 1 THEN p ELSE i) \in 1 .. Backups
        BY <1>2
      <4> QED
        BY <1>1, <2>6, <3>1, <4>1 DEF InOrder
    <3>2. ASSUME NEW i \in 1 .. Backups, NEW j \in 1 .. Backups, i < j,
                 NEW m \in Rows(backup'[j]), NEW n \in Rows(backup'[i])
          PROVE  m < n
      <4> DEFINE a == IF i = p + 1 THEN p ELSE i
                 b == IF j = p + 1 THEN p ELSE j
      <4>1. n \in Rows(backup[a]) /\ m \in Rows(backup[b]) /\ i # p /\ j # p
        BY <2>6, <3>2
      <4>2. a \in 1 .. Backups /\ b \in 1 .. Backups /\ a < b
        BY <1>2, <3>2, <4>1
      <4> HIDE DEF a, b
      <4> QED
        BY <1>1, <4>1, <4>2 DEF InOrder
    <3> QED
      BY <1>1, <3>1, <3>2 DEF InOrder, Rows
  <2>8. Stored' = Stored
    <3>1. ASSUME NEW n \in Stored' PROVE n \in Stored
      <4>1. ASSUME NEW i \in 1 .. Backups, n \in Rows(backup'[i]) PROVE n \in Stored
        <5>1. (IF i = p + 1 THEN p ELSE i) \in 1 .. Backups
          BY <1>2
        <5> QED
          BY <2>6, <4>1, <5>1, StoredRows
      <4> QED
        BY <1>1, <3>1, <4>1, StoredRows, StoredRowsNext
    <3>2. ASSUME NEW n \in Stored PROVE n \in Stored'
      <4>1. ASSUME NEW i \in 1 .. Backups, n \in Rows(backup[i]) PROVE n \in Stored'
        <5>1. CASE i = p
          BY <1>2, <2>2, <4>1, <5>1, StoredRowsNext
        <5>2. CASE i = p + 1
          BY <1>3, <4>1, <5>2 DEF p
        <5>3. CASE i # p /\ i # p + 1
          BY <2>2, <4>1, <5>3, StoredRowsNext
        <5> QED
          BY <5>1, <5>2, <5>3
      <4> QED
        BY <1>1, <3>2, <4>1, StoredRows, StoredRowsNext
    <3> QED
      BY <3>1, <3>2
  <2> QED
    BY <1>1, <2>4, <2>5, <2>7, <2>8 DEF SInv, NewSample, Opened
<1> QED
  BY <1>4, <1>5

\* The file becomes the first backup, whose place is free.
LEMMA MoveStore ==
  SInv /\ MoveFile => SInv' /\ Stored' = Stored
<1> SUFFICES ASSUME SInv, MoveFile PROVE SInv' /\ Stored' = Stored
  OBVIOUS
<1>1. /\ call = "shift" /\ call' = "idle" /\ place = 0 /\ UNCHANGED <<place, sample>>
      /\ backup' = [backup EXCEPT ![1] = file] /\ file' = NoFile
      /\ StoreTypes /\ InOrder /\ NewSample /\ backup[1].lines = << >>
      /\ Backups \in Nat \ {0} /\ 1 \in 1 .. Backups
  BY CSVStoreAssumption DEF MoveFile, SInv, RoomAbove
<1>2. Rows(backup[1]) = {}
  BY <1>1 DEF Rows
<1>3. backup'[1] = file /\ (\A i \in 1 .. Backups : i # 1 => backup'[i] = backup[i])
      /\ Rows(file') = {}
  BY <1>1, NoFileFacts DEF StoreTypes
<1>4. StoreTypes'
  BY <1>1, NoFileFacts DEF StoreTypes, Calls
<1>5. InOrder'
  <2>1. ASSUME NEW i \in 1 .. Backups, NEW j \in 1 .. Backups, i < j,
               NEW m \in Rows(backup'[j]), NEW n \in Rows(backup'[i])
        PROVE  m < n
    <3>1. j # 1 /\ m \in Rows(backup[j])
      BY <1>1, <1>3, <2>1
    <3>2. CASE i = 1
      BY <1>1, <1>3, <2>1, <3>1, <3>2 DEF InOrder
    <3>3. CASE i # 1
      BY <1>1, <1>3, <2>1, <3>1, <3>3 DEF InOrder
    <3> QED
      BY <3>2, <3>3
  <2> QED
    BY <1>3, <2>1 DEF InOrder, Rows
<1>6. Stored' = Stored
  <2>1. ASSUME NEW n PROVE n \in Stored' <=> n \in Stored
    BY <1>1, <1>2, <1>3, StoredRows, StoredRowsNext
  <2> QED
    BY <2>1
<1> QED
  BY <1>1, <1>4, <1>5, <1>6 DEF SInv, NewSample, Opened, RoomAbove

\* A call of the store drops no row but those of the last backup.
Drops == \A m \in Stored \ Stored' :
           /\ m \in Rows(backup[Backups])
           /\ \A n \in Stored' : m < n

\* Every call keeps the invariant, and drops at most the rows of the last backup.
LEMMA StoreStep ==
  SInv /\ [StoreNext]_storeVars => SInv' /\ (Drops \/ UNCHANGED storeVars)
<1> SUFFICES ASSUME SInv, [StoreNext]_storeVars PROVE SInv' /\ (Drops \/ UNCHANGED storeVars)
  OBVIOUS
<1>1. CASE Stat
  BY <1>1, StatStore DEF Drops
<1>2. CASE Open
  BY <1>2, OpenStore DEF Drops
<1>3. CASE WriteHeader
  <2>1. SInv' /\ Stored \subseteq Stored'
    BY <1>3, WriteStore DEF WriteHeader
  <2> QED
    BY <2>1 DEF Drops
<1>4. CASE WriteRow
  <2>1. SInv' /\ Stored \subseteq Stored'
    BY <1>4, WriteStore DEF WriteRow
  <2> QED
    BY <2>1 DEF Drops
<1>5. CASE Abandon
  BY <1>5, AbandonStore DEF Drops
<1>6. CASE DropOldest
  BY <1>6, DropStore DEF Drops
<1>7. CASE Shift
  BY <1>7, ShiftStore DEF Drops
<1>8. CASE MoveFile
  BY <1>8, MoveStore DEF Drops
<1>9. CASE UNCHANGED storeVars
  <2>1. UNCHANGED <<call, place, file, backup, sample>>
    BY <1>9 DEF storeVars
  <2>2. StoreTypes' /\ Opened' /\ RoomAbove'
    BY <2>1 DEF SInv, StoreTypes, Opened, RoomAbove
  <2>3. SInv'
    BY <2>1, <2>2, FilesStay DEF SInv, NewSample
  <2> QED
    BY <1>9, <2>3
<1> QED
  BY <1>1, <1>2, <1>3, <1>4, <1>5, <1>6, <1>7, <1>8, <1>9 DEF StoreNext

-----------------------------------------------------------------------------
(* The files of former daemons, and the start. *)

\* The lines of a file that a former daemon has filled.
LEMMA LinesFrom ==
  ASSUME NEW n \in Nat
  PROVE  LET s == <<Header>> \o [k \in 1 .. n |-> Row(k)]
         IN  /\ s \in Seq(GoodLines) /\ Len(s) = n + 1
             /\ \A i \in 1 .. n + 1 : s[i].fields = Width /\ s[i].ended /\ s[i].row = i - 1
<1> DEFINE t == [k \in 1 .. n |-> Row(k)]
           s == <<Header>> \o t
<1>1. \A k \in Nat : /\ Row(k) \in GoodLines /\ Row(k).row = k
                     /\ Row(k).fields = Width /\ Row(k).ended
  BY DEF Row, Line, GoodLines, Width
<1>2. Header \in GoodLines /\ Header.row = 0 /\ Header.fields = Width /\ Header.ended
  BY DEF Header, Line, GoodLines, Width
<1>3. t \in Seq(GoodLines) /\ Len(t) = n
  <2>1. t \in [1 .. n -> GoodLines]
    BY <1>1
  <2> HIDE DEF t
  <2> QED
    BY <2>1
<1>4. /\ <<Header>> \in Seq(GoodLines) /\ Len(<<Header>>) = 1
      /\ <<Header>>[1] = Header
  BY <1>2
<1>5. \A k \in 1 .. n : t[k] = Row(k)
  OBVIOUS
<1> HIDE DEF t
<1>6. /\ s \in Seq(GoodLines) /\ Len(s) = n + 1
      /\ \A i \in 1 .. n + 1 : s[i] = IF i = 1 THEN Header ELSE t[i - 1]
  BY <1>3, <1>4
<1> HIDE DEF s
<1>7. ASSUME NEW i \in 1 .. n + 1
      PROVE  s[i].fields = Width /\ s[i].ended /\ s[i].row = i - 1
  <2>1. CASE i = 1
    BY <1>2, <1>6, <2>1
  <2>2. CASE i # 1
    <3>1. i - 1 \in 1 .. n /\ i - 1 \in Nat
      BY <2>2
    <3>2. s[i] = Row(i - 1)
      BY <1>5, <1>6, <2>2, <3>1
    <3> QED
      BY <1>1, <3>1, <3>2
  <2> QED
    BY <2>1, <2>2
<1> QED
  BY <1>6, <1>7 DEF s, t

\* They are a file, of no later sample than the last.
LEMMA RowsFrom ==
  ASSUME NEW n \in Nat
  PROVE  LET s == <<Header>> \o [k \in 1 .. n |-> Row(k)]
             f == [exists |-> TRUE, lines |-> s]
         IN  f \in GoodFiles /\ \A m \in Rows(f) : m <= n
<1> DEFINE s == <<Header>> \o [k \in 1 .. n |-> Row(k)]
           f == [exists |-> TRUE, lines |-> s]
<1>1. /\ s \in Seq(GoodLines) /\ Len(s) = n + 1
      /\ \A i \in 1 .. n + 1 : s[i].row = i - 1
  BY LinesFrom
<1> HIDE DEF s
<1>2. f \in GoodFiles /\ f.lines = s
  BY <1>1 DEF GoodFiles
<1>3. ASSUME NEW m \in Rows(f) PROVE m <= n
  <2>1. PICK i \in 1 .. n + 1 : m = s[i].row
    BY <1>1, <1>2, <1>3, RowsOf
  <2> QED
    BY <1>1, <2>1
<1> QED
  BY <1>2, <1>3 DEF s

\* A function on 1 .. n is a sequence of length n.
LEMMA LengthOfFunction ==
  ASSUME NEW S, NEW n \in Nat, NEW v \in [1 .. n -> S]
  PROVE  Len(v) = n
  OBVIOUS

\* What a point is in the histories.
Timed == [T : Int, V : {0, 1}]

\* The times are numbers.
LEMMA TimesAre ==
  ASSUME NEW m \in Nat, NEW d \in [1 .. m -> Int], Len(d) = m
  PROVE  /\ TimesOf(d) \in [1 .. m + 1 -> Int]
         /\ \A n \in 2 .. m + 1 : TimesOf(d)[n] = TimesOf(d)[n - 1] + d[n - 1]
<1> DEFINE op == [p \in (1 .. m) \X Int |-> p[2] + d[p[1]]]
           Is(time) == time = [n \in 1 .. m + 1 |-> IF n = 1 THEN 0 ELSE time[n - 1] + d[n - 1]]
<1>1. op \in [(1 .. m) \X Int -> Int]
  OBVIOUS
<1>2. PICK f : IsLoop(f, m, Int, 0, op)
  <2>1. m \in Nat /\ 0 \in Int
    OBVIOUS
  <2> HIDE DEF op
  <2> QED
    BY <1>1, <2>1, LoopExists, Zenon
<1> DEFINE g == [n \in 1 .. m + 1 |-> f[n - 1]]
<1>3. f \in [0 .. m -> Int] /\ f[0] = 0 /\ \A i \in 1 .. m : f[i] = op[<<i, f[i - 1]>>]
  BY <1>2 DEF IsLoop
<1>4. Is(g)
  <2>1. ASSUME NEW n \in 1 .. m + 1
        PROVE  g[n] = IF n = 1 THEN 0 ELSE g[n - 1] + d[n - 1]
    <3>1. CASE n = 1
      BY <1>3, <3>1
    <3>2. CASE n # 1
      <4> DEFINE i == n - 1
      <4>1. i \in 1 .. m /\ i - 1 \in 0 .. m /\ n - 1 \in 1 .. m + 1
        BY <3>2
      <4>2. f[i - 1] \in Int /\ f[i] = op[<<i, f[i - 1]>>]
        <5> HIDE DEF i, op
        <5> QED
          BY <1>3, <4>1
      <4>3. op[<<i, f[i - 1]>>] = f[i - 1] + d[i]
        <5> HIDE DEF i
        <5> QED
          BY <4>1, <4>2
      <4>4. g[n] = f[i] /\ g[n - 1] = f[i - 1]
        BY <4>1
      <4> QED
        BY <3>2, <4>2, <4>3, <4>4
    <3> QED
      BY <3>1, <3>2
  <2> HIDE DEF op
  <2> QED
    BY <2>1
<1> DEFINE time == CHOOSE h : Is(h)
<1>5. TimesOf(d) = time
  BY Zenon DEF TimesOf
<1>6. Is(time)
  BY <1>4, Zenon
<1> HIDE DEF time
<1>7. time[1] = 0 /\ \A n \in 2 .. m + 1 : time[n] = time[n - 1] + d[n - 1]
  BY <1>6
<1> DEFINE Bad == {n \in Nat : n \in 1 .. m + 1 /\ time[n] \notin Int}
<1>8. ASSUME NEW n \in Bad, \A k \in Bad : n <= k
      PROVE  FALSE
  <2>1. n # 1
    BY <1>7
  <2>2. n \in 2 .. m + 1 /\ n - 1 \in Nat /\ n - 1 \in 1 .. m + 1 /\ n - 1 \in 1 .. m
    BY <2>1
  <2>3. n - 1 \notin Bad
    <3> HIDE DEF Bad
    <3> QED
      BY <1>8, <2>2
  <2>4. time[n - 1] \in Int /\ d[n - 1] \in Int
    BY <2>2, <2>3
  <2>5. time[n] \in Int
    BY <1>7, <2>2, <2>4
  <2> QED
    BY <2>5
<1>9. Bad = {}
  <2>1. Bad \in SUBSET Nat
    OBVIOUS
  <2> HIDE DEF Bad
  <2> QED
    BY <1>8, <2>1, LeastNatural
<1>10. \A n \in 1 .. m + 1 : time[n] \in Int
  BY <1>9
<1>11. time = [n \in 1 .. m + 1 |-> time[n]]
  BY <1>6
<1> QED
  BY <1>5, <1>7, <1>10, <1>11

\* The interval and the distances are numbers.
LEMMA DistancesAre == Interval \in Nat \ {0} /\ Distances \subseteq Int
<1>1. Interval \in Nat \ {0} /\ Apart \subseteq Nat /\ Back \subseteq Nat
  BY GraphAssumption
<1>2. {-d : d \in Back} \subseteq Int
  <2> SUFFICES ASSUME NEW x \in {-d : d \in Back} PROVE x \in Int
    OBVIOUS
  <2>1. PICK d \in Back : x = -d
    OBVIOUS
  <2>2. d \in Nat
    BY <1>1
  <2> QED
    BY <2>1, <2>2
<1> DEFINE minus == {-d : d \in Back}
<1>3. Distances = Apart \cup minus
  BY DEF Distances
<1> HIDE DEF minus
<1>4. Apart \subseteq Int /\ minus \subseteq Int
  BY <1>1, <1>2 DEF minus
<1> QED
  BY <1>1, <1>3, <1>4

\* Rows on time are points.
LEMMA RegularIs ==
  ASSUME NEW n \in Nat, NEW v \in [1 .. n -> {0, 1}], Len(v) = n
  PROVE  Regular(v) \in [1 .. n -> Timed]
<1>1. Regular(v) = [k \in 1 .. n |-> [T |-> Interval * k, V |-> v[k]]]
  BY DEF Regular
<1>2. \A k \in 1 .. n : Interval * k \in Int
  BY DistancesAre
<1> QED
  BY <1>1, <1>2 DEF Timed

\* The files of former daemons have as many rows as points, not fewer than this daemon adds.
LEMMA HistoryFacts ==
  ASSUME NEW h \in Histories
  PROVE  h \in Seq(Timed) /\ Len(h) \in Nat /\ Samples <= Len(h)
<1>1. CASE h \in {Regular(v) : v \in UNION {[1 .. n -> {0, 1}] : n \in Long}}
  <2>1. PICK v \in UNION {[1 .. n -> {0, 1}] : n \in Long} : h = Regular(v)
    BY <1>1
  <2>2. PICK n \in Long : v \in [1 .. n -> {0, 1}]
    BY <2>1
  <2>3. n \in Nat /\ Samples <= n
    BY <2>2, GraphAssumption
  <2>4. Len(v) = n
    BY <2>2, <2>3, LengthOfFunction
  <2>5. h \in [1 .. n -> Timed]
    BY <2>1, <2>2, <2>3, <2>4, RegularIs
  <2>6. Len(h) = n
    BY <2>3, <2>5, LengthOfFunction
  <2> QED
    BY <2>3, <2>5, <2>6
<1>2. CASE h \in {[k \in 1 .. Len(d) + 1 |-> [T |-> TimesOf(d)[k], V |-> k % 2]] :
                     d \in UNION {[1 .. n - 1 -> Distances] : n \in Uneven}}
  <2>1. PICK d \in UNION {[1 .. n - 1 -> Distances] : n \in Uneven} :
               h = [k \in 1 .. Len(d) + 1 |-> [T |-> TimesOf(d)[k], V |-> k % 2]]
    BY <1>2
  <2>2. PICK n \in Uneven : d \in [1 .. n - 1 -> Distances]
    BY <2>1
  <2>3. n \in Nat \ {0} /\ n - 1 \in Nat /\ Samples <= n
    BY <2>2, GraphAssumption
  <2>4. Len(d) = n - 1
    BY <2>2, <2>3, LengthOfFunction
  <2>5. d \in [1 .. n - 1 -> Int]
    BY <2>2, DistancesAre
  <2> DEFINE t == TimesOf(d)
  <2>6. /\ t \in [1 .. (n - 1) + 1 -> Int]
        /\ \A k \in 2 .. (n - 1) + 1 : t[k] = t[k - 1] + d[k - 1]
    BY <2>3, <2>4, <2>5, TimesAre
  <2>7. (n - 1) + 1 = n /\ \A k \in 1 .. n : k % 2 \in {0, 1}
    BY <2>3
  <2>8. h = [k \in 1 .. n |-> [T |-> t[k], V |-> k % 2]]
    BY <2>1, <2>4, <2>7
  <2>9. h \in [1 .. n -> Timed]
    <3>1. t \in [1 .. n -> Int]
      BY <2>6, <2>7
    <3> HIDE DEF t
    <3> QED
      BY <2>7, <2>8, <3>1 DEF Timed
  <2> HIDE DEF t
  <2>10. Len(h) = n
    BY <2>3, <2>9, LengthOfFunction
  <2> QED
    BY <2>3, <2>9, <2>10
<1> QED
  BY <1>1, <1>2 DEF Histories

\* The store starts empty, or with a file of a former daemon.
LEMMA GraphInit == GInit => SInv
<1> SUFFICES ASSUME GInit PROVE SInv
  OBVIOUS
<1>1. /\ call = "idle" /\ place = 0 /\ backup = [i \in 1 .. Backups |-> NoFile]
      /\ Backups \in Nat \ {0}
  BY CSVStoreAssumption DEF GInit, StoreInit
<1>2. /\ backup \in [1 .. Backups -> GoodFiles] /\ place \in 0 .. Backups - 1
      /\ \A i \in 1 .. Backups : Rows(backup[i]) = {}
  BY <1>1, NoFileFacts
<1>3. file \in GoodFiles /\ sample \in Nat /\ \A m \in Rows(file) : m <= sample
  <2>1. CASE StoreInit
    BY <2>1, NoFileFacts DEF StoreInit
  <2>2. CASE points \in Histories /\ file = FileOf(points) /\ sample = Len(points)
    <3>1. Len(points) \in Nat
      BY <2>2, HistoryFacts
    <3> QED
      BY <2>2, <3>1, RowsFrom DEF FileOf
  <2> QED
    BY <2>1, <2>2 DEF GInit
<1>4. StoreTypes
  BY <1>1, <1>2, <1>3 DEF StoreTypes, Calls
<1>5. InOrder
  BY <1>2 DEF InOrder
<1>6. NewSample
  BY <1>1, <1>2, <1>3, StoredRows DEF NewSample
<1> QED
  BY <1>1, <1>4, <1>5, <1>6 DEF SInv, Opened, RoomAbove

\* The invariant of the store holds.
LEMMA StoreInv == GSpec => []SInv
<1>1. SInv /\ [GNext]_gvars => SInv'
  BY StoreStep DEF GNext, gvars
<1> QED
  BY <1>1, GraphInit, PTL DEF GSpec

\* For every number of backups and whatever former daemons have left: the backups are in
\* order, also after a rotation that a crash has cut short.
THEOREM BackupsInOrder == GSpec => []InOrder
<1>1. SInv => InOrder
  BY DEF SInv
<1> QED
  BY <1>1, StoreInv, PTL

\* And no row is dropped before an older one.
THEOREM OldestRowsGoFirst == GSpec => OldestGoFirst
<1>1. SInv /\ [GNext]_gvars => [Drops]_storeVars
  BY StoreStep DEF GNext, gvars
<1>2. [Drops]_storeVars =>
        [\A m \in Stored \ Stored' :
           /\ m \in Rows(backup[Backups])
           /\ \A n \in Stored' : m < n]_storeVars
  BY DEF Drops
<1> QED
  BY <1>1, <1>2, StoreInv, PTL DEF GSpec, OldestGoFirst

-----------------------------------------------------------------------------
(* The rows in the file: whole lines, in the order of their samples. *)

\* As long as no write has stopped half-way, every line is one.
WholeLines == ~torn => \A i \in 1 .. Len(file.lines) : /\ file.lines[i].fields = Width
                                                       /\ file.lines[i].ended

\* The rows of the file are in the order of their samples.
RowsAscend == \A i, j \in 1 .. Len(file.lines) :
                i < j /\ file.lines[i].row # 0 /\ file.lines[j].row # 0
                  => file.lines[i].row < file.lines[j].row

\* A write, whole or in part, keeps both.
LEMMA WritesInOrder ==
  ASSUME SInv, WholeLines, RowsAscend, call \in {"header", "row"}, NEW l \in {Header, Row(sample)},
         Written(l) \/ Failed(l)
  PROVE  WholeLines' /\ RowsAscend'
<1>1. file \in GoodFiles /\ file.exists /\ sample \in Nat
  BY DEF SInv, Opened, StoreTypes
<1>2. \A n \in Rows(file) : n \in Nat /\ n < sample
  <2>1. \A n \in Rows(file) : n \in Stored /\ n \in Nat
    BY <1>1, StoredRows, RowsAreNumbers
  <2>2. \A n \in Stored : n <= sample /\ n # sample
    BY DEF SInv, NewSample
  <2> QED
    BY <1>1, <2>1, <2>2
<1>3. /\ l \in GoodLines /\ l.fields = Width /\ l.ended /\ l.row \in {0, sample}
      /\ \A k \in 1 .. Width : /\ Torn(l, k) \in GoodLines
                               /\ Torn(l, k).row \in {0, sample}
  <2>1. Header = [fields |-> 3, row |-> 0, ended |-> TRUE]
        /\ Row(sample) = [fields |-> 3, row |-> sample, ended |-> TRUE]
    BY DEF Header, Row, Line, Width
  <2>2. l \in GoodLines /\ l.fields = 3 /\ l.ended /\ l.row \in {0, sample}
    <3>1. CASE l = Header
      BY <2>1, <3>1 DEF GoodLines, Width
    <3>2. CASE l = Row(sample)
      BY <1>1, <2>1, <3>2 DEF GoodLines, Width
    <3> QED
      BY <3>1, <3>2
  <2>3. \A k \in 1 .. Width : /\ Torn(l, k) \in GoodLines
                              /\ Torn(l, k).row \in {0, sample}
    BY <1>1, <2>2 DEF Torn, Line, GoodLines, Width
  <2> QED
    BY <2>2, <2>3 DEF Width
<1> DEFINE s == file.lines
           n == Len(s)
<1>4. n \in Nat /\ \A i \in 1 .. n : s[i] \in GoodLines /\ (s[i].row = 0 \/ (s[i].row \in Nat /\ s[i].row < sample))
  <2>1. s \in Seq(GoodLines)
    BY <1>1 DEF GoodFiles
  <2>2. \A i \in 1 .. n : s[i].row = 0 \/ s[i].row \in Rows(file)
    BY DEF Rows
  <2> HIDE DEF s
  <2> QED
    BY <1>2, <2>1, <2>2
<1>5. ASSUME NEW m \in GoodLines, m.row \in {0, sample}, file' = Add(file, m)
      PROVE  /\ RowsAscend'
             /\ (~torn /\ m.fields = Width /\ m.ended
                   => \A i \in 1 .. Len(file'.lines) : /\ file'.lines[i].fields = Width
                                                       /\ file'.lines[i].ended)
  <2> DEFINE t == file'.lines
  <2>1. \/ /\ n # 0 => s[n].ended
           /\ Len(t) = n + 1 /\ t[n + 1] = m
           /\ \A i \in 1 .. n : t[i] = s[i]
        \/ /\ n # 0 /\ ~s[n].ended
           /\ Len(t) = n /\ t[n] = Joined(s[n], m)
           /\ \A i \in 1 .. n - 1 : t[i] = s[i]
    BY <1>1, <1>5, AddedLines
  <2>2. n # 0 => LET j == Joined(s[n], m)
                 IN  j.row \in {0, m.row, s[n].row} /\ (s[n].row # 0 => j.row = s[n].row)
    BY <1>4, Joins
  <2>3. \A i, j \in 1 .. n : i < j /\ s[i].row # 0 /\ s[j].row # 0 => s[i].row < s[j].row
    BY DEF RowsAscend
  <2>4. ~torn => \A i \in 1 .. n : s[i].fields = Width /\ s[i].ended
    BY DEF WholeLines
  <2> HIDE DEF s, n, t
  <2>5. ASSUME NEW i \in 1 .. Len(t), NEW j \in 1 .. Len(t),
               i < j, t[i].row # 0, t[j].row # 0
        PROVE  t[i].row < t[j].row
    <3>1. i \in 1 .. n /\ t[i] = s[i] /\ s[i].row < sample /\ s[i].row \in Nat
      BY <1>4, <2>1, <2>5
    <3>2. \/ j \in 1 .. n /\ s[j].row # 0 /\ t[j].row = s[j].row
          \/ t[j].row = sample
      BY <1>4, <1>5, <2>1, <2>2, <2>5
    <3> QED
      BY <2>3, <2>5, <3>1, <3>2
  <2>6. RowsAscend'
    BY <2>5 DEF RowsAscend, t
  <2>7. ~torn /\ m.fields = Width /\ m.ended
          => \A i \in 1 .. Len(t) : t[i].fields = Width /\ t[i].ended
    BY <1>4, <2>1, <2>4
  <2> QED
    BY <2>6, <2>7 DEF t
<1>6. CASE UNCHANGED <<file, torn>>
  BY <1>6 DEF WholeLines, RowsAscend
<1>7. CASE Written(l)
  BY <1>3, <1>5, <1>7 DEF Written, WholeLines
<1>8. ASSUME NEW k \in 1 .. Width, torn' = TRUE, file' = Add(file, Torn(l, k))
      PROVE  WholeLines' /\ RowsAscend'
  BY <1>3, <1>5, <1>8 DEF WholeLines
<1> QED
  BY <1>6, <1>7, <1>8 DEF Failed

\* And every other call.
LEMMA StoreKeepsOrder ==
  SInv /\ WholeLines /\ RowsAscend /\ [StoreNext]_storeVars => WholeLines' /\ RowsAscend'
<1> SUFFICES ASSUME SInv, WholeLines, RowsAscend, [StoreNext]_storeVars
             PROVE  WholeLines' /\ RowsAscend'
  OBVIOUS
<1>1. CASE file'.lines = file.lines /\ torn' = torn
  BY <1>1 DEF WholeLines, RowsAscend
<1>2. CASE Stat \/ Abandon \/ DropOldest \/ Shift \/ UNCHANGED storeVars
  BY <1>1, <1>2 DEF Stat, Abandon, DropOldest, Shift, storeVars
<1>3. CASE Open
  <2>1. file \in [exists : BOOLEAN, lines : Seq(GoodLines)]
    BY DEF SInv, StoreTypes, GoodFiles
  <2>2. file'.lines = file.lines
    BY <1>3, <2>1 DEF Open
  <2> QED
    BY <1>1, <1>3, <2>2 DEF Open
<1>4. CASE WriteHeader
  BY <1>4, WritesInOrder DEF WriteHeader
<1>5. CASE WriteRow
  BY <1>5, WritesInOrder DEF WriteRow
<1>6. CASE MoveFile
  <2>1. file'.lines = << >> /\ Len(file'.lines) = 0
    BY <1>6, NoFileFacts DEF MoveFile
  <2> QED
    BY <2>1 DEF WholeLines, RowsAscend
<1> QED
  BY <1>2, <1>3, <1>4, <1>5, <1>6 DEF StoreNext

\* Each sample has its point.
HasPoints == /\ points \in Seq(Timed)
             /\ Samples <= Len(points) /\ sample <= Len(points)

\* At the start the file is empty, or as a former daemon has left it.
LEMMA GraphInitOrder == GInit => WholeLines /\ RowsAscend /\ HasPoints
<1> SUFFICES ASSUME GInit PROVE WholeLines /\ RowsAscend /\ HasPoints
  OBVIOUS
<1>1. CASE StoreInit /\ points = Regular([n \in 1 .. Samples |-> 0])
  <2>1. Len(file.lines) = 0 /\ sample = 0
    BY <1>1, NoFileFacts DEF StoreInit
  <2>2. Samples \in Nat
    BY CSVStoreAssumption
  <2> DEFINE v == [n \in 1 .. Samples |-> 0]
  <2>3. v \in [1 .. Samples -> {0, 1}] /\ Len(v) = Samples
    BY <2>2
  <2>4. points = Regular(v)
    BY <1>1
  <2>5. points \in [1 .. Samples -> Timed]
    <3> HIDE DEF v
    <3> QED
      BY <2>2, <2>3, <2>4, RegularIs
  <2>6. points \in Seq(Timed) /\ Len(points) = Samples
    BY <2>2, <2>5
  <2> QED
    BY <2>1, <2>2, <2>6 DEF WholeLines, RowsAscend, HasPoints
<1>2. CASE points \in Histories /\ file = FileOf(points) /\ sample = Len(points)
  <2>1. /\ points \in Seq(Timed) /\ Len(points) \in Nat /\ Samples <= Len(points)
    BY <1>2, HistoryFacts
  <2> DEFINE s == <<Header>> \o [k \in 1 .. Len(points) |-> Row(k)]
  <2>2. file.lines = s
    BY <1>2 DEF FileOf
  <2>3. /\ Len(s) = Len(points) + 1
        /\ \A i \in 1 .. Len(points) + 1 : s[i].fields = Width /\ s[i].ended /\ s[i].row = i - 1
    BY <2>1, LinesFrom
  <2> HIDE DEF s
  <2>4. WholeLines /\ RowsAscend
    BY <2>1, <2>2, <2>3 DEF WholeLines, RowsAscend
  <2> QED
    BY <1>2, <2>1, <2>4 DEF HasPoints
<1> QED
  BY <1>1, <1>2 DEF GInit

\* All that is known of the files and the points.
GInv == SInv /\ WholeLines /\ RowsAscend /\ HasPoints

\* No step changes the points, and each sample that is counted has one.
LEMMA PointsStay == SInv /\ HasPoints /\ [GNext]_gvars => HasPoints'
<1> SUFFICES ASSUME SInv, HasPoints, [GNext]_gvars PROVE HasPoints'
  OBVIOUS
<1>1. points' = points /\ Samples \in Nat /\ Len(points) \in Nat
  BY CSVStoreAssumption DEF GNext, gvars, HasPoints
<1>2. sample' <= Len(points)
  <2>1. CASE sample' = sample
    BY <2>1 DEF HasPoints
  <2>2. CASE Stat
    BY <1>1, <2>2 DEF Stat, HasPoints, SInv, StoreTypes
  <2> QED
    BY <2>1, <2>2 DEF GNext, gvars, storeVars, StoreNext, Open, WriteHeader, WriteRow,
                      Abandon, DropOldest, Shift, MoveFile
<1> QED
  BY <1>1, <1>2 DEF HasPoints

\* All of it holds in every state.
LEMMA GraphInv == GSpec => []GInv
<1>1. GInit => GInv
  BY GraphInit, GraphInitOrder DEF GInv
<1>2. GInv /\ [GNext]_gvars => GInv'
  <2> SUFFICES ASSUME GInv, [GNext]_gvars PROVE GInv'
    OBVIOUS
  <2>1. [StoreNext]_storeVars
    BY DEF GNext, gvars
  <2> QED
    BY <2>1, StoreStep, StoreKeepsOrder, PointsStay DEF GInv
<1> QED
  BY <1>1, <1>2, PTL DEF GSpec

-----------------------------------------------------------------------------
(* LoadCSV. *)

\* The loop of Chosen: what it has kept after each entry.
IsChosen(kept, s, P) ==
  kept = [i \in 0 .. Len(s) |->
            IF i = 0 THEN << >>
            ELSE IF i \in P THEN Append(kept[i - 1], s[i]) ELSE kept[i - 1]]

\* What the loop has kept, entry by entry.
LEMMA ChosenStep ==
  ASSUME NEW S, NEW s \in Seq(S), NEW P, NEW kept, IsChosen(kept, s, P)
  PROVE  /\ kept[0] = << >>
         /\ \A k \in 1 .. Len(s) :
              kept[k] = IF k \in P THEN Append(kept[k - 1], s[k]) ELSE kept[k - 1]
<1> DEFINE Val(i) == IF i = 0 THEN << >>
                     ELSE IF i \in P THEN Append(kept[i - 1], s[i]) ELSE kept[i - 1]
           n == Len(s)
<1>1. kept = [i \in 0 .. n |-> Val(i)] /\ n \in Nat
  <2>1. n \in Nat
    OBVIOUS
  <2>2. kept = [i \in 0 .. n |-> Val(i)]
    BY Zenon DEF IsChosen
  <2> QED
    BY <2>1, <2>2, Zenon
<1>2. \A i \in 0 .. n : kept[i] = Val(i)
  <2> HIDE DEF Val, n
  <2> QED
    BY <1>1
<1>3. 0 \in 0 .. n /\ \A k \in 1 .. n : k \in 0 .. n /\ k # 0
  <2> HIDE DEF n
  <2> QED
    BY <1>1
<1> HIDE DEF n
<1>4. \A k \in 1 .. n : kept[k] = IF k \in P THEN Append(kept[k - 1], s[k]) ELSE kept[k - 1]
  BY <1>2, <1>3, Zenon
<1>5. kept[0] = << >>
  BY <1>2, <1>3, Zenon
<1> QED
  BY <1>4, <1>5 DEF n

\* There is such a loop, and Chosen is what it ends with.
LEMMA ChosenIs ==
  ASSUME NEW S, NEW s \in Seq(S), NEW P
  PROVE  \E kept \in [0 .. Len(s) -> Seq(S)] : IsChosen(kept, s, P) /\ Chosen(s, P) = kept[Len(s)]
<1> DEFINE n == Len(s)
           op == [p \in (1 .. n) \X Seq(S) |->
                    IF p[1] \in P THEN Append(p[2], s[p[1]]) ELSE p[2]]
<1>1. n \in Nat /\ << >> \in Seq(S) /\ \A i \in 1 .. n : s[i] \in S
  OBVIOUS
<1>2. op \in [(1 .. n) \X Seq(S) -> Seq(S)]
  BY <1>1
<1>3. PICK f \in [0 .. n -> Seq(S)] :
        f[0] = << >> /\ \A i \in 1 .. n : f[i] = op[<<i, f[i - 1]>>]
  <2> DEFINE none == << >>
             Kinds == Seq(S)
  <2>1. n \in Nat /\ none \in Kinds /\ op \in [(1 .. n) \X Kinds -> Kinds]
    BY <1>1, <1>2
  <2> HIDE DEF op, n, none, Kinds
  <2>2. \E f : IsLoop(f, n, Kinds, none, op)
    BY <2>1, LoopExists
  <2> QED
    BY <2>2 DEF IsLoop, none, Kinds
<1>4. IsChosen(f, s, P)
  <2>1. ASSUME NEW i \in 0 .. n
        PROVE  f[i] = IF i = 0 THEN << >>
                      ELSE IF i \in P THEN Append(f[i - 1], s[i]) ELSE f[i - 1]
    <3>1. CASE i = 0
      BY <1>3, <3>1
    <3>2. CASE i # 0
      <4>1. i \in 1 .. n /\ f[i - 1] \in Seq(S)
        BY <1>1, <3>2
      <4>2. op[<<i, f[i - 1]>>] = IF i \in P THEN Append(f[i - 1], s[i]) ELSE f[i - 1]
        BY <4>1
      <4> QED
        BY <1>3, <3>2, <4>1, <4>2
    <3> QED
      BY <3>1, <3>2
  <2> HIDE DEF op
  <2> QED
    BY <2>1 DEF IsChosen
<1> DEFINE kept == CHOOSE g : IsChosen(g, s, P)
<1>5. IsChosen(kept, s, P)
  BY <1>4
<1>6. Chosen(s, P) = kept[n]
  BY DEF Chosen, IsChosen
<1> HIDE DEF kept
<1>7. kept \in [0 .. n -> Seq(S)]
  <2> DEFINE Bad == {k \in Nat : k <= n /\ kept[k] \notin Seq(S)}
  <2>1. ASSUME NEW k \in Bad, \A m \in Bad : k <= m
        PROVE  FALSE
    <3>1. kept[0] = << >>
      BY <1>1, <1>5, ChosenStep
    <3>2. k \in 1 .. n /\ k - 1 \in Nat /\ k - 1 <= n
      BY <1>1, <3>1
    <3>3. kept[k - 1] \in Seq(S)
      <4>1. k - 1 \notin Bad
        <5> HIDE DEF Bad
        <5> QED
          BY <2>1, <3>2
      <4> QED
        BY <3>2, <4>1
    <3>4. kept[k] = IF k \in P THEN Append(kept[k - 1], s[k]) ELSE kept[k - 1]
      BY <1>5, <3>2, ChosenStep
    <3>5. kept[k] \in Seq(S)
      BY <1>1, <3>2, <3>3, <3>4
    <3> QED
      BY <3>5
  <2>2. Bad = {}
    <3>1. Bad \in SUBSET Nat
      OBVIOUS
    <3> HIDE DEF Bad
    <3> QED
      BY <2>1, <3>1, LeastNatural
  <2>3. \A i \in 0 .. n : kept[i] \in Seq(S)
    BY <1>1, <2>2
  <2>4. kept = [i \in 0 .. n |-> kept[i]]
    BY <1>5 DEF IsChosen
  <2> QED
    BY <2>3, <2>4
<1> QED
  BY <1>5, <1>6, <1>7

\* Positions in a sequence that name those of another one, in order.
Places(at, c, s, P) ==
  /\ at \in [1 .. Len(c) -> {i \in P : i \in 1 .. Len(s)}]
  /\ \A k, l \in 1 .. Len(c) : k < l => at[k] < at[l]
  /\ \A k \in 1 .. Len(c) : c[k] = s[at[k]]
  /\ \A i \in P : i \in 1 .. Len(s) => \E k \in 1 .. Len(c) : at[k] = i

\* What is chosen is the entries at these positions, each once and in order.
LEMMA ChosenFacts ==
  ASSUME NEW S, NEW s \in Seq(S), NEW P
  PROVE  Chosen(s, P) \in Seq(S) /\ \E at : Places(at, Chosen(s, P), s, P)
<1> DEFINE n == Len(s)
<1>1. PICK kept \in [0 .. n -> Seq(S)] : IsChosen(kept, s, P) /\ Chosen(s, P) = kept[n]
  BY ChosenIs
<1>2. IsChosen(kept, s, P)
  BY <1>1
<1>3. \A i \in 1 .. Len(s) :
        kept[i] = IF i \in P THEN Append(kept[i - 1], s[i]) ELSE kept[i - 1]
  BY <1>2, ChosenStep
<1>4. n \in Nat
  OBVIOUS
<1> DEFINE Good(at, k) ==
             /\ at \in [1 .. Len(kept[k]) -> {i \in P : i \in 1 .. k}]
             /\ \A j, l \in 1 .. Len(kept[k]) : j < l => at[j] < at[l]
             /\ \A j \in 1 .. Len(kept[k]) : kept[k][j] = s[at[j]]
             /\ \A i \in P : i \in 1 .. k => \E j \in 1 .. Len(kept[k]) : at[j] = i
           Bad == {k \in Nat : k <= n /\ ~ \E at : Good(at, k)}
<1>5. ASSUME NEW k \in Bad, \A m \in Bad : k <= m
      PROVE  FALSE
  <2>1. CASE k = 0
    <3>1. kept[k] = << >> /\ Len(kept[k]) = 0
      BY <1>1, <1>4, <2>1, ChosenStep
    <3>2. Good([j \in 1 .. 0 |-> 1], 0)
      BY <2>1, <3>1
    <3> QED
      BY <2>1, <3>2
  <2>2. CASE k # 0
    <3>1. k \in Nat /\ k - 1 \in Nat /\ k \in 1 .. n /\ k - 1 <= n
      BY <2>2
    <3> HIDE DEF Good
    <3>2. k - 1 \notin Bad
      <4> HIDE DEF Bad
      <4> QED
        BY <1>5, <3>1
    <3>3. PICK at : Good(at, k - 1)
      BY <3>1, <3>2
    <3> DEFINE c == kept[k - 1]
               d == kept[k]
    <3>4. d = IF k \in P THEN Append(c, s[k]) ELSE c
      <4> HIDE DEF Bad
      <4>1. k \in 1 .. Len(s) /\ IsChosen(kept, s, P)
        BY <1>1, <3>1
      <4> QED
        BY <4>1, <1>3, Zenon
    <3>5. c \in Seq(S) /\ d \in Seq(S) /\ s[k] \in S /\ Len(c) \in Nat
      BY <1>1, <3>1
    <3>6. /\ at \in [1 .. Len(c) -> {i \in P : i \in 1 .. k - 1}]
          /\ \A j, l \in 1 .. Len(c) : j < l => at[j] < at[l]
          /\ \A j \in 1 .. Len(c) : c[j] = s[at[j]]
          /\ \A i \in P : i \in 1 .. k - 1 => \E j \in 1 .. Len(c) : at[j] = i
      BY <3>3 DEF Good
    <3> HIDE DEF c, d, Bad
    <3>7. CASE k \notin P
      <4>1. d = c
        BY <3>4, <3>7
      <4>2. at \in [1 .. Len(d) -> {i \in P : i \in 1 .. k}]
        BY <3>1, <3>6, <4>1
      <4>3. \A i \in P : i \in 1 .. k => i \in 1 .. k - 1
        BY <3>1, <3>7
      <4>4. Good(at, k)
        BY <3>6, <4>1, <4>2, <4>3 DEF Good, d
      <4> QED
        BY <1>5, <4>4 DEF Bad
    <3>8. CASE k \in P
      <4>1. d = Append(c, s[k])
        BY <3>4, <3>8
      <4>2. /\ Len(d) = Len(c) + 1 /\ d[Len(c) + 1] = s[k]
            /\ \A j \in 1 .. Len(c) : d[j] = c[j]
        BY <3>5, <4>1
      <4> DEFINE m == Len(c)
                 h == [j \in 1 .. m + 1 |-> IF j = m + 1 THEN k ELSE at[j]]
      <4>3. m \in Nat /\ m + 1 \in 1 .. m + 1 /\ h[m + 1] = k /\ \A j \in 1 .. m : j \in 1 .. m + 1 /\ h[j] = at[j]
        BY <3>5
      <4>4. \A j \in 1 .. m + 1 : j # m + 1 => j \in 1 .. m
        BY <4>3
      <4>5. \A j \in 1 .. m : at[j] \in P /\ at[j] \in 1 .. k - 1
        BY <3>6
      <4>6. h \in [1 .. m + 1 -> {i \in P : i \in 1 .. k}]
        BY <3>1, <3>8, <4>3, <4>4, <4>5
      <4> HIDE DEF h, m
      <4>7. ASSUME NEW j \in 1 .. m + 1, NEW l \in 1 .. m + 1, j < l
            PROVE  h[j] < h[l]
        <5>1. j \in 1 .. m
          BY <4>3, <4>7
        <5>2. CASE l = m + 1
          BY <3>1, <4>3, <4>5, <5>1, <5>2
        <5>3. CASE l # m + 1
          BY <3>6, <4>3, <4>4, <4>7, <5>1, <5>3 DEF m
        <5> QED
          BY <5>2, <5>3
      <4>8. \A j \in 1 .. m + 1 : d[j] = s[h[j]]
        BY <3>6, <4>2, <4>3, <4>4 DEF m
      <4>9. ASSUME NEW i \in P, i \in 1 .. k
            PROVE  \E j \in 1 .. m + 1 : h[j] = i
        <5>1. CASE i = k
          BY <4>3, <5>1
        <5>2. CASE i # k
          <6>1. i \in 1 .. k - 1
            BY <3>1, <4>9, <5>2
          <6>2. PICK j \in 1 .. m : at[j] = i
            BY <3>6, <4>9, <6>1 DEF m
          <6> QED
            BY <4>3, <6>2
        <5> QED
          BY <5>1, <5>2
      <4>10. Len(d) = m + 1
        BY <4>2 DEF m
      <4>11. Good(h, k)
        BY <4>6, <4>7, <4>8, <4>9, <4>10 DEF Good, d
      <4> QED
        BY <1>5, <4>11 DEF Bad
    <3> QED
      BY <3>7, <3>8
  <2> QED
    BY <2>1, <2>2
<1>6. Bad = {}
  <2> HIDE DEF Good
  <2>1. Bad \in SUBSET Nat
    OBVIOUS
  <2> HIDE DEF Bad
  <2> QED
    BY <1>5, <2>1, LeastNatural
<1>7. \E at : Good(at, n)
  <2>1. n \notin Bad
    <3> HIDE DEF Bad
    <3> QED
      BY <1>6
  <2> HIDE DEF Good
  <2> QED
    BY <1>4, <2>1
<1>8. PICK at : Good(at, n)
  BY <1>7
<1>9. Places(at, kept[n], s, P)
  BY <1>8 DEF Places
<1> QED
  BY <1>1, <1>4, <1>9

\* The rows a reader finds, of whatever file: samples of lines that are in the file.
LEMMA ReadFacts ==
  ASSUME NEW f \in GoodFiles, NEW end
  PROVE  LET P == {i \in 2 .. end - 1 : f.lines[i].fields >= Width /\ f.lines[i].row # 0}
             s == [i \in 1 .. Len(f.lines) |-> f.lines[i].row]
         IN  /\ Read(f, end) \in Seq(Nat)
             /\ \E at : Places(at, Read(f, end), s, P)
             /\ s \in Seq(Nat) /\ Len(s) = Len(f.lines)
<1> DEFINE P == {i \in 2 .. end - 1 : f.lines[i].fields >= Width /\ f.lines[i].row # 0}
           n == Len(f.lines)
           s == [i \in 1 .. n |-> f.lines[i].row]
<1>1. n \in Nat /\ \A i \in 1 .. n : f.lines[i].row \in Nat
  BY DEF GoodFiles, GoodLines
<1>2. s \in Seq(Nat) /\ Len(s) = n
  <2>1. s \in [1 .. n -> Nat]
    BY <1>1
  <2> HIDE DEF s, n
  <2> QED
    BY <1>1, <2>1
<1>3. Read(f, end) = Chosen(s, P)
  BY DEF Read
<1> HIDE DEF s, P
<1>4. Chosen(s, P) \in Seq(Nat) /\ \E at : Places(at, Chosen(s, P), s, P)
  BY <1>2, ChosenFacts
<1> QED
  BY <1>2, <1>3, <1>4 DEF s, P

\* Crashes and failed writes, as long as none stops half-way, hide at most the first row.
LEMMA FirstHidden == SInv /\ WholeLines => AtMostFirstHidden
<1> SUFFICES ASSUME SInv, WholeLines, ~torn
             PROVE  Cardinality(Rows(file) \ Range(LoadCSV(file))) <= 1
  BY DEF AtMostFirstHidden
<1> DEFINE n == Len(file.lines)
           end == n + 1
           P == {i \in 2 .. end - 1 : file.lines[i].fields >= Width /\ file.lines[i].row # 0}
           s == [i \in 1 .. n |-> file.lines[i].row]
           read == LoadCSV(file)
           hidden == Rows(file) \ Range(read)
<1>1. n \in Nat /\ file \in GoodFiles /\ \A i \in 1 .. n : file.lines[i].fields = Width
  BY DEF SInv, StoreTypes, WholeLines, GoodFiles
<1>2. Odd(file) = {}
  BY <1>1 DEF Odd
<1>3. read = Read(file, end)
  BY <1>2 DEF LoadCSV
<1>4. read \in Seq(Nat) /\ (\E at : Places(at, read, s, P)) /\ Len(s) = n
  BY <1>1, <1>3, ReadFacts
<1>5. ASSUME NEW x \in hidden
      PROVE  x = file.lines[1].row
  <2>1. PICK i \in 1 .. n : x = file.lines[i].row /\ x # 0
    BY <1>5, RowsOf
  <2>2. CASE i # 1
    <3>1. i \in P /\ s[i] = x
      BY <1>1, <2>1, <2>2 DEF Width
    <3>2. PICK at : Places(at, read, s, P)
      BY <1>4
    <3> HIDE DEF P, s, read
    <3>3. PICK k \in 1 .. Len(read) : at[k] = i /\ read[k] = x
      BY <1>4, <2>1, <3>1, <3>2 DEF Places
    <3>4. x \in Range(read)
      BY <1>4, <3>3 DEF Range
    <3> QED
      BY <1>5, <3>4 DEF read
  <2> QED
    BY <2>1, <2>2
<1> HIDE DEF hidden
<1>6. hidden \subseteq {file.lines[1].row}
  BY <1>5
<1>7. IsFiniteSet({file.lines[1].row}) /\ Cardinality({file.lines[1].row}) = 1
  BY FS_Singleton
<1>8. Cardinality(hidden) <= Cardinality({file.lines[1].row})
  BY <1>6, <1>7, FS_Subset
<1> QED
  BY <1>7, <1>8 DEF hidden

\* For every number of samples and backups, and whatever former daemons have left: as long
\* as no write has stopped half-way, the graph shows every row of the file but at most the
\* first, after every crash, failed write and rotation.
THEOREM OneRowHidden == GSpec => []AtMostFirstHidden
<1>1. GInv => AtMostFirstHidden
  BY FirstHidden DEF GInv
<1> QED
  BY <1>1, GraphInv, PTL

-----------------------------------------------------------------------------
(* The buckets of sampleData. *)

\* Division with a remainder.
LEMMA Division ==
  ASSUME NEW a \in Nat, NEW d \in Nat \ {0}
  PROVE  /\ a \div d \in Nat
         /\ d * (a \div d) <= a /\ a < d * (a \div d) + d
         /\ a % d = 0 => a = d * (a \div d)
  OBVIOUS

\* Products are ordered as their factors.
LEMMA Cancel ==
  ASSUME NEW d \in Nat \ {0}, NEW a \in Int, NEW b \in Int, d * a < d * b
  PROVE  a < b
<1> SUFFICES ASSUME b <= a PROVE FALSE
  OBVIOUS
<1>1. d * (a - b) >= 0
  OBVIOUS
<1>2. d * (a - b) = d * a - d * b
  OBVIOUS
<1>3. d * a \in Int /\ d * b \in Int
  OBVIOUS
<1> QED
  BY <1>1, <1>2, <1>3

\* The bounds of the buckets, without rounding: the first at 0, the last at n - 2, and a
\* bucket's width, which is more than one row where the bound is a whole number.
LEMMA Floors ==
  ASSUME NEW d \in Nat \ {0}, NEW m \in Nat, d < m, NEW i \in Nat \ {0}
  PROVE  LET F(k) == (k * m) \div d
             c == (m - 1) \div d + 1
         IN  /\ F(0) = 0 /\ F(d) = m /\ F(i - 1) \in Nat /\ F(i) \in Nat
             /\ c \in Nat /\ c >= 2
             /\ F(i) - F(i - 1) \in 1 .. c
             /\ (i * m) % d = 0 => F(i) - F(i - 1) >= 2
<1> DEFINE F(k) == (k * m) \div d
           c == (m - 1) \div d + 1
<1>1. F(0) = 0
  <2>1. 0 * m = 0 /\ 0 \div d = 0
    OBVIOUS
  <2> QED
    BY <2>1
<1>2. F(d) = m
  <2>1. d * m \in Nat /\ (d * m) \div d \in Nat
    BY Division
  <2>2. d * ((d * m) \div d) <= d * m /\ d * m < d * ((d * m) \div d) + d
    BY <2>1, Division
  <2> DEFINE q == (d * m) \div d
  <2>3. d * (q + 1) = d * q + d /\ q \in Nat
    BY <2>1
  <2> HIDE DEF q
  <2>4. d * m < d * (q + 1)
    BY <2>1, <2>2, <2>3 DEF q
  <2>5. m < q + 1
    BY <2>3, <2>4, Cancel
  <2>6. d * q < d * (m + 1)
    <3>1. d * (m + 1) = d * m + d /\ d * q \in Int /\ d * m \in Int
      BY <2>3
    <3> QED
      BY <2>2, <3>1 DEF q
  <2>7. q < m + 1
    BY <2>3, <2>6, Cancel
  <2>8. q = m
    BY <2>3, <2>5, <2>7
  <2> QED
    BY <2>8 DEF q
<1>3. i * m \in Nat /\ (i - 1) * m \in Nat /\ i * m = (i - 1) * m + m /\ m - 1 \in Nat
  OBVIOUS
<1> DEFINE x == i * m
           y == (i - 1) * m
           fx == x \div d
           fy == y \div d
           e == (m - 1) \div d
<1>4. /\ fx \in Nat /\ d * fx <= x /\ x < d * fx + d /\ (x % d = 0 => x = d * fx)
      /\ fy \in Nat /\ d * fy <= y /\ y < d * fy + d
      /\ e \in Nat /\ d * e <= m - 1 /\ m - 1 < d * e + d
  BY <1>3, Division
<1>5. x = y + m /\ x \in Nat /\ y \in Nat
  BY <1>3
<1> HIDE DEF x, y, fx, fy, e
<1>6. d * (fy + 1) = d * fy + d /\ d * (fx + 1) = d * fx + d /\ d * (e + 1) = d * e + d
      /\ d * fx \in Int /\ d * fy \in Int /\ d * e \in Int
  BY <1>4
<1>7. fy < fx
  <2>1. d * (fy + 1) < d * (fx + 1)
    BY <1>4, <1>5, <1>6
  <2>2. fy + 1 < fx + 1
    BY <1>4, <2>1, Cancel
  <2> QED
    BY <1>4, <2>2
<1>8. fx < fy + e + 2
  <2>1. d * (fy + e + 2) = d * fy + d * e + d + d
    BY <1>4
  <2>2. d * fx < d * (fy + e + 2)
    BY <1>4, <1>5, <1>6, <2>1
  <2>3. fy + e + 2 \in Int
    BY <1>4
  <2> QED
    BY <1>4, <2>2, <2>3, Cancel
<1>9. x % d = 0 => fx - fy >= 2
  <2> SUFFICES ASSUME x % d = 0 PROVE fy + 1 < fx
    BY <1>4
  <2>1. d * (fy + 1) < d * fx
    BY <1>4, <1>5, <1>6
  <2>2. fy + 1 \in Int
    BY <1>4
  <2> QED
    BY <1>4, <2>1, <2>2, Cancel
<1>10. e >= 1
  <2>1. d * 1 < d * (e + 1)
    BY <1>4, <1>6
  <2>2. 1 < e + 1
    BY <1>4, <2>1, Cancel
  <2> QED
    BY <1>4, <2>2
<1>11. /\ fx = (i * m) \div d /\ fy = ((i - 1) * m) \div d /\ e = (m - 1) \div d /\ x = i * m
  BY DEF fx, fy, e, x, y
<1>12. fx - fy \in 1 .. e + 1
  BY <1>4, <1>7, <1>8
<1> QED
  BY <1>1, <1>2, <1>4, <1>9, <1>10, <1>11, <1>12

\* Min of numbers is the least of them.
LEMMA MinOfNaturals ==
  ASSUME NEW S \in SUBSET Nat, S # {}
  PROVE  Min(S) \in S /\ \A x \in S : Min(S) <= x
<1>1. \E n \in S : \A m \in S : n <= m
  BY LeastNatural
<1> QED
  BY <1>1 DEF Min

\* Min of two numbers.
LEMMA MinOfTwo ==
  ASSUME NEW a \in Int, NEW b \in Int
  PROVE  Min({a, b}) = IF a <= b THEN a ELSE b
<1> DEFINE c == IF a <= b THEN a ELSE b
<1>1. c \in {a, b} /\ \A y \in {a, b} : c <= y
  OBVIOUS
<1>2. \A x \in {a, b} : (\A y \in {a, b} : x <= y) => x = c
  OBVIOUS
<1> HIDE DEF c
<1>3. Min({a, b}) = c
  BY <1>1, <1>2 DEF Min
<1> QED
  BY <1>3 DEF c

\* Max of two numbers.
LEMMA MaxOfTwo ==
  ASSUME NEW a \in Int, NEW b \in Int
  PROVE  Max({a, b}) = IF a >= b THEN a ELSE b
<1> DEFINE c == IF a >= b THEN a ELSE b
<1>1. c \in {a, b} /\ \A y \in {a, b} : c >= y
  OBVIOUS
<1>2. \A x \in {a, b} : (\A y \in {a, b} : x >= y) => x = c
  OBVIOUS
<1> HIDE DEF c
<1>3. Max({a, b}) = c
  BY <1>1, <1>2 DEF Max
<1> QED
  BY <1>3 DEF c

\* The most rows of a bucket, without rounding.
RowsPerBucket(n) == (n - 3) \div (MaxPts - 2) + 1

\* The bounds of the buckets as floating point may put them: they ascend by at most two
\* buckets' widths and one, and none is above n - 2 but the one after the last bucket.
LEMMA Bounds ==
  ASSUME NEW n \in Nat, MaxPts < n, NEW low \in SUBSET MayRoundDown(n)
  PROVE  /\ RowsPerBucket(n) \in Nat /\ RowsPerBucket(n) >= 2
         /\ Bound(0, n, low) = 0 /\ Bound(MaxPts - 2, n, low) \in {n - 3, n - 2}
         /\ (n - 2) - Bound(MaxPts - 3, n, low) <= RowsPerBucket(n) + 1
         /\ Bound(1, n, low) <= RowsPerBucket(n) /\ Bound(MaxPts - 1, n, low) >= n - 1
         /\ \A i \in 0 .. MaxPts - 1 : Bound(i, n, low) \in Nat
         /\ \A i \in 1 .. MaxPts - 1 : Bound(i - 1, n, low) < Bound(i, n, low)
         /\ \A i \in 1 .. MaxPts - 2 : Bound(i, n, low) <= n - 2
         /\ \A i \in 2 .. MaxPts - 2 :
              Bound(i, n, low) - Bound(i - 2, n, low) <= 2 * RowsPerBucket(n) + 1
<1> DEFINE d == MaxPts - 2
           m == n - 2
           c == (n - 3) \div d + 1
           F(i) == (i * m) \div d
           r(i) == IF i \in low THEN 1 ELSE 0
           B(i) == Bound(i, n, low)
<1>1. d \in Nat \ {0} /\ m \in Nat /\ d < m /\ m - 1 = n - 3
  BY GraphAssumption
<1>2. /\ F(0) = 0 /\ F(d) = m /\ c \in Nat /\ c >= 2
      /\ \A i \in Nat \ {0} : /\ F(i - 1) \in Nat /\ F(i) \in Nat
                              /\ F(i) - F(i - 1) \in 1 .. c
                              /\ (i * m) % d = 0 => F(i) - F(i - 1) >= 2
  <2> HIDE DEF d, m
  <2> QED
    BY <1>1, Floors
<1>3. \A i : B(i) = F(i) - r(i) /\ r(i) \in {0, 1}
  BY DEF Bound
<1>4. r(0) = 0 /\ \A i \in Nat \ {0} : r(i) = 1 => F(i) - F(i - 1) >= 2
  BY <1>2 DEF MayRoundDown
<1>5. \A i \in Nat \ {0} : F(i) - F(i - 1) >= 1 + r(i) /\ F(i) - F(i - 1) <= c
                           /\ F(i) \in Nat /\ F(i - 1) \in Nat
  <2> HIDE DEF F, r, c, d, m
  <2> QED
    BY <1>2, <1>3, <1>4
<1> HIDE DEF F, r, c, B, d, m
<1>6. \A i \in Nat : F(i) \in Nat /\ B(i) = F(i) - r(i) /\ r(i) \in {0, 1} /\ B(i) \in Int
  <2>1. \A i \in Nat : F(i) \in Nat
    BY <1>2, <1>5
  <2> QED
    BY <1>3, <2>1
<1>7. ASSUME NEW i \in Nat \ {0}
      PROVE  B(i) \in Int /\ B(i - 1) < B(i) /\ B(i - 1) \in Int
  <2>1. i \in Nat /\ i - 1 \in Nat
    OBVIOUS
  <2>2. F(i) - F(i - 1) >= 1 + r(i)
    BY <1>5
  <2> DEFINE j == i - 1
  <2>3. j \in Nat /\ F(i) - F(j) >= 1 + r(i)
    BY <2>1, <2>2
  <2> HIDE DEF j
  <2>4. B(i) \in Int /\ B(j) < B(i) /\ B(j) \in Int
    BY <1>6, <2>1, <2>3
  <2> QED
    BY <2>4 DEF j
<1>8. B(0) = 0 /\ B(d) \in {m - 1, m} /\ m - B(d - 1) <= c + 1 /\ B(1) <= c
  <2>1. B(0) = 0
    BY <1>2, <1>3, <1>4
  <2>2. B(d) \in {m - 1, m}
    <3>1. d \in Nat /\ F(d) = m /\ m \in Nat
      BY <1>1, <1>2
    <3>2. B(d) = F(d) - r(d) /\ r(d) \in {0, 1}
      BY <1>6, <3>1
    <3> QED
      BY <3>1, <3>2
  <2>3. m - F(d - 1) <= c /\ F(d - 1) \in Nat
    BY <1>1, <1>2, <1>5
  <2>4. m - B(d - 1) <= c + 1
    <3> DEFINE j == d - 1
    <3>1. j \in Nat /\ m - F(j) <= c
      BY <1>1, <2>3
    <3> HIDE DEF j
    <3>2. F(j) \in Nat /\ B(j) = F(j) - r(j) /\ r(j) \in {0, 1}
      BY <1>6, <3>1
    <3>3. m \in Nat /\ c \in Nat
      BY <1>1, <1>2
    <3>4. m - B(j) <= c + 1
      BY <3>1, <3>2, <3>3
    <3> QED
      BY <3>4 DEF j
  <2>5. F(1) - F(1 - 1) <= c /\ F(1) \in Nat
    BY <1>5
  <2>6. B(1) <= c
    BY <1>2, <1>3, <2>5
  <2> QED
    BY <2>1, <2>2, <2>4, <2>6
<1>9. \A i \in Nat : B(i) \in Nat
  <2>1. ASSUME NEW i \in Nat \ {0} PROVE F(i) >= 1
    <3>1. F(i) - F(i - 1) >= 1 + r(i) /\ F(i) \in Nat /\ F(i - 1) \in Nat /\ r(i) \in {0, 1}
      BY <1>3, <1>5
    <3> QED
      BY <3>1
  <2>2. \A i \in Nat \ {0} : F(i) \in Nat
    BY <1>5
  <2>3. \A i \in Nat \ {0} : B(i) \in Nat
    BY <1>3, <2>1, <2>2
  <2> QED
    BY <1>8, <2>3
<1>10. \A i \in 1 .. d : B(i) <= m
  <2> DEFINE Bad == {k \in Nat : k < d /\ ~ (F(d - k) <= m)}
  <2>1. ASSUME NEW k \in Bad, \A j \in Bad : k <= j
        PROVE  FALSE
    <3>1. k # 0
      BY <1>1, <1>2
    <3>2. k - 1 \in Nat /\ k \in Nat /\ k < d /\ ~ (F(d - k) <= m)
      BY <3>1
    <3>3. k - 1 \notin Bad
      <4> HIDE DEF Bad
      <4> QED
        BY <2>1, <3>2
    <3>4. F(d - (k - 1)) <= m
      BY <1>1, <3>2, <3>3
    <3>5. d - (k - 1) \in Nat \ {0} /\ (d - (k - 1)) - 1 = d - k
      BY <1>1, <3>2
    <3>6. F(d - k) < F(d - (k - 1)) /\ F(d - k) \in Nat /\ F(d - (k - 1)) \in Nat
      <4> DEFINE i == d - (k - 1)
      <4>1. i \in Nat \ {0} /\ i - 1 = d - k
        BY <3>5
      <4> HIDE DEF i
      <4>2. F(i) - F(i - 1) >= 1 + r(i) /\ F(i) \in Nat /\ F(i - 1) \in Nat /\ r(i) \in {0, 1}
        BY <1>3, <1>5, <4>1
      <4>3. F(i - 1) < F(i) /\ F(i) \in Nat /\ F(i - 1) \in Nat
        BY <4>2
      <4> QED
        BY <4>1, <4>3 DEF i
    <3> QED
      BY <1>1, <3>2, <3>4, <3>6
  <2>2. Bad = {}
    <3>1. Bad \in SUBSET Nat
      OBVIOUS
    <3> HIDE DEF Bad
    <3> QED
      BY <2>1, <3>1, LeastNatural
  <2>3. ASSUME NEW i \in 1 .. d PROVE B(i) <= m
    <3>1. d - i \in Nat /\ d - i < d /\ d - (d - i) = i
      BY <1>1
    <3>2. F(i) <= m
      BY <2>2, <3>1
    <3>3. F(i) \in Nat
      BY <1>5
    <3> QED
      BY <1>1, <1>3, <3>2, <3>3
  <2> QED
    BY <2>3
<1>11. ASSUME NEW i \in 1 .. d, i > 1
       PROVE  B(i) - B(i - 2) <= 2 * c + 1
  <2>1. i \in Nat \ {0} /\ i - 1 \in Nat \ {0} /\ (i - 1) - 1 = i - 2
    BY <1>1, <1>11
  <2>2. F(i) - F(i - 1) <= c /\ F(i) \in Nat /\ F(i - 1) \in Nat
    BY <1>5, <2>1
  <2>3. F(i - 1) - F(i - 2) <= c /\ F(i - 2) \in Nat
    BY <1>5, <2>1
  <2> QED
    BY <1>2, <1>3, <2>2, <2>3
<1>12. B(d + 1) >= m + 1
  <2> DEFINE e == d + 1
  <2>1. e \in Nat \ {0} /\ e - 1 = d /\ e \in Nat
    BY <1>1
  <2> HIDE DEF e
  <2>2. F(e) - F(e - 1) >= 1 + r(e) /\ F(d) = m
    BY <1>2, <1>5, <2>1
  <2>3. F(e) \in Nat /\ B(e) = F(e) - r(e) /\ r(e) \in {0, 1} /\ m \in Nat
    BY <1>1, <1>6, <2>1
  <2>4. F(e) - m >= 1 + r(e)
    BY <2>1, <2>2
  <2>5. B(e) >= m + 1
    BY <2>3, <2>4
  <2> QED
    BY <2>5 DEF e
<1>13. \A i \in 0 .. MaxPts - 1 : i \in Nat
  OBVIOUS
<1>14. \A i \in 1 .. MaxPts - 1 : i \in Nat \ {0}
  OBVIOUS
<1>15. /\ d = MaxPts - 2 /\ d + 1 = MaxPts - 1 /\ m + 1 = n - 1 /\ d - 1 = MaxPts - 3 /\ m - 1 = n - 3 /\ m = n - 2
       /\ RowsPerBucket(n) = c /\ \A i : B(i) = Bound(i, n, low)
  BY <1>1, GraphAssumption DEF d, c, B, m, RowsPerBucket
<1>16. \A i \in 2 .. MaxPts - 2 : i \in 1 .. d /\ i > 1
  BY <1>15, GraphAssumption
<1>17. /\ c \in Nat /\ c >= 2
       /\ B(0) = 0 /\ B(d) \in {m - 1, m}
       /\ m - B(d - 1) <= c + 1
       /\ B(1) <= c /\ B(d + 1) >= m + 1
  BY <1>2, <1>8, <1>12
<1>18. /\ \A i \in 0 .. MaxPts - 1 : B(i) \in Nat
       /\ \A i \in 1 .. MaxPts - 1 : B(i - 1) < B(i)
       /\ \A i \in 1 .. d : B(i) <= m
       /\ \A i \in 2 .. MaxPts - 2 : B(i) - B(i - 2) <= 2 * c + 1
  BY <1>7, <1>9, <1>10, <1>11, <1>13, <1>14, <1>16
<1> QED
  BY <1>15, <1>17, <1>18

\* A bucket of sampleData is not empty, and lies between the first row and the last.
LEMMA BucketIs ==
  ASSUME NEW n \in Nat, MaxPts < n, NEW low \in SUBSET MayRoundDown(n), NEW i \in 1 .. MaxPts - 2
  PROVE  /\ Bucket(i, n, low) = Bound(i - 1, n, low) + 2 .. Bound(i, n, low) + 1
         /\ Bucket(i, n, low) # {} /\ Bucket(i, n, low) \in SUBSET (2 .. n - 1)
<1> DEFINE B(k) == Bound(k, n, low)
<1>1. B(i) \in Nat /\ B(i - 1) \in Nat /\ B(i - 1) < B(i) /\ B(i) <= n - 2
  <2>1. i \in 0 .. MaxPts - 1 /\ i - 1 \in 0 .. MaxPts - 1 /\ i \in 1 .. MaxPts - 1
    BY GraphAssumption
  <2> QED
    BY <2>1, Bounds
<1>2. Min({B(i) + 1, n - 1}) = B(i) + 1
  <2> HIDE DEF B
  <2>1. B(i) + 1 \in Int /\ n - 1 \in Int /\ B(i) + 1 <= n - 1
    BY <1>1
  <2> QED
    BY <2>1, MinOfTwo
<1>3. Bucket(i, n, low) = B(i - 1) + 2 .. B(i) + 1
  BY <1>2 DEF Bucket
<1> HIDE DEF B
<1>4. B(i - 1) + 2 .. B(i) + 1 # {} /\ B(i - 1) + 2 .. B(i) + 1 \in SUBSET (2 .. n - 1)
  <2> DEFINE a == B(i - 1)
             b == B(i)
  <2> HIDE DEF a, b
  <2>1. a \in Nat /\ b \in Nat /\ a < b /\ b <= n - 2
    BY <1>1 DEF a, b
  <2>2. a + 2 \in a + 2 .. b + 1 /\ a + 2 .. b + 1 \in SUBSET (2 .. n - 1)
    BY <2>1
  <2> QED
    BY <2>2 DEF a, b
<1> QED
  BY <1>3, <1>4 DEF B

\* The rows after a bucket are those of the next one; after the last bucket, the last row,
\* and the one before where floating point has left it out.
LEMMA AfterIs ==
  ASSUME NEW n \in Nat, MaxPts < n, NEW low \in SUBSET MayRoundDown(n), NEW i \in 1 .. MaxPts - 2
  PROVE  /\ i # MaxPts - 2 => After(i, n, low) = Bucket(i + 1, n, low)
         /\ i = MaxPts - 2 => \/ After(i, n, low) = {n}
                              \/ /\ After(i, n, low) = {n - 1, n}
                                 /\ \A j \in Bucket(i, n, low) : j < n - 1
<1> DEFINE B(k) == Bound(k, n, low)
           d == MaxPts - 2
<1>1. MaxPts \in Nat /\ d \in Nat \ {0} /\ d = MaxPts - 2 /\ d + 1 = MaxPts - 1
  BY GraphAssumption
<1>2. CASE i # d
  <2>1. i + 1 \in 1 .. MaxPts - 2 /\ i + 1 \in 0 .. MaxPts - 1 /\ i \in 0 .. MaxPts - 1
        /\ (i + 1) - 1 = i /\ i + 1 \in 1 .. MaxPts - 1
    BY <1>1, <1>2
  <2>2. B(i) \in Nat /\ B(i + 1) \in Nat /\ B(i + 1) <= n - 2
    BY <2>1, Bounds
  <2>3. B(i) < B(i + 1)
    BY <2>1, Bounds
  <2>4. Bucket(i + 1, n, low) = B(i) + 2 .. B(i + 1) + 1
    BY <2>1, BucketIs
  <2> DEFINE a == B(i)
             b == B(i + 1)
  <2>5. After(i, n, low) = Min({a + 2, n}) .. Min({b + 1, n})
    BY DEF After
  <2> HIDE DEF a, b
  <2>6. a \in Nat /\ b \in Nat /\ b <= n - 2 /\ a < b
    BY <2>2, <2>3 DEF a, b
  <2>7. Min({a + 2, n}) = a + 2 /\ Min({b + 1, n}) = b + 1
    <3>1. a + 2 \in Int /\ b + 1 \in Int /\ n \in Int /\ a + 2 <= n /\ b + 1 <= n
      BY <2>6
    <3> QED
      BY <3>1, MinOfTwo
  <2> QED
    BY <1>2, <2>4, <2>5, <2>7 DEF a, b
<1>3. CASE i = d
  <2> DEFINE a == B(d)
             b == B(d + 1)
  <2>1. a \in {n - 3, n - 2} /\ b >= n - 1 /\ a \in Nat /\ b \in Nat
    <3>1. d \in 0 .. MaxPts - 1 /\ d + 1 \in 0 .. MaxPts - 1
      BY <1>1
    <3>2. B(MaxPts - 2) \in {n - 3, n - 2} /\ B(MaxPts - 1) >= n - 1
          /\ \A k \in 0 .. MaxPts - 1 : B(k) \in Nat
      BY Bounds
    <3> HIDE DEF B
    <3> QED
      BY <1>1, <3>1, <3>2
  <2>2. After(i, n, low) = Min({a + 2, n}) .. Min({b + 1, n})
    BY <1>3 DEF After
  <2>3. Bucket(i, n, low) = B(d - 1) + 2 .. a + 1 /\ B(d - 1) \in Nat
    <3>1. d - 1 \in 0 .. MaxPts - 1
      BY <1>1
    <3> QED
      BY <1>3, <3>1, BucketIs, Bounds
  <2> DEFINE z == B(d - 1)
  <2> HIDE DEF a, b, z
  <2>4. Min({a + 2, n}) = a + 2 /\ Min({b + 1, n}) = n
    <3>1. a + 2 \in Int /\ b + 1 \in Int /\ n \in Int /\ a + 2 <= n /\ (b + 1 <= n => b + 1 = n)
      BY <2>1
    <3> QED
      BY <3>1, MinOfTwo
  <2>5. After(i, n, low) = a + 2 .. n
    BY <2>2, <2>4
  <2>6. Bucket(i, n, low) = z + 2 .. a + 1 /\ z \in Nat
    BY <2>3 DEF z
  <2>7. CASE a = n - 2
    <3>1. a + 2 .. n = {n}
      BY <2>1, <2>7
    <3> QED
      BY <1>1, <1>3, <2>5, <3>1
  <2>8. CASE a = n - 3
    <3>1. a + 2 .. n = {n - 1, n}
      BY <2>1, <2>8
    <3>2. \A j \in z + 2 .. a + 1 : j < n - 1
      BY <2>1, <2>6, <2>8
    <3> QED
      BY <1>1, <1>3, <2>5, <2>6, <3>1, <3>2
  <2> QED
    BY <2>1, <2>7, <2>8
<1> QED
  BY <1>2, <1>3

\* The buckets leave out no row but the first, the last and the one before.
LEMMA InABucket ==
  ASSUME NEW n \in Nat, MaxPts < n, NEW low \in SUBSET MayRoundDown(n), NEW j \in 2 .. n - 2
  PROVE  \E i \in 1 .. MaxPts - 2 : j \in Bucket(i, n, low)
<1> DEFINE B(k) == Bound(k, n, low)
           d == MaxPts - 2
           Reach == {k \in Nat : k \in 1 .. d /\ j <= B(k) + 1}
<1>1. d \in Nat \ {0} /\ B(d) \in {n - 3, n - 2} /\ B(0) = 0
  BY Bounds, GraphAssumption
<1>2. d \in Reach
  BY <1>1
<1>3. PICK i \in Reach : \A k \in Reach : i <= k
  <2>1. Reach \in SUBSET Nat /\ Reach # {}
    BY <1>2
  <2> HIDE DEF Reach
  <2> QED
    BY <2>1, LeastNatural
<1>4. i \in 1 .. d /\ i \in Nat /\ j <= B(i) + 1
  OBVIOUS
<1>5. B(i - 1) + 2 <= j
  <2>1. CASE i = 1
    <3>1. B(i - 1) = 0
      BY <1>1, <2>1
    <3> HIDE DEF B
    <3> QED
      BY <3>1
  <2>2. CASE i # 1
    <3>1. i - 1 \in Nat /\ i - 1 \in 1 .. d /\ ~ (i <= i - 1)
      BY <1>1, <1>4, <2>2
    <3>2. i - 1 \notin Reach
      <4> HIDE DEF Reach
      <4> QED
        BY <1>3, <3>1
    <3>3. ~ (j <= B(i - 1) + 1)
      BY <3>1, <3>2
    <3>4. B(i - 1) \in Nat
      <4>1. i - 1 \in 0 .. MaxPts - 1
        BY <3>1, GraphAssumption
      <4> QED
        BY <4>1, Bounds
    <3> HIDE DEF B
    <3> QED
      BY <3>3, <3>4
  <2> QED
    BY <2>1, <2>2
<1>6. B(i - 1) \in Nat /\ B(i) \in Nat
  <2>1. i - 1 \in 0 .. MaxPts - 1 /\ i \in 0 .. MaxPts - 1
    BY <1>1, <1>4, GraphAssumption
  <2> QED
    BY <2>1, Bounds
<1>7. Bucket(i, n, low) = B(i - 1) + 2 .. B(i) + 1
  BY <1>4, BucketIs
<1>8. j \in B(i - 1) + 2 .. B(i) + 1
  <2> HIDE DEF B
  <2> QED
    BY <1>4, <1>5, <1>6
<1> QED
  BY <1>4, <1>7, <1>8

\* The rows of the next bucket are later ones.
LEMMA BucketsInOrder ==
  ASSUME NEW n \in Nat, MaxPts < n, NEW low \in SUBSET MayRoundDown(n), NEW i \in 1 .. MaxPts - 2,
         i # MaxPts - 2, NEW j \in Bucket(i, n, low), NEW k \in Bucket(i + 1, n, low)
  PROVE  j < k
<1> DEFINE a == Bound(i - 1, n, low)
           b == Bound(i, n, low)
           c == Bound(i + 1, n, low)
<1>1. i + 1 \in 1 .. MaxPts - 2 /\ (i + 1) - 1 = i /\ i - 1 \in 0 .. MaxPts - 1
      /\ i \in 0 .. MaxPts - 1 /\ i + 1 \in 0 .. MaxPts - 1
  BY GraphAssumption
<1>2. a \in Nat /\ b \in Nat /\ c \in Nat
  BY <1>1, Bounds
<1>3. Bucket(i, n, low) = a + 2 .. b + 1 /\ Bucket(i + 1, n, low) = b + 2 .. c + 1
  BY <1>1, BucketIs
<1> HIDE DEF a, b, c
<1> QED
  BY <1>2, <1>3

-----------------------------------------------------------------------------
(* The row a bucket keeps. *)

\* One of finitely many values is the greatest.
LEMMA GreatestValue ==
  ASSUME NEW lo \in Nat, NEW hi \in Nat, lo <= hi, NEW f, \A j \in lo .. hi : f[j] \in Int
  PROVE  \E j \in lo .. hi : \A k \in lo .. hi : f[k] <= f[j]
<1> DEFINE Top(j, n) == j \in lo .. n /\ \A k \in lo .. n : f[k] <= f[j]
           Bad == {n \in Nat : n \in lo .. hi /\ ~ \E j : Top(j, n)}
<1>1. ASSUME NEW n \in Bad, \A m \in Bad : n <= m
      PROVE  FALSE
  <2>1. CASE n = lo
    <3>1. f[lo] \in Int
      OBVIOUS
    <3>2. Top(lo, n)
      BY <2>1, <3>1
    <3> QED
      BY <3>2
  <2>2. CASE n # lo
    <3>1. n - 1 \in Nat /\ n - 1 \in lo .. hi /\ n \in lo .. hi
      BY <2>2
    <3>2. n - 1 \notin Bad
      <4> HIDE DEF Bad
      <4> QED
        BY <1>1, <3>1
    <3>3. \E j : Top(j, n - 1)
      <4> HIDE DEF Top
      <4> QED
        BY <3>1, <3>2
    <3>4. PICK j : Top(j, n - 1)
      BY <3>3
    <3>5. f[j] \in Int /\ f[n] \in Int /\ j \in lo .. n
      BY <3>1, <3>4
    <3>6. CASE f[n] <= f[j]
      <4>1. Top(j, n)
        BY <3>1, <3>4, <3>5, <3>6
      <4> QED
        BY <4>1
    <3>7. CASE f[j] < f[n]
      <4>1. \A k \in lo .. n - 1 : f[k] \in Int /\ f[k] <= f[j]
        BY <3>1, <3>4
      <4>2. Top(n, n)
        BY <3>1, <3>5, <3>7, <4>1
      <4> QED
        BY <4>2
    <3> QED
      BY <3>5, <3>6, <3>7
  <2> QED
    BY <2>1, <2>2
<1>2. Bad = {}
  <2>1. Bad \in SUBSET Nat
    OBVIOUS
  <2> HIDE DEF Bad
  <2> QED
    BY <1>1, <2>1, LeastNatural
<1>3. \E j : Top(j, hi)
  <2>1. hi \notin Bad
    <3> HIDE DEF Bad
    <3> QED
      BY <1>2
  <2> HIDE DEF Top
  <2> QED
    BY <2>1
<1> QED
  BY <1>3

\* The sums of sampleData, named to be spoken of.
SumOfT(data, S) == MapThenSumSet(LAMBDA j : T(data[j]), S)

SumOfV(data, S) == MapThenSumSet(LAMBDA j : V(data[j]), S)

\* They are sums of numbers.
LEMMA SumsOfT ==
  ASSUME NEW data, NEW S, IsFiniteSet(S), \A j \in S : T(data[j]) \in Int
  PROVE  SumOfT(data, S) = SumOver([j \in S |-> T(data[j])], S)
<1> DEFINE w == [j \in S |-> T(data[j])]
           Solves(h) == h = [s \in SUBSET S |->
                               IF s = {} THEN 0
                               ELSE T(data[CHOOSE x \in s : TRUE]) + h[s \ {CHOOSE x \in s : TRUE}]]
<1>1. SumOfT(data, S) = (CHOOSE h : Solves(h))[S]
  BY DEF SumOfT, MapThenSumSet, MapThenFoldSet
<1>2. \A s \in SUBSET S : s # {} => w[CHOOSE x \in s : TRUE] = T(data[CHOOSE x \in s : TRUE])
  OBVIOUS
<1>3. \A h : Solves(h) <=> IsSum(h, w, S)
  <2> SUFFICES ASSUME NEW h PROVE Solves(h) <=> IsSum(h, w, S)
    OBVIOUS
  <2>1. [s \in SUBSET S |->
           IF s = {} THEN 0
           ELSE T(data[CHOOSE x \in s : TRUE]) + h[s \ {CHOOSE x \in s : TRUE}]]
        = [s \in SUBSET S |->
             IF s = {} THEN 0
             ELSE w[CHOOSE x \in s : TRUE] + h[s \ {CHOOSE x \in s : TRUE}]]
    <3> HIDE DEF w
    <3> QED
      BY <1>2
  <2> HIDE DEF w
  <2> QED
    BY <2>1 DEF IsSum
<1>4. \A x \in S : w[x] \in Int
  OBVIOUS
<1> HIDE DEF w, Solves
<1>5. \E h : Solves(h)
  BY <1>3, <1>4, SumExists
<1>6. Solves(CHOOSE h : Solves(h))
  BY <1>5
<1>7. SumOver(w, S) = (CHOOSE h : Solves(h))[S]
  BY <1>3, <1>4, <1>6, SumIs
<1> QED
  BY <1>1, <1>7 DEF w

\* So are those of the values.
LEMMA SumsOfV ==
  ASSUME NEW data, NEW S, IsFiniteSet(S), \A j \in S : V(data[j]) \in Int
  PROVE  SumOfV(data, S) = SumOver([j \in S |-> V(data[j])], S)
<1> DEFINE w == [j \in S |-> V(data[j])]
           Solves(h) == h = [s \in SUBSET S |->
                               IF s = {} THEN 0
                               ELSE V(data[CHOOSE x \in s : TRUE]) + h[s \ {CHOOSE x \in s : TRUE}]]
<1>1. SumOfV(data, S) = (CHOOSE h : Solves(h))[S]
  BY DEF SumOfV, MapThenSumSet, MapThenFoldSet
<1>2. \A s \in SUBSET S : s # {} => w[CHOOSE x \in s : TRUE] = V(data[CHOOSE x \in s : TRUE])
  OBVIOUS
<1>3. \A h : Solves(h) <=> IsSum(h, w, S)
  <2> SUFFICES ASSUME NEW h PROVE Solves(h) <=> IsSum(h, w, S)
    OBVIOUS
  <2>1. [s \in SUBSET S |->
           IF s = {} THEN 0
           ELSE V(data[CHOOSE x \in s : TRUE]) + h[s \ {CHOOSE x \in s : TRUE}]]
        = [s \in SUBSET S |->
             IF s = {} THEN 0
             ELSE w[CHOOSE x \in s : TRUE] + h[s \ {CHOOSE x \in s : TRUE}]]
    <3> HIDE DEF w
    <3> QED
      BY <1>2
  <2> HIDE DEF w
  <2> QED
    BY <2>1 DEF IsSum
<1>4. \A x \in S : w[x] \in Int
  OBVIOUS
<1> HIDE DEF w, Solves
<1>5. \E h : Solves(h)
  BY <1>3, <1>4, SumExists
<1>6. Solves(CHOOSE h : Solves(h))
  BY <1>5
<1>7. SumOver(w, S) = (CHOOSE h : Solves(h))[S]
  BY <1>3, <1>4, <1>6, SumIs
<1> QED
  BY <1>1, <1>7 DEF w

\* Data whose rows have points.
IsData(data) == /\ data \in Seq(1 .. Len(points)) /\ Len(data) \in Nat
                /\ \A j \in 1 .. Len(data) : T(data[j]) \in Int /\ V(data[j]) \in {0, 1}

\* What sampleData knows of the rows after bucket i.
LEMMA AfterFacts ==
  ASSUME NEW data, IsData(data), MaxPts < Len(data),
         NEW low \in SUBSET MayRoundDown(Len(data)), NEW i \in 1 .. MaxPts - 2
  PROVE  LET next == After(i, Len(data), low)
         IN  /\ next \in SUBSET (1 .. Len(data)) /\ IsFiniteSet(next) /\ Cardinality(next) \in Nat
             /\ SumOfT(data, next) \in Int /\ SumOfV(data, next) \in Int
<1> DEFINE n == Len(data)
           B(k) == Bound(k, n, low)
           next == After(i, n, low)
<1>1. n \in Nat /\ B(i) \in Nat /\ B(i + 1) \in Nat
  <2>1. i \in 0 .. MaxPts - 1 /\ i + 1 \in 0 .. MaxPts - 1 /\ n \in Nat /\ MaxPts < n
    BY GraphAssumption DEF IsData
  <2> HIDE DEF n
  <2>2. \A k \in 0 .. MaxPts - 1 : Bound(k, n, low) \in Nat
    BY <2>1, Bounds DEF n
  <2> QED
    BY <2>1, <2>2
<1>2. Min({B(i) + 2, n}) \in Nat \ {0} /\ Min({B(i + 1) + 1, n}) \in Nat /\ Min({B(i + 1) + 1, n}) <= n
  <2> HIDE DEF B
  <2>1. n > 0 /\ n \in Int
    BY <1>1, GraphAssumption DEF IsData
  <2>2. /\ Min({B(i) + 2, n}) = IF B(i) + 2 <= n THEN B(i) + 2 ELSE n
        /\ Min({B(i + 1) + 1, n}) = IF B(i + 1) + 1 <= n THEN B(i + 1) + 1 ELSE n
    BY <1>1, <2>1, MinOfTwo
  <2> QED
    BY <1>1, <2>1, <2>2
<1>3. next \in SUBSET (1 .. n) /\ IsFiniteSet(next)
  <2> DEFINE a == Min({B(i) + 2, n})
             b == Min({B(i + 1) + 1, n})
  <2>1. next = a .. b
    BY DEF After
  <2> HIDE DEF a, b
  <2>2. a \in Nat \ {0} /\ b \in Nat /\ b <= n
    BY <1>2 DEF a, b
  <2>3. IsFiniteSet(a .. b)
    BY <2>2, FS_Interval
  <2> QED
    BY <1>1, <2>1, <2>2, <2>3
<1> HIDE DEF next
<1>4. Cardinality(next) \in Nat
  BY <1>3, FS_CardinalityType
<1>5. \A j \in next : T(data[j]) \in Int /\ V(data[j]) \in Int
  BY <1>3 DEF IsData
<1>6. SumOfT(data, next) \in Int
  <2> DEFINE w == [j \in next |-> T(data[j])]
  <2>1. \A j \in next : w[j] \in Int
    BY <1>5
  <2>2. SumOfT(data, next) = SumOver(w, next)
    BY <1>3, <1>5, SumsOfT
  <2> HIDE DEF w
  <2> QED
    BY <1>3, <2>1, <2>2, SumType
<1>7. SumOfV(data, next) \in Int
  <2> DEFINE w == [j \in next |-> V(data[j])]
  <2>1. \A j \in next : w[j] \in Int
    BY <1>5
  <2>2. SumOfV(data, next) = SumOver(w, next)
    BY <1>3, <1>5, SumsOfV
  <2> HIDE DEF w
  <2> QED
    BY <1>3, <2>1, <2>2, SumType
<1> QED
  BY <1>3, <1>4, <1>6, <1>7 DEF next

\* The area of row j, as sampleData compares it.
AreaAt(data, before, i, low, j) ==
  LET next == After(i, Len(data), low)
  IN  Area(data[before], data[j], SumOfT(data, next), SumOfV(data, next),
           Max({Cardinality(next), 1}))

\* The areas sampleData compares are whole numbers, not negative.
LEMMA AreasAreNumbers ==
  ASSUME NEW data, IsData(data), MaxPts < Len(data),
         NEW low \in SUBSET MayRoundDown(Len(data)), NEW i \in 1 .. MaxPts - 2,
         NEW before \in 1 .. Len(data), NEW j \in 1 .. Len(data)
  PROVE  AreaAt(data, before, i, low, j) \in Int
<1> DEFINE next == After(i, Len(data), low)
           p == data[before]
           q == data[j]
           a == SumOfT(data, next)
           b == SumOfV(data, next)
           count == Max({Cardinality(next), 1})
<1>1. /\ T(p) \in Int /\ V(p) \in Int /\ T(q) \in Int /\ V(q) \in Int
  BY DEF IsData
<1>2. a \in Int /\ b \in Int /\ Cardinality(next) \in Nat
  BY AfterFacts
<1>3. count \in Int
  BY <1>2, MaxOfTwo
<1> HIDE DEF next, p, q, a, b, count
<1>4. AreaAt(data, before, i, low, j) = Area(p, q, a, b, count)
  BY DEF AreaAt, next, p, q, a, b, count
<1>5. ASSUME NEW tp \in Int, NEW vp \in Int, NEW tq \in Int, NEW vq \in Int,
             NEW x \in Int, NEW y \in Int, NEW z \in Int
      PROVE  Abs(tp * (z * vq - y) + tq * (y - z * vp) + x * (vp - vq)) \in Int
  <2>1. z * vq - y \in Int /\ y - z * vp \in Int
    OBVIOUS
  <2>2. tp * (z * vq - y) \in Int /\ tq * (y - z * vp) \in Int /\ x * (vp - vq) \in Int
    BY <2>1
  <2> QED
    BY <2>2 DEF Abs
<1>6. Abs(T(p) * (count * V(q) - b) + T(q) * (b - count * V(p)) + a * (V(p) - V(q))) \in Int
  BY <1>1, <1>2, <1>3, <1>5, Zenon
<1> QED
  BY <1>4, <1>6, Zenon DEF Area

\* The row kept is one of the bucket, with the largest area.
LEMMA KeptIs ==
  ASSUME NEW data, IsData(data), MaxPts < Len(data),
         NEW low \in SUBSET MayRoundDown(Len(data)), NEW i \in 1 .. MaxPts - 2,
         NEW before \in 1 .. Len(data)
  PROVE  LET k == Kept(data, before, i, low)
         IN  /\ k \in Bucket(i, Len(data), low)
             /\ \A j \in Bucket(i, Len(data), low) :
                  AreaAt(data, before, i, low, j) <= AreaAt(data, before, i, low, k)
<1> DEFINE n == Len(data)
           D == Bucket(i, n, low)
           area == [j \in D |-> AreaAt(data, before, i, low, j)]
           Best == {j \in D : \A k \in D : area[k] <= area[j]}
<1>1. Kept(data, before, i, low) = Min(Best)
  BY DEF Kept, AreaAt, SumOfT, SumOfV
<1>2. /\ D = Bound(i - 1, n, low) + 2 .. Bound(i, n, low) + 1
      /\ D # {} /\ D \in SUBSET (2 .. n - 1) /\ n \in Nat
  BY BucketIs DEF IsData
<1>3. \A j \in D : area[j] \in Int
  <2>1. \A j \in D : j \in 1 .. n
    BY <1>2
  <2> QED
    BY <2>1, AreasAreNumbers
<1>4. Bound(i - 1, n, low) \in Nat /\ Bound(i, n, low) \in Nat
  <2>1. i - 1 \in 0 .. MaxPts - 1 /\ i \in 0 .. MaxPts - 1
    BY GraphAssumption
  <2> HIDE DEF n
  <2>2. \A k \in 0 .. MaxPts - 1 : Bound(k, n, low) \in Nat
    BY <1>2, Bounds DEF n
  <2> QED
    BY <2>1, <2>2
<1> HIDE DEF area
<1>5. Best # {} /\ Best \in SUBSET Nat
  <2> DEFINE lo == Bound(i - 1, n, low) + 2
             hi == Bound(i, n, low) + 1
  <2>1. D = lo .. hi /\ lo \in Nat /\ hi \in Nat /\ D # {}
    BY <1>2, <1>4
  <2> HIDE DEF D, lo, hi
  <2>2. lo <= hi
    BY <2>1
  <2>3. \E j \in lo .. hi : \A k \in lo .. hi : area[k] <= area[j]
    BY <1>3, <2>1, <2>2, GreatestValue
  <2>4. D \in SUBSET Nat
    BY <2>1
  <2> QED
    BY <2>1, <2>3, <2>4
<1> HIDE DEF Best
<1>6. Min(Best) \in Best
  BY <1>5, MinOfNaturals
<1>7. Min(Best) \in D /\ \A k \in D : area[k] <= area[Min(Best)]
  BY <1>6 DEF Best
<1> QED
  BY <1>1, <1>7 DEF area

-----------------------------------------------------------------------------
(* The rows sampleData keeps. *)

\* The loop of sampleData: the rows kept after each bucket.
IsSampling(f, data, low) ==
  f = [i \in 0 .. MaxPts - 2 |->
         IF i = 0 THEN <<1>>
         ELSE LET before == f[i - 1]
              IN  IF Bucket(i, Len(data), low) = {} THEN before
                  ELSE Append(before, Kept(data, Last(before), i, low))]

\* There is one.
LEMMA SamplingExists ==
  ASSUME NEW data, IsData(data), MaxPts < Len(data),
         NEW low \in SUBSET MayRoundDown(Len(data))
  PROVE  \E f : IsSampling(f, data, low)
<1> DEFINE n == Len(data)
           d == MaxPts - 2
           Lists == {s \in Seq(1 .. n) : s # << >>}
           Step(i, s) == IF Bucket(i, n, low) = {} THEN s
                         ELSE Append(s, Kept(data, Last(s), i, low))
           op == [p \in (1 .. d) \X Lists |-> Step(p[1], p[2])]
           first == <<1>>
<1>1. n \in Nat /\ d \in Nat /\ 1 \in 1 .. n
  BY GraphAssumption DEF IsData
<1>2. first \in Lists
  BY <1>1
<1>3. ASSUME NEW i \in 1 .. d, NEW s \in Lists
      PROVE  Step(i, s) \in Lists
  <2>1. Last(s) \in 1 .. n
    BY <1>1 DEF Last
  <2> DEFINE k == Kept(data, Last(s), i, low)
  <2>2. k \in Bucket(i, n, low)
    BY <2>1, KeptIs
  <2>3. Bucket(i, n, low) \in SUBSET (2 .. n - 1)
    BY <1>1, BucketIs
  <2>4. k \in 1 .. n
    BY <1>1, <2>2, <2>3
  <2>5. Step(i, s) = Append(s, k)
    BY <2>2
  <2> HIDE DEF k
  <2>6. Append(s, k) \in Seq(1 .. n) /\ Append(s, k) # << >>
    BY <1>1, <2>4
  <2> QED
    BY <2>5, <2>6
<1>4. op \in [(1 .. d) \X Lists -> Lists]
  <2> HIDE DEF Step, Lists, d
  <2> QED
    BY <1>3
<1>5. \E f : IsLoop(f, d, Lists, first, op)
  <2> HIDE DEF op, Lists, first, d
  <2> QED
    BY <1>1, <1>2, <1>4, LoopExists
<1>6. PICK f : IsLoop(f, d, Lists, first, op)
  BY <1>5
<1>7. /\ f \in [0 .. d -> Lists] /\ f[0] = first
      /\ \A i \in 1 .. d : f[i] = op[<<i, f[i - 1]>>]
  BY <1>6 DEF IsLoop
<1>8. ASSUME NEW i \in 0 .. d
      PROVE  f[i] = IF i = 0 THEN first ELSE Step(i, f[i - 1])
  <2>1. CASE i = 0
    BY <1>7, <2>1
  <2>2. CASE i # 0
    <3> HIDE DEF Lists, Step, first, d
    <3>1. i \in 1 .. d /\ i - 1 \in 0 .. d
      BY <1>1, <2>2
    <3>2. f[i - 1] \in Lists
      BY <1>7, <3>1
    <3>3. op[<<i, f[i - 1]>>] = Step(i, f[i - 1])
      BY <3>1, <3>2
    <3> QED
      BY <1>7, <2>2, <3>1, <3>3
  <2> QED
    BY <2>1, <2>2
<1>9. f = [i \in 0 .. d |-> IF i = 0 THEN first ELSE Step(i, f[i - 1])]
  <2> HIDE DEF Step, first, d, Lists, op
  <2> QED
    BY <1>7, <1>8
<1>10. IsSampling(f, data, low)
  BY <1>9, Zenon DEF IsSampling
<1> QED
  BY <1>10

\* What sampleData returns of more than MaxPts rows: the first row, of each bucket the one
\* it keeps, the last row.
IsSample(kept, data, low) ==
  /\ kept \in Seq(1 .. Len(data)) /\ Len(kept) = MaxPts - 1
  /\ kept[1] = 1
  /\ \A k \in 2 .. MaxPts - 1 : kept[k] = Kept(data, kept[k - 1], k - 1, low)

\* There is such a list of kept rows, and sampleData adds the last row to it.
LEMMA SampleIs ==
  ASSUME NEW data, IsData(data), MaxPts < Len(data),
         NEW low \in SUBSET MayRoundDown(Len(data))
  PROVE  \E kept : /\ IsSample(kept, data, low)
                   /\ sampleData(data, low) = Append(kept, Len(data))
<1> DEFINE n == Len(data)
           d == MaxPts - 2
           f == CHOOSE g : IsSampling(g, data, low)
<1>1. n \in Nat /\ d \in Nat \ {0} /\ 1 \in 1 .. n /\ MaxPts < n /\ ~(n <= MaxPts)
  BY GraphAssumption DEF IsData
<1>2. IsSampling(f, data, low)
  BY SamplingExists
<1>3. sampleData(data, low) = Append(f[d], n)
  BY <1>1, Zenon DEF sampleData, IsSampling
<1> HIDE DEF f
<1>4. f = [i \in 0 .. d |->
             IF i = 0 THEN <<1>>
             ELSE IF Bucket(i, n, low) = {} THEN f[i - 1]
             ELSE Append(f[i - 1], Kept(data, Last(f[i - 1]), i, low))]
  BY <1>2, Zenon DEF IsSampling
<1> DEFINE Val(i) == IF i = 0 THEN <<1>>
                     ELSE IF Bucket(i, n, low) = {} THEN f[i - 1]
                     ELSE Append(f[i - 1], Kept(data, Last(f[i - 1]), i, low))
<1>5. \A i \in 0 .. d : f[i] = Val(i)
  <2>1. f = [i \in 0 .. d |-> Val(i)]
    BY <1>4, Zenon
  <2> HIDE DEF Val, d
  <2> QED
    BY <2>1
<1>6. f[0] = <<1>>
  <2>1. 0 \in 0 .. d
    BY <1>1
  <2> HIDE DEF d
  <2> QED
    BY <1>5, <2>1, Zenon
<1>7. ASSUME NEW i \in 1 .. d
      PROVE  f[i] = Append(f[i - 1], Kept(data, Last(f[i - 1]), i, low))
  <2>1. i \in 0 .. d /\ i # 0
    BY <1>1
  <2>2. Bucket(i, n, low) # {}
    BY <1>1, BucketIs
  <2> HIDE DEF d
  <2> QED
    BY <1>5, <2>1, <2>2, Zenon
<1> DEFINE Good(i) == LET s == f[i]
                      IN  /\ s \in Seq(1 .. n) /\ Len(s) = i + 1 /\ s[1] = 1
                          /\ \A k \in 2 .. i + 1 : s[k] = Kept(data, s[k - 1], k - 1, low)
           Bad == {i \in Nat : i <= d /\ ~ Good(i)}
<1>8. ASSUME NEW i \in Bad, \A k \in Bad : i <= k
      PROVE  FALSE
  <2>1. CASE i = 0
    <3>1. <<1>> \in Seq(1 .. n) /\ Len(<<1>>) = 1 /\ <<1>>[1] = 1
      BY <1>1
    <3>2. Good(0)
      BY <1>6, <3>1
    <3> QED
      BY <2>1, <3>2
  <2>2. CASE i # 0
    <3>1. i \in 1 .. d /\ i - 1 \in Nat /\ i \in Nat /\ i - 1 <= d
      BY <1>1, <2>2
    <3>2. i - 1 \notin Bad
      <4> HIDE DEF Bad
      <4> QED
        BY <1>8, <3>1
    <3>3. Good(i - 1)
      <4> HIDE DEF Good
      <4> QED
        BY <3>1, <3>2
    <3> DEFINE s == f[i - 1]
               t == f[i]
               k == Kept(data, Last(s), i, low)
    <3>4. s \in Seq(1 .. n) /\ Len(s) = i /\ s[1] = 1
      BY <3>1, <3>3
    <3>5. \A j \in 2 .. i : s[j] = Kept(data, s[j - 1], j - 1, low)
      BY <3>1, <3>3
    <3>6. t = Append(s, k)
      BY <1>7, <3>1
    <3>7. Last(s) = s[i] /\ s[i] \in 1 .. n
      BY <3>1, <3>4 DEF Last
    <3>8. k \in 1 .. n /\ k = Kept(data, s[i], i, low)
      <4>1. k \in Bucket(i, n, low)
        BY <1>1, <3>1, <3>7, KeptIs
      <4>2. Bucket(i, n, low) \in SUBSET (2 .. n - 1)
        BY <1>1, <3>1, BucketIs
      <4> HIDE DEF k
      <4>3. k \in 1 .. n
        BY <1>1, <4>1, <4>2
      <4> QED
        BY <3>7, <4>3 DEF k
    <3> HIDE DEF k, s, t
    <3>9. /\ t \in Seq(1 .. n) /\ Len(t) = i + 1 /\ t[i + 1] = k
          /\ \A j \in 1 .. i : t[j] = s[j]
      BY <3>1, <3>4, <3>6, <3>8
    <3>10. ASSUME NEW j \in 2 .. i + 1 PROVE t[j] = Kept(data, t[j - 1], j - 1, low)
      <4>1. CASE j = i + 1
        <5>1. j - 1 = i /\ t[i] = s[i]
          <6> HIDE DEF Bad, Good, d
          <6>1. i \in Nat /\ i \in 1 .. i
            BY <3>1
          <6> QED
            BY <3>9, <4>1, <6>1
        <5> QED
          BY <3>8, <3>9, <4>1, <5>1
      <4>2. CASE j # i + 1
        <5>1. j \in 2 .. i /\ j \in 1 .. i /\ j - 1 \in 1 .. i
          BY <3>1, <4>2
        <5>2. t[j] = s[j] /\ t[j - 1] = s[j - 1]
          BY <3>9, <5>1
        <5> QED
          BY <3>5, <5>1, <5>2
      <4> QED
        BY <4>1, <4>2
    <3>11. t[1] = 1
      BY <3>1, <3>4, <3>9
    <3>12. Good(i)
      BY <3>9, <3>10, <3>11 DEF t
    <3> QED
      BY <3>12
  <2> QED
    BY <2>1, <2>2
<1>9. Bad = {}
  <2> HIDE DEF Good
  <2>1. Bad \in SUBSET Nat
    OBVIOUS
  <2> HIDE DEF Bad
  <2> QED
    BY <1>8, <2>1, LeastNatural
<1>10. Good(d)
  <2>1. d \notin Bad /\ d \in Nat
    <3> HIDE DEF Bad, Good
    <3> QED
      BY <1>1, <1>9
  <2> HIDE DEF Good
  <2> QED
    BY <2>1
<1>11. d + 1 = MaxPts - 1
  BY GraphAssumption
<1>12. IsSample(f[d], data, low)
  <2>1. Len(f[d]) = MaxPts - 1 /\ \A k \in 2 .. MaxPts - 1 : k \in 2 .. d + 1
    BY <1>10, <1>11
  <2> QED
    BY <1>10, <2>1 DEF IsSample
<1> QED
  BY <1>3, <1>12

\* Up to MaxPts rows are all drawn.
LEMMA AllDrawn ==
  ASSUME NEW data, IsData(data), Len(data) <= MaxPts, NEW low
  PROVE  /\ sampleData(data, low) = [j \in 1 .. Len(data) |-> j]
         /\ Len(sampleData(data, low)) = Len(data)
<1> DEFINE n == Len(data)
           id == [j \in 1 .. n |-> j]
<1>1. n \in Nat /\ n <= MaxPts
  BY DEF IsData
<1>2. sampleData(data, low) = id
  BY <1>1, Zenon DEF sampleData
<1>3. id \in [1 .. n -> 1 .. n]
  OBVIOUS
<1>4. Len(id) = n
  <2> HIDE DEF id, n
  <2> QED
    BY <1>1, <1>3
<1> QED
  BY <1>2, <1>4

\* Of more, one of each bucket, where the buckets are.
LEMMA SampleBetween ==
  ASSUME NEW data, IsData(data), MaxPts < Len(data),
         NEW low \in SUBSET MayRoundDown(Len(data)), NEW kept, IsSample(kept, data, low),
         NEW k \in 2 .. MaxPts - 1
  PROVE  /\ kept[k] \in Nat
         /\ Bound(k - 2, Len(data), low) + 2 <= kept[k]
         /\ kept[k] <= Bound(k - 1, Len(data), low) + 1
<1> DEFINE n == Len(data)
<1>1. n \in Nat /\ MaxPts \in Nat /\ k - 1 \in 1 .. MaxPts - 2 /\ k - 1 \in 1 .. MaxPts - 1
      /\ (k - 1) - 1 = k - 2
  BY GraphAssumption DEF IsData
<1>2. kept[k - 1] \in 1 .. n /\ kept[k] = Kept(data, kept[k - 1], k - 1, low)
  BY <1>1 DEF IsSample
<1>3. kept[k] \in Bucket(k - 1, n, low)
  BY <1>1, <1>2, KeptIs
<1>4. /\ Bucket(k - 1, n, low) = Bound(k - 2, n, low) + 2 .. Bound(k - 1, n, low) + 1
      /\ Bucket(k - 1, n, low) \in SUBSET (2 .. n - 1)
  BY <1>1, BucketIs
<1> HIDE DEF n
<1>5. kept[k] \in Nat
  BY <1>1, <1>3, <1>4
<1>6. Bound(k - 2, n, low) \in Nat /\ Bound(k - 1, n, low) \in Nat
  <2>1. k - 2 \in 0 .. MaxPts - 1 /\ k - 1 \in 0 .. MaxPts - 1
    BY <1>1
  <2>2. \A i \in 0 .. MaxPts - 1 : Bound(i, n, low) \in Nat
    BY <1>1, Bounds DEF n
  <2> QED
    BY <2>1, <2>2
<1> DEFINE a == Bound(k - 2, n, low)
           b == Bound(k - 1, n, low)
<1> HIDE DEF a, b
<1>7. kept[k] \in a + 2 .. b + 1 /\ a \in Nat /\ b \in Nat
  BY <1>3, <1>4, <1>6 DEF a, b
<1>8. a + 2 <= kept[k] /\ kept[k] <= b + 1
  BY <1>7
<1> QED
  BY <1>5, <1>8 DEF a, b, n

\* Sampling skips no stretch of rows.
LEMMA SampleIsFair ==
  ASSUME NEW data, IsData(data), data # << >>, NEW low \in SUBSET MayRoundDown(Len(data))
  PROVE  FairSample(data, sampleData(data, low))
<1> DEFINE n == Len(data)
           s == sampleData(data, low)
<1>1. n \in Nat /\ n >= 1 /\ MaxPts \in Nat /\ MaxPts >= 3
  BY GraphAssumption DEF IsData
<1>2. CASE n <= MaxPts
  <2>1. s = [j \in 1 .. n |-> j] /\ Len(s) = n
    BY <1>2, AllDrawn
  <2> HIDE DEF s, n
  <2>2. Min({n, MaxPts}) = n
    BY <1>1, <1>2, MinOfTwo
  <2>3. s[1] = 1 /\ s[n] = n /\ \A k \in 1 .. n - 1 : s[k + 1] - s[k] = 1
    BY <1>1, <2>1
  <2>4. \A k \in 1 .. Len(s) - 1 : s[k + 1] - s[k] \in 1 .. 1
    <3> SUFFICES ASSUME NEW k \in 1 .. n - 1 PROVE s[k + 1] - s[k] \in 1 .. 1
      BY <2>1
    <3>1. s[k + 1] - s[k] = 1
      BY <2>3
    <3> QED
      BY <3>1
  <2> QED
    BY <1>2, <2>1, <2>2, <2>3, <2>4 DEF FairSample, s, n
<1>3. CASE MaxPts < n
  <2> DEFINE c == RowsPerBucket(n)
             B(i) == Bound(i, n, low)
             M == MaxPts
  <2>1. PICK kept : IsSample(kept, data, low) /\ s = Append(kept, n)
    BY <1>3, SampleIs
  <2>2. kept \in Seq(1 .. n) /\ Len(kept) = M - 1 /\ kept[1] = 1
    BY <2>1 DEF IsSample
  <2>3. /\ Len(s) = M /\ s[M] = n /\ s[1] = 1
        /\ \A k \in 1 .. M - 1 : s[k] = kept[k]
    <3> HIDE DEF s
    <3> QED
      BY <1>1, <2>1, <2>2
  <2>4. /\ c \in Nat /\ c >= 2
        /\ B(0) = 0 /\ B(M - 2) \in {n - 3, n - 2}
        /\ (n - 2) - B(M - 3) <= c + 1
        /\ B(1) <= c
        /\ \A i \in 0 .. M - 1 : B(i) \in Nat
        /\ \A i \in 2 .. M - 2 : B(i) - B(i - 2) <= 2 * c + 1
    BY <1>1, <1>3, Bounds
  <2>5. \A k \in 2 .. M - 1 : kept[k] \in Nat /\ B(k - 2) + 2 <= kept[k] /\ kept[k] <= B(k - 1) + 1
    BY <1>3, <2>1, SampleBetween
  <2>6. Min({n, M}) = M
    BY <1>1, <1>3, MinOfTwo
  <2>7. FairSample(data, s) <=>
          /\ Len(s) = Min({n, M})
          /\ s[1] = 1 /\ s[Len(s)] = n
          /\ \A k \in 1 .. Len(s) - 1 : s[k + 1] - s[k] \in 1 .. 2 * c
    BY <1>1, <1>3 DEF FairSample, RowsPerBucket
  <2> HIDE DEF s, c, B, M, n
  <2>8. M \in Nat /\ M >= 3
    BY <1>1 DEF M
  <2>9. ASSUME NEW k \in 1 .. M - 1
        PROVE  s[k + 1] - s[k] \in 1 .. 2 * c
    <3>1. CASE k = 1
      <4>1. k + 1 = 2 /\ 2 \in 2 .. M - 1 /\ 2 \in 1 .. M - 1 /\ 2 - 2 = 0 /\ 2 - 1 = 1 /\ 1 \in 0 .. M - 1
        BY <2>8, <3>1
      <4>2. kept[2] \in Nat /\ 2 <= kept[2] /\ kept[2] <= B(1) + 1 /\ B(1) \in Nat
        <5>1. kept[2] \in Nat /\ B(2 - 2) + 2 <= kept[2] /\ kept[2] <= B(2 - 1) + 1
          BY <2>5, <4>1
        <5> QED
          BY <2>4, <4>1, <5>1
      <4>3. s[2] = kept[2] /\ s[1] = 1
        BY <2>3, <4>1
      <4>4. s[2] - s[1] \in 1 .. 2 * c
        BY <2>4, <4>2, <4>3
      <4> QED
        BY <3>1, <4>1, <4>4
    <3>2. CASE k \in 2 .. M - 2
      <4> DEFINE x == kept[k]
                 y == kept[k + 1]
                 p == B(k - 2)
                 q == B(k - 1)
                 r == B(k)
      <4>1. /\ k + 1 \in 2 .. M - 1 /\ k \in 2 .. M - 1 /\ k + 1 \in 1 .. M - 1 /\ k \in 1 .. M - 1
            /\ k - 2 \in 0 .. M - 1 /\ k - 1 \in 0 .. M - 1 /\ k \in 0 .. M - 1
            /\ (k + 1) - 2 = k - 1 /\ (k + 1) - 1 = k
        BY <2>8, <3>2
      <4>2. s[k + 1] = y /\ s[k] = x
        BY <2>3, <4>1
      <4>3. x \in Nat /\ p + 2 <= x /\ x <= q + 1
        BY <2>5, <4>1
      <4>4. y \in Nat /\ q + 2 <= y /\ y <= r + 1
        <5>1. y \in Nat /\ B((k + 1) - 2) + 2 <= y /\ y <= B((k + 1) - 1) + 1
          BY <2>5, <4>1
        <5> QED
          BY <4>1, <5>1
      <4>5. p \in Nat /\ q \in Nat /\ r \in Nat
        BY <2>4, <4>1
      <4>6. r - p <= 2 * c + 1
        BY <2>4, <3>2
      <4>7. c \in Nat
        BY <2>4
      <4> HIDE DEF x, y, p, q, r
      <4>8. y - x \in 1 .. 2 * c
        BY <4>7, <4>3, <4>4, <4>5, <4>6
      <4> QED
        BY <4>2, <4>8
    <3>3. CASE k = M - 1
      <4> DEFINE x == kept[M - 1]
                 p == B(M - 3)
                 q == B(M - 2)
      <4>1. /\ M - 1 \in 2 .. M - 1 /\ M - 3 \in 0 .. M - 1 /\ M - 2 \in 0 .. M - 1
            /\ (M - 1) - 2 = M - 3 /\ (M - 1) - 1 = M - 2 /\ k + 1 = M
        BY <2>8, <3>3
      <4>2. s[k + 1] = n /\ s[k] = x
        BY <2>3, <3>3, <4>1
      <4>3. x \in Nat /\ p + 2 <= x /\ x <= q + 1
        <5>1. x \in Nat /\ B((M - 1) - 2) + 2 <= x /\ x <= B((M - 1) - 1) + 1
          BY <2>5, <4>1
        <5> QED
          BY <4>1, <5>1
      <4>4. p \in Nat /\ q \in {n - 3, n - 2} /\ (n - 2) - p <= c + 1 /\ c \in Nat /\ c >= 2 /\ n \in Nat
        BY <1>1, <2>4, <4>1
      <4> HIDE DEF x, p, q
      <4>5. n - x \in 1 .. 2 * c
        BY <4>3, <4>4
      <4> QED
        BY <4>2, <4>5
    <3> QED
      BY <2>8, <3>1, <3>2, <3>3
  <2>10. \A k \in 1 .. Len(s) - 1 : s[k + 1] - s[k] \in 1 .. 2 * c
    BY <2>3, <2>9
  <2> QED
    BY <2>3, <2>6, <2>7, <2>10 DEF s
<1> QED
  BY <1>1, <1>2, <1>3

\* What is loaded of the file, in whatever state: rows of samples that have points, in their
\* order.
LEMMA LoadedFacts ==
  ASSUME GInv, NEW h
  PROVE  /\ IsData(Loaded(h))
         /\ \A j, k \in 1 .. Len(Loaded(h)) : j < k => Loaded(h)[j] < Loaded(h)[k]
<1> DEFINE rows == LoadCSV(file)
           Q == {i \in DOMAIN rows : h = 0 \/ T(rows[i]) >= T(sample) - h}
           data == Loaded(h)
           N == Len(points)
<1>1. file \in GoodFiles /\ N \in Nat /\ sample \in Nat /\ sample <= N /\ points \in Seq(Timed)
  BY DEF GInv, SInv, StoreTypes, HasPoints
<1>2. \E end : rows = Read(file, end)
  BY DEF LoadCSV
<1>3. PICK end : rows = Read(file, end)
  BY <1>2
<1> DEFINE P == {i \in 2 .. end - 1 : file.lines[i].fields >= Width /\ file.lines[i].row # 0}
           s == [i \in 1 .. Len(file.lines) |-> file.lines[i].row]
<1>4. rows \in Seq(Nat) /\ (\E at : Places(at, rows, s, P)) /\ s \in Seq(Nat) /\ Len(s) = Len(file.lines)
  BY <1>1, <1>3, ReadFacts
<1>5. PICK at : Places(at, rows, s, P)
  BY <1>4
<1>6. /\ \A k \in 1 .. Len(rows) : /\ at[k] \in P /\ at[k] \in 1 .. Len(s)
                                   /\ rows[k] = s[at[k]]
      /\ \A j, k \in 1 .. Len(rows) : j < k => at[j] < at[k]
  <2> HIDE DEF P, s, rows
  <2> QED
    BY <1>5 DEF Places
<1>7. \A k \in 1 .. Len(rows) : /\ at[k] \in 1 .. Len(file.lines)
                                /\ rows[k] = file.lines[at[k]].row /\ rows[k] # 0
  BY <1>4, <1>6
<1>8. \A k \in 1 .. Len(rows) : rows[k] \in 1 .. N
  <2> SUFFICES ASSUME NEW k \in 1 .. Len(rows) PROVE rows[k] \in 1 .. N
    OBVIOUS
  <2>1. rows[k] \in Rows(file)
    BY <1>7, RowsOf
  <2>2. rows[k] \in Stored
    BY <2>1, StoredRows
  <2>3. rows[k] <= sample
    BY <2>2 DEF GInv, SInv, NewSample
  <2>4. rows[k] \in Nat /\ rows[k] # 0
    BY <1>4, <1>7
  <2> HIDE DEF rows, N
  <2> QED
    BY <1>1, <2>3, <2>4
<1>9. \A j, k \in 1 .. Len(rows) : j < k => rows[j] < rows[k]
  BY <1>6, <1>7 DEF GInv, RowsAscend
<1>10. data = Chosen(rows, Q)
  BY DEF Loaded
<1>11. rows \in Seq(1 .. N)
  <2> HIDE DEF rows
  <2> QED
    BY <1>4, <1>8
<1>12. data \in Seq(1 .. N) /\ \E e : Places(e, data, rows, Q)
  <2> HIDE DEF rows, Q
  <2> QED
    BY <1>10, <1>11, ChosenFacts
<1>13. PICK e : Places(e, data, rows, Q)
  BY <1>12
<1> HIDE DEF data, rows, Q
<1>14. /\ \A k \in 1 .. Len(data) : e[k] \in 1 .. Len(rows) /\ data[k] = rows[e[k]]
       /\ \A j, k \in 1 .. Len(data) : j < k => e[j] < e[k]
  BY <1>13 DEF Places
<1>15. \A j, k \in 1 .. Len(data) : j < k => data[j] < data[k]
  BY <1>9, <1>14
<1>16. \A j \in 1 .. N : T(j) \in Int /\ V(j) \in {0, 1}
  <2>1. \A j \in 1 .. N : points[j] \in Timed
    BY <1>1
  <2> HIDE DEF N
  <2> QED
    BY <2>1 DEF T, V, Timed
<1>17. IsData(data)
  BY <1>12, <1>16 DEF IsData
<1> QED
  BY <1>15, <1>17 DEF data

\* Every panel of every file that crashes, failed writes and rotations leave, for every
\* number of points and rows and every rounding of the bounds: no stretch of rows is
\* skipped.
THEOREM SamplesAreFair == GSpec => []SamplingIsFair
<1>1. ASSUME GInv PROVE SamplingIsFair
  <2> SUFFICES ASSUME NEW h \in Hours, NEW low \in SUBSET MayRoundDown(Len(Loaded(h))),
                      Loaded(h) # << >>
               PROVE  FairSample(Loaded(h), sampleData(Loaded(h), low))
    BY Zenon DEF SamplingIsFair, ForEachPanel
  <2> QED
    BY <1>1, LoadedFacts, SampleIsFair
<1> QED
  BY <1>1, GraphInv, PTL

-----------------------------------------------------------------------------
(* What stands out. *)

\* The mean of the rows after, all later than a time and not all zero or all zero: sums.
LEMMA SumsAfter ==
  ASSUME NEW data, IsData(data), NEW S \in SUBSET (1 .. Len(data)), IsFiniteSet(S), S # {},
         NEW t \in Int, \A j \in S : t < T(data[j])
  PROVE  /\ SumOfT(data, S) \in Int
         /\ Cardinality(S) * t < SumOfT(data, S)
         /\ (\A j \in S : V(data[j]) = 0) => SumOfV(data, S) = 0
<1>1. \A j \in S : T(data[j]) \in Int /\ V(data[j]) \in Int
  BY DEF IsData
<1> DEFINE w == [j \in S |-> T(data[j])]
           v == [j \in S |-> V(data[j])]
<1>2. SumOfT(data, S) = SumOver(w, S) /\ SumOfV(data, S) = SumOver(v, S)
  BY <1>1, SumsOfT, SumsOfV
<1>3. Cardinality(S) \in Nat /\ Cardinality(S) # 0
  BY FS_CardinalityType, FS_EmptySet
<1>4. SumOver(w, S) \in Int
  <2>1. \A j \in S : w[j] \in Int
    BY <1>1
  <2> HIDE DEF w
  <2> QED
    BY <2>1, SumType
<1>5. \E hi \in Int : \A j \in S : T(data[j]) <= hi
  <2> DEFINE f == [j \in 1 .. Len(data) |-> T(data[j])]
             n == Len(data)
  <2>1. n \in Nat /\ \A j \in 1 .. n : f[j] \in Int
    BY DEF IsData
  <2>2. n \in Nat /\ 1 <= n /\ 1 \in Nat /\ \A j \in 1 .. n : f[j] \in Int
    <3>1. \E j \in 1 .. n : TRUE
      OBVIOUS
    <3> HIDE DEF f, n
    <3> QED
      BY <2>1, <3>1
  <2>3. \E j \in 1 .. n : \A k \in 1 .. n : f[k] <= f[j]
    <3> HIDE DEF f, n
    <3> QED
      BY <2>2, GreatestValue
  <2>4. PICK j \in 1 .. n : \A k \in 1 .. n : f[k] <= f[j]
    BY <2>3
  <2>5. f[j] \in Int /\ \A k \in S : T(data[k]) <= f[j]
    BY <2>2, <2>4
  <2> QED
    BY <2>5
<1>6. Cardinality(S) * t < SumOver(w, S)
  <2>1. PICK hi \in Int : \A j \in S : T(data[j]) <= hi
    BY <1>5
  <2> DEFINE lo == t + 1
  <2>2. lo \in Int /\ \A j \in S : w[j] \in Int /\ lo <= w[j] /\ w[j] <= hi
    BY <1>1, <2>1
  <2> HIDE DEF lo, w
  <2>3. Cardinality(S) * lo <= SumOver(w, S)
    BY <2>2, SumBetween
  <2>4. Cardinality(S) * (t + 1) = Cardinality(S) * t + Cardinality(S) /\ Cardinality(S) * t \in Int
    BY <1>3
  <2> QED
    BY <1>3, <1>4, <2>3, <2>4 DEF lo
<1>7. ASSUME \A j \in S : V(data[j]) = 0
      PROVE  SumOver(v, S) = 0
  <2>1. 0 \in Int /\ \A j \in S : v[j] \in Int /\ 0 <= v[j] /\ v[j] <= 0
    BY <1>7
  <2> HIDE DEF v
  <2>2. Cardinality(S) * 0 <= SumOver(v, S) /\ SumOver(v, S) <= Cardinality(S) * 0
    BY <2>1, SumBetween
  <2>3. SumOver(v, S) \in Int
    BY <2>1, SumType
  <2>4. Cardinality(S) * 0 = 0
    BY <1>3
  <2> QED
    BY <2>2, <2>3, <2>4
<1> QED
  BY <1>2, <1>4, <1>6, <1>7

\* The sums of the last row and the one before.
LEMMA SumsOfTwo ==
  ASSUME NEW data, IsData(data), NEW n, n = Len(data), n > 1
  PROVE  /\ SumOfT(data, {n - 1, n}) = T(data[n - 1]) + T(data[n])
         /\ SumOfV(data, {n - 1, n}) = V(data[n - 1]) + V(data[n])
         /\ Cardinality({n - 1, n}) = 2
<1> DEFINE S == {n - 1, n}
<1>1. n \in Nat /\ S \in SUBSET (1 .. n) /\ n - 1 # n
  BY DEF IsData
<1>2. IsFiniteSet(S) /\ Cardinality(S) = 2
  <2>1. IsFiniteSet({n}) /\ Cardinality({n}) = 1 /\ n - 1 \notin {n} /\ S = {n} \cup {n - 1}
    BY <1>1, FS_Singleton
  <2> HIDE DEF S
  <2>2. IsFiniteSet({n} \cup {n - 1}) /\ Cardinality({n} \cup {n - 1}) = Cardinality({n}) + 1
    BY <2>1, FS_AddElement
  <2> QED
    BY <2>1, <2>2
<1>3. \A j \in S : T(data[j]) \in Int /\ V(data[j]) \in Int
  BY <1>1 DEF IsData
<1>4. ASSUME NEW w, w[n - 1] \in Int, w[n] \in Int
      PROVE  SumOver(w, S) = w[n - 1] + w[n]
  <2>1. /\ {n - 1, n} \in SUBSET S /\ {n} \in SUBSET S
        /\ S \ {n - 1} = {n} /\ {n} \ {n} = {} /\ n - 1 \in S /\ n \in {n}
    BY <1>1
  <2>2. \A x \in S : w[x] \in Int
    BY <1>4
  <2> HIDE DEF S
  <2>3. SumOver(w, S) = w[n - 1] + SumOver(w, S \ {n - 1})
    BY <1>2, <2>1, <2>2, SumRemove
  <2>4. SumOver(w, {n}) = w[n] + SumOver(w, {n} \ {n})
    BY <1>2, <2>1, <2>2, SumRemove
  <2>5. SumOver(w, {}) = 0
    BY SumEmpty
  <2>6. SumOver(w, {n} \ {n}) = 0
    BY <2>1, <2>5, Zenon
  <2>7. SumOver(w, {n}) = w[n]
    BY <1>4, <2>4, <2>6
  <2> QED
    BY <2>1, <2>3, <2>7
<1> DEFINE w == [j \in S |-> T(data[j])]
           v == [j \in S |-> V(data[j])]
<1>5. SumOfT(data, S) = SumOver(w, S) /\ SumOfV(data, S) = SumOver(v, S)
  BY <1>2, <1>3, SumsOfT, SumsOfV
<1>6. w[n - 1] = T(data[n - 1]) /\ w[n] = T(data[n]) /\ v[n - 1] = V(data[n - 1]) /\ v[n] = V(data[n])
  OBVIOUS
<1>7. T(data[n - 1]) \in Int /\ T(data[n]) \in Int /\ V(data[n - 1]) \in Int /\ V(data[n]) \in Int
  BY <1>3
<1> HIDE DEF w, v
<1>8. SumOver(w, S) = w[n - 1] + w[n] /\ SumOver(v, S) = v[n - 1] + v[n]
  BY <1>4, <1>6, <1>7
<1> QED
  BY <1>2, <1>5, <1>6, <1>8

\* Data whose times are in the order of its rows.
Later(data) == \A j, k \in 1 .. Len(data) : j < k => T(data[j]) < T(data[k])

\* Of a bucket with a nonzero row, after which all is zero, a nonzero row is kept.
LEMMA SpikeWins ==
  ASSUME NEW data, IsData(data), Later(data), MaxPts < Len(data),
         NEW low \in SUBSET MayRoundDown(Len(data)), NEW i \in 1 .. MaxPts - 2,
         NEW before \in 1 .. Len(data), \A j \in Bucket(i, Len(data), low) : before < j,
         V(data[before]) = 0, V(data[Len(data)]) = 0,
         i # MaxPts - 2 => \A j \in Bucket(i + 1, Len(data), low) : V(data[j]) = 0,
         NEW x \in Bucket(i, Len(data), low), V(data[x]) = 1
  PROVE  V(data[Kept(data, before, i, low)]) = 1
<1> DEFINE n == Len(data)
           g == Kept(data, before, i, low)
           D == Bucket(i, n, low)
           next == After(i, n, low)
           a == SumOfT(data, next)
           b == SumOfV(data, next)
           count == Max({Cardinality(next), 1})
           tp == T(data[before])
           tx == T(data[x])
           tg == T(data[g])
<1>1. n \in Nat /\ D \in SUBSET (2 .. n - 1)
  BY BucketIs DEF IsData
<1>2. g \in D /\ AreaAt(data, before, i, low, x) <= AreaAt(data, before, i, low, g)
  BY KeptIs
<1>3. SUFFICES ASSUME V(data[g]) = 0 PROVE FALSE
  <2>1. g \in 1 .. n
    BY <1>1, <1>2
  <2>2. V(data[g]) \in {0, 1}
    BY <2>1 DEF IsData
  <2> QED
    BY <2>2
<1>4. /\ tp \in Int /\ tx \in Int /\ tg \in Int /\ tp < tx /\ tp < tg
      /\ x \in 1 .. n /\ g \in 1 .. n
  <2>1. x \in 1 .. n /\ g \in 1 .. n /\ before < x /\ before < g /\ before \in 1 .. n
    BY <1>1, <1>2
  <2> HIDE DEF g
  <2> QED
    BY <2>1 DEF IsData, Later
<1>5. /\ next \in SUBSET (1 .. n) /\ IsFiniteSet(next) /\ Cardinality(next) \in Nat
      /\ a \in Int /\ b \in Int
  BY AfterFacts
<1>6. /\ next # {} /\ \A j \in next : x < j /\ g < j
      /\ \/ \A j \in next : V(data[j]) = 0
         \/ next = {n - 1, n}
  <2>1. CASE i # MaxPts - 2
    <3>1. next = Bucket(i + 1, n, low)
      BY <1>1, <2>1, AfterIs
    <3>2. i + 1 \in 1 .. MaxPts - 2
      BY <2>1, GraphAssumption
    <3>3. next # {}
      BY <1>1, <3>1, <3>2, BucketIs
    <3>4. \A j \in next : x < j /\ g < j
      BY <1>1, <1>2, <2>1, <3>1, BucketsInOrder
    <3> QED
      BY <2>1, <3>1, <3>3, <3>4
  <2>2. CASE i = MaxPts - 2
    <3>1. \/ next = {n}
          \/ next = {n - 1, n} /\ \A j \in D : j < n - 1
      BY <1>1, <2>2, AfterIs
    <3>2. \A j \in D : j < n /\ j \in Nat
      BY <1>1
    <3>3. \A j \in next : x < j /\ g < j
      <4> HIDE DEF g, next
      <4> QED
        BY <1>1, <1>2, <3>1, <3>2
    <3> QED
      BY <3>1, <3>3
  <2> QED
    BY <2>1, <2>2
<1>7. \A j \in next : tp < T(data[j]) /\ tx < T(data[j]) /\ tg < T(data[j]) /\ T(data[j]) \in Int
  <2> SUFFICES ASSUME NEW j \in next
               PROVE tp < T(data[j]) /\ tx < T(data[j]) /\ tg < T(data[j]) /\ T(data[j]) \in Int
    OBVIOUS
  <2>1. j \in 1 .. n /\ x < j /\ g < j
    BY <1>5, <1>6
  <2>2. tx < T(data[j]) /\ tg < T(data[j])
    <3> HIDE DEF g
    <3> QED
      BY <1>4, <2>1 DEF Later
  <2>3. T(data[j]) \in Int
    BY <2>1 DEF IsData
  <2> HIDE DEF tp, tx, tg
  <2> QED
    BY <1>4, <2>2, <2>3
<1>8. count = Cardinality(next) /\ count \in Nat \ {0} /\ count * tp < a
      /\ ((\A j \in next : V(data[j]) = 0) => b = 0)
  <2>1. Cardinality(next) # 0
    BY <1>5, <1>6, FS_EmptySet
  <2>2. count = Cardinality(next)
    BY <1>5, <2>1, MaxOfTwo
  <2>3. Cardinality(next) * tp < a /\ ((\A j \in next : V(data[j]) = 0) => b = 0)
    <3>1. \A j \in next : tp < T(data[j])
      BY <1>7
    <3> HIDE DEF next, tp
    <3> QED
      BY <1>4, <1>5, <1>6, <3>1, SumsAfter
  <2> QED
    BY <1>5, <2>1, <2>2, <2>3
<1>9. /\ AreaAt(data, before, i, low, x) = Abs(tp * (count * 1 - b) + tx * (b - count * 0) + a * (0 - 1))
      /\ AreaAt(data, before, i, low, g) = Abs(tp * (count * 0 - b) + tg * (b - count * 0) + a * (0 - 0))
  BY <1>3 DEF AreaAt, Area
<1> HIDE DEF a, b, count, tp, tx, tg
<1>10. CASE b = 0
  <2>1. tp * (count * 1 - b) + tx * (b - count * 0) + a * (0 - 1) = count * tp - a
        /\ tp * (count * 0 - b) + tg * (b - count * 0) + a * (0 - 0) = 0
        /\ count * tp \in Int
    BY <1>4, <1>5, <1>8, <1>10
  <2>2. Abs(count * tp - a) > 0 /\ Abs(0) = 0
    BY <1>5, <1>8, <2>1 DEF Abs
  <2>3. AreaAt(data, before, i, low, x) = Abs(count * tp - a)
    BY <1>9, <2>1, Zenon
  <2>4. AreaAt(data, before, i, low, g) = Abs(0)
    BY <1>9, <2>1, Zenon
  <2>5. Abs(count * tp - a) <= Abs(0)
    BY <1>2, <2>3, <2>4
  <2>6. Abs(count * tp - a) \in Int
    BY <1>5, <2>1 DEF Abs
  <2> QED
    BY <2>2, <2>5, <2>6
<1>11. CASE b # 0
  <2>1. next = {n - 1, n} /\ n > 1
    <3>1. next = {n - 1, n}
      BY <1>6, <1>8, <1>11
    <3>2. n - 1 \in 1 .. n
      BY <1>5, <3>1
    <3> QED
      BY <1>1, <3>1, <3>2
  <2> DEFINE t1 == T(data[n - 1])
             t2 == T(data[n])
  <2>2. a = t1 + t2 /\ b = V(data[n - 1]) + V(data[n]) /\ count = 2
    BY <1>8, <2>1, SumsOfTwo DEF a, b, count
  <2>3. V(data[n - 1]) \in {0, 1} /\ n - 1 \in next /\ n \in next
    <3>1. n - 1 \in 1 .. n
      BY <1>1, <2>1
    <3> QED
      BY <2>1, <3>1 DEF IsData
  <2>4. b = 1
    BY <1>11, <2>2, <2>3
  <2>5. t1 \in Int /\ t2 \in Int /\ tx < t1 /\ tg < t2 /\ tp < t1
    BY <1>7, <2>3
  <2> HIDE DEF t1, t2
  <2>6. tp * (count * 1 - b) + tx * (b - count * 0) + a * (0 - 1) = tp + tx - t1 - t2
        /\ tp * (count * 0 - b) + tg * (b - count * 0) + a * (0 - 0) = tg - tp
    BY <1>4, <2>2, <2>4, <2>5
  <2>7. Abs(tp + tx - t1 - t2) > Abs(tg - tp)
    BY <1>4, <2>5 DEF Abs
  <2>8. Abs(tp + tx - t1 - t2) \in Int /\ Abs(tg - tp) \in Int
    BY <1>4, <2>5 DEF Abs
  <2> QED
    BY <1>2, <1>9, <2>6, <2>7, <2>8
<1> QED
  BY <1>10, <1>11

\* Of rows that are not all zero, the row before the last aside, one is drawn that is not:
\* the last bucket with such a row keeps one, unless the row drawn before or the last row
\* is not zero itself.
LEMMA SpikeIsDrawn ==
  ASSUME NEW data, IsData(data), data # << >>, Later(data),
         NEW low \in SUBSET MayRoundDown(Len(data))
  PROVE  SpikeDrawn(data, sampleData(data, low))
<1> DEFINE n == Len(data)
           s == sampleData(data, low)
           d == MaxPts - 2
<1>1. n \in Nat /\ MaxPts \in Nat /\ d \in Nat \ {0} /\ n >= 1
  BY GraphAssumption DEF IsData
<1>2. SUFFICES ASSUME NEW j \in (1 .. n) \ {n - 1}, V(data[j]) > 0
               PROVE  \E k \in 1 .. Len(s) : V(data[s[k]]) > 0
  BY DEF SpikeDrawn
<1>3. CASE n <= MaxPts
  <2>1. s = [k \in 1 .. n |-> k] /\ Len(s) = n
    BY <1>3, AllDrawn
  <2> HIDE DEF s
  <2>2. j \in 1 .. Len(s) /\ s[j] = j
    BY <1>2, <2>1
  <2> QED
    BY <1>2, <2>2
<1>4. CASE MaxPts < n
  <2>1. PICK kept : IsSample(kept, data, low) /\ s = Append(kept, n)
    BY <1>4, SampleIs
  <2>2. /\ kept \in Seq(1 .. n) /\ Len(kept) = MaxPts - 1 /\ kept[1] = 1
        /\ \A k \in 2 .. MaxPts - 1 : kept[k] = Kept(data, kept[k - 1], k - 1, low)
    BY <2>1 DEF IsSample
  <2>3. /\ Len(s) = MaxPts /\ s[MaxPts] = n /\ MaxPts \in 1 .. MaxPts
        /\ \A k \in 1 .. MaxPts - 1 : s[k] = kept[k] /\ k \in 1 .. MaxPts /\ kept[k] \in 1 .. n
    <3> HIDE DEF s
    <3> QED
      BY <1>1, <2>1, <2>2
  <2>4. SUFFICES ASSUME \A k \in 1 .. MaxPts : ~ (V(data[s[k]]) > 0)
                 PROVE  FALSE
    BY <2>3
  <2>5. \A k \in 1 .. n : V(data[k]) \in {0, 1}
    BY DEF IsData
  <2>6. V(data[n]) = 0 /\ \A k \in 1 .. MaxPts - 1 : V(data[kept[k]]) = 0
    <3>1. \A k \in 1 .. MaxPts - 1 : V(data[kept[k]]) \in {0, 1} /\ ~ (V(data[kept[k]]) > 0)
      BY <2>3, <2>4, <2>5
    <3>2. V(data[n]) \in {0, 1} /\ ~ (V(data[n]) > 0)
      BY <1>1, <2>3, <2>4, <2>5
    <3> QED
      BY <3>1, <3>2
  <2>7. j \in 2 .. n - 2
    <3>1. 1 \in 1 .. MaxPts - 1
      BY <1>1
    <3>2. V(data[1]) = 0
      BY <2>2, <2>6, <3>1
    <3>3. j # 1 /\ j # n
      BY <1>2, <2>6, <3>2
    <3> QED
      BY <1>1, <1>2, <3>3
  <2> DEFINE Spiky == {m \in Nat : m \in 0 .. d - 1 /\ \E x \in Bucket(d - m, n, low) : V(data[x]) = 1}
  <2>8. Spiky # {}
    <3>1. PICK i \in 1 .. MaxPts - 2 : j \in Bucket(i, n, low)
      BY <1>1, <1>4, <2>7, InABucket
    <3>2. V(data[j]) = 1
      BY <1>2, <2>5
    <3>3. d - i \in Nat /\ d - i \in 0 .. d - 1 /\ d - (d - i) = i
      BY <1>1
    <3>4. d - i \in Spiky
      BY <3>1, <3>2, <3>3
    <3> QED
      BY <3>4
  <2>9. PICK m \in Spiky : \A l \in Spiky : m <= l
    <3>1. Spiky \in SUBSET Nat
      OBVIOUS
    <3> HIDE DEF Spiky
    <3> QED
      BY <2>8, <3>1, LeastNatural
  <2>10. m \in Nat /\ m \in 0 .. d - 1 /\ \E x \in Bucket(d - m, n, low) : V(data[x]) = 1
    OBVIOUS
  <2> DEFINE i == d - m
  <2>11. PICK x \in Bucket(i, n, low) : V(data[x]) = 1
    BY <2>10
  <2>12. i \in 1 .. MaxPts - 2 /\ i \in 1 .. MaxPts - 1 /\ i + 1 \in 2 .. MaxPts - 1 /\ (i + 1) - 1 = i
         /\ i + 1 \in 1 .. MaxPts - 1
    BY <1>1, <2>10
  <2>13. i # MaxPts - 2 => \A l \in Bucket(i + 1, n, low) : V(data[l]) = 0
    <3> SUFFICES ASSUME i # MaxPts - 2, NEW l \in Bucket(i + 1, n, low) PROVE V(data[l]) = 0
      OBVIOUS
    <3>1. m - 1 \in Nat /\ m - 1 \in 0 .. d - 1 /\ d - (m - 1) = i + 1 /\ ~ (m <= m - 1)
          /\ i + 1 \in 1 .. MaxPts - 2
      BY <1>1, <2>10
    <3>2. m - 1 \notin Spiky
      <4> HIDE DEF Spiky
      <4> QED
        BY <2>9, <3>1
    <3>3. V(data[l]) # 1
      BY <3>1, <3>2
    <3>4. Bucket(i + 1, n, low) \in SUBSET (2 .. n - 1)
      BY <1>1, <1>4, <3>1, BucketIs
    <3> HIDE DEF i, Spiky
    <3>5. l \in 1 .. n
      BY <1>1, <3>4
    <3> QED
      BY <2>5, <3>3, <3>5
  <2> DEFINE before == kept[i]
  <2>14. before \in 1 .. n /\ V(data[before]) = 0
    BY <2>3, <2>6, <2>12
  <2>15. \A l \in Bucket(i, n, low) : before < l
    <3>1. Bucket(i, n, low) = Bound(i - 1, n, low) + 2 .. Bound(i, n, low) + 1
      BY <1>1, <1>4, <2>12, BucketIs
    <3>2. Bound(i - 1, n, low) \in Nat /\ Bound(i, n, low) \in Nat
      <4>1. i - 1 \in 0 .. MaxPts - 1 /\ i \in 0 .. MaxPts - 1
        BY <1>1, <2>12
      <4> HIDE DEF i
      <4> QED
        BY <1>1, <1>4, <4>1, Bounds
    <3>3. before \in Nat /\ before <= Bound(i - 1, n, low) + 1
      <4>1. CASE i = 1
        <5>1. before = 1
          BY <2>2, <4>1
        <5> HIDE DEF before, i
        <5> QED
          BY <3>2, <5>1
      <4>2. CASE i # 1
        <5>1. i \in 2 .. MaxPts - 1
          BY <1>1, <2>12, <4>2
        <5> HIDE DEF i
        <5> QED
          BY <1>4, <2>1, <5>1, SampleBetween
      <4> QED
        BY <4>1, <4>2
    <3> DEFINE a == Bound(i - 1, n, low)
               b == Bound(i, n, low)
    <3> HIDE DEF before, a, b
    <3>4. \A l \in a + 2 .. b + 1 : before < l
      BY <3>2, <3>3 DEF a, b
    <3> QED
      BY <3>1, <3>4 DEF a, b
  <2>16. V(data[Kept(data, before, i, low)]) = 1
    <3> HIDE DEF i, before
    <3> QED
      BY <1>4, <2>6, <2>11, <2>12, <2>13, <2>14, <2>15, SpikeWins
  <2>17. kept[i + 1] = Kept(data, before, i, low)
    <3> HIDE DEF i
    <3> QED
      BY <2>2, <2>12
  <2>18. V(data[kept[i + 1]]) = 0
    <3> HIDE DEF i
    <3> QED
      BY <2>6, <2>12
  <2> QED
    BY <2>16, <2>17, <2>18
<1> QED
  BY <1>1, <1>3, <1>4

\* The times of the samples are in their order: the clock was never put back.
ClockForward == \A m, n \in 1 .. Len(points) : m < n => T(m) < T(n)

\* Where the clock was never put back, of rows that are not all zero one that is not is
\* drawn, for every number of points and rows.  With a clock put back the areas of a whole
\* bucket may be zero, and then its first row is kept, whatever stands out.
THEOREM SpikesOfForwardClock == GSpec => [](ClockForward => SpikesAreDrawn)
<1>1. ASSUME GInv, ClockForward PROVE SpikesAreDrawn
  <2> SUFFICES ASSUME NEW h \in Hours, NEW low \in SUBSET MayRoundDown(Len(Loaded(h))),
                      Loaded(h) # << >>
               PROVE  SpikeDrawn(Loaded(h), sampleData(Loaded(h), low))
    BY Zenon DEF SpikesAreDrawn, ForEachPanel
  <2> DEFINE data == Loaded(h)
  <2>1. /\ IsData(data)
        /\ \A j, k \in 1 .. Len(data) : j < k => data[j] < data[k]
    BY <1>1, LoadedFacts
  <2> HIDE DEF data
  <2>2. \A j \in 1 .. Len(data) : data[j] \in 1 .. Len(points)
    BY <2>1 DEF IsData
  <2>3. Later(data)
    BY <1>1, <2>1, <2>2 DEF Later, ClockForward
  <2> QED
    BY <2>1, <2>3, SpikeIsDrawn DEF data
<1>2. GInv => (ClockForward => SpikesAreDrawn)
  BY <1>1
<1> QED
  BY <1>2, GraphInv, PTL

-----------------------------------------------------------------------------
(* The breaks of the line. *)

\* The distances forward are those of neighbours, each once and in order.
LEMMA DeltasAre ==
  ASSUME NEW n \in Nat \ {0}, NEW times \in [1 .. n -> Int]
  PROVE  /\ Deltas(times) \in Seq(Nat \ {0}) /\ Len(Deltas(times)) \in Nat
         /\ \E at \in [1 .. Len(Deltas(times)) -> 1 .. n - 1] :
              /\ \A k, l \in 1 .. Len(Deltas(times)) : k < l => at[k] < at[l]
              /\ \A k \in 1 .. Len(Deltas(times)) :
                   Deltas(times)[k] = times[at[k] + 1] - times[at[k]]
              /\ \A j \in 1 .. n - 1 : times[j + 1] - times[j] > 0
                   => \E k \in 1 .. Len(Deltas(times)) : at[k] = j
<1> DEFINE distance == [i \in 1 .. n - 1 |-> times[i + 1] - times[i]]
           P == {i \in DOMAIN distance : distance[i] > 0}
           D == Deltas(times)
<1>1. Len(times) = n
  BY LengthOfFunction
<1>2. D = Chosen(distance, P)
  BY <1>1 DEF Deltas
<1>3. ASSUME NEW i \in 1 .. n - 1 PROVE distance[i] = times[i + 1] - times[i] /\ distance[i] \in Int
  <2>1. i \in 1 .. n /\ i + 1 \in 1 .. n
    OBVIOUS
  <2> QED
    BY <2>1
<1>4. DOMAIN distance = 1 .. n - 1
  OBVIOUS
<1>5. distance \in [1 .. n - 1 -> Int]
  BY <1>3
<1> HIDE DEF distance
<1>6. distance \in Seq(Int) /\ Len(distance) = n - 1
  BY <1>5
<1> HIDE DEF D, P
<1>7. D \in Seq(Int)
  BY <1>2, <1>6, ChosenFacts
<1>8. PICK at : Places(at, D, distance, P)
  <2>1. \E at : Places(at, Chosen(distance, P), distance, P)
    BY <1>6, ChosenFacts
  <2> QED
    BY <1>2, <2>1
<1>9. Len(D) \in Nat
  BY <1>7
<1>10. /\ at \in [1 .. Len(D) -> {i \in P : i \in 1 .. n - 1}]
       /\ \A k, l \in 1 .. Len(D) : k < l => at[k] < at[l]
       /\ \A k \in 1 .. Len(D) : D[k] = distance[at[k]]
       /\ \A i \in P : i \in 1 .. n - 1 => \E k \in 1 .. Len(D) : at[k] = i
  BY <1>6, <1>8 DEF Places
<1>11. at \in [1 .. Len(D) -> 1 .. n - 1]
  BY <1>10
<1>12. ASSUME NEW k \in 1 .. Len(D)
       PROVE  D[k] = times[at[k] + 1] - times[at[k]] /\ D[k] \in Nat \ {0}
  <2>1. at[k] \in P /\ at[k] \in 1 .. n - 1
    BY <1>10
  <2>2. distance[at[k]] > 0
    BY <2>1 DEF P
  <2>3. /\ distance[at[k]] = times[at[k] + 1] - times[at[k]]
        /\ distance[at[k]] \in Int
    BY <1>3, <2>1
  <2>4. D[k] = distance[at[k]]
    BY <1>10
  <2> QED
    BY <2>2, <2>3, <2>4
<1>13. ASSUME NEW j \in 1 .. n - 1, times[j + 1] - times[j] > 0
       PROVE  \E k \in 1 .. Len(D) : at[k] = j
  <2>1. j \in P
    BY <1>3, <1>4, <1>13 DEF P
  <2> QED
    BY <1>10, <2>1
<1>14. D \in Seq(Nat \ {0})
  <2>1. D \in [1 .. Len(D) -> Nat \ {0}]
    BY <1>7, <1>12
  <2> QED
    BY <1>9, <2>1
<1>15. \E f \in [1 .. Len(D) -> 1 .. n - 1] :
              /\ \A k, l \in 1 .. Len(D) : k < l => f[k] < f[l]
              /\ \A k \in 1 .. Len(D) : D[k] = times[f[k] + 1] - times[f[k]]
              /\ \A j \in 1 .. n - 1 : times[j + 1] - times[j] > 0
                   => \E k \in 1 .. Len(D) : f[k] = j
  BY <1>10, <1>11, <1>12, <1>13
<1> QED
  BY <1>9, <1>14, <1>15 DEF D

\* Some entries are the least that more than half are no greater than: the median is one.
LEMMA MedianIs ==
  ASSUME NEW s \in Seq(Nat \ {0}), s # << >>
  PROVE  /\ Median(s) \in Range(s) /\ Median(s) \in Nat \ {0}
         /\ Cardinality({i \in 1 .. Len(s) : s[i] < Median(s)}) <= Len(s) \div 2
         /\ Cardinality({i \in 1 .. Len(s) : s[i] <= Median(s)}) > Len(s) \div 2
<1> DEFINE n == Len(s)
           half == n \div 2
           Below(m) == {i \in 1 .. n : s[i] <= m}
           Less(m) == {i \in 1 .. n : s[i] < m}
           W == {m \in Nat : Cardinality(Below(m)) > half}
<1>1. n \in Nat \ {0} /\ half \in Nat /\ half < n /\ \A i \in 1 .. n : s[i] \in Nat \ {0}
  OBVIOUS
<1>2. IsFiniteSet(1 .. n) /\ Cardinality(1 .. n) = n
  <2> HIDE DEF n
  <2>1. 1 \in Int /\ n \in Int
    BY <1>1
  <2>2. IsFiniteSet(1 .. n) /\ Cardinality(1 .. n) = IF 1 > n THEN 0 ELSE n - 1 + 1
    BY <2>1, FS_Interval, Zenon
  <2> QED
    BY <1>1, <2>2
<1>3. \E m \in Nat : Below(m) = 1 .. n
  <2>1. s \in [1 .. n -> Nat] /\ 1 \in 1 .. n
    BY <1>1
  <2>2. PICK j \in 1 .. n : \A k \in 1 .. n : s[k] <= s[j]
    <3>1. 1 \in Nat /\ n \in Nat /\ 1 <= n /\ \A j \in 1 .. n : s[j] \in Int
      BY <1>1, <2>1
    <3> HIDE DEF n
    <3> QED
      BY <3>1, GreatestValue
  <2>3. Below(s[j]) = 1 .. n /\ s[j] \in Nat
    BY <2>1, <2>2
  <2> QED
    BY <2>3
<1>4. W \in SUBSET Nat /\ W # {}
  BY <1>1, <1>2, <1>3
<1>5. PICK m \in W : \A k \in W : m <= k
  <2> HIDE DEF W
  <2> QED
    BY <1>4, LeastNatural
<1>6. m \in Nat /\ Cardinality(Below(m)) > half
  OBVIOUS
<1>7. m # 0
  <2>1. ASSUME m = 0 PROVE FALSE
    <3>1. Below(0) = {}
      BY <1>1
    <3>2. Cardinality(Below(0)) = 0
      BY <3>1, FS_EmptySet
    <3> QED
      BY <1>1, <1>6, <2>1, <3>2
  <2> QED
    BY <2>1
<1>8. m - 1 \in Nat /\ m - 1 \notin W
  <2> HIDE DEF W
  <2> QED
    BY <1>5, <1>6, <1>7
<1>9. Less(m) = Below(m - 1)
  <2>1. \A i \in 1 .. n : s[i] < m <=> s[i] <= m - 1
    BY <1>1, <1>6
  <2> QED
    BY <2>1
<1>10. Cardinality(Less(m)) <= half
  <2>1. Cardinality(Below(m - 1)) \in Nat
    <3>1. Below(m - 1) \subseteq 1 .. n
      OBVIOUS
    <3> HIDE DEF Below
    <3> QED
      BY <1>2, <3>1, FS_Subset, FS_CardinalityType
  <2>2. ~ (Cardinality(Below(m - 1)) > half)
    BY <1>8
  <2> HIDE DEF Below, Less, half
  <2> QED
    BY <1>1, <1>9, <2>1, <2>2
<1>11. m \in Range(s)
  <2>1. ASSUME m \notin Range(s) PROVE FALSE
    <3>1. \A i \in 1 .. n : s[i] # m
      BY <2>1 DEF Range
    <3>2. Less(m) = Below(m)
      BY <1>1, <1>6, <3>1
    <3> HIDE DEF Below, Less, half
    <3>3. Cardinality(Below(m)) <= half
      BY <1>10, <3>2
    <3>4. Cardinality(Below(m)) \in Nat
      <4>1. Below(m) \subseteq 1 .. n
        BY DEF Below
      <4> QED
        BY <1>2, <4>1, FS_Subset, FS_CardinalityType
    <3> QED
      BY <1>1, <1>6, <3>3, <3>4 DEF half
  <2> QED
    BY <2>1
<1> DEFINE Is(x) == Cardinality(Less(x)) <= half /\ Cardinality(Below(x)) > half
<1>12. Median(s) = CHOOSE x \in Range(s) : Is(x)
  <2>1. DOMAIN s = 1 .. n
    OBVIOUS
  <2> QED
    BY <2>1, Zenon DEF Median
<1>13. Is(m)
  BY <1>6, <1>10
<1> HIDE DEF Is
<1>14. Median(s) \in Range(s) /\ Is(Median(s))
  BY <1>11, <1>12, <1>13, Zenon
<1>15. Median(s) \in Nat \ {0}
  BY <1>1, <1>14 DEF Range
<1>16. Cardinality(Less(Median(s))) <= half /\ Cardinality(Below(Median(s))) > half
  BY <1>14, Zenon DEF Is
<1> QED
  BY <1>14, <1>15, <1>16

\* The threshold, where there is one, is four times a distance.
LEMMA GapIs ==
  ASSUME NEW n \in Nat \ {0}, NEW times \in [1 .. n -> Int], gapThreshold(times) # 0
  PROVE  /\ Deltas(times) # << >> /\ gapThreshold(times) = 4 * Median(Deltas(times))
         /\ Median(Deltas(times)) \in Nat \ {0}
<1>1. Deltas(times) # << >> /\ gapThreshold(times) = 4 * Median(Deltas(times))
  BY DEF gapThreshold
<1>2. Deltas(times) \in Seq(Nat \ {0})
  BY DeltasAre
<1> QED
  BY <1>1, <1>2, MedianIs

\* Two rows at most four rows apart, and the time between them.
LEMMA NearRows ==
  ASSUME NEW data, IsData(data), NEW a \in 1 .. Len(data), NEW b \in 1 .. Len(data),
         b - a \in 1 .. 4
  PROVE  /\ (\A j \in a .. b - 1 : T(data[j + 1]) - T(data[j]) <= Interval)
              => T(data[b]) - T(data[a]) <= 4 * Interval
         /\ (\A j \in a .. b - 1 : T(data[j + 1]) - T(data[j]) >= Interval)
              => T(data[b]) - T(data[a]) >= Interval
<1> DEFINE n == Len(data)
           t(j) == T(data[j])
<1>1. n \in Nat /\ \A j \in 1 .. n : t(j) \in Int
  BY DEF IsData
<1>2. Interval \in Nat \ {0}
  BY DistancesAre
<1> HIDE DEF t
<1>3. b = a + 1 \/ b = a + 2 \/ b = a + 3 \/ b = a + 4
  BY <1>1
<1>4. ASSUME \A j \in a .. b - 1 : t(j + 1) - t(j) <= Interval
      PROVE  t(b) - t(a) <= 4 * Interval
  <2>1. t(a) \in Int /\ t(b) \in Int
    BY <1>1
  <2>2. /\ t(a + 1) - t(a) <= Interval
        /\ b > a + 1 => t(a + 2) - t(a + 1) <= Interval /\ t(a + 1) \in Int
        /\ b > a + 2 => t(a + 3) - t(a + 2) <= Interval /\ t(a + 2) \in Int
        /\ b > a + 3 => t(a + 4) - t(a + 3) <= Interval /\ t(a + 3) \in Int
    BY <1>1, <1>3, <1>4
  <2> QED
    BY <1>2, <1>3, <2>1, <2>2
<1>5. ASSUME \A j \in a .. b - 1 : t(j + 1) - t(j) >= Interval
      PROVE  t(b) - t(a) >= Interval
  <2>1. t(a) \in Int /\ t(b) \in Int
    BY <1>1
  <2>2. /\ t(a + 1) - t(a) >= Interval
        /\ b > a + 1 => t(a + 2) - t(a + 1) >= Interval /\ t(a + 1) \in Int
        /\ b > a + 2 => t(a + 3) - t(a + 2) >= Interval /\ t(a + 2) \in Int
        /\ b > a + 3 => t(a + 4) - t(a + 3) >= Interval /\ t(a + 3) \in Int
    BY <1>1, <1>3, <1>5
  <2> QED
    BY <1>2, <1>3, <2>1, <2>2
<1> QED
  BY <1>4, <1>5 DEF t

\* The rows that are drawn are rows.
LEMMA SampleType ==
  ASSUME NEW data, IsData(data), NEW low \in SUBSET MayRoundDown(Len(data))
  PROVE  sampleData(data, low) \in Seq(1 .. Len(data))
<1> DEFINE n == Len(data)
<1>1. n \in Nat /\ MaxPts \in Nat
  BY GraphAssumption DEF IsData
<1>2. CASE n <= MaxPts
  <2>1. sampleData(data, low) = [j \in 1 .. n |-> j]
    BY <1>2, AllDrawn
  <2> HIDE DEF n
  <2> QED
    BY <1>1, <2>1 DEF n
<1>3. CASE MaxPts < n
  <2>1. PICK kept : IsSample(kept, data, low) /\ sampleData(data, low) = Append(kept, n)
    BY <1>3, SampleIs
  <2>2. kept \in Seq(1 .. n) /\ n \in 1 .. n
    BY <1>1, <1>3, <2>1, GraphAssumption DEF IsSample
  <2> HIDE DEF n
  <2> QED
    BY <2>1, <2>2 DEF n
<1> QED
  BY <1>1, <1>2, <1>3

\* Two neighbours among at most two rows a point are drawn at most four rows apart.
LEMMA FourApart ==
  ASSUME NEW data, IsData(data), data # << >>, NEW low \in SUBSET MayRoundDown(Len(data)),
         Len(data) <= 2 * (MaxPts - 1), NEW k \in 1 .. Len(sampleData(data, low)) - 1
  PROVE  sampleData(data, low)[k + 1] - sampleData(data, low)[k] \in 1 .. 4
<1> DEFINE n == Len(data)
           d == MaxPts - 2
           q == (n - 3) \div d
           s == sampleData(data, low)
           width == IF n <= MaxPts THEN 1 ELSE 2 * (q + 1)
<1>1. s[k + 1] - s[k] \in 1 .. width
  BY SampleIsFair DEF FairSample
<1>2. n \in Nat /\ d \in Nat \ {0} /\ n <= 2 * d + 2
  BY GraphAssumption DEF IsData
<1> HIDE DEF s
<1>3. CASE n <= MaxPts
  BY <1>1, <1>3 DEF s
<1>4. CASE ~(n <= MaxPts)
  <2>1. n - 3 \in Nat /\ n - 3 < d * 2
    BY <1>2, <1>4, GraphAssumption
  <2>2. q \in Nat /\ d * q <= n - 3
    BY <1>2, <2>1, Division
  <2> HIDE DEF d, q, n
  <2>3. d * q < d * 2
    <3>1. d * q \in Int /\ d * 2 \in Int /\ n - 3 \in Int
      BY <1>2, <2>1, <2>2
    <3> QED
      BY <2>1, <2>2, <3>1
  <2>4. q < 2
    BY <1>2, <2>2, <2>3, Cancel
  <2>5. width = 2 * (q + 1)
    BY <1>4
  <2>6. 1 .. width \subseteq 1 .. 4
    BY <2>2, <2>4, <2>5
  <2> HIDE DEF width
  <2> QED
    BY <1>1, <2>6 DEF s
<1> QED
  BY <1>3, <1>4

\* A break of a line over rows no two of which are less than an interval apart lies over
\* more than an interval without a row.
LEMMA BreaksOverSilences ==
  ASSUME NEW data, IsData(data), data # << >>,
         NEW low \in SUBSET MayRoundDown(Len(data)), Len(data) <= 2 * (MaxPts - 1),
         \A j \in 1 .. Len(data) - 1 : T(data[j + 1]) - T(data[j]) >= Interval,
         NEW kept, kept = sampleData(data, low),
         NEW k \in Breaks([l \in 1 .. Len(kept) |-> T(data[kept[l]])])
  PROVE  \E j \in kept[k] .. kept[k + 1] - 1 : T(data[j + 1]) - T(data[j]) > Interval
<1> DEFINE n == Len(data)
           m == Len(kept)
           times == [l \in 1 .. m |-> T(data[kept[l]])]
           gap == gapThreshold(times)
           D == Deltas(times)
<1>1. kept \in Seq(1 .. n) /\ n \in Nat /\ m \in Nat
  <2>1. kept \in Seq(1 .. n)
    BY SampleType
  <2> QED
    BY <2>1 DEF IsData
<1>2. m = Min({n, MaxPts}) /\ n # 0
  <2>1. FairSample(data, kept)
    BY SampleIsFair
  <2>2. m = Min({n, MaxPts})
    BY <2>1 DEF FairSample
  <2>3. n # 0
    BY DEF IsData
  <2> QED
    BY <2>2, <2>3
<1>3. m \in Nat \ {0}
  <2>1. MaxPts \in Int /\ n \in Int /\ MaxPts > 2
    BY <1>1, GraphAssumption
  <2>2. Min({n, MaxPts}) = IF n <= MaxPts THEN n ELSE MaxPts
    BY <2>1, MinOfTwo
  <2> QED
    BY <1>1, <1>2, <2>1, <2>2
<1>4. \A l \in 1 .. m : kept[l] \in 1 .. n /\ T(data[kept[l]]) \in Int
  <2>1. \A l \in 1 .. m : kept[l] \in 1 .. n
    <3> HIDE DEF n
    <3> QED
      BY <1>1
  <2>2. \A j \in 1 .. n : T(data[j]) \in Int
    BY DEF IsData
  <2> QED
    BY <2>1, <2>2
<1>5. times \in [1 .. m -> Int] /\ Len(times) = m
  <2>1. times \in [1 .. m -> Int]
    BY <1>4
  <2> HIDE DEF times, m
  <2> QED
    BY <1>1, <2>1, LengthOfFunction
<1>6. k \in 1 .. m - 1 /\ gap > 0 /\ times[k + 1] - times[k] > gap
  <2> HIDE DEF times
  <2> QED
    BY <1>5 DEF Breaks, times
<1>7. D # << >> /\ gap = 4 * Median(D) /\ Median(D) \in Nat \ {0}
  <2>1. gapThreshold(times) # 0
    BY <1>6
  <2> HIDE DEF times, m
  <2> QED
    BY <1>3, <1>5, <2>1, GapIs DEF D
\* Two neighbours of the line are at most four rows apart.
<1>8. ASSUME NEW l \in 1 .. m - 1
      PROVE  /\ kept[l] \in 1 .. n /\ kept[l + 1] \in 1 .. n /\ kept[l + 1] - kept[l] \in 1 .. 4
             /\ times[l] = T(data[kept[l]]) /\ times[l + 1] = T(data[kept[l + 1]])
  <2>1. l \in 1 .. m /\ l + 1 \in 1 .. m /\ l \in 1 .. Len(sampleData(data, low)) - 1
    BY <1>1
  <2>2. kept[l + 1] - kept[l] \in 1 .. 4
    BY <2>1, FourApart
  <2>3. times[l] = T(data[kept[l]]) /\ times[l + 1] = T(data[kept[l + 1]])
    <3> HIDE DEF m
    <3> QED
      BY <2>1
  <2> HIDE DEF times, m, n
  <2> QED
    BY <1>4, <2>1, <2>2, <2>3
\* So each distance is at least an interval, and so is the median.
<1>9. \A l \in 1 .. m - 1 : times[l + 1] - times[l] >= Interval
  <2> SUFFICES ASSUME NEW l \in 1 .. m - 1 PROVE times[l + 1] - times[l] >= Interval
    OBVIOUS
  <2> DEFINE a == kept[l]
             b == kept[l + 1]
  <2>1. /\ a \in 1 .. n /\ b \in 1 .. n /\ b - a \in 1 .. 4
        /\ times[l] = T(data[a]) /\ times[l + 1] = T(data[b])
    BY <1>8
  <2> HIDE DEF a, b, times
  <2>2. \A j \in a .. b - 1 : T(data[j + 1]) - T(data[j]) >= Interval
    BY <1>1, <2>1
  <2>3. T(data[b]) - T(data[a]) >= Interval
    BY <2>1, <2>2, NearRows
  <2> QED
    BY <2>1, <2>3
<1>10. Median(D) >= Interval
  <2> HIDE DEF times
  <2>1. D \in Seq(Nat \ {0}) /\ Len(D) \in Nat
    BY <1>3, <1>5, DeltasAre
  <2>2. PICK at \in [1 .. Len(D) -> 1 .. m - 1] :
          \A i \in 1 .. Len(D) : D[i] = times[at[i] + 1] - times[at[i]]
    BY <1>3, <1>5, DeltasAre
  <2> HIDE DEF D, m
  <2>3. Median(D) \in Range(D)
    BY <1>7, <2>1, MedianIs
  <2>4. PICK i \in 1 .. Len(D) : Median(D) = D[i]
    BY <2>1, <2>3 DEF Range
  <2>5. at[i] \in 1 .. m - 1
    BY <2>2
  <2> QED
    BY <1>9, <2>2, <2>4, <2>5
<1> DEFINE a == kept[k]
           b == kept[k + 1]
<1>11. /\ a \in 1 .. n /\ b \in 1 .. n /\ b - a \in 1 .. 4
       /\ times[k] = T(data[a]) /\ times[k + 1] = T(data[b])
  BY <1>6, <1>8
<1> HIDE DEF times, D, a, b
<1>12. T(data[a]) \in Int /\ T(data[b]) \in Int /\ Interval \in Nat
  BY <1>11, DistancesAre DEF IsData
<1>13. ~ (T(data[b]) - T(data[a]) <= 4 * Interval)
  BY <1>6, <1>7, <1>10, <1>11, <1>12
<1>14. \E j \in a .. b - 1 : ~ (T(data[j + 1]) - T(data[j]) <= Interval)
  BY <1>11, <1>13, NearRows
<1>15. PICK j \in a .. b - 1 : ~ (T(data[j + 1]) - T(data[j]) <= Interval)
  BY <1>14
<1>16. T(data[j + 1]) \in Int /\ T(data[j]) \in Int
  <2>1. j \in 1 .. n /\ j + 1 \in 1 .. n
    BY <1>1, <1>11
  <2> QED
    BY <2>1 DEF IsData
<1> QED
  BY <1>12, <1>15, <1>16 DEF a, b

\* An entry that more than half of a sequence are is its median.
LEMMA MedianOfMost ==
  ASSUME NEW s \in Seq(Nat \ {0}), NEW c \in Nat,
         2 * Cardinality({k \in 1 .. Len(s) : s[k] = c}) > Len(s)
  PROVE  s # << >> /\ Median(s) = c
<1> DEFINE n == Len(s)
           half == n \div 2
           most == {k \in 1 .. n : s[k] = c}
           m == Median(s)
           less == {k \in 1 .. n : s[k] < m}
           below == {k \in 1 .. n : s[k] <= m}
<1>1. n \in Nat /\ half \in Nat /\ 2 * half <= n /\ n < 2 * half + 2
  OBVIOUS
<1>2. IsFiniteSet(1 .. n) /\ Cardinality(1 .. n) = n
  <2>1. 1 \in Int /\ n \in Int
    BY <1>1
  <2>2. IsFiniteSet(1 .. n) /\ Cardinality(1 .. n) = IF 1 > n THEN 0 ELSE n - 1 + 1
    BY <2>1, FS_Interval, Zenon
  <2> QED
    BY <1>1, <2>2
<1>3. IsFiniteSet(most) /\ Cardinality(most) \in Nat /\ 2 * Cardinality(most) > n
  <2>1. most \subseteq 1 .. n /\ 2 * Cardinality(most) > n
    OBVIOUS
  <2> HIDE DEF most, n
  <2> QED
    BY <1>2, <2>1, FS_Subset, FS_CardinalityType
<1>4. s # << >>
  <2>1. CASE s = << >>
    <3>1. n = 0 /\ most = {}
      BY <2>1
    <3>2. Cardinality(most) = 0
      BY <3>1, FS_EmptySet
    <3> HIDE DEF most, n
    <3> QED
      BY <1>3, <3>1, <3>2
  <2> QED
    BY <2>1
<1>5. m \in Nat \ {0} /\ Cardinality(less) <= half /\ Cardinality(below) > half
  BY <1>4, MedianIs
<1>6. /\ IsFiniteSet(less) /\ Cardinality(less) \in Nat
      /\ IsFiniteSet(below) /\ Cardinality(below) \in Nat
  <2>1. less \subseteq 1 .. n /\ below \subseteq 1 .. n
    OBVIOUS
  <2> HIDE DEF less, below, n
  <2> QED
    BY <1>2, <2>1, FS_Subset, FS_CardinalityType
<1>7. ~ (m > c)
  <2>1. ASSUME m > c PROVE FALSE
    <3>1. most \subseteq less
      BY <2>1
    <3> HIDE DEF less, most, m, half, n
    <3>2. Cardinality(most) <= Cardinality(less)
      BY <1>6, <3>1, FS_Subset
    <3> QED
      BY <1>1, <1>3, <1>5, <1>6, <3>2
  <2> QED
    BY <2>1
<1>8. ~ (m < c)
  <2>1. ASSUME m < c PROVE FALSE
    <3>1. /\ most \cap below = {} /\ most \cup below \subseteq 1 .. n
      BY <1>5, <2>1
    <3> HIDE DEF below, most, m, half, n
    <3>2. Cardinality(most \cup below) = Cardinality(most) + Cardinality(below) - Cardinality(most \cap below)
      BY <1>3, <1>6, FS_Union
    <3>3. Cardinality(most \cap below) = 0
      BY <3>1, FS_EmptySet
    <3>4. Cardinality(most \cup below) <= n
      BY <1>2, <3>1, FS_Subset
    <3> QED
      BY <1>1, <1>3, <1>5, <1>6, <3>2, <3>3, <3>4
  <2> QED
    BY <2>1
<1> QED
  BY <1>4, <1>5, <1>7, <1>8

\* With every row drawn, and one interval for more than half of the distances forward in
\* time, the breaks are where more than four intervals have passed.
LEMMA BreaksOfMostOnTime ==
  ASSUME NEW data, IsData(data), data # << >>,
         LET between == 1 .. Len(data) - 1
             regular == {j \in between : T(data[j + 1]) - T(data[j]) = Interval}
             forward == {j \in between : T(data[j + 1]) - T(data[j]) > 0}
         IN  2 * Cardinality(regular) > Cardinality(forward)
  PROVE  Breaks([l \in 1 .. Len(data) |-> T(data[l])])
           = {j \in 1 .. Len(data) - 1 : T(data[j + 1]) - T(data[j]) > 4 * Interval}
<1> DEFINE n == Len(data)
           times == [l \in 1 .. n |-> T(data[l])]
           Of(j) == times[j + 1] - times[j]
           regular == {j \in 1 .. n - 1 : Of(j) = Interval}
           forward == {j \in 1 .. n - 1 : Of(j) > 0}
           D == Deltas(times)
           most == {k \in 1 .. Len(D) : D[k] = Interval}
<1>1. n \in Nat \ {0} /\ times \in [1 .. n -> Int] /\ Interval \in Nat \ {0}
  <2>1. n \in Nat /\ (\A j \in 1 .. n : T(data[j]) \in Int) /\ n # 0
    BY DEF IsData
  <2> QED
    BY <2>1, DistancesAre
<1>2. \A j \in 1 .. n - 1 : Of(j) = T(data[j + 1]) - T(data[j]) /\ Of(j) \in Int
  <2> SUFFICES ASSUME NEW j \in 1 .. n - 1 PROVE Of(j) = T(data[j + 1]) - T(data[j]) /\ Of(j) \in Int
    OBVIOUS
  <2>1. j \in 1 .. n /\ j + 1 \in 1 .. n
    BY <1>1
  <2>2. times[j] = T(data[j]) /\ times[j + 1] = T(data[j + 1])
    <3> HIDE DEF n
    <3> QED
      BY <2>1
  <2>3. times[j] \in Int /\ times[j + 1] \in Int
    <3> HIDE DEF times
    <3> QED
      BY <1>1, <2>1
  <2> QED
    BY <2>2, <2>3
<1>3. Len(times) = n
  <2> HIDE DEF times, n
  <2> QED
    BY <1>1, LengthOfFunction
<1>4. /\ 2 * Cardinality(regular) > Cardinality(forward)
      /\ {j \in 1 .. n - 1 : Of(j) > 4 * Interval}
           = {j \in 1 .. Len(data) - 1 : T(data[j + 1]) - T(data[j]) > 4 * Interval}
  <2>1. regular = {j \in 1 .. n - 1 : T(data[j + 1]) - T(data[j]) = Interval}
    <3> HIDE DEF Of, n
    <3> QED
      BY <1>2
  <2>2. forward = {j \in 1 .. n - 1 : T(data[j + 1]) - T(data[j]) > 0}
    <3> HIDE DEF Of, n
    <3> QED
      BY <1>2
  <2>3. {j \in 1 .. n - 1 : Of(j) > 4 * Interval}
           = {j \in 1 .. n - 1 : T(data[j + 1]) - T(data[j]) > 4 * Interval}
    <3> HIDE DEF Of, n
    <3> QED
      BY <1>2
  <2> HIDE DEF Of
  <2> QED
    BY <2>1, <2>2, <2>3
<1> HIDE DEF times, n, D
<1>5. /\ IsFiniteSet(1 .. n - 1) /\ IsFiniteSet(1 .. Len(D)) /\ Len(D) \in Nat
      /\ D \in Seq(Nat \ {0}) /\ Cardinality(1 .. Len(D)) = Len(D)
      /\ Cardinality(1 .. n - 1) = n - 1
  <2>1. Len(D) \in Nat /\ D \in Seq(Nat \ {0})
    BY <1>1, DeltasAre DEF D
  <2>2. 1 \in Int /\ n - 1 \in Int /\ Len(D) \in Int
    BY <1>1, <2>1
  <2>3. /\ IsFiniteSet(1 .. Len(D))
        /\ Cardinality(1 .. Len(D)) = IF 1 > Len(D) THEN 0 ELSE Len(D) - 1 + 1
    BY <2>2, FS_Interval, Zenon
  <2>4. /\ IsFiniteSet(1 .. n - 1)
        /\ Cardinality(1 .. n - 1) = IF 1 > n - 1 THEN 0 ELSE (n - 1) - 1 + 1
    BY <2>2, FS_Interval, Zenon
  <2> QED
    BY <1>1, <2>1, <2>3, <2>4
<1>6. PICK at \in [1 .. Len(D) -> 1 .. n - 1] :
        /\ \A k, l \in 1 .. Len(D) : k < l => at[k] < at[l]
        /\ \A k \in 1 .. Len(D) : D[k] = Of(at[k])
        /\ \A j \in 1 .. n - 1 : Of(j) > 0 => \E k \in 1 .. Len(D) : at[k] = j
  BY <1>1, DeltasAre DEF D
<1>7. \A k \in 1 .. Len(D) : D[k] \in Nat \ {0}
  BY <1>5
<1>8. IsFiniteSet(regular) /\ IsFiniteSet(forward) /\ IsFiniteSet(most)
  <2>1. regular \subseteq 1 .. n - 1 /\ forward \subseteq 1 .. n - 1 /\ most \subseteq 1 .. Len(D)
    OBVIOUS
  <2> HIDE DEF regular, forward, most
  <2> QED
    BY <1>5, <2>1, FS_Subset
<1>9. Cardinality(regular) \in Nat /\ Cardinality(forward) \in Nat /\ Cardinality(most) \in Nat
  <2> HIDE DEF regular, forward, most
  <2> QED
    BY <1>8, FS_CardinalityType
\* Each row on time is counted among the distances.
<1>10. Cardinality(regular) <= Cardinality(most)
  <2> DEFINE f == [k \in most |-> at[k]]
  <2>1. \A k \in most : at[k] \in regular
    BY <1>6
  <2>2. \A j \in regular : \E k \in most : f[k] = j
    <3> SUFFICES ASSUME NEW j \in regular PROVE \E k \in most : f[k] = j
      OBVIOUS
    <3>1. j \in 1 .. n - 1 /\ Of(j) = Interval
      OBVIOUS
    <3>2. Of(j) > 0
      <4> HIDE DEF Of
      <4> QED
        BY <1>1, <3>1
    <3>3. PICK k \in 1 .. Len(D) : at[k] = j
      BY <1>6, <3>1, <3>2
    <3>4. k \in most
      BY <1>6, <3>1, <3>3
    <3> QED
      BY <3>3, <3>4
  <2>3. f \in [most -> regular]
    BY <2>1
  <2> HIDE DEF f, most, regular
  <2>4. f \in Surjection(most, regular)
    BY <2>2, <2>3 DEF Surjection
  <2> QED
    BY <1>8, <2>4, FS_Surjection
\* And each distance is one forward.
<1>11. Len(D) <= Cardinality(forward)
  <2>1. \A k \in 1 .. Len(D) : at[k] \in forward
    BY <1>6, <1>7
  <2>2. at \in [1 .. Len(D) -> forward]
    <3> HIDE DEF forward
    <3> QED
      BY <1>6, <2>1
  <2>3. ASSUME NEW k \in 1 .. Len(D), NEW l \in 1 .. Len(D), at[k] = at[l] PROVE k = l
    <3>1. at[k] \in Int /\ ~(k < l) /\ ~(l < k)
      BY <1>6, <2>3
    <3> QED
      BY <1>5, <3>1
  <2> HIDE DEF forward
  <2>4. at \in Injection(1 .. Len(D), forward)
    BY <2>2, <2>3 DEF Injection, IsInjective
  <2> QED
    BY <1>5, <1>8, <2>4, FS_Injection
<1>12. D # << >> /\ Median(D) = Interval
  <2>1. 2 * Cardinality(most) > Len(D)
    <3> HIDE DEF most, regular, forward
    <3> QED
      BY <1>4, <1>5, <1>9, <1>10, <1>11
  <2> HIDE DEF Of
  <2> QED
    BY <1>1, <1>5, <2>1, MedianOfMost
<1> HIDE DEF Of
<1>13. CASE n >= 3
  <2>1. gapThreshold(times) = 4 * Interval
    BY <1>3, <1>1, <1>12, <1>13 DEF gapThreshold, D
  <2>2. Breaks(times) = {j \in 1 .. n - 1 : Of(j) > 4 * Interval}
    BY <1>1, <1>3, <2>1 DEF Breaks, Of
  <2> QED
    BY <1>4, <2>2 DEF times, n
\* Two rows have no threshold, and are on time.
<1>14. CASE n < 3
  <2>1. Breaks(times) = {}
    BY <1>1, <1>3, <1>14 DEF Breaks, gapThreshold
  <2>2. PICK i \in 1 .. n - 1 : Of(i) = Interval
    <3>1. regular # {}
      <4>1. CASE regular = {}
        <5>1. Cardinality(regular) = 0
          BY <4>1, FS_EmptySet
        <5> HIDE DEF regular, forward
        <5> QED
          BY <1>4, <1>9, <5>1
      <4> QED
        BY <4>1
    <3> QED
      BY <3>1
  <2>3. \A j \in 1 .. n - 1 : j = i /\ ~ (Of(j) > 4 * Interval)
    BY <1>1, <1>14, <2>2
  <2>4. {j \in 1 .. n - 1 : Of(j) > 4 * Interval} = {}
    BY <2>3
  <2> QED
    BY <1>4, <2>1, <2>4 DEF times, n
<1> QED
  BY <1>1, <1>13, <1>14

\* What the breaks of a panel are.
LEMMA BreaksAre ==
  ASSUME NEW data, IsData(data), data # << >>, NEW low \in SUBSET MayRoundDown(Len(data))
  PROVE  SilencesBroken(data, sampleData(data, low))
<1> DEFINE n == Len(data)
           kept == sampleData(data, low)
           line == [k \in 1 .. Len(kept) |-> T(data[kept[k]])]
           broken == Breaks(line)
           between == 1 .. n - 1
           regular == {j \in between : T(data[j + 1]) - T(data[j]) = Interval}
           forward == {j \in between : T(data[j + 1]) - T(data[j]) > 0}
<1>1. ASSUME n <= MaxPts, 2 * Cardinality(regular) > Cardinality(forward)
      PROVE  broken = {j \in between : T(data[j + 1]) - T(data[j]) > 4 * Interval}
  <2>1. kept = [j \in 1 .. n |-> j] /\ Len(kept) = n
    BY <1>1, AllDrawn
  <2>2. line = [k \in 1 .. n |-> T(data[k])]
    <3> HIDE DEF kept, n
    <3>1. \A k \in 1 .. n : kept[k] = k
      BY <2>1
    <3> QED
      BY <2>1, <3>1
  <2>3. Breaks([k \in 1 .. n |-> T(data[k])])
          = {j \in between : T(data[j + 1]) - T(data[j]) > 4 * Interval}
    BY <1>1, BreaksOfMostOnTime
  <2> QED
    BY <2>2, <2>3
<1>2. ASSUME n <= 2 * (MaxPts - 1), \A j \in between : T(data[j + 1]) - T(data[j]) >= Interval,
             NEW k \in broken
      PROVE  \E j \in kept[k] .. kept[k + 1] - 1 : T(data[j + 1]) - T(data[j]) > Interval
  BY <1>2, BreaksOverSilences
<1>3. n <= 2 * (MaxPts - 1) /\ (\A j \in between : T(data[j + 1]) - T(data[j]) >= Interval)
        => \A k \in broken : \E j \in kept[k] .. kept[k + 1] - 1 : T(data[j + 1]) - T(data[j]) > Interval
  BY <1>2
<1> QED
  BY <1>1, <1>3, Zenon DEF SilencesBroken

\* For every interval, every distances of the rows, every number of points and rows, every
\* cutoff, every rounding and every file that former daemons, crashes and failed writes
\* leave: where all rows are drawn and most come on time, the line is broken exactly where
\* more than four intervals have passed without one; and of rows at least an interval
\* apart, about every second of them drawn, no break lies over rows that are on time.
THEOREM BreaksAreOfSilences == GSpec => []BreaksAreSilences
<1>1. ASSUME GInv PROVE BreaksAreSilences
  <2> SUFFICES ASSUME NEW h \in Hours, NEW low \in SUBSET MayRoundDown(Len(Loaded(h))),
                      Loaded(h) # << >>
               PROVE  SilencesBroken(Loaded(h), sampleData(Loaded(h), low))
    BY Zenon DEF BreaksAreSilences, ForEachPanel
  <2>1. IsData(Loaded(h))
    BY <1>1, LoadedFacts DEF GInv
  <2> QED
    BY <2>1, BreaksAre
<1>2. GInv => BreaksAreSilences
  BY <1>1
<1> QED
  BY <1>2, GraphInv, PTL

=============================================================================
