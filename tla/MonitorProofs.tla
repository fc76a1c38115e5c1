----------------------------- MODULE MonitorProofs -----------------------------
(***************************************************************************)
(* For every threshold, window and session length: what `nstat status`     *)
(* reads is a whole snapshot whose figures fit together, the figures of    *)
(* the session are those of its pings, the main loop implements the outage *)
(* detector, and the status view never says GOOD under its heading         *)
(* [IN OUTAGE].                                                            *)
(***************************************************************************)
EXTENDS MonitorStatus, FiniteSetTheorems, FunctionTheorems, SequenceTheorems, TLAPS

\* The instance counts with the same Cardinality as this module.
LEMMA LostInDef ==
  \A w : W!LostIn(w) = Cardinality({k \in 1 .. Len(w) : w[k] = TRUE})
<1>1. \A S : W!Cardinality(S) = Cardinality(S)
  BY DEF W!Cardinality, Cardinality
<1> QED
  BY <1>1 DEF W!LostIn

\* A window has at most as many lost pings as pings.
LEMMA LostInType ==
  ASSUME NEW w \in Seq(BOOLEAN)
  PROVE  W!LostIn(w) \in Nat /\ W!LostIn(w) <= Len(w)
<1> DEFINE A == {k \in 1 .. Len(w) : w[k] = TRUE}
<1>1. IsFiniteSet(1 .. Len(w)) /\ Cardinality(1 .. Len(w)) = Len(w)
  <2> DEFINE n == Len(w)
  <2>1. 1 \in Int /\ n \in Int /\ n >= 0
    OBVIOUS
  <2> HIDE DEF A, n
  <2>2. /\ IsFiniteSet(1 .. n)
        /\ Cardinality(1 .. n) = IF 1 > n THEN 0 ELSE n - 1 + 1
    BY <2>1, FS_Interval, Zenon
  <2>3. Cardinality(1 .. n) = n
    BY <2>1, <2>2
  <2> QED
    BY <2>2, <2>3 DEF n
<1>2. IsFiniteSet(A) /\ Cardinality(A) <= Len(w)
  BY <1>1, FS_Subset
<1>3. Cardinality(A) \in Nat
  BY <1>2, FS_CardinalityType
<1> QED
  BY <1>2, <1>3, LostInDef

\* An appended ping counts when it is a lost one.
LEMMA LostInAppend ==
  ASSUME NEW w \in Seq(BOOLEAN), NEW o \in BOOLEAN
  PROVE  W!LostIn(Append(w, o)) = W!LostIn(w) + (IF o THEN 1 ELSE 0)
<1> DEFINE v == Append(w, o)
           A == {k \in 1 .. Len(w) : w[k] = TRUE}
           B == {k \in 1 .. Len(v) : v[k] = TRUE}
           n == Len(w) + 1
<1>1. Len(v) = n /\ v[n] = o /\ \A k \in 1 .. Len(w) : v[k] = w[k]
  BY AppendProperties
<1>2. IsFiniteSet(A) /\ Cardinality(A) \in Nat /\ n \notin A
  <2>1. IsFiniteSet(1 .. Len(w))
    BY FS_Interval
  <2> QED
    BY <2>1, FS_Subset, FS_CardinalityType
<1>3. CASE o
  <2>1. B = A \cup {n}
    BY <1>1, <1>3
  <2>2. Cardinality(B) = Cardinality(A) + 1
    BY <1>2, <2>1, FS_AddElement
  <2> QED
    BY <1>3, <2>2, LostInDef
<1>4. CASE ~o
  <2>1. B = A
    BY <1>1, <1>4
  <2>2. W!LostIn(v) = Cardinality(B) /\ W!LostIn(w) = Cardinality(A)
    BY LostInDef
  <2> HIDE DEF A, B
  <2> QED
    BY <1>2, <1>4, <2>1, <2>2
<1> QED
  BY <1>3, <1>4

\* Dropping the oldest ping of a window adds no lost ping.
LEMMA LostInTail ==
  ASSUME NEW w \in Seq(BOOLEAN), w # << >>
  PROVE  W!LostIn(Tail(w)) <= W!LostIn(w)
<1> DEFINE v == Tail(w)
           A == {k \in 1 .. Len(w) : w[k] = TRUE}
           B == {k \in 1 .. Len(v) : v[k] = TRUE}
           f == [k \in B |-> k + 1]
<1>1. v \in Seq(BOOLEAN) /\ Len(v) = Len(w) - 1 /\ \A k \in 1 .. Len(v) : v[k] = w[k + 1]
  BY HeadTailProperties
<1>2. IsFiniteSet(A)
  BY FS_Interval, FS_Subset
<1>3. f \in [B -> A]
  BY <1>1
<1>4. \A j, k \in B : f[j] = f[k] => j = k
  BY <1>1
<1>5. f \in Injection(B, A)
  BY <1>3, <1>4, Fun_IsInj
<1>6. Cardinality(B) <= Cardinality(A)
  BY <1>2, <1>5, FS_Injection
<1> QED
  BY <1>6, LostInDef

\* One more ping: the window grows to its size, and gains at most that ping's loss.
LEMMA SlideStep ==
  ASSUME NEW w \in Seq(BOOLEAN), Len(w) <= Window, NEW o \in BOOLEAN
  PROVE  /\ W!Slide(w, o) \in Seq(BOOLEAN)
         /\ Len(W!Slide(w, o)) = IF Len(w) < Window THEN Len(w) + 1 ELSE Window
         /\ W!LostIn(W!Slide(w, o)) <= W!LostIn(w) + (IF o THEN 1 ELSE 0)
<1>1. CASE Len(w) < Window
  <2>1. W!Slide(w, o) = Append(w, o)
    BY <1>1 DEF W!Slide
  <2>2. W!LostIn(w) \in Nat
    BY LostInType
  <2> QED
    BY <1>1, <2>1, <2>2, LostInAppend, AppendProperties
<1>2. CASE ~(Len(w) < Window)
  <2>1. W!Slide(w, o) = Append(Tail(w), o) /\ w # << >> /\ Len(w) = Window
    BY <1>2, MonitorAssumption DEF W!Slide
  <2>2. Tail(w) \in Seq(BOOLEAN) /\ Len(Tail(w)) = Window - 1
    BY <2>1, HeadTailProperties
  <2>3. W!LostIn(w) \in Nat /\ W!LostIn(Tail(w)) \in Nat
    BY <2>2, LostInType
  <2>4. W!LostIn(Append(Tail(w), o)) = W!LostIn(Tail(w)) + (IF o THEN 1 ELSE 0)
    BY <2>2, LostInAppend
  <2>5. W!LostIn(Tail(w)) <= W!LostIn(w)
    BY <2>1, LostInTail
  <2>6. W!LostIn(Append(Tail(w), o)) <= W!LostIn(w) + (IF o THEN 1 ELSE 0)
    BY <2>3, <2>4, <2>5
  <2>7. Append(Tail(w), o) \in Seq(BOOLEAN) /\ Len(Append(Tail(w), o)) = Window
    BY <2>2, AppendProperties, MonitorAssumption
  <2> QED
    BY <1>2, <2>1, <2>6, <2>7
<1> QED
  BY <1>1, <1>2

\* RecordedIn is the log of the detector, and holds at most Keep outages.
LEMMA RecordedStep ==
  ASSUME NEW l \in Seq(0 .. Hour), Len(l) <= Keep
  PROVE  /\ RecordedIn(l) \in Seq(0 .. Hour)
         /\ Len(RecordedIn(l)) = IF Len(l) < Keep THEN Len(l) + 1 ELSE Keep
         /\ RecordedIn(l) = Detector!Logged(l)
<1> DEFINE m == Append(l, 0)
<1>1. 0 \in 0 .. Hour
  BY MonitorAssumption
<1>2. m \in Seq(0 .. Hour) /\ m # << >> /\ Len(m) = Len(l) + 1
  BY <1>1, AppendProperties
<1>3. Tail(m) \in Seq(0 .. Hour) /\ Len(Tail(m)) = Len(l)
  BY <1>2, HeadTailProperties
<1>4. Tail(m) = IF l = << >> THEN << >> ELSE Append(Tail(l), 0)
  BY <1>1, HeadTailAppend
<1>5. Len(l) = Keep => l # << >>
  BY MonitorAssumption
<1>6. RecordedIn(l) = IF Len(m) > Keep THEN Tail(m) ELSE m
  BY DEF RecordedIn
<1>7. Detector!Logged(l) = IF Len(l) < Keep THEN m ELSE Append(Tail(l), 0)
  BY DEF Detector!Logged
<1> HIDE DEF m
<1>8. CASE Len(l) < Keep
  BY <1>2, <1>6, <1>7, <1>8, MonitorAssumption
<1>9. CASE Len(l) = Keep
  <2>1. RecordedIn(l) = Tail(m)
    BY <1>2, <1>6, <1>9, MonitorAssumption
  <2>2. Detector!Logged(l) = Append(Tail(l), 0)
    BY <1>7, <1>9, MonitorAssumption
  <2> QED
    BY <1>3, <1>4, <1>5, <1>9, <2>1, <2>2
<1> QED
  BY <1>8, <1>9, MonitorAssumption

\* Time changes the ages of logged outages, never their number.
LEMMA OlderStep ==
  ASSUME NEW l \in Seq(0 .. Hour)
  PROVE  Older(l) \in Seq(0 .. Hour) /\ Len(Older(l)) = Len(l)
<1>1. Older(l) = [k \in 1 .. Len(l) |-> IF l[k] < Hour THEN l[k] + 1 ELSE l[k]]
  BY DEF Older
<1>2. \A k \in 1 .. Len(l) : l[k] \in 0 .. Hour
  BY ElementOfSeq
<1>3. \A k \in 1 .. Len(l) : (IF l[k] < Hour THEN l[k] + 1 ELSE l[k]) \in 0 .. Hour
  BY <1>2, MonitorAssumption
<1>4. Len(l) \in Nat
  OBVIOUS
<1> QED
  BY <1>1, <1>3, <1>4, IsASeq

-----------------------------------------------------------------------------
(***************************************************************************)
(* The inductive invariant.  SessionFigures compares with the pings of the *)
(* session; Accounts is the part of it that carries over from step to step *)
(* without them: the losses before the current run pay for every outage    *)
(* but the one in progress.                                                *)
(***************************************************************************)
Snapshots ==
  [PingsTotal : Nat, LossTotal : Nat, OutageCount : Nat, InOutage : BOOLEAN,
   Answered : BOOLEAN, LossWinTotal : Nat, LossWinLost : Nat]

Files == {NoFile, Torn} \cup
         [kind : {"complete"}, snap : Snapshots, RecentOutage : Seq(0 .. Hour)]

Types == /\ pc \in {"off", "top", "ping", "write", "fill", "rename"}
         /\ consecutiveLoss \in Nat /\ inOutage \in BOOLEAN
         /\ outages \in Nat /\ outageTimes \in Seq(0 .. Hour)
         /\ recent \in Seq(BOOLEAN)
         /\ snap \in Snapshots
         /\ tmp \in Files /\ disk \in Files

Alarm == /\ inOutage <=> consecutiveLoss >= LossThreshold
         /\ inOutage => snap.InOutage

Accounts == /\ snap.OutageCount = outages
            /\ inOutage => outages >= 1
            /\ consecutiveLoss <= snap.LossTotal /\ snap.LossTotal <= snap.PingsTotal
            /\ LossThreshold * (IF inOutage THEN outages - 1 ELSE outages)
                 <= snap.LossTotal - consecutiveLoss

Lists == /\ Len(recent) = IF snap.PingsTotal < Window THEN snap.PingsTotal ELSE Window
         /\ Len(outageTimes) = IF outages < Keep THEN outages ELSE Keep
         /\ W!LostIn(recent) <= snap.LossTotal

Copies == pc \in {"write", "fill", "rename"} =>
            snap.LossWinTotal = Len(recent) /\ snap.LossWinLost = W!LostIn(recent)

Published == /\ FitsTogether(tmp) /\ FitsTogether(disk)
             /\ disk # Torn
             /\ pc = "rename" => tmp.kind = "complete"
             /\ pc = "rename" => tmp.snap = snap /\ tmp.RecentOutage = outageTimes

IInv == Types /\ Alarm /\ Accounts /\ Lists /\ Copies /\ Published

\* The losses of a session pay for its outages: T for each one that ended, and the
\* run c in progress for the current one.  (T, c, n, l, f: threshold, run, outages,
\* losses, in outage.)
LEMMA AccountsPaid ==
  ASSUME NEW T \in Nat \ {0}, NEW c \in Nat, NEW n \in Nat, NEW l \in Nat, NEW f \in BOOLEAN,
         f <=> c >= T, f => n >= 1, T * (IF f THEN n - 1 ELSE n) <= l - c
  PROVE  T * n <= l
<1>1. CASE f
  <2>1. T * n = T * (n - 1) + T /\ T * (n - 1) \in Int
    BY <1>1
  <2> QED
    BY <1>1, <2>1
<1>2. CASE ~f
  <2>1. T * n \in Int
    OBVIOUS
  <2> QED
    BY <1>2, <2>1
<1> QED
  BY <1>1, <1>2

\* One more lost ping keeps the accounts, whether or not it starts an outage.
LEMMA AccountsLost ==
  ASSUME NEW T \in Nat \ {0}, NEW c \in Nat, NEW n \in Nat, NEW l \in Nat, NEW f \in BOOLEAN,
         f <=> c >= T, f => n >= 1, T * (IF f THEN n - 1 ELSE n) <= l - c,
         NEW f2 \in BOOLEAN, f2 <=> f \/ c + 1 = T,
         NEW n2 \in Nat, n2 = IF c + 1 = T THEN n + 1 ELSE n
  PROVE  /\ f2 <=> c + 1 >= T
         /\ f2 => n2 >= 1
         /\ T * (IF f2 THEN n2 - 1 ELSE n2) <= (l + 1) - (c + 1)
<1>1. CASE c + 1 = T
  <2>1. ~f /\ f2 /\ n2 = n + 1 /\ n2 - 1 = n
    BY <1>1
  <2>2. T * n <= l - c /\ T * n \in Int
    BY <2>1
  <2> QED
    BY <1>1, <2>1, <2>2
<1>2. CASE c + 1 # T
  <2>1. (f2 <=> f) /\ n2 = n /\ (f <=> c + 1 >= T)
    BY <1>2
  <2>2. T * (IF f THEN n - 1 ELSE n) \in Int
    OBVIOUS
  <2>3. T * (IF f2 THEN n2 - 1 ELSE n2) <= (l + 1) - (c + 1)
    BY <2>1, <2>2
  <2> QED
    BY <2>1, <2>3
<1> QED
  BY <1>1, <1>2

\* The figures of the snapshot about to be written fit together.
LEMMA FitsWhenFilled ==
  ASSUME Types, Alarm, Accounts, Lists, Copies, pc = "fill"
  PROVE  FitsTogether(Complete(snap, outageTimes))
<1>1. /\ snap.LossTotal \in Nat /\ snap.PingsTotal \in Nat /\ outages \in Nat
      /\ consecutiveLoss \in Nat /\ inOutage \in BOOLEAN
      /\ LossThreshold \in Nat \ {0} /\ recent \in Seq(BOOLEAN)
  BY MonitorAssumption DEF Types, Snapshots
<1>2. LossThreshold * outages <= snap.LossTotal
  BY <1>1, AccountsPaid DEF Accounts, Alarm
<1>3. /\ snap.LossWinTotal = IF snap.PingsTotal < Window THEN snap.PingsTotal ELSE Window
      /\ snap.LossWinLost <= snap.LossTotal
      /\ snap.LossTotal <= snap.PingsTotal
      /\ snap.OutageCount = outages
      /\ Len(outageTimes) = IF outages < Keep THEN outages ELSE Keep
  BY DEF Accounts, Lists, Copies
<1> QED
  BY <1>2, <1>3 DEF FitsTogether, Complete

\* A process starts, and starts again after a crash or a rotation, with its figures at 0.
LEMMA NewProcess == FreshProcess => /\ snap \in Snapshots /\ recent \in Seq(BOOLEAN)
                                    /\ outageTimes \in Seq(0 .. Hour)
                                    /\ Alarm /\ Accounts /\ Lists
<1>1. W!LostIn(<< >>) = 0
  <2>1. << >> \in Seq(BOOLEAN) /\ Len(<< >>) = 0
    BY EmptySeq
  <2>2. W!LostIn(<< >>) \in Nat /\ W!LostIn(<< >>) <= 0
    BY <2>1, LostInType
  <2> QED
    BY <2>2
<1>2. << >> \in Seq(0 .. Hour) /\ << >> \in Seq(BOOLEAN) /\ Len(<< >>) = 0
  BY EmptySeq
<1>3. LossThreshold \in Nat \ {0} /\ Window \in Nat \ {0} /\ Keep \in Nat \ {0}
  BY MonitorAssumption
<1>4. LossThreshold * 0 = 0
  BY <1>3
<1> SUFFICES ASSUME FreshProcess
             PROVE  /\ snap \in Snapshots /\ recent \in Seq(BOOLEAN)
                    /\ outageTimes \in Seq(0 .. Hour)
                    /\ Alarm /\ Accounts /\ Lists
  OBVIOUS
<1>5. snap \in Snapshots /\ recent \in Seq(BOOLEAN) /\ outageTimes \in Seq(0 .. Hour)
  BY <1>2 DEF FreshProcess, NewSnap, Snapshots
<1>6. Alarm
  BY <1>3 DEF FreshProcess, Alarm
<1>7. Accounts
  BY <1>4 DEF FreshProcess, NewSnap, Accounts
<1>8. Lists
  BY <1>1, <1>2, <1>3 DEF FreshProcess, NewSnap, Lists
<1> QED
  BY <1>5, <1>6, <1>7, <1>8

\* What a file holds stays what it is when the file is left behind or ages.
LEMMA FileSteps ==
  ASSUME NEW f \in Files
  PROVE  /\ LeftBehind(f) \in Files /\ FitsTogether(LeftBehind(f))
         /\ OlderFile(f) \in Files
         /\ FitsTogether(f) => FitsTogether(OlderFile(f))
         /\ f # Torn => OlderFile(f) # Torn
         /\ OlderFile(f).kind = f.kind
         /\ f.kind = "complete" => /\ OlderFile(f).snap = f.snap
                                   /\ OlderFile(f).RecentOutage = Older(f.RecentOutage)
<1>1. LeftBehind(f) \in Files /\ FitsTogether(LeftBehind(f))
  BY DEF LeftBehind, Files, FitsTogether, NoFile, Torn
<1>2. CASE f.kind = "complete"
  <2>1. f \in [kind : {"complete"}, snap : Snapshots, RecentOutage : Seq(0 .. Hour)]
    BY <1>2 DEF Files, NoFile, Torn
  <2>2. OlderFile(f) = [f EXCEPT !.RecentOutage = Older(f.RecentOutage)]
    BY <1>2 DEF OlderFile
  <2>3. Older(f.RecentOutage) \in Seq(0 .. Hour) /\ Len(Older(f.RecentOutage)) = Len(f.RecentOutage)
    BY <2>1, OlderStep
  <2>4. /\ OlderFile(f) \in [kind : {"complete"}, snap : Snapshots, RecentOutage : Seq(0 .. Hour)]
        /\ OlderFile(f).kind = "complete" /\ OlderFile(f).snap = f.snap
        /\ OlderFile(f).RecentOutage = Older(f.RecentOutage)
    BY <2>1, <2>2, <2>3
  <2>5. OlderFile(f) # Torn
    BY <2>4 DEF Torn
  <2>6. FitsTogether(f) => FitsTogether(OlderFile(f))
    BY <1>2, <2>3, <2>4 DEF FitsTogether
  <2> QED
    BY <1>1, <1>2, <2>4, <2>5, <2>6 DEF Files
<1>3. CASE f.kind # "complete"
  BY <1>1, <1>3 DEF OlderFile
<1> QED
  BY <1>2, <1>3

\* The steps that only touch the program counter and the files.
LEMMA FileStepsKeepMemory ==
  ASSUME IInv, UNCHANGED memory,
         pc' \in {"off", "top", "ping", "write", "fill", "rename"},
         pc' \in {"write", "fill", "rename"} => pc \in {"write", "fill", "rename"},
         tmp' \in Files, disk' \in Files
  PROVE  Types' /\ Alarm' /\ Accounts' /\ Lists' /\ Copies'
<1>1. Types'
  BY DEF IInv, Types, memory
<1>2. Alarm' /\ Accounts'
  BY DEF IInv, Alarm, Accounts, memory
<1>3. Lists'
  BY DEF IInv, Lists, memory, W!LostIn
<1>4. Copies'
  BY DEF IInv, Copies, memory, W!LostIn
<1> QED
  BY <1>1, <1>2, <1>3, <1>4

\* A lost ping keeps the invariant.
LEMMA PingLostInv == IInv /\ PingLost => IInv'
<1> SUFFICES ASSUME IInv, PingLost
             PROVE  IInv'
  OBVIOUS
<1> DEFINE starts == consecutiveLoss + 1 = LossThreshold
<1>1. /\ LossThreshold \in Nat \ {0} /\ Window \in Nat \ {0} /\ Keep \in Nat \ {0}
      /\ consecutiveLoss \in Nat /\ inOutage \in BOOLEAN /\ outages \in Nat
      /\ recent \in Seq(BOOLEAN) /\ Len(recent) \in Nat
      /\ outageTimes \in Seq(0 .. Hour) /\ Len(outageTimes) \in Nat
      /\ snap \in Snapshots /\ snap.PingsTotal \in Nat /\ snap.LossTotal \in Nat
      /\ snap.InOutage \in BOOLEAN /\ snap.OutageCount \in Nat
      /\ tmp \in Files /\ disk \in Files
  BY MonitorAssumption DEF IInv, Types, Snapshots
<1>2. /\ pc' = "write" /\ consecutiveLoss' = consecutiveLoss + 1
      /\ recent' = W!Slide(recent, TRUE)
      /\ inOutage' = (inOutage \/ starts)
      /\ outages' = IF starts THEN outages + 1 ELSE outages
      /\ outageTimes' = IF starts THEN RecordedIn(outageTimes) ELSE outageTimes
      /\ tmp' = tmp /\ disk' = disk
  BY DEF PingLost, Observe, files
<1>3. snap' = [snap EXCEPT !.PingsTotal = snap.PingsTotal + 1, !.LossTotal = snap.LossTotal + 1,
                           !.Answered = FALSE,
                           !.InOutage = snap.InOutage \/ starts,
                           !.OutageCount = IF starts THEN outages' ELSE snap.OutageCount,
                           !.LossWinTotal = Len(recent'),
                           !.LossWinLost = W!LostIn(recent')]
  BY DEF PingLost
<1>4. Len(recent) <= Window /\ Len(outageTimes) <= Keep
  BY <1>1 DEF IInv, Lists
<1>5. /\ recent' \in Seq(BOOLEAN)
      /\ Len(recent') = IF Len(recent) < Window THEN Len(recent) + 1 ELSE Window
      /\ W!LostIn(recent') <= W!LostIn(recent) + 1
  BY <1>1, <1>2, <1>4, SlideStep
<1>6. W!LostIn(recent') \in Nat /\ W!LostIn(recent) \in Nat /\ Len(recent') \in Nat
  BY <1>1, <1>5, LostInType
<1>7. outageTimes' \in Seq(0 .. Hour)
      /\ Len(outageTimes') = IF starts THEN (IF Len(outageTimes) < Keep THEN Len(outageTimes) + 1
                                             ELSE Keep)
                             ELSE Len(outageTimes)
  BY <1>1, <1>2, <1>4, RecordedStep
<1>8. outages' \in Nat /\ inOutage' \in BOOLEAN /\ consecutiveLoss' \in Nat
  BY <1>1, <1>2
<1>9. /\ snap' \in Snapshots
      /\ snap'.PingsTotal = snap.PingsTotal + 1 /\ snap'.LossTotal = snap.LossTotal + 1
      /\ snap'.InOutage = (snap.InOutage \/ starts)
      /\ snap'.OutageCount = IF starts THEN outages' ELSE snap.OutageCount
      /\ snap'.LossWinTotal = Len(recent') /\ snap'.LossWinLost = W!LostIn(recent')
  <2> DEFINE p == snap.PingsTotal + 1
             a == FALSE
             l == snap.LossTotal + 1
             i == snap.InOutage \/ starts
             o == IF starts THEN outages' ELSE snap.OutageCount
             t == Len(recent')
             w == W!LostIn(recent')
             s2 == snap'
  <2>1. /\ p \in Nat /\ l \in Nat /\ i \in BOOLEAN /\ o \in Nat /\ t \in Nat /\ w \in Nat
        /\ a \in BOOLEAN
    BY <1>1, <1>6, <1>8
  <2>2. s2 = [snap EXCEPT !.PingsTotal = p, !.LossTotal = l, !.Answered = a, !.InOutage = i,
                          !.OutageCount = o, !.LossWinTotal = t, !.LossWinLost = w]
    BY <1>3
  <2>3. snap \in Snapshots
    BY <1>1
  <2> HIDE DEF p, l, a, i, o, t, w, s2
  <2>4. /\ s2 \in Snapshots
        /\ s2.PingsTotal = p /\ s2.LossTotal = l /\ s2.InOutage = i
        /\ s2.OutageCount = o /\ s2.LossWinTotal = t /\ s2.LossWinLost = w
    <3>1. s2 = [PingsTotal |-> p, LossTotal |-> l, OutageCount |-> o, InOutage |-> i,
                Answered |-> a, LossWinTotal |-> t, LossWinLost |-> w]
      BY <2>2, <2>3 DEF Snapshots
    <3> QED
      BY <2>1, <3>1 DEF Snapshots
  <2> QED
    BY <2>4 DEF p, l, i, o, t, w, s2
<1>10. Types'
  BY <1>1, <1>2, <1>5, <1>7, <1>8, <1>9 DEF Types
<1>11. Alarm' /\ Accounts'
  <2>1. /\ inOutage <=> consecutiveLoss >= LossThreshold
        /\ inOutage => snap.InOutage
        /\ inOutage => outages >= 1
        /\ LossThreshold * (IF inOutage THEN outages - 1 ELSE outages)
             <= snap.LossTotal - consecutiveLoss
        /\ snap.OutageCount = outages
        /\ consecutiveLoss <= snap.LossTotal /\ snap.LossTotal <= snap.PingsTotal
    BY DEF IInv, Alarm, Accounts
  <2>2. /\ inOutage' <=> consecutiveLoss + 1 >= LossThreshold
        /\ inOutage' => outages' >= 1
        /\ LossThreshold * (IF inOutage' THEN outages' - 1 ELSE outages')
             <= (snap.LossTotal + 1) - (consecutiveLoss + 1)
    <3> DEFINE T == LossThreshold
               c == consecutiveLoss
               n == outages
               l == snap.LossTotal
               f == inOutage
               f2 == inOutage'
               n2 == outages'
    <3>1. /\ T \in Nat \ {0} /\ c \in Nat /\ n \in Nat /\ l \in Nat /\ f \in BOOLEAN
          /\ f2 \in BOOLEAN /\ n2 \in Nat
      BY <1>1, <1>8
    <3>2. (f <=> c >= T) /\ (f => n >= 1) /\ T * (IF f THEN n - 1 ELSE n) <= l - c
      BY <2>1
    <3>3. (f2 <=> f \/ c + 1 = T) /\ n2 = (IF c + 1 = T THEN n + 1 ELSE n)
      BY <1>2
    <3> HIDE DEF T, c, n, l, f, f2, n2
    <3>4. /\ f2 <=> c + 1 >= T
          /\ f2 => n2 >= 1
          /\ T * (IF f2 THEN n2 - 1 ELSE n2) <= (l + 1) - (c + 1)
      BY <3>1, <3>2, <3>3, AccountsLost
    <3> QED
      BY <3>4 DEF T, c, n, l, f, f2, n2
  <2>3. Alarm'
    BY <1>2, <1>9, <2>1, <2>2 DEF Alarm
  <2>4. snap'.OutageCount = outages'
    BY <1>2, <1>9, <2>1
  <2>5. consecutiveLoss + 1 <= snap.LossTotal + 1 /\ snap.LossTotal + 1 <= snap.PingsTotal + 1
    BY <1>1, <2>1
  <2>6. Accounts'
    BY <1>2, <1>9, <2>2, <2>4, <2>5 DEF Accounts
  <2> QED
    BY <2>3, <2>6
<1>12. Lists'
  <2>1. /\ Len(recent) = IF snap.PingsTotal < Window THEN snap.PingsTotal ELSE Window
        /\ Len(outageTimes) = IF outages < Keep THEN outages ELSE Keep
        /\ W!LostIn(recent) <= snap.LossTotal
    BY DEF IInv, Lists
  <2>2. Len(recent') = IF snap.PingsTotal + 1 < Window THEN snap.PingsTotal + 1 ELSE Window
    BY <1>1, <1>5, <2>1
  <2>3. Len(outageTimes') = IF outages' < Keep THEN outages' ELSE Keep
    <3>1. CASE starts
      BY <1>1, <1>2, <1>7, <2>1, <3>1
    <3>2. CASE ~starts
      BY <1>2, <1>7, <2>1, <3>2
    <3> QED
      BY <3>1, <3>2
  <2>4. W!LostIn(recent') <= snap.LossTotal + 1
    BY <1>1, <1>5, <1>6, <2>1
  <2>5. W!LostIn(recent)' = W!LostIn(recent')
    BY DEF W!LostIn
  <2> QED
    BY <1>9, <2>2, <2>3, <2>4, <2>5 DEF Lists
<1>13. Copies'
  <2>1. W!LostIn(recent)' = W!LostIn(recent')
    BY DEF W!LostIn
  <2> QED
    BY <1>9, <2>1 DEF Copies
<1>14. Published'
  BY <1>2 DEF IInv, Published, FitsTogether
<1> QED
  BY <1>10, <1>11, <1>12, <1>13, <1>14 DEF IInv

\* An answered ping keeps the invariant: the run in progress ends, and the losses of
\* the session pay for every outage.
LEMMA PingAnsweredInv == IInv /\ PingAnswered => IInv'
<1> SUFFICES ASSUME IInv, PingAnswered
             PROVE  IInv'
  OBVIOUS
<1>1. /\ LossThreshold \in Nat \ {0} /\ Window \in Nat \ {0} /\ Keep \in Nat \ {0}
      /\ consecutiveLoss \in Nat /\ inOutage \in BOOLEAN /\ outages \in Nat
      /\ recent \in Seq(BOOLEAN) /\ Len(recent) \in Nat
      /\ outageTimes \in Seq(0 .. Hour)
      /\ snap \in Snapshots /\ snap.PingsTotal \in Nat /\ snap.LossTotal \in Nat
      /\ snap.InOutage \in BOOLEAN /\ snap.OutageCount \in Nat
      /\ tmp \in Files /\ disk \in Files
  BY MonitorAssumption DEF IInv, Types, Snapshots
<1>2. /\ pc' = "write" /\ consecutiveLoss' = 0
      /\ recent' = W!Slide(recent, FALSE)
      /\ inOutage' = FALSE
      /\ outages' = outages /\ outageTimes' = outageTimes
      /\ tmp' = tmp /\ disk' = disk
  BY DEF PingAnswered, Observe, files
<1>3. snap' = [snap EXCEPT !.PingsTotal = snap.PingsTotal + 1,
                           !.Answered = TRUE,
                           !.InOutage = snap.InOutage /\ ~inOutage,
                           !.LossWinTotal = Len(recent'),
                           !.LossWinLost = W!LostIn(recent')]
  BY DEF PingAnswered
<1>4. Len(recent) <= Window
  BY <1>1 DEF IInv, Lists
<1>5. /\ recent' \in Seq(BOOLEAN)
      /\ Len(recent') = IF Len(recent) < Window THEN Len(recent) + 1 ELSE Window
      /\ W!LostIn(recent') <= W!LostIn(recent) + 0
  BY <1>1, <1>2, <1>4, SlideStep
<1>6. W!LostIn(recent') \in Nat /\ W!LostIn(recent) \in Nat /\ Len(recent') \in Nat
  BY <1>1, <1>5, LostInType
<1>7. /\ snap' \in Snapshots
      /\ snap'.PingsTotal = snap.PingsTotal + 1 /\ snap'.LossTotal = snap.LossTotal
      /\ snap'.OutageCount = snap.OutageCount
      /\ snap'.LossWinTotal = Len(recent') /\ snap'.LossWinLost = W!LostIn(recent')
  <2> DEFINE p == snap.PingsTotal + 1
             a == TRUE
             i == snap.InOutage /\ ~inOutage
             t == Len(recent')
             w == W!LostIn(recent')
             s == snap
             s2 == snap'
  <2>1. p \in Nat /\ i \in BOOLEAN /\ t \in Nat /\ w \in Nat /\ a \in BOOLEAN
    BY <1>1, <1>6
  <2>2. s2 = [s EXCEPT !.PingsTotal = p, !.Answered = a, !.InOutage = i,
                       !.LossWinTotal = t, !.LossWinLost = w]
    BY <1>3
  <2>3. s \in Snapshots
    BY <1>1
  <2> HIDE DEF p, a, i, t, w, s, s2
  <2>4. s2 = [PingsTotal |-> p, LossTotal |-> s.LossTotal, OutageCount |-> s.OutageCount,
              InOutage |-> i, Answered |-> a, LossWinTotal |-> t, LossWinLost |-> w]
    BY <2>2, <2>3 DEF Snapshots
  <2>5. s.LossTotal \in Nat /\ s.OutageCount \in Nat
    BY <2>3 DEF Snapshots
  <2>6. /\ s2 \in Snapshots
        /\ s2.PingsTotal = p /\ s2.LossTotal = s.LossTotal /\ s2.OutageCount = s.OutageCount
        /\ s2.LossWinTotal = t /\ s2.LossWinLost = w
    BY <2>1, <2>4, <2>5 DEF Snapshots
  <2> QED
    BY <2>6 DEF p, t, w, s, s2
<1>8. Types'
  BY <1>1, <1>2, <1>5, <1>7 DEF Types
<1>9. Alarm'
  BY <1>1, <1>2 DEF Alarm
<1>10. Accounts'
  <2>1. LossThreshold * outages <= snap.LossTotal
    <3> DEFINE T == LossThreshold
               c == consecutiveLoss
               n == outages
               l == snap.LossTotal
               f == inOutage
    <3>1. T \in Nat \ {0} /\ c \in Nat /\ n \in Nat /\ l \in Nat /\ f \in BOOLEAN
      BY <1>1
    <3>2. (f <=> c >= T) /\ (f => n >= 1) /\ T * (IF f THEN n - 1 ELSE n) <= l - c
      BY DEF IInv, Alarm, Accounts
    <3> HIDE DEF T, c, n, l, f
    <3>3. T * n <= l
      BY <3>1, <3>2, AccountsPaid
    <3> QED
      BY <3>3 DEF T, n, l
  <2>2. snap.OutageCount = outages /\ snap.LossTotal <= snap.PingsTotal
    BY DEF IInv, Accounts
  <2>3. 0 <= snap.LossTotal /\ snap.LossTotal <= snap.PingsTotal + 1
        /\ LossThreshold * outages <= snap.LossTotal - 0
    <3> DEFINE x == LossThreshold * outages
               l == snap.LossTotal
               p == snap.PingsTotal
    <3>1. x \in Int /\ l \in Nat /\ p \in Nat /\ x <= l /\ l <= p
      BY <1>1, <2>1, <2>2
    <3> HIDE DEF x, l, p
    <3>2. 0 <= l /\ l <= p + 1 /\ x <= l - 0
      BY <3>1
    <3> QED
      BY <3>2 DEF x, l, p
  <2> QED
    BY <1>2, <1>7, <2>2, <2>3 DEF Accounts
<1>11. Lists'
  <2>1. /\ Len(recent) = IF snap.PingsTotal < Window THEN snap.PingsTotal ELSE Window
        /\ Len(outageTimes) = IF outages < Keep THEN outages ELSE Keep
        /\ W!LostIn(recent) <= snap.LossTotal
    BY DEF IInv, Lists
  <2>2. Len(recent') = IF snap.PingsTotal + 1 < Window THEN snap.PingsTotal + 1 ELSE Window
    BY <1>1, <1>5, <2>1
  <2>3. W!LostIn(recent') <= snap.LossTotal
    BY <1>1, <1>5, <1>6, <2>1
  <2>4. W!LostIn(recent)' = W!LostIn(recent')
    BY DEF W!LostIn
  <2> QED
    BY <1>2, <1>7, <2>1, <2>2, <2>3, <2>4 DEF Lists
<1>12. Copies'
  <2>1. W!LostIn(recent)' = W!LostIn(recent')
    BY DEF W!LostIn
  <2> QED
    BY <1>7, <2>1 DEF Copies
<1>13. Published'
  BY <1>2 DEF IInv, Published, FitsTogether
<1> QED
  BY <1>8, <1>9, <1>10, <1>11, <1>12, <1>13 DEF IInv

\* A rotation empties the counters; InOutage of the snapshot may stay TRUE.
LEMMA RotateInv == IInv /\ Rotate => IInv'
<1> SUFFICES ASSUME IInv, Rotate
             PROVE  IInv'
  OBVIOUS
<1>1. /\ pc' = "ping" /\ consecutiveLoss' = 0 /\ inOutage' = FALSE
      /\ outages' = 0 /\ outageTimes' = << >> /\ recent' = << >>
      /\ tmp' = tmp /\ disk' = disk
      /\ snap' = [snap EXCEPT !.PingsTotal = 0, !.LossTotal = 0, !.OutageCount = 0]
  BY DEF Rotate, files
<1>2. snap \in Snapshots
  BY DEF IInv, Types
<1>3. /\ snap' \in Snapshots
      /\ snap'.PingsTotal = 0 /\ snap'.LossTotal = 0 /\ snap'.OutageCount = 0
  BY <1>1, <1>2 DEF Snapshots
<1>4. LossThreshold \in Nat \ {0} /\ Window \in Nat \ {0} /\ Keep \in Nat \ {0}
  BY MonitorAssumption
<1>5. << >> \in Seq(0 .. Hour) /\ << >> \in Seq(BOOLEAN) /\ Len(<< >>) = 0
  BY EmptySeq
<1>6. Types'
  BY <1>1, <1>3, <1>5 DEF IInv, Types
<1>7. Alarm'
  BY <1>1, <1>4 DEF Alarm
<1>8. Accounts'
  <2>1. LossThreshold * 0 = 0
    BY <1>4
  <2> QED
    BY <1>1, <1>3, <2>1 DEF Accounts
<1>9. Lists'
  <2>1. W!LostIn(<< >>) \in Nat /\ W!LostIn(<< >>) <= 0
    BY <1>5, LostInType
  <2>2. W!LostIn(recent)' = W!LostIn(recent')
    BY DEF W!LostIn
  <2> QED
    BY <1>1, <1>3, <1>4, <1>5, <2>1, <2>2 DEF Lists
<1>10. Copies'
  BY <1>1 DEF Copies
<1>11. Published'
  BY <1>1 DEF IInv, Published, FitsTogether
<1> QED
  BY <1>6, <1>7, <1>8, <1>9, <1>10, <1>11 DEF IInv

\* A crash keeps the files as they are and forgets the rest.
LEMMA CrashInv == IInv /\ Crash => IInv'
<1> SUFFICES ASSUME IInv, Crash
             PROVE  IInv'
  OBVIOUS
<1>1. tmp \in Files /\ disk \in Files
  BY DEF IInv, Types
<1>2. FreshProcess' /\ pc' = "off" /\ tmp' = LeftBehind(tmp) /\ disk' = disk
  BY DEF Crash, FreshProcess
<1>3. (FreshProcess => /\ snap \in Snapshots /\ recent \in Seq(BOOLEAN)
                       /\ outageTimes \in Seq(0 .. Hour)
                       /\ Alarm /\ Accounts /\ Lists)'
  BY NewProcess, PTL
<1>4. Types'
  BY <1>1, <1>2, <1>3, FileSteps DEF Types, FreshProcess
<1>5. Published'
  <2>1. FitsTogether(tmp')
    BY <1>1, <1>2, FileSteps
  <2>2. FitsTogether(tmp)' /\ FitsTogether(disk)'
    BY <1>2, <2>1 DEF IInv, Published, FitsTogether
  <2> QED
    BY <1>2, <2>2 DEF IInv, Published
<1> QED
  BY <1>2, <1>3, <1>4, <1>5 DEF IInv, Copies

\* The clock ages every copy of the outages alike.
LEMMA TickInv == IInv /\ Tick => IInv'
<1> SUFFICES ASSUME IInv, Tick
             PROVE  IInv'
  OBVIOUS
<1>1. /\ outageTimes' = Older(outageTimes)
      /\ tmp' = OlderFile(tmp) /\ disk' = OlderFile(disk)
      /\ pc' = pc /\ consecutiveLoss' = consecutiveLoss /\ inOutage' = inOutage
      /\ outages' = outages /\ recent' = recent /\ snap' = snap
  BY DEF Tick
<1>2. outageTimes \in Seq(0 .. Hour) /\ tmp \in Files /\ disk \in Files
  BY DEF IInv, Types
<1>3. outageTimes' \in Seq(0 .. Hour) /\ Len(outageTimes') = Len(outageTimes)
  BY <1>1, <1>2, OlderStep
<1>4. /\ tmp' \in Files /\ disk' \in Files
      /\ FitsTogether(tmp') /\ FitsTogether(disk') /\ disk' # Torn
      /\ tmp'.kind = tmp.kind
      /\ tmp.kind = "complete" => /\ tmp'.snap = tmp.snap
                                  /\ tmp'.RecentOutage = Older(tmp.RecentOutage)
  BY <1>1, <1>2, FileSteps DEF IInv, Published
<1>5. Types'
  BY <1>1, <1>3, <1>4 DEF IInv, Types
<1>6. Alarm' /\ Accounts'
  BY <1>1 DEF IInv, Alarm, Accounts
<1>7. Lists' /\ Copies'
  <2>1. W!LostIn(recent)' = W!LostIn(recent)
    BY <1>1 DEF W!LostIn
  <2> QED
    BY <1>1, <1>3, <2>1 DEF IInv, Lists, Copies
<1>8. Published'
  <2>1. FitsTogether(tmp)' /\ FitsTogether(disk)'
    BY <1>4 DEF FitsTogether
  <2>2. pc' = "rename" => tmp'.kind = "complete"
    BY <1>1, <1>4 DEF IInv, Published
  <2>3. pc' = "rename" => tmp'.snap = snap' /\ tmp'.RecentOutage = outageTimes'
    BY <1>1, <1>4 DEF IInv, Published
  <2> QED
    BY <1>4, <2>1, <2>2, <2>3 DEF Published, Torn
<1> QED
  BY <1>5, <1>6, <1>7, <1>8 DEF IInv

\* The steps of state.Write and of the loop that leave the memory alone.
LEMMA FileStepsInv ==
  IInv /\ (Continue \/ OpenTmp \/ FillTmp \/ Rename \/ WriteFails \/ Boot) => IInv'
<1> SUFFICES ASSUME IInv,
                    Continue \/ OpenTmp \/ FillTmp \/ Rename \/ WriteFails \/ Boot
             PROVE  IInv'
  OBVIOUS
<1>1. tmp \in Files /\ disk \in Files /\ snap \in Snapshots
      /\ outageTimes \in Seq(0 .. Hour)
  BY DEF IInv, Types
<1>2. NoFile \in Files /\ Torn \in Files /\ Complete(snap, outageTimes) \in Files
  BY <1>1 DEF Files, Complete
<1>3. FitsTogether(NoFile) /\ FitsTogether(Torn) /\ NoFile # Torn
  BY DEF FitsTogether, NoFile, Torn
<1>4. /\ UNCHANGED memory
      /\ pc' \in {"off", "top", "ping", "write", "fill", "rename"}
      /\ pc' \in {"write", "fill", "rename"} => pc \in {"write", "fill", "rename"}
  BY DEF Continue, OpenTmp, FillTmp, Rename, WriteFails, Boot
<1>5. UNCHANGED <<snap, outageTimes>>
  BY <1>4 DEF memory
<1>6. CASE Continue \/ Boot
  <2>1. tmp' = tmp /\ disk' = disk /\ pc' # "rename"
    BY <1>6 DEF Continue, Boot, files
  <2>2. Published'
    BY <2>1 DEF IInv, Published, FitsTogether
  <2> QED
    BY <1>1, <1>4, <2>1, <2>2, FileStepsKeepMemory DEF IInv
<1>7. CASE OpenTmp
  <2>1. tmp' = Torn /\ disk' = disk /\ pc' = "fill"
    BY <1>7 DEF OpenTmp
  <2>2. Published'
    BY <1>3, <2>1 DEF IInv, Published, FitsTogether
  <2> QED
    BY <1>1, <1>2, <1>4, <2>1, <2>2, FileStepsKeepMemory DEF IInv
<1>8. CASE FillTmp
  <2>1. tmp' = Complete(snap, outageTimes) /\ disk' = disk /\ pc = "fill"
    BY <1>8 DEF FillTmp
  <2>2. FitsTogether(Complete(snap, outageTimes))
    BY <2>1, FitsWhenFilled DEF IInv
  <2>3. FitsTogether(tmp') /\ FitsTogether(disk')
    BY <2>1, <2>2 DEF IInv, Published
  <2>4. FitsTogether(tmp)' /\ FitsTogether(disk)'
    BY <2>3 DEF FitsTogether
  <2>5. tmp'.kind = "complete" /\ tmp'.snap = snap' /\ tmp'.RecentOutage = outageTimes'
    BY <1>5, <2>1 DEF Complete
  <2>6. Published'
    BY <2>1, <2>4, <2>5 DEF IInv, Published, Torn
  <2> QED
    BY <1>1, <1>2, <1>4, <2>1, <2>6, FileStepsKeepMemory DEF IInv
<1>9. CASE Rename
  <2>1. tmp' = NoFile /\ disk' = tmp /\ pc = "rename" /\ pc' = "top"
    BY <1>9 DEF Rename
  <2>2. tmp # Torn
    BY <2>1 DEF IInv, Published, Torn
  <2>3. FitsTogether(tmp') /\ FitsTogether(disk')
    BY <1>3, <2>1 DEF IInv, Published
  <2>4. FitsTogether(tmp)' /\ FitsTogether(disk)'
    BY <2>3 DEF FitsTogether
  <2>5. Published'
    BY <2>1, <2>2, <2>4 DEF Published, Torn
  <2> QED
    BY <1>1, <1>2, <1>4, <2>1, <2>5, FileStepsKeepMemory DEF IInv
<1>10. CASE WriteFails
  <2>1. tmp' = LeftBehind(tmp) /\ disk' = disk /\ pc' = "top"
    BY <1>10 DEF WriteFails
  <2>2. tmp' \in Files /\ FitsTogether(tmp')
    BY <1>1, <2>1, FileSteps
  <2>3. FitsTogether(tmp)' /\ FitsTogether(disk)'
    BY <2>1, <2>2 DEF IInv, Published, FitsTogether
  <2>4. Published'
    BY <2>1, <2>3 DEF IInv, Published
  <2> QED
    BY <1>1, <1>4, <2>1, <2>2, <2>4, FileStepsKeepMemory DEF IInv
<1> QED
  BY <1>6, <1>7, <1>8, <1>9, <1>10

\* A daemon started in an empty directory.
LEMMA InitInv == Init => IInv
<1> SUFFICES ASSUME Init
             PROVE  IInv
  OBVIOUS
<1>1. /\ snap \in Snapshots /\ recent \in Seq(BOOLEAN) /\ outageTimes \in Seq(0 .. Hour)
      /\ Alarm /\ Accounts /\ Lists
  BY NewProcess DEF Init
<1>2. Types
  BY <1>1 DEF Init, FreshProcess, Types, Files
<1>3. Copies /\ Published
  BY DEF Init, Copies, Published, FitsTogether, NoFile, Torn
<1> QED
  BY <1>1, <1>2, <1>3 DEF IInv

\* Every step of the daemon, a crash at any point included, keeps the invariant.
LEMMA Invariance == IInv /\ [Next]_vars => IInv'
<1> SUFFICES ASSUME IInv, [Next]_vars
             PROVE  IInv'
  OBVIOUS
<1>1. CASE UNCHANGED vars
  <2>1. UNCHANGED memory /\ pc' = pc /\ tmp' = tmp /\ disk' = disk /\ UNCHANGED <<snap, outageTimes>>
    BY <1>1 DEF vars, files, memory
  <2>2. Published'
    BY <2>1 DEF IInv, Published, FitsTogether
  <2> QED
    BY <2>1, <2>2, FileStepsKeepMemory DEF IInv, Types
<1> QED
  BY <1>1, PingLostInv, PingAnsweredInv, RotateInv, CrashInv, TickInv, FileStepsInv DEF Next

\* The main loop, for every threshold, window and interval: counters, snapshot and
\* files agree (daemon.go:143-256, dim/ping.go:90-139, state.go:101-114).
THEOREM MonitorInvariant == Spec => []IInv
  BY InitInv, Invariance, PTL DEF Spec

\* For every threshold, window, number of kept outages and length of a session, and
\* at whatever point of a write the daemon dies or a call fails, the state file holds
\* no partial snapshot, and the figures of the one it holds fit together
\* (state.Write; the copies of daemon.go:233-237 and 253-254).
THEOREM PublishedWhole == Spec => []PublishedIsWhole
<1>1. IInv => PublishedIsWhole
  BY DEF IInv, Types, Published, Files, NoFile, Torn, PublishedIsWhole
<1> QED
  BY <1>1, MonitorInvariant, PTL

-----------------------------------------------------------------------------
(***************************************************************************)
(* The loop implements the outage detector: the counters, the window and   *)
(* the steps of a write are the detail.                                    *)
(***************************************************************************)

\* The loop's flag and the detector's capped run say the same, and the flag goes up
\* exactly when the run reaches the threshold.
LEMMA RunReaches ==
  ASSUME NEW T \in Nat \ {0}, NEW c \in Nat, NEW f \in BOOLEAN, NEW f2 \in BOOLEAN,
         f <=> c >= T, f2 <=> f \/ c + 1 = T
  PROVE  /\ f2 <=> (IF c + 1 < T THEN c + 1 ELSE T) = T
         /\ (f2 /\ ~f) <=> c + 1 = T
<1>1. CASE c + 1 = T
  BY <1>1
<1>2. CASE c + 1 < T
  BY <1>2
<1>3. CASE c >= T
  BY <1>3
<1> QED
  BY <1>1, <1>2, <1>3

\* A ping observed by the loop is a ping of the detector.
LEMMA LostIsLost == IInv /\ PingLost => Detector!Lost
<1> SUFFICES ASSUME IInv, PingLost
             PROVE  Detector!Lost
  OBVIOUS
<1> DEFINE starts == consecutiveLoss + 1 = LossThreshold
           run == IF consecutiveLoss < LossThreshold THEN consecutiveLoss ELSE LossThreshold
           run2 == IF consecutiveLoss' < LossThreshold THEN consecutiveLoss' ELSE LossThreshold
<1>1. /\ LossThreshold \in Nat \ {0} /\ Keep \in Nat /\ consecutiveLoss \in Nat
      /\ inOutage \in BOOLEAN /\ outageTimes \in Seq(0 .. Hour) /\ outages \in Nat
      /\ Len(outageTimes) = IF outages < Keep THEN outages ELSE Keep
      /\ snap \in Snapshots /\ snap.InOutage \in BOOLEAN
  BY MonitorAssumption DEF IInv, Types, Lists, Snapshots
<1>2. (inOutage <=> consecutiveLoss >= LossThreshold) /\ (inOutage => snap.InOutage)
  BY DEF IInv, Alarm
<1>3. /\ pc = "ping" /\ pc' = "write" /\ consecutiveLoss' = consecutiveLoss + 1
      /\ inOutage' = (inOutage \/ starts)
      /\ outageTimes' = IF starts THEN RecordedIn(outageTimes) ELSE outageTimes
      /\ disk' = disk
  BY DEF PingLost, files
<1>4. snap'.Answered = FALSE /\ snap'.InOutage = (snap.InOutage \/ starts)
  <2> DEFINE i == snap.InOutage \/ starts
             p == snap.PingsTotal + 1
             l == snap.LossTotal + 1
             o == IF starts THEN outages' ELSE snap.OutageCount
             t == Len(recent')
             w == W!LostIn(recent')
             s == snap
  <2>1. snap' = [s EXCEPT !.PingsTotal = p, !.LossTotal = l, !.Answered = FALSE,
                          !.InOutage = i, !.OutageCount = o, !.LossWinTotal = t,
                          !.LossWinLost = w]
    BY DEF PingLost
  <2>2. s \in Snapshots
    BY <1>1
  <2> HIDE DEF i, p, l, o, t, w, s
  <2>3. snap' = [PingsTotal |-> p, LossTotal |-> l, OutageCount |-> o, InOutage |-> i,
                 Answered |-> FALSE, LossWinTotal |-> t, LossWinLost |-> w]
    BY <2>1, <2>2 DEF Snapshots
  <2>4. snap'.Answered = FALSE /\ snap'.InOutage = i
    BY <2>3
  <2> QED
    BY <2>4 DEF i
<1>5. run2 = IF run < LossThreshold THEN run + 1 ELSE run
  BY <1>1, <1>3
<1>6. /\ inOutage' <=> (IF consecutiveLoss + 1 < LossThreshold THEN consecutiveLoss + 1
                         ELSE LossThreshold) = LossThreshold
      /\ (inOutage' /\ ~inOutage) <=> starts
  <2> DEFINE T == LossThreshold
             c == consecutiveLoss
             f == inOutage
             f2 == inOutage'
  <2>1. T \in Nat \ {0} /\ c \in Nat /\ f \in BOOLEAN /\ f2 \in BOOLEAN
    BY <1>1, <1>3
  <2>2. (f <=> c >= T) /\ (f2 <=> f \/ c + 1 = T)
    BY <1>2, <1>3
  <2> HIDE DEF T, c, f, f2
  <2>3. /\ f2 <=> (IF c + 1 < T THEN c + 1 ELSE T) = T
        /\ (f2 /\ ~f) <=> c + 1 = T
    BY <2>1, <2>2, RunReaches
  <2> QED
    BY <2>3 DEF T, c, f, f2
<1>7. inOutage' <=> run2 = LossThreshold
  BY <1>3, <1>6
<1>8. (inOutage' /\ ~inOutage) <=> starts
  BY <1>6
<1>9. RecordedIn(outageTimes) = Detector!Logged(outageTimes)
  BY <1>1, RecordedStep
<1>10. snap'.InOutage = (snap.InOutage \/ inOutage')
  BY <1>2, <1>3, <1>4
<1>11. inOutage' = (run2 = LossThreshold)
  BY <1>3, <1>7
<1>12. outageTimes' = IF inOutage' /\ ~inOutage THEN Detector!Logged(outageTimes)
                      ELSE outageTimes
  BY <1>3, <1>8, <1>9
<1> QED
  BY <1>3, <1>4, <1>5, <1>10, <1>11, <1>12 DEF Detector!Lost

\* An answered ping of the loop is one of the detector.
LEMMA AnsweredIsAnswered == IInv /\ PingAnswered => Detector!Answered
<1> SUFFICES ASSUME IInv, PingAnswered
             PROVE  Detector!Answered
  OBVIOUS
<1>1. LossThreshold \in Nat \ {0} /\ snap \in Snapshots
  BY MonitorAssumption DEF IInv, Types
<1>2. /\ pc = "ping" /\ pc' = "write" /\ consecutiveLoss' = 0
      /\ inOutage' = FALSE /\ outageTimes' = outageTimes /\ disk' = disk
  BY DEF PingAnswered, files
<1>3. snap'.Answered = TRUE /\ snap'.InOutage = (snap.InOutage /\ ~inOutage)
  <2> DEFINE i == snap.InOutage /\ ~inOutage
             p == snap.PingsTotal + 1
             t == Len(recent')
             w == W!LostIn(recent')
             s == snap
  <2>1. snap' = [s EXCEPT !.PingsTotal = p, !.Answered = TRUE, !.InOutage = i,
                          !.LossWinTotal = t, !.LossWinLost = w]
    BY DEF PingAnswered
  <2>2. s \in Snapshots
    BY <1>1
  <2> HIDE DEF i, p, t, w, s
  <2>3. snap' = [PingsTotal |-> p, LossTotal |-> s.LossTotal, OutageCount |-> s.OutageCount,
                 InOutage |-> i, Answered |-> TRUE, LossWinTotal |-> t, LossWinLost |-> w]
    BY <2>1, <2>2 DEF Snapshots
  <2>4. snap'.Answered = TRUE /\ snap'.InOutage = i
    BY <2>3
  <2> QED
    BY <2>4 DEF i
<1>4. (IF consecutiveLoss' < LossThreshold THEN consecutiveLoss' ELSE LossThreshold) = 0
  BY <1>1, <1>2
<1> QED
  BY <1>2, <1>3, <1>4 DEF Detector!Answered

\* The steps that are not pings.
LEMMA OtherSteps ==
  /\ IInv /\ Continue => Detector!Continue
  /\ IInv /\ Rotate => Detector!Rotate
  /\ OpenTmp \/ FillTmp => UNCHANGED Detector!vars
  /\ IInv /\ Rename => Detector!Publish
  /\ WriteFails => Detector!PublishFails
  /\ Crash => Detector!Crash
  /\ Boot => Detector!Boot
  /\ IInv /\ Tick => Detector!Tick
<1>1. ASSUME IInv, Continue PROVE Detector!Continue
  BY <1>1 DEF Continue, memory, files, Detector!Continue, Detector!loopVars
<1>2. ASSUME IInv, Rotate PROVE Detector!Rotate
  <2>1. snap \in Snapshots /\ LossThreshold \in Nat \ {0}
    BY <1>2, MonitorAssumption DEF IInv, Types
  <2>2. snap'.InOutage = snap.InOutage /\ snap'.Answered = snap.Answered
    BY <1>2, <2>1 DEF Rotate, Snapshots
  <2>3. (IF consecutiveLoss' < LossThreshold THEN consecutiveLoss' ELSE LossThreshold) = 0
    BY <1>2, <2>1 DEF Rotate
  <2> QED
    BY <1>2, <2>2, <2>3 DEF Rotate, files, Detector!Rotate
<1>3. ASSUME OpenTmp \/ FillTmp PROVE UNCHANGED Detector!vars
  BY <1>3 DEF OpenTmp, FillTmp, memory, Detector!vars, Detector!loopVars
<1>4. ASSUME IInv, Rename PROVE Detector!Publish
  <2>1. tmp.kind = "complete" /\ tmp.snap = snap /\ tmp.RecentOutage = outageTimes
    BY <1>4 DEF IInv, Published, Rename
  <2>2. disk'.kind = "complete" /\ disk'.snap = snap /\ disk'.RecentOutage = outageTimes
    BY <1>4, <2>1 DEF Rename
  <2>3. pc = "rename" /\ pc' = "top" /\ UNCHANGED memory
    BY <1>4 DEF Rename
  <2>4. snap.InOutage \in BOOLEAN
    BY <1>4 DEF IInv, Types, Snapshots
  <2> QED
    BY <2>2, <2>3, <2>4 DEF memory, Detector!Publish, Detector!loopVars
<1>5. ASSUME WriteFails PROVE Detector!PublishFails
  BY <1>5 DEF WriteFails, memory, Detector!PublishFails, Detector!loopVars
<1>6. ASSUME Crash PROVE Detector!Crash
  <2>1. (IF consecutiveLoss' < LossThreshold THEN consecutiveLoss' ELSE LossThreshold) = 0
    BY <1>6, MonitorAssumption DEF Crash
  <2> QED
    BY <1>6, <2>1 DEF Crash, NewSnap, Detector!Crash
<1>7. ASSUME Boot PROVE Detector!Boot
  BY <1>7 DEF Boot, memory, files, Detector!Boot, Detector!loopVars
<1>8. ASSUME IInv, Tick PROVE Detector!Tick
  <2>1. disk \in Files
    BY <1>8 DEF IInv, Types
  <2>2. /\ OlderFile(disk).kind = disk.kind
        /\ disk.kind = "complete" => /\ OlderFile(disk).snap = disk.snap
                                     /\ OlderFile(disk).RecentOutage = Older(disk.RecentOutage)
    BY <2>1, FileSteps
  <2>3. Older(<< >>) = << >>
    <3>1. << >> \in Seq(0 .. Hour) /\ Len(<< >>) = 0
      BY EmptySeq
    <3>2. Older(<< >>) \in Seq(0 .. Hour) /\ Len(Older(<< >>)) = 0
      BY <3>1, OlderStep
    <3> QED
      BY <3>2, EmptySeq
  <2>4. \A l : Detector!Older(l) = Older(l)
    BY DEF Detector!Older, Older
  <2>5. /\ outageTimes' = Older(outageTimes) /\ disk' = OlderFile(disk)
        /\ UNCHANGED <<pc, consecutiveLoss, inOutage, snap>>
    BY <1>8 DEF Tick
  <2>6. (IF disk'.kind = "complete" THEN disk'.RecentOutage ELSE << >>)
          = Older(IF disk.kind = "complete" THEN disk.RecentOutage ELSE << >>)
    BY <2>2, <2>3, <2>5
  <2>7. (disk'.kind = "complete" /\ disk'.snap.InOutage)
          = (disk.kind = "complete" /\ disk.snap.InOutage)
    BY <2>2, <2>5
  <2> QED
    BY <2>4, <2>5, <2>6, <2>7 DEF Detector!Tick
<1> QED
  BY <1>1, <1>2, <1>3, <1>4, <1>5, <1>6, <1>7, <1>8

\* The initial states map to initial states of the detector.
LEMMA DetectorInit == Init => Detector!Init
<1> SUFFICES ASSUME Init
             PROVE  Detector!Init
  OBVIOUS
<1>1. (IF consecutiveLoss < LossThreshold THEN consecutiveLoss ELSE LossThreshold) = 0
  BY MonitorAssumption DEF Init, FreshProcess
<1> QED
  BY <1>1 DEF Init, FreshProcess, NewSnap, NoFile, Detector!Init

\* Every step maps to a step of the detector or to none.
LEMMA DetectorStep == IInv /\ [Next]_vars => [Detector!Next]_(Detector!vars)
<1> SUFFICES ASSUME IInv, [Next]_vars
             PROVE  [Detector!Next]_(Detector!vars)
  OBVIOUS
<1>1. CASE UNCHANGED vars
  BY <1>1 DEF vars, memory, files, Detector!vars, Detector!loopVars
<1>2. CASE Next
  BY <1>2, LostIsLost, AnsweredIsAnswered, OtherSteps DEF Next, Detector!Next, Detector!Loop
<1> QED
  BY <1>1, <1>2

\* The main loop, its counters, its window and its file operations included,
\* implements the outage detector: whatever OutageDetector's behaviours promise about
\* the alarm that is shown, the code keeps (daemon.go:189-256, state.Write).
THEOREM Implementation == Spec => ImplementsDetector
  BY DetectorInit, DetectorStep, MonitorInvariant, PTL
     DEF Spec, ImplementsDetector, Detector!Spec

-----------------------------------------------------------------------------
(***************************************************************************)
(* The figures of the session against its pings: what one more ping does   *)
(* to the losses, the runs and the outages of a history, and the loss      *)
(* window as the last part of it.                                          *)
(***************************************************************************)

\* The window is the end of the history.
RecentIsLast ==
  /\ Len(recent) = IF Len(hist) < Window THEN Len(hist) ELSE Window
  /\ \A k \in 1 .. Len(recent) : recent[k] = hist[Len(hist) - Len(recent) + k]

SessionInv == /\ hist \in Seq(BOOLEAN)
              /\ snap.PingsTotal = Len(hist)
              /\ snap.LossTotal = Cardinality(LostPings(hist))
              /\ consecutiveLoss = RunAt(hist, Len(hist))
              /\ outages = Cardinality(OutageStarts(hist))
              /\ RecentIsLast
              /\ hist # << >> => /\ snap.Answered = ~hist[Len(hist)]
                                 /\ snap.LossWinTotal = Len(recent)
                                 /\ snap.LossWinLost = W!LostIn(recent)

\* The positions of a history are finitely many.
LEMMA FinitePositions ==
  ASSUME NEW n \in Nat, NEW T, T \subseteq 1 .. n
  PROVE  IsFiniteSet(T) /\ Cardinality(T) \in Nat
<1>1. IsFiniteSet(1 .. n)
  BY FS_Interval
<1> QED
  BY <1>1, FS_Subset, FS_CardinalityType

\* One more ping in the lost pings.
LEMMA LostPingsAppend ==
  ASSUME NEW h \in Seq(BOOLEAN), NEW o \in BOOLEAN
  PROVE  Cardinality(LostPings(Append(h, o))) = Cardinality(LostPings(h)) + (IF o THEN 1 ELSE 0)
<1> DEFINE g == Append(h, o)
           n == Len(h) + 1
<1>1. Len(h) \in Nat /\ Len(g) = n /\ g[n] = o /\ \A k \in 1 .. Len(h) : g[k] = h[k]
  BY AppendProperties
<1>2. IsFiniteSet(LostPings(h)) /\ Cardinality(LostPings(h)) \in Nat /\ n \notin LostPings(h)
  BY <1>1, FinitePositions DEF LostPings
<1>3. CASE o
  <2>1. LostPings(g) = LostPings(h) \cup {n}
    BY <1>1, <1>3 DEF LostPings
  <2> QED
    BY <1>2, <1>3, <2>1, FS_AddElement
<1>4. CASE ~o
  <2>1. LostPings(g) = LostPings(h)
    BY <1>1, <1>4 DEF LostPings
  <2> QED
    BY <1>2, <1>4, <2>1
<1> QED
  BY <1>3, <1>4

\* A run does not depend on later pings, and grows by a lost one.
LEMMA RunAppend ==
  ASSUME NEW h \in Seq(BOOLEAN), NEW o \in BOOLEAN
  PROVE  /\ \A n \in 0 .. Len(h) : RunAt(Append(h, o), n) = RunAt(h, n)
         /\ RunAt(Append(h, o), Len(h) + 1) = IF o THEN RunAt(h, Len(h)) + 1 ELSE 0
<1> DEFINE g == Append(h, o)
           m == Len(h) + 1
<1>1. Len(h) \in Nat /\ Len(g) = m /\ g[m] = o /\ \A k \in 1 .. Len(h) : g[k] = h[k]
  BY AppendProperties
<1>2. ASSUME NEW n \in 0 .. Len(h)
      PROVE  RunAt(g, n) = RunAt(h, n)
  <2>1. {k \in 1 .. n : \A j \in k .. n : g[j]} = {k \in 1 .. n : \A j \in k .. n : h[j]}
    BY <1>1
  <2> QED
    BY <2>1 DEF RunAt
<1> DEFINE A == {k \in 1 .. Len(h) : \A j \in k .. Len(h) : h[j]}
           B == {k \in 1 .. m : \A j \in k .. m : g[j]}
<1>3. IsFiniteSet(A) /\ Cardinality(A) \in Nat /\ m \notin A
  BY <1>1, FinitePositions
<1>4. CASE o
  <2>1. B = A \cup {m}
    <3>1. ASSUME NEW k \in B PROVE k \in A \cup {m}
      BY <1>1
    <3>2. ASSUME NEW k \in A \cup {m} PROVE k \in B
      <4>1. k \in 1 .. m
        BY <1>1
      <4>2. ASSUME NEW j \in k .. m PROVE g[j]
        <5>1. CASE j = m
          BY <1>1, <1>4, <5>1
        <5>2. CASE j # m
          <6>1. j \in k .. Len(h) /\ j \in 1 .. Len(h) /\ k # m
            BY <1>1, <4>1, <5>2
          <6> QED
            BY <1>1, <6>1
        <5> QED
          BY <5>1, <5>2
      <4> QED
        BY <4>1, <4>2
    <3> QED
      BY <3>1, <3>2
  <2>2. Cardinality(B) = Cardinality(A) + 1
    BY <1>3, <2>1, FS_AddElement
  <2>3. RunAt(g, m) = Cardinality(B) /\ RunAt(h, Len(h)) = Cardinality(A)
    BY DEF RunAt
  <2> HIDE DEF A, B, m, g
  <2>4. RunAt(g, m) = IF o THEN RunAt(h, Len(h)) + 1 ELSE 0
    BY <1>4, <2>2, <2>3
  <2> QED
    BY <1>2, <2>4 DEF m, g
<1>5. CASE ~o
  <2>1. B = {}
    BY <1>1, <1>5
  <2>2. RunAt(g, m) = Cardinality(B)
    BY DEF RunAt
  <2> QED
    BY <1>2, <1>5, <2>1, <2>2, FS_EmptySet
<1> QED
  BY <1>4, <1>5

\* One more ping starts an outage when its run reaches the threshold.
LEMMA OutageStartsAppend ==
  ASSUME NEW h \in Seq(BOOLEAN), NEW o \in BOOLEAN
  PROVE  Cardinality(OutageStarts(Append(h, o))) =
           Cardinality(OutageStarts(h))
             + (IF o /\ RunAt(h, Len(h)) + 1 = LossThreshold THEN 1 ELSE 0)
<1> DEFINE g == Append(h, o)
           n == Len(h) + 1
<1>1. Len(h) \in Nat /\ Len(g) = n
  BY AppendProperties
<1>2. IsFiniteSet(OutageStarts(h)) /\ Cardinality(OutageStarts(h)) \in Nat
      /\ n \notin OutageStarts(h)
  BY <1>1, FinitePositions DEF OutageStarts
<1>3. \A k \in 1 .. Len(h) : RunAt(g, k) = RunAt(h, k)
  BY RunAppend
<1>4. RunAt(g, n) = LossThreshold <=> o /\ RunAt(h, Len(h)) + 1 = LossThreshold
  <2>1. RunAt(g, n) = IF o THEN RunAt(h, Len(h)) + 1 ELSE 0
    BY RunAppend
  <2>2. LossThreshold # 0
    BY MonitorAssumption
  <2> QED
    BY <2>1, <2>2
<1> HIDE DEF g
<1>5. CASE o /\ RunAt(h, Len(h)) + 1 = LossThreshold
  <2>1. OutageStarts(g) = OutageStarts(h) \cup {n}
    BY <1>1, <1>3, <1>4, <1>5 DEF OutageStarts
  <2> QED
    BY <1>2, <1>5, <2>1, FS_AddElement DEF g
<1>6. CASE ~(o /\ RunAt(h, Len(h)) + 1 = LossThreshold)
  <2>1. OutageStarts(g) = OutageStarts(h)
    BY <1>1, <1>3, <1>4, <1>6 DEF OutageStarts
  <2> QED
    BY <1>2, <1>6, <2>1 DEF g
<1> QED
  BY <1>5, <1>6

\* The window slides with the history.
LEMMA RecentSlides ==
  ASSUME NEW h \in Seq(BOOLEAN), NEW w \in Seq(BOOLEAN), NEW o \in BOOLEAN,
         Len(w) = IF Len(h) < Window THEN Len(h) ELSE Window,
         \A k \in 1 .. Len(w) : w[k] = h[Len(h) - Len(w) + k]
  PROVE  LET g == Append(h, o)
             v == W!Slide(w, o)
         IN  /\ Len(v) = IF Len(g) < Window THEN Len(g) ELSE Window
             /\ \A k \in 1 .. Len(v) : v[k] = g[Len(g) - Len(v) + k]
<1> DEFINE g == Append(h, o)
           v == W!Slide(w, o)
           n == Len(h)
           m == Len(w)
<1>1. n \in Nat /\ Window \in Nat \ {0} /\ m \in Nat /\ m <= Window
      /\ m = IF n < Window THEN n ELSE Window
  BY MonitorAssumption
<1>2. Len(g) = n + 1 /\ g[n + 1] = o /\ \A k \in 1 .. n : g[k] = h[k]
  BY AppendProperties
<1>3. CASE m < Window
  <2>1. v = Append(w, o)
    BY <1>3 DEF W!Slide
  <2>2. Len(v) = m + 1 /\ v[m + 1] = o /\ \A k \in 1 .. m : v[k] = w[k]
    BY <2>1, AppendProperties
  <2>3. n = m
    BY <1>1, <1>3
  <2> HIDE DEF g, v, n, m
  <2>4. ASSUME NEW k \in 1 .. m + 1
        PROVE  v[k] = g[n + 1 - (m + 1) + k]
    <3>1. CASE k = m + 1
      BY <1>1, <1>2, <2>2, <2>3, <3>1
    <3>2. CASE k # m + 1
      <4>1. k \in 1 .. m /\ n + 1 - (m + 1) + k = k /\ n - m + k = k /\ k \in 1 .. n
        BY <1>1, <2>3, <3>2
      <4>2. w[k] = h[k]
        BY <4>1 DEF n, m
      <4> QED
        BY <1>2, <2>2, <4>1, <4>2
    <3> QED
      BY <3>1, <3>2
  <2>5. Len(v) = IF Len(g) < Window THEN Len(g) ELSE Window
    BY <1>1, <1>2, <1>3, <2>2, <2>3
  <2> QED
    <3>1. Len(v) = m + 1 /\ Len(g) - Len(v) = n + 1 - (m + 1)
      BY <1>1, <1>2, <2>2
    <3>2. \A k \in 1 .. Len(v) : v[k] = g[Len(g) - Len(v) + k]
      BY <2>4, <3>1
    <3> QED
      BY <2>5, <3>2 DEF g, v
<1>4. CASE ~(m < Window)
  <2>1. v = Append(Tail(w), o) /\ w # << >> /\ m = Window
    BY <1>1, <1>4 DEF W!Slide
  <2>2. Tail(w) \in Seq(BOOLEAN) /\ Len(Tail(w)) = m - 1
        /\ \A k \in 1 .. m - 1 : Tail(w)[k] = w[k + 1]
    BY <2>1, HeadTailProperties
  <2>3. Len(v) = m /\ v[m] = o /\ \A k \in 1 .. m - 1 : v[k] = w[k + 1]
    BY <1>1, <2>1, <2>2, AppendProperties
  <2>4. n >= m
    BY <1>1, <2>1
  <2> HIDE DEF g, v, n, m
  <2>5. ASSUME NEW k \in 1 .. m
        PROVE  v[k] = g[n + 1 - m + k]
    <3>1. CASE k = m
      <4>1. n + 1 - m + k = n + 1
        BY <1>1, <3>1
      <4> QED
        BY <1>2, <2>3, <3>1, <4>1
    <3>2. CASE k # m
      <4>1. k \in 1 .. m - 1 /\ k + 1 \in 1 .. m /\ n - m + (k + 1) = n + 1 - m + k
            /\ n + 1 - m + k \in 1 .. n
        BY <1>1, <2>4, <3>2
      <4>2. w[k + 1] = h[n - m + (k + 1)]
        BY <4>1 DEF n, m
      <4> QED
        BY <1>2, <2>3, <4>1, <4>2
    <3> QED
      BY <3>1, <3>2
  <2>6. Len(v) = IF Len(g) < Window THEN Len(g) ELSE Window
    BY <1>1, <1>2, <2>1, <2>3, <2>4
  <2> QED
    <3>1. Len(v) = m /\ Len(g) - Len(v) = n + 1 - m
      BY <1>1, <1>2, <2>3
    <3>2. \A k \in 1 .. Len(v) : v[k] = g[Len(g) - Len(v) + k]
      BY <2>5, <3>1
    <3> QED
      BY <2>6, <3>2 DEF g, v
<1> QED
  BY <1>3, <1>4

\* The lost pings of the window are the last ones of the history.
LEMMA LostIsLast ==
  ASSUME NEW h \in Seq(BOOLEAN), NEW w \in Seq(BOOLEAN),
         Len(w) = IF Len(h) < Window THEN Len(h) ELSE Window,
         \A k \in 1 .. Len(w) : w[k] = h[Len(h) - Len(w) + k]
  PROVE  W!LostIn(w) = Cardinality(LastPings(h))
<1> DEFINE n == Len(h)
           m == Len(w)
           A == {k \in 1 .. m : w[k] = TRUE}
           B == LastPings(h)
           f == [k \in A |-> n - m + k]
<1>1. n \in Nat /\ Window \in Nat \ {0} /\ m \in Nat /\ m = IF n < Window THEN n ELSE Window
  BY MonitorAssumption
<1>2. IsFiniteSet(A)
  BY <1>1, FinitePositions
<1>3. B = {k \in 1 .. n : h[k] /\ k > n - Window}
  BY DEF LastPings, LostPings
<1>4. \A k \in 1 .. m : w[k] = h[n - m + k]
  OBVIOUS
<1>5. \A k \in 1 .. n : h[k] \in BOOLEAN
  BY ElementOfSeq
<1> HIDE DEF n, m, B
<1>6. f \in [A -> B]
  <2> SUFFICES ASSUME NEW k \in A PROVE n - m + k \in B
    OBVIOUS
  <2>1. n - m + k \in 1 .. n /\ n - m + k > n - Window
    BY <1>1
  <2>2. h[n - m + k]
    BY <1>4
  <2> QED
    BY <1>3, <2>1, <2>2
<1>7. \A j, k \in A : f[j] = f[k] => j = k
  BY <1>1
<1>8. ASSUME NEW i \in B
      PROVE  \E k \in A : f[k] = i
  <2>1. i \in 1 .. n /\ h[i] /\ i > n - Window
    BY <1>3
  <2>2. i - (n - m) \in 1 .. m /\ n - m + (i - (n - m)) = i
    BY <1>1, <2>1
  <2>3. w[i - (n - m)] = h[i]
    BY <1>4, <2>2
  <2>4. i - (n - m) \in A
    BY <1>5, <2>1, <2>2, <2>3
  <2> QED
    BY <2>2, <2>4
<1>9. f \in Bijection(A, B)
  BY <1>6, <1>7, <1>8, Fun_IsBij
<1>10. Cardinality(B) = Cardinality(A)
  BY <1>2, <1>9, FS_Bijection DEF ExistsBijection
<1> QED
  BY <1>10, LostInDef DEF A, B, m

\* The snapshot after a lost ping, field by field.
LEMMA LostSnap ==
  ASSUME snap \in Snapshots, PingLost
  PROVE  LET starts == consecutiveLoss + 1 = LossThreshold
         IN  snap' = [PingsTotal |-> snap.PingsTotal + 1, LossTotal |-> snap.LossTotal + 1,
                      OutageCount |-> IF starts THEN outages' ELSE snap.OutageCount,
                      InOutage |-> snap.InOutage \/ starts, Answered |-> FALSE,
                      LossWinTotal |-> Len(recent'), LossWinLost |-> W!LostIn(recent')]
<1> DEFINE i == snap.InOutage \/ consecutiveLoss + 1 = LossThreshold
           p == snap.PingsTotal + 1
           l == snap.LossTotal + 1
           o == IF consecutiveLoss + 1 = LossThreshold THEN outages' ELSE snap.OutageCount
           t == Len(recent')
           w == W!LostIn(recent')
           s == snap
<1>1. snap' = [s EXCEPT !.PingsTotal = p, !.LossTotal = l, !.Answered = FALSE,
                        !.InOutage = i, !.OutageCount = o, !.LossWinTotal = t,
                        !.LossWinLost = w]
  BY DEF PingLost
<1> HIDE DEF i, p, l, o, t, w
<1>2. snap' = [PingsTotal |-> p, LossTotal |-> l, OutageCount |-> o, InOutage |-> i,
               Answered |-> FALSE, LossWinTotal |-> t, LossWinLost |-> w]
  BY <1>1 DEF Snapshots
<1> QED
  BY <1>2 DEF i, p, l, o, t, w

\* The snapshot after an answered ping, field by field.
LEMMA AnsweredSnap ==
  ASSUME snap \in Snapshots, PingAnswered
  PROVE  snap' = [PingsTotal |-> snap.PingsTotal + 1, LossTotal |-> snap.LossTotal,
                  OutageCount |-> snap.OutageCount,
                  InOutage |-> snap.InOutage /\ ~inOutage, Answered |-> TRUE,
                  LossWinTotal |-> Len(recent'), LossWinLost |-> W!LostIn(recent')]
<1> DEFINE i == snap.InOutage /\ ~inOutage
           p == snap.PingsTotal + 1
           t == Len(recent')
           w == W!LostIn(recent')
           s == snap
<1>1. snap' = [s EXCEPT !.PingsTotal = p, !.Answered = TRUE, !.InOutage = i,
                        !.LossWinTotal = t, !.LossWinLost = w]
  BY DEF PingAnswered
<1> HIDE DEF i, p, t, w
<1>2. snap' = [PingsTotal |-> p, LossTotal |-> s.LossTotal, OutageCount |-> s.OutageCount,
               InOutage |-> i, Answered |-> TRUE, LossWinTotal |-> t, LossWinLost |-> w]
  BY <1>1 DEF Snapshots
<1> QED
  BY <1>2 DEF i, p, t, w

\* A ping adds to the history what it adds to the figures.
LEMMA SessionPing ==
  ASSUME IInv, SessionInv, NEW o \in BOOLEAN, hist' = Append(hist, o),
         recent' = W!Slide(recent, o),
         snap'.PingsTotal = snap.PingsTotal + 1,
         snap'.LossTotal = snap.LossTotal + (IF o THEN 1 ELSE 0),
         consecutiveLoss' = IF o THEN consecutiveLoss + 1 ELSE 0,
         outages' = outages + (IF o /\ consecutiveLoss + 1 = LossThreshold THEN 1 ELSE 0),
         snap'.Answered = ~o, snap'.LossWinTotal = Len(recent'),
         snap'.LossWinLost = W!LostIn(recent')
  PROVE  SessionInv'
<1>1. hist \in Seq(BOOLEAN) /\ recent \in Seq(BOOLEAN) /\ Len(hist) \in Nat
  BY DEF IInv, Types, SessionInv
<1>2. hist' \in Seq(BOOLEAN) /\ Len(hist') = Len(hist) + 1 /\ hist'[Len(hist')] = o
  BY <1>1, AppendProperties
<1>3. snap'.PingsTotal = Len(hist')
  BY <1>2 DEF SessionInv
<1>4. snap'.LossTotal = Cardinality(LostPings(hist'))
  BY <1>1, LostPingsAppend DEF SessionInv
<1>5. consecutiveLoss' = RunAt(hist', Len(hist'))
  BY <1>1, <1>2, RunAppend DEF SessionInv
<1>6. outages' = Cardinality(OutageStarts(hist'))
  BY <1>1, OutageStartsAppend DEF SessionInv
<1>7. RecentIsLast'
  BY <1>1, RecentSlides DEF SessionInv, RecentIsLast
<1>8. LostPings(hist)' = LostPings(hist') /\ OutageStarts(hist)' = OutageStarts(hist')
      /\ RunAt(hist, Len(hist))' = RunAt(hist', Len(hist')) /\ W!LostIn(recent)' = W!LostIn(recent')
  BY DEF LostPings, OutageStarts, RunAt, W!LostIn
<1> QED
  BY <1>2, <1>3, <1>4, <1>5, <1>6, <1>7, <1>8 DEF SessionInv

\* A session that has just begun has no pings and no figures.
LEMMA SessionBegins ==
  ASSUME NEW h, h = << >>
  PROVE  /\ h \in Seq(BOOLEAN) /\ Len(h) = 0
         /\ Cardinality(LostPings(h)) = 0 /\ RunAt(h, Len(h)) = 0
         /\ Cardinality(OutageStarts(h)) = 0
<1>1. h \in Seq(BOOLEAN) /\ Len(h) = 0
  BY EmptySeq
<1>2. LostPings(h) = {} /\ OutageStarts(h) = {}
      /\ {k \in 1 .. Len(h) : \A j \in k .. Len(h) : h[j]} = {}
  BY <1>1 DEF LostPings, OutageStarts
<1> QED
  BY <1>1, <1>2, FS_EmptySet DEF RunAt

\* A session starts without a ping.
LEMMA SessionInit == Init => SessionInv
<1> SUFFICES ASSUME Init PROVE SessionInv
  OBVIOUS
<1>1. hist = << >> /\ recent = << >> /\ consecutiveLoss = 0 /\ outages = 0
      /\ snap.PingsTotal = 0 /\ snap.LossTotal = 0
  BY DEF Init, FreshProcess, NewSnap
<1>2. RecentIsLast
  BY <1>1, SessionBegins, MonitorAssumption DEF RecentIsLast
<1> QED
  BY <1>1, <1>2, SessionBegins DEF SessionInv

\* Every step keeps the account of the session.
LEMMA SessionStep == IInv /\ SessionInv /\ [Next]_vars => SessionInv'
<1> SUFFICES ASSUME IInv, SessionInv, [Next]_vars PROVE SessionInv'
  OBVIOUS
<1>1. snap \in Snapshots /\ outages \in Nat
  BY DEF IInv, Types
<1>2. CASE PingLost
  <2>1. snap'.PingsTotal = snap.PingsTotal + 1 /\ snap'.LossTotal = snap.LossTotal + 1
        /\ snap'.Answered = FALSE /\ snap'.LossWinTotal = Len(recent')
        /\ snap'.LossWinLost = W!LostIn(recent')
    BY <1>1, <1>2, LostSnap
  <2>2. hist' = Append(hist, TRUE) /\ recent' = W!Slide(recent, TRUE)
        /\ consecutiveLoss' = consecutiveLoss + 1
        /\ outages' = outages + (IF consecutiveLoss + 1 = LossThreshold THEN 1 ELSE 0)
    BY <1>1, <1>2 DEF PingLost, Observe
  <2> QED
    BY <2>1, <2>2, SessionPing
<1>3. CASE PingAnswered
  <2>1. snap'.PingsTotal = snap.PingsTotal + 1 /\ snap'.LossTotal = snap.LossTotal + 0
        /\ snap'.Answered = TRUE /\ snap'.LossWinTotal = Len(recent')
        /\ snap'.LossWinLost = W!LostIn(recent')
    <3>1. snap.LossTotal \in Nat
      BY <1>1 DEF Snapshots
    <3> QED
      BY <1>1, <1>3, <3>1, AnsweredSnap
  <2>2. hist' = Append(hist, FALSE) /\ recent' = W!Slide(recent, FALSE)
        /\ consecutiveLoss' = 0 /\ outages' = outages + 0
    BY <1>1, <1>3 DEF PingAnswered, Observe
  <2> QED
    BY <2>1, <2>2, SessionPing
<1>4. CASE Rotate \/ Crash
  <2>1. hist' = << >> /\ recent' = << >> /\ consecutiveLoss' = 0 /\ outages' = 0
    BY <1>4 DEF Rotate, Crash
  <2>2. snap'.PingsTotal = 0 /\ snap'.LossTotal = 0
    <3>1. CASE Rotate
      BY <1>1, <3>1 DEF Rotate, Snapshots
    <3>2. CASE Crash
      BY <3>2 DEF Crash, NewSnap
    <3> QED
      BY <1>4, <3>1, <3>2
  <2>3. RecentIsLast'
    BY <2>1, SessionBegins, MonitorAssumption DEF RecentIsLast
  <2>4. /\ hist' \in Seq(BOOLEAN) /\ Len(hist') = 0
        /\ Cardinality(LostPings(hist')) = 0 /\ RunAt(hist', Len(hist')) = 0
        /\ Cardinality(OutageStarts(hist')) = 0
    BY <2>1, SessionBegins
  <2>5. LostPings(hist)' = LostPings(hist') /\ OutageStarts(hist)' = OutageStarts(hist')
        /\ RunAt(hist, Len(hist))' = RunAt(hist', Len(hist'))
    BY DEF LostPings, OutageStarts, RunAt
  <2> QED
    BY <2>1, <2>2, <2>3, <2>4, <2>5 DEF SessionInv
<1>5. CASE UNCHANGED <<hist, snap, consecutiveLoss, outages, recent>>
  BY <1>5 DEF SessionInv, RecentIsLast, LostPings, OutageStarts, RunAt, W!LostIn
<1> QED
  BY <1>2, <1>3, <1>4, <1>5
  DEF Next, Continue, OpenTmp, FillTmp, Rename, WriteFails, Boot, Tick, vars, memory

\* The session's figures are those of its pings, for every threshold, window and length of
\* a session: each loss and each outage is counted once, in the lifetime counters as in
\* the window, and a rotation or a restart forgets all of them (daemon.go:165-182).
THEOREM SessionIsItsPings == Spec => []SessionFigures
<1>1. Init => IInv /\ SessionInv
  BY InitInv, SessionInit
<1>2. IInv /\ SessionInv /\ [Next]_vars => (IInv /\ SessionInv)'
  BY Invariance, SessionStep
<1>3. IInv /\ SessionInv => SessionFigures
  <2> SUFFICES ASSUME IInv, SessionInv PROVE SessionFigures
    OBVIOUS
  <2>1. snap.OutageCount = outages /\ recent \in Seq(BOOLEAN)
    BY DEF IInv, Accounts, Types
  <2>2. W!LostIn(recent) = Cardinality(LastPings(hist))
    BY <2>1, LostIsLast DEF SessionInv, RecentIsLast
  <2> QED
    BY <2>1, <2>2 DEF SessionInv, SessionFigures
<1> QED
  BY <1>1, <1>2, <1>3, PTL DEF Spec

-----------------------------------------------------------------------------
(***************************************************************************)
(* The status view (MonitorStatus), for every threshold, window and number *)
(* of samples, as long as five per cent of the window are no more than the *)
(* pings of an outage.                                                     *)
(***************************************************************************)
\* The pings of the current run are the last of the window, and all of them lost.
RunInWindow ==
  \A k \in 1 .. Len(recent) : k > Len(recent) - consecutiveLoss => recent[k] = TRUE

\* The losses of a snapshot are five per cent of its window.
CritLoss(s) == 100 * s.LossWinLost >= 5 * s.LossWinTotal

SInv == /\ IInv
        /\ cut \in BOOLEAN
        /\ RunInWindow
        /\ snap.InOutage => inOutage \/ cut
        /\ disk.kind = "complete" /\ disk.snap.InOutage /\ ~cut => CritLoss(disk.snap)

-----------------------------------------------------------------------------

\* The wrapped specification takes the steps of the main loop.
LEMMA StatusStep == [SNext]_statusVars => [Next]_vars
  BY DEF SNext, SRotate, SRename, Next, statusVars

\* At the start there is no snapshot and no outage is cut.
LEMMA StatusInit == SInit => SInv
<1> SUFFICES ASSUME SInit PROVE SInv
  OBVIOUS
<1>1. IInv
  BY InitInv DEF SInit
<1>2. recent = << >> /\ snap.InOutage = FALSE /\ disk.kind = "none" /\ cut = FALSE
  BY DEF SInit, Init, FreshProcess, NewSnap, NoFile
<1>3. RunInWindow
  BY <1>2, EmptySeq DEF RunInWindow
<1> QED
  BY <1>1, <1>2, <1>3 DEF SInv

\* A run of c losses at the end of a window w accounts for c of its losses, or for all.
LEMMA RunIsLost ==
  ASSUME NEW w \in Seq(BOOLEAN), NEW c \in Nat,
         \A k \in 1 .. Len(w) : k > Len(w) - c => w[k] = TRUE
  PROVE  W!LostIn(w) >= IF c < Len(w) THEN c ELSE Len(w)
<1> DEFINE n == Len(w)
           m == IF c < n THEN c ELSE n
           A == {k \in 1 .. n : w[k] = TRUE}
           B == n - m + 1 .. n
<1>1. n \in Nat /\ m \in Nat /\ m <= n /\ m <= c
  OBVIOUS
<1>2. IsFiniteSet(A) /\ Cardinality(A) \in Nat
  <2>1. IsFiniteSet(1 .. n)
    BY <1>1, FS_Interval
  <2> QED
    BY <2>1, FS_Subset, FS_CardinalityType
<1>3. B \subseteq A
  <2> SUFFICES ASSUME NEW k \in B PROVE k \in A
    OBVIOUS
  <2>1. k \in 1 .. n /\ k > n - c
    BY <1>1
  <2> QED
    BY <2>1
<1>4. Cardinality(B) = m
  <2> HIDE DEF n, m
  <2>1. n - m + 1 \in Int /\ n \in Int
    BY <1>1
  <2> QED
    BY <1>1, <2>1, FS_Interval
<1>5. Cardinality(B) <= Cardinality(A)
  BY <1>2, <1>3, FS_Subset
<1>6. W!LostIn(w) = Cardinality(A)
  BY LostInDef
<1> HIDE DEF A, B
<1> QED
  BY <1>2, <1>4, <1>5, <1>6

\* One more loss makes the run at the end of the window longer by one.
LEMMA RunGrows ==
  ASSUME NEW w \in Seq(BOOLEAN), Len(w) <= Window, NEW c \in Nat,
         \A k \in 1 .. Len(w) : k > Len(w) - c => w[k] = TRUE
  PROVE  LET v == W!Slide(w, TRUE)
         IN  \A k \in 1 .. Len(v) : k > Len(v) - (c + 1) => v[k] = TRUE
<1> DEFINE u == IF Len(w) < Window THEN w ELSE Tail(w)
           v == W!Slide(w, TRUE)
<1>1. v = Append(u, TRUE)
  BY DEF W!Slide
<1>2. u \in Seq(BOOLEAN) /\ \A k \in 1 .. Len(u) : k > Len(u) - c => u[k] = TRUE
  <2>1. CASE Len(w) < Window
    BY <2>1
  <2>2. CASE ~(Len(w) < Window)
    <3>1. w # << >>
      BY <2>2, MonitorAssumption
    <3>2. /\ Tail(w) \in Seq(BOOLEAN) /\ Len(Tail(w)) = Len(w) - 1
          /\ \A k \in 1 .. Len(Tail(w)) : Tail(w)[k] = w[k + 1]
      BY <3>1, HeadTailProperties
    <3>3. u \in Seq(BOOLEAN) /\ Len(u) = Len(w) - 1 /\ \A k \in 1 .. Len(u) : u[k] = w[k + 1]
      BY <2>2, <3>2
    <3> HIDE DEF u
    <3> QED
      BY <3>3
  <2> QED
    BY <2>1, <2>2
<1> HIDE DEF u, v
<1>3. Len(v) = Len(u) + 1 /\ v[Len(u) + 1] = TRUE /\ \A k \in 1 .. Len(u) : v[k] = u[k]
  BY <1>1, <1>2, AppendProperties
<1>4. \A k \in 1 .. Len(v) : k > Len(v) - (c + 1) => v[k] = TRUE
  BY <1>2, <1>3
<1> QED
  BY <1>4 DEF v

\* The losses of the snapshot that is about to be published in an outage.
LEMMA OutageIsCrit ==
  ASSUME IInv, RunInWindow, inOutage, pc \in {"write", "fill", "rename"}
  PROVE  CritLoss(snap)
<1>1. /\ recent \in Seq(BOOLEAN) /\ consecutiveLoss \in Nat
      /\ LossThreshold \in Nat \ {0} /\ Window \in Nat \ {0}
      /\ consecutiveLoss >= LossThreshold
      /\ snap.LossWinTotal = Len(recent) /\ snap.LossWinLost = W!LostIn(recent)
      /\ snap.PingsTotal \in Nat
  BY MonitorAssumption DEF IInv, Types, Alarm, Copies, Snapshots
<1>2. Len(recent) \in Nat /\ Len(recent) <= Window
  BY <1>1 DEF IInv, Lists
<1>3. W!LostIn(recent) >= IF consecutiveLoss < Len(recent) THEN consecutiveLoss ELSE Len(recent)
  BY <1>1, RunIsLost DEF RunInWindow
<1>4. W!LostIn(recent) \in Nat
  BY <1>1, LostInType
<1> DEFINE l == W!LostIn(recent)
           n == Len(recent)
<1>5. /\ l \in Nat /\ n \in Nat /\ n <= Window
      /\ l >= IF consecutiveLoss < n THEN consecutiveLoss ELSE n
  BY <1>2, <1>3, <1>4
<1> HIDE DEF l, n
<1>6. 100 * l >= 5 * n
  BY <1>1, <1>5, MonitorStatusAssumption
<1> QED
  BY <1>1, <1>6 DEF CritLoss, l, n

-----------------------------------------------------------------------------
(* The steps. *)

\* The pings.
LEMMA PingStatus == SInv /\ (PingLost \/ PingAnswered) /\ UNCHANGED cut => SInv'
<1> SUFFICES ASSUME SInv, PingLost \/ PingAnswered, UNCHANGED cut PROVE SInv'
  OBVIOUS
<1>1. IInv'
  BY PingLostInv, PingAnsweredInv DEF SInv
<1>2. /\ recent \in Seq(BOOLEAN) /\ consecutiveLoss \in Nat /\ snap \in Snapshots
      /\ inOutage \in BOOLEAN /\ snap.InOutage \in BOOLEAN /\ snap.PingsTotal \in Nat
      /\ Window \in Nat
  BY MonitorAssumption DEF SInv, IInv, Types, Snapshots
<1>3. Len(recent) <= Window
  BY <1>2 DEF SInv, IInv, Lists
<1>4. CASE PingLost
  <2>1. RunInWindow'
    <3>1. recent' = W!Slide(recent, TRUE) /\ consecutiveLoss' = consecutiveLoss + 1
      BY <1>4 DEF PingLost, Observe
    <3> QED
      BY <1>2, <1>3, <3>1, RunGrows DEF SInv, RunInWindow
  <2>2. snap'.InOutage => inOutage' \/ cut'
    <3>1. snap'.InOutage = (snap.InOutage \/ consecutiveLoss + 1 = LossThreshold)
      BY <1>2, <1>4 DEF PingLost, Snapshots
    <3>2. inOutage' = (inOutage \/ consecutiveLoss + 1 = LossThreshold)
      BY <1>4 DEF PingLost
    <3> QED
      BY <3>1, <3>2 DEF SInv
  <2>3. disk' = disk
    BY <1>4 DEF PingLost, files
  <2> QED
    BY <1>1, <2>1, <2>2, <2>3 DEF SInv, CritLoss
<1>5. CASE PingAnswered
  <2>1. RunInWindow'
    <3>1. consecutiveLoss' = 0
      BY <1>5 DEF PingAnswered
    <3>2. recent' \in Seq(BOOLEAN)
      BY <1>1 DEF IInv, Types
    <3>3. Len(recent') \in Nat
      BY <3>2
    <3> QED
      BY <3>1, <3>3 DEF RunInWindow
  <2>2. snap'.InOutage => inOutage' \/ cut'
    <3>1. snap'.InOutage = (snap.InOutage /\ ~inOutage)
      BY <1>2, <1>5 DEF PingAnswered, Snapshots
    <3> QED
      BY <3>1 DEF SInv
  <2>3. disk' = disk
    BY <1>5 DEF PingAnswered, files
  <2> QED
    BY <1>1, <2>1, <2>2, <2>3 DEF SInv, CritLoss
<1> QED
  BY <1>4, <1>5

\* A rotation cuts the outage the snapshot is in.
LEMMA RotateStatus == SInv /\ SRotate => SInv'
<1> SUFFICES ASSUME SInv, SRotate PROVE SInv'
  OBVIOUS
<1>1. IInv'
  BY RotateInv DEF SInv, SRotate
<1>2. RunInWindow'
  BY EmptySeq DEF SRotate, Rotate, RunInWindow
<1>3. snap'.InOutage = snap.InOutage /\ disk' = disk /\ cut' = (cut \/ snap.InOutage)
  BY DEF SInv, IInv, Types, Snapshots, SRotate, Rotate, files
<1>4. snap.InOutage \in BOOLEAN
  BY DEF SInv, IInv, Types, Snapshots
<1> QED
  BY <1>1, <1>2, <1>3, <1>4 DEF SInv, CritLoss

\* What is published is the snapshot in memory.
LEMMA RenameStatus == SInv /\ SRename => SInv'
<1> SUFFICES ASSUME SInv, SRename PROVE SInv'
  OBVIOUS
<1>1. IInv'
  BY FileStepsInv DEF SInv, SRename
<1>2. /\ pc = "rename" /\ disk' = tmp /\ UNCHANGED memory
      /\ cut' = (cut /\ tmp.snap.InOutage)
  BY DEF SRename, Rename
<1>3. tmp.snap = snap /\ snap.InOutage \in BOOLEAN
  BY <1>2 DEF SInv, IInv, Published, Types, Snapshots
<1>4. RunInWindow'
  BY <1>2 DEF SInv, RunInWindow, memory
<1>5. snap'.InOutage => inOutage' \/ cut'
  BY <1>2, <1>3 DEF SInv, memory
<1>6. disk'.snap.InOutage /\ ~cut' => CritLoss(disk'.snap)
  <2>1. inOutage => CritLoss(snap)
    BY <1>2, OutageIsCrit DEF SInv
  <2> QED
    BY <1>2, <1>3, <2>1 DEF SInv
<1> QED
  BY <1>1, <1>2, <1>3, <1>4, <1>5, <1>6 DEF SInv, CritLoss

\* A crash forgets the outage, the clock and the other steps leave it as it is.
LEMMA OtherStatus ==
  ASSUME SInv, UNCHANGED cut,
         Continue \/ OpenTmp \/ FillTmp \/ WriteFails \/ Crash \/ Boot \/ Tick \/ UNCHANGED vars
  PROVE  SInv'
<1>1. IInv'
  BY Invariance DEF SInv, Next
<1>2. CASE Crash
  <2>1. recent' = << >> /\ snap'.InOutage = FALSE /\ disk' = disk
    BY <1>2 DEF Crash, NewSnap
  <2>2. RunInWindow'
    BY <2>1, EmptySeq DEF RunInWindow
  <2> QED
    BY <1>1, <2>1, <2>2 DEF SInv, CritLoss
<1>3. CASE Tick
  <2>1. /\ UNCHANGED <<recent, consecutiveLoss, inOutage, snap>>
        /\ disk' = OlderFile(disk)
    BY <1>3 DEF Tick
  <2>2. disk \in Files
    BY DEF SInv, IInv, Types
  <2>3. disk'.kind = disk.kind /\ (disk.kind = "complete" => disk'.snap = disk.snap)
    BY <2>1, <2>2, FileSteps
  <2> QED
    BY <1>1, <2>1, <2>3 DEF SInv, CritLoss, RunInWindow
<1>4. CASE Continue \/ OpenTmp \/ FillTmp \/ WriteFails \/ Boot \/ UNCHANGED vars
  <2>1. UNCHANGED <<recent, consecutiveLoss, inOutage, snap, disk>>
    BY <1>4 DEF Continue, OpenTmp, FillTmp, WriteFails, Boot, vars, memory, files
  <2> QED
    BY <1>1, <2>1 DEF SInv, CritLoss, RunInWindow
<1> QED
  BY <1>2, <1>3, <1>4

\* Every step of the loop keeps what the status view needs.
LEMMA StatusInvariance == SInv /\ [SNext]_statusVars => SInv'
<1> SUFFICES ASSUME SInv, [SNext]_statusVars PROVE SInv'
  OBVIOUS
<1> QED
  BY PingStatus, RotateStatus, RenameStatus, OtherStatus DEF SNext, statusVars

-----------------------------------------------------------------------------
(* The scores. *)

\* Max of some scores is one of them, and none is worse.
LEMMA MaxOfScores ==
  ASSUME NEW S, S # {}, \A x \in S : x \in {Good, Warn, Crit}
  PROVE  Max(S) \in S /\ \A y \in S : y <= Max(S)
<1>1. \E x \in S : \A y \in S : x >= y
  <2>1. CASE Crit \in S
    BY <2>1 DEF Good, Warn, Crit
  <2>2. CASE Crit \notin S /\ Warn \in S
    BY <2>2 DEF Good, Warn, Crit
  <2>3. CASE Crit \notin S /\ Warn \notin S
    BY <2>3 DEF Good, Warn, Crit
  <2> QED
    BY <2>1, <2>2, <2>3
<1>2. Max(S) \in S /\ \A y \in S : Max(S) >= y
  BY <1>1 DEF Max
<1> QED
  BY <1>2 DEF Good, Warn, Crit

\* A score is one of three.
LEMMA ScoreType ==
  ASSUME NEW v, NEW ok, NEW warn, NEW crit
  PROVE  ScoreOf(v, ok, warn, crit) \in {Good, Warn, Crit}
  BY DEF ScoreOf

\* So is the score of a loss.
LEMMA LossScoreType ==
  ASSUME NEW l, NEW t PROVE LossScore(l, t) \in {Good, Warn, Crit}
  BY ScoreType DEF LossScore

\* The overall score is no better than that of the packet loss, nor GOOD after an outage.
LEMMA OverallKnows ==
  ASSUME NEW s, NEW n \in Nat, s.DHCPLease \in {Good, Warn, Crit}
  PROVE  /\ overallScore(s, n) \in {Good, Warn, Crit}
         /\ LossScore(s.LossWinLost, s.LossWinTotal) <= overallScore(s, n)
         /\ n > 0 => overallScore(s, n) # Good
<1> DEFINE S == {ScoreOf(s.RTTAvg, TRUE, 80, 200), ScoreOf(s.RTTJitter, TRUE, 10, 30),
                 LossScore(s.LossWinLost, s.LossWinTotal),
                 ScoreOf(s.TCPLastMs, s.TCPLastOK, 150, 150),
                 LossScore(s.TCPTimeoutCount, s.TCPTotal),
                 ScoreOf(s.DNSLastMs, s.DNSLastOK, 100, 500),
                 ScoreOf(s.GatewayLastMs, s.GatewayLastOK, 10, 50),
                 s.DHCPLease, ScoreOf(n, TRUE, 1, 3)}
<1>1. \A x \in S : x \in {Good, Warn, Crit}
  BY DEF ScoreOf, LossScore
<1>2. overallScore(s, n) = Max(S)
  BY DEF overallScore
<1>3. LossScore(s.LossWinLost, s.LossWinTotal) \in S /\ ScoreOf(n, TRUE, 1, 3) \in S
  OBVIOUS
<1>4. n > 0 => ScoreOf(n, TRUE, 1, 3) >= Warn
  BY DEF ScoreOf, Warn, Crit
<1>5. ScoreOf(n, TRUE, 1, 3) \in {Good, Warn, Crit}
  BY DEF ScoreOf
<1> DEFINE o == ScoreOf(n, TRUE, 1, 3)
<1> HIDE DEF S, o
<1>6. Max(S) \in S /\ \A y \in S : y <= Max(S)
  BY <1>1, <1>3, MaxOfScores
<1>7. o \in S /\ (n > 0 => o >= Warn) /\ o \in {Good, Warn, Crit}
  BY <1>3, <1>4, <1>5 DEF o
<1>8. n > 0 => Max(S) # Good
  BY <1>6, <1>7 DEF Good, Warn, Crit
<1> QED
  BY <1>1, <1>2, <1>3, <1>6, <1>8

\* Whatever the threshold, the window and the number of samples: IN OUTAGE is never GOOD
\* (cmd/status.go:192-246 over the snapshots of daemon.go:233-256).
THEOREM OutageShown == SSpec => []OutageIsNotGood
<1>1. SInv => OutageIsNotGood
  <2> SUFFICES ASSUME SInv, disk.kind = "complete", disk.snap.InOutage, ~cut
               PROVE  LET n == countOutagesInWindow(disk.RecentOutage, Hour)
                          overall == overallScore(Seen(disk), n)
                      IN  /\ n > 0 => overall # Good
                          /\ disk.snap.LossWinTotal >= MinSamples => overall = Crit
    BY DEF OutageIsNotGood
  <2> DEFINE n == countOutagesInWindow(disk.RecentOutage, Hour)
             s == Seen(disk)
             total == disk.snap.LossWinTotal
             lost == disk.snap.LossWinLost
  <2>1. disk.snap \in Snapshots /\ total \in Nat /\ lost \in Nat
    BY DEF SInv, IInv, Types, Files, Snapshots, NoFile, Torn
  <2>2. 100 * lost >= 5 * total
    BY DEF SInv, CritLoss
  <2>3. s.DHCPLease = Good /\ s.LossWinLost = lost /\ s.LossWinTotal = total
    BY DEF Seen, Healthy
  <2>4. n \in Nat
    <3>1. disk.RecentOutage \in Seq(0 .. Hour)
      BY DEF SInv, IInv, Types, Files, NoFile, Torn
    <3>2. DOMAIN disk.RecentOutage = 1 .. Len(disk.RecentOutage) /\ Len(disk.RecentOutage) \in Nat
      BY <3>1
    <3>3. IsFiniteSet(DOMAIN disk.RecentOutage)
      BY <3>2, FS_Interval
    <3> QED
      BY <3>3, FS_Subset, FS_CardinalityType DEF countOutagesInWindow
  <2>5. MinSamples \in Nat
    BY StatusViewAssumption
  <2> HIDE DEF n, s, total, lost
  <2>6. /\ overallScore(s, n) \in {Good, Warn, Crit}
        /\ LossScore(lost, total) <= overallScore(s, n)
        /\ n > 0 => overallScore(s, n) # Good
    <3>1. s.DHCPLease \in {Good, Warn, Crit}
      BY <2>3
    <3>2. /\ overallScore(s, n) \in {Good, Warn, Crit}
          /\ LossScore(s.LossWinLost, s.LossWinTotal) <= overallScore(s, n)
          /\ n > 0 => overallScore(s, n) # Good
      BY <2>4, <3>1, OverallKnows
    <3> QED
      BY <2>3, <3>2
  <2>7. total >= MinSamples => LossScore(lost, total) = Crit
    BY <2>1, <2>2, <2>5 DEF LossScore, ScoreOf
  <2>8. total >= MinSamples => overallScore(s, n) = Crit
    BY <2>6, <2>7 DEF Good, Warn, Crit
  <2> QED
    BY <2>6, <2>8 DEF n, s, total
<1> QED
  BY <1>1, StatusInit, StatusInvariance, PTL DEF SSpec

=============================================================================
