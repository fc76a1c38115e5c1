------------------------- MODULE OutageDetectorProofs -------------------------
(***************************************************************************)
(* The alarm of the outage detector is right for every threshold, log      *)
(* length and hour, through rotations, restarts and failed writes.  The    *)
(* invariant needs the log to be a sequence only: a logged outage stays    *)
(* logged until the loop itself starts over.                               *)
(***************************************************************************)
EXTENDS OutageHistory, FiniteSetTheorems, SequenceTheorems, TLAPS

\* The ages an outage can have.
Ages == 0 .. Hour

\* What the alarm needs of the states: the log only has to be a sequence.
IInv == /\ run \in 0 .. LossThreshold
        /\ inOutage \in BOOLEAN /\ flag \in BOOLEAN
        /\ log \in Seq(Ages)
        /\ AlarmMatchesRun

\* A log with a new outage is not empty.
LEMMA LoggedFacts ==
  ASSUME NEW S, 0 \in S, NEW l \in Seq(S)
  PROVE  Logged(l) \in Seq(S) /\ Logged(l) # << >>
<1>1. Append(l, 0) \in Seq(S) /\ Append(l, 0) # << >>
  BY AppendProperties
<1>2. CASE Len(l) < Keep
  BY <1>1, <1>2 DEF Logged
<1>3. CASE ~(Len(l) < Keep)
  <2>1. l # << >>
    BY <1>3, DetectorAssumption
  <2>2. Tail(l) \in Seq(S)
    BY <2>1, HeadTailProperties
  <2>3. Append(Tail(l), 0) \in Seq(S) /\ Append(Tail(l), 0) # << >>
    BY <2>2, AppendProperties
  <2> QED
    BY <1>3, <2>3 DEF Logged
<1> QED
  BY <1>2, <1>3

\* Ageing keeps the outages of a log.
LEMMA OlderFacts ==
  ASSUME NEW l \in Seq(0 .. Hour)
  PROVE  Older(l) \in Seq(0 .. Hour) /\ (l # << >> => Older(l) # << >>)
<1>1. Older(l) = [k \in 1 .. Len(l) |-> IF l[k] < Hour THEN l[k] + 1 ELSE l[k]]
  BY DEF Older
<1>2. \A k \in 1 .. Len(l) : (IF l[k] < Hour THEN l[k] + 1 ELSE l[k]) \in 0 .. Hour
  <2> TAKE k \in 1 .. Len(l)
  <2>1. l[k] \in 0 .. Hour
    BY ElementOfSeq
  <2> QED
    BY <2>1, DetectorAssumption
<1>3. Len(l) \in Nat
  OBVIOUS
<1>4. Older(l) \in Seq(0 .. Hour) /\ Len(Older(l)) = Len(l)
  BY <1>1, <1>2, <1>3
<1> QED
  BY <1>4

\* A lost ping raises the alarm exactly when it completes the run.
LEMMA LostInv == IInv /\ Lost => IInv'
<1> SUFFICES ASSUME IInv, Lost PROVE IInv'
  OBVIOUS
<1>1. run' \in 0 .. LossThreshold
  BY DetectorAssumption DEF IInv, Lost
<1>2. inOutage' = (run' = LossThreshold) /\ flag' = (flag \/ inOutage')
  BY DEF Lost
<1>3. inOutage' \in BOOLEAN /\ flag' \in BOOLEAN
  BY <1>2 DEF IInv
<1>4. log' \in Seq(Ages) /\ (inOutage' => log' # << >>)
  <2>1. 0 \in Ages
    BY DetectorAssumption DEF Ages
  <2>2. log \in Seq(Ages)
    BY DEF IInv
  <2>3. Logged(log) \in Seq(Ages) /\ Logged(log) # << >>
    BY <2>1, <2>2, LoggedFacts
  <2>4. log' = IF inOutage' /\ ~inOutage THEN Logged(log) ELSE log
    BY DEF Lost
  <2>5. inOutage => log # << >>
    BY DEF IInv, AlarmMatchesRun
  <2> QED
    BY <2>2, <2>3, <2>4, <2>5
<1> QED
  BY <1>1, <1>2, <1>3, <1>4 DEF IInv, AlarmMatchesRun

\* Answers, rotations and restarts end the run and the alarm of the loop together.
LEMMA EndsInv == IInv /\ (Answered \/ Rotate \/ Crash) => IInv'
<1> SUFFICES ASSUME IInv, Answered \/ Rotate \/ Crash PROVE IInv'
  OBVIOUS
<1>1. run' = 0 /\ inOutage' = FALSE
  BY DEF Answered, Rotate, Crash
<1>2. log' \in Seq(Ages)
  <2>1. CASE Answered
    BY <2>1 DEF IInv, Answered
  <2>2. CASE Rotate \/ Crash
    <3>1. log' = << >>
      BY <2>2 DEF Rotate, Crash
    <3>2. << >> \in Seq(Ages)
      OBVIOUS
    <3> QED
      BY <3>1, <3>2
  <2> QED
    BY <2>1, <2>2
<1>3. flag' \in BOOLEAN
  BY DEF IInv, Answered, Rotate, Crash
<1>4. run' \in 0 .. LossThreshold /\ run' # LossThreshold
  BY <1>1, DetectorAssumption
<1> QED
  BY <1>1, <1>2, <1>3, <1>4 DEF IInv, AlarmMatchesRun

\* The clock ages the log and leaves the alarm.
LEMMA TickInv == IInv /\ Tick => IInv'
  BY OlderFacts DEF IInv, Tick, AlarmMatchesRun, Ages

\* No loss, no alarm.
LEMMA AlarmInit == Init => IInv
<1> SUFFICES ASSUME Init PROVE IInv
  OBVIOUS
<1>1. run \in 0 .. LossThreshold /\ run # LossThreshold
  BY DetectorAssumption DEF Init
<1>2. log \in Seq(Ages)
  BY DEF Init
<1> QED
  BY <1>1, <1>2 DEF Init, IInv, AlarmMatchesRun

\* Every step keeps the alarm in agreement with the losses.
LEMMA AlarmStep == IInv /\ [Next]_vars => IInv'
<1> SUFFICES ASSUME IInv, [Next]_vars PROVE IInv'
  OBVIOUS
<1>1. CASE Lost
  BY <1>1, LostInv
<1>2. CASE Answered \/ Rotate \/ Crash
  BY <1>2, EndsInv
<1>3. CASE Tick
  BY <1>3, TickInv
<1>4. CASE Continue \/ Publish \/ PublishFails \/ Boot \/ UNCHANGED vars
  <2>1. UNCHANGED <<run, inOutage, log, flag>>
    BY <1>4 DEF Continue, Publish, PublishFails, Boot, vars, loopVars
  <2> QED
    BY <2>1 DEF IInv, AlarmMatchesRun
<1> QED
  BY <1>1, <1>2, <1>3, <1>4 DEF Next, Loop

\* The loop's alarm is on exactly while LossThreshold or more pings in a row have been
\* lost, and then the snapshot says so and the outage is logged.
THEOREM Alarm == Spec => []AlarmMatchesRun
<1>1. IInv => AlarmMatchesRun
  BY DEF IInv
<1> QED
  BY <1>1, AlarmInit, AlarmStep, PTL DEF Spec

-----------------------------------------------------------------------------
(***************************************************************************)
(* The history of the network beside the loop: HInv relates what the loop  *)
(* counts and logs to the pings an observer has seen lost.                 *)
(***************************************************************************)

\* The observer's run is never the shorter one, and without a mishap they are the same.
RunIsOnTheNet == /\ run <= netRun
                 /\ mishap = "none" => run = netRun

\* The age of the j-th latest outage of a log.
Latest(l, j) == l[Len(l) - j + 1]

\* The latest outage is the youngest.
LatestFirst(l) == \A i, j \in 1 .. Len(l) : i <= j => Latest(l, i) <= Latest(l, j)

\* Two logs of the same outages agree as far as both go, and the shorter one is as long
\* as it may get.
SameOutages(l, m) ==
  /\ \A j \in 1 .. Len(l) : j <= Len(m) => Latest(l, j) = Latest(m, j)
  /\ Len(l) < Len(m) => Len(l) = Keep
  /\ Len(m) < Len(l) => Len(m) = Remembered

LogIsHistory ==
  mishap = "none" => /\ phase # "off"
                     /\ LatestFirst(log) /\ LatestFirst(events)
                     /\ SameOutages(log, events)
                     /\ phase # "write" => shownLog = log

HInv == /\ HTypeOK /\ AlarmMatchesRun
        /\ RunIsOnTheNet
        /\ LogIsHistory

\* A log of at most cap outages with a new one.
Push(l, cap) == IF Len(l) < cap THEN Append(l, 0) ELSE Append(Tail(l), 0)

\* The new outage is the latest, and those before it are one place further.
LEMMA PushFacts ==
  ASSUME NEW cap \in Nat \ {0}, NEW l \in Seq(Ages), Len(l) <= cap
  PROVE  /\ Push(l, cap) \in Seq(Ages)
         /\ Len(Push(l, cap)) = IF Len(l) < cap THEN Len(l) + 1 ELSE cap
         /\ Latest(Push(l, cap), 1) = 0
         /\ \A j \in 2 .. Len(Push(l, cap)) : /\ j - 1 \in 1 .. Len(l)
                                             /\ Latest(Push(l, cap), j) = Latest(l, j - 1)
<1> DEFINE n == Len(l)
<1>1. 0 \in Ages /\ n \in Nat
  BY DetectorAssumption DEF Ages
<1>2. CASE n < cap
  <2>1. Push(l, cap) = Append(l, 0)
    BY <1>2 DEF Push
  <2>2. /\ Append(l, 0) \in Seq(Ages) /\ Len(Append(l, 0)) = n + 1
        /\ \A i \in 1 .. n : Append(l, 0)[i] = l[i]
        /\ Append(l, 0)[n + 1] = 0
    BY <1>1, AppendProperties
  <2> HIDE DEF n
  <2>3. Latest(Append(l, 0), 1) = 0
    BY <1>1, <2>2 DEF Latest
  <2>4. ASSUME NEW j \in 2 .. n + 1
        PROVE  j - 1 \in 1 .. n /\ Latest(Append(l, 0), j) = Latest(l, j - 1)
    <3>1. j - 1 \in 1 .. n /\ n + 1 - j + 1 \in 1 .. n /\ n - (j - 1) + 1 = n + 1 - j + 1
      BY <1>1
    <3> QED
      BY <2>2, <3>1 DEF Latest, n
  <2> QED
    BY <1>2, <2>1, <2>2, <2>3, <2>4 DEF n
<1>3. CASE ~(n < cap)
  <2>1. Push(l, cap) = Append(Tail(l), 0) /\ n = cap /\ l # << >>
    BY <1>1, <1>3 DEF Push
  <2>2. /\ Tail(l) \in Seq(Ages) /\ Len(Tail(l)) = n - 1
        /\ \A i \in 1 .. n - 1 : Tail(l)[i] = l[i + 1]
    BY <2>1, HeadTailProperties
  <2>3. /\ Append(Tail(l), 0) \in Seq(Ages) /\ Len(Append(Tail(l), 0)) = n
        /\ \A i \in 1 .. n - 1 : Append(Tail(l), 0)[i] = l[i + 1]
        /\ Append(Tail(l), 0)[n] = 0
    BY <1>1, <2>1, <2>2, AppendProperties
  <2> HIDE DEF n
  <2>4. Latest(Append(Tail(l), 0), 1) = 0
    BY <1>1, <2>3 DEF Latest
  <2>5. ASSUME NEW j \in 2 .. n
        PROVE  j - 1 \in 1 .. n /\ Latest(Append(Tail(l), 0), j) = Latest(l, j - 1)
    <3>1. j - 1 \in 1 .. n /\ n - j + 1 \in 1 .. n - 1 /\ n - (j - 1) + 1 = n - j + 1 + 1
      BY <1>1
    <3> QED
      BY <2>3, <3>1 DEF Latest, n
  <2> QED
    BY <1>3, <2>1, <2>3, <2>4, <2>5 DEF n
<1> QED
  BY <1>2, <1>3

\* A new outage is the latest one of its log.
LEMMA PushLatestFirst ==
  ASSUME NEW cap \in Nat \ {0}, NEW l \in Seq(Ages), Len(l) <= cap, LatestFirst(l)
  PROVE  LatestFirst(Push(l, cap))
<1> DEFINE p == Push(l, cap)
<1>1. p \in Seq(Ages) /\ Len(p) \in Nat /\ Latest(p, 1) = 0
      /\ \A j \in 2 .. Len(p) : j - 1 \in 1 .. Len(l) /\ Latest(p, j) = Latest(l, j - 1)
  BY PushFacts
<1> HIDE DEF p
<1>2. ASSUME NEW i \in 1 .. Len(p), NEW j \in 1 .. Len(p), i <= j
      PROVE  Latest(p, i) <= Latest(p, j)
  <2>1. CASE i = 1
    <3>1. Latest(p, j) \in Ages
      <4>1. Len(p) - j + 1 \in 1 .. Len(p)
        BY <1>1
      <4> QED
        BY <1>1, <4>1, ElementOfSeq DEF Latest
    <3> QED
      BY <1>1, <2>1, <3>1 DEF Ages
  <2>2. CASE i # 1
    <3>1. i \in 2 .. Len(p) /\ j \in 2 .. Len(p) /\ i - 1 <= j - 1
      BY <1>1, <1>2, <2>2
    <3> QED
      BY <1>1, <3>1 DEF LatestFirst
  <2> QED
    BY <2>1, <2>2
<1> QED
  BY <1>2 DEF LatestFirst, p

\* Two logs of the same outages stay so when both get the same new one.
LEMMA PushSame ==
  ASSUME NEW l \in Seq(Ages), Len(l) <= Keep, NEW m \in Seq(Ages), Len(m) <= Remembered,
         SameOutages(l, m)
  PROVE  SameOutages(Push(l, Keep), Push(m, Remembered))
<1> DEFINE p == Push(l, Keep)
           q == Push(m, Remembered)
<1>1. Keep \in Nat \ {0} /\ Remembered \in Nat \ {0} /\ Len(l) \in Nat /\ Len(m) \in Nat
  BY DetectorAssumption, HistoryAssumption
<1>2. /\ Len(p) = IF Len(l) < Keep THEN Len(l) + 1 ELSE Keep
      /\ Latest(p, 1) = 0
      /\ \A j \in 2 .. Len(p) : j - 1 \in 1 .. Len(l) /\ Latest(p, j) = Latest(l, j - 1)
  BY <1>1, PushFacts
<1>3. /\ Len(q) = IF Len(m) < Remembered THEN Len(m) + 1 ELSE Remembered
      /\ Latest(q, 1) = 0
      /\ \A j \in 2 .. Len(q) : j - 1 \in 1 .. Len(m) /\ Latest(q, j) = Latest(m, j - 1)
  BY <1>1, PushFacts
<1> HIDE DEF p, q
<1>4. ASSUME NEW j \in 1 .. Len(p), j <= Len(q)
      PROVE  Latest(p, j) = Latest(q, j)
  <2>1. CASE j = 1
    BY <1>2, <1>3, <2>1
  <2>2. CASE j # 1
    <3>1. j \in 2 .. Len(p) /\ j \in 2 .. Len(q)
      BY <1>1, <1>2, <1>3, <1>4, <2>2
    <3>2. j - 1 \in 1 .. Len(l) /\ j - 1 \in 1 .. Len(m)
      BY <1>2, <1>3, <3>1
    <3>3. j - 1 <= Len(m)
      BY <1>1, <3>2
    <3> QED
      BY <1>2, <1>3, <3>1, <3>2, <3>3 DEF SameOutages
  <2> QED
    BY <2>1, <2>2
<1>5. /\ Len(l) < Len(m) => Len(l) = Keep
      /\ Len(m) < Len(l) => Len(m) = Remembered
  BY DEF SameOutages
<1>6. (Len(p) < Len(q) => Len(p) = Keep) /\ (Len(q) < Len(p) => Len(q) = Remembered)
  BY <1>1, <1>2, <1>3, <1>5
<1> QED
  BY <1>4, <1>6 DEF SameOutages, p, q

\* Ageing keeps the order of a log, and what two logs agree on.
LEMMA OlderLatest ==
  ASSUME NEW l \in Seq(Ages)
  PROVE  /\ Older(l) \in Seq(Ages) /\ Len(Older(l)) = Len(l)
         /\ \A j \in 1 .. Len(l) :
              /\ Latest(l, j) \in Ages
              /\ Latest(Older(l), j) = IF Latest(l, j) < Hour THEN Latest(l, j) + 1 ELSE Latest(l, j)
<1>1. Older(l) \in Seq(Ages) /\ Len(Older(l)) = Len(l)
      /\ Older(l) = [k \in 1 .. Len(l) |-> IF l[k] < Hour THEN l[k] + 1 ELSE l[k]]
  <2>1. Older(l) = [k \in 1 .. Len(l) |-> IF l[k] < Hour THEN l[k] + 1 ELSE l[k]]
    BY DEF Older
  <2>2. Older(l) \in Seq(Ages)
    BY OlderFacts DEF Ages
  <2>3. Len(l) \in Nat /\ DOMAIN Older(l) = 1 .. Len(l)
    BY <2>1
  <2>4. Len(Older(l)) \in Nat /\ DOMAIN Older(l) = 1 .. Len(Older(l))
    BY <2>2, LenProperties
  <2>5. Len(Older(l)) = Len(l)
    BY <2>3, <2>4
  <2> QED
    BY <2>1, <2>2, <2>5
<1>2. ASSUME NEW j \in 1 .. Len(l)
      PROVE  /\ Latest(l, j) \in Ages
             /\ Latest(Older(l), j) = IF Latest(l, j) < Hour THEN Latest(l, j) + 1 ELSE Latest(l, j)
  <2>1. Len(l) - j + 1 \in 1 .. Len(l)
    OBVIOUS
  <2> QED
    BY <1>1, <2>1, ElementOfSeq DEF Latest
<1> QED
  BY <1>1, <1>2

\* Time keeps the order of the ages.
LEMMA OlderLatestFirst ==
  ASSUME NEW l \in Seq(Ages), LatestFirst(l)
  PROVE  LatestFirst(Older(l))
<1> SUFFICES ASSUME NEW i \in 1 .. Len(l), NEW j \in 1 .. Len(l), i <= j
             PROVE  Latest(Older(l), i) <= Latest(Older(l), j)
  BY OlderLatest DEF LatestFirst
<1>1. Latest(l, i) <= Latest(l, j)
  BY DEF LatestFirst
<1> DEFINE a == Latest(l, i)
           b == Latest(l, j)
<1>2. a \in Ages /\ Latest(Older(l), i) = IF a < Hour THEN a + 1 ELSE a
  BY OlderLatest
<1>3. b \in Ages /\ Latest(Older(l), j) = IF b < Hour THEN b + 1 ELSE b
  BY OlderLatest
<1>4. a <= b
  BY <1>1
<1> HIDE DEF a, b
<1> QED
  BY <1>2, <1>3, <1>4, DetectorAssumption DEF Ages

\* Logs of the same outages stay so as time passes.
LEMMA OlderSame ==
  ASSUME NEW l \in Seq(Ages), NEW m \in Seq(Ages), SameOutages(l, m)
  PROVE  SameOutages(Older(l), Older(m))
<1>1. Len(l) \in Nat /\ Len(m) \in Nat /\ Len(Older(l)) = Len(l) /\ Len(Older(m)) = Len(m)
  BY OlderLatest
<1>2. ASSUME NEW j \in 1 .. Len(l), j <= Len(m)
      PROVE  Latest(Older(l), j) = Latest(Older(m), j)
  <2>1. j \in 1 .. Len(m) /\ Latest(l, j) = Latest(m, j)
    BY <1>1, <1>2 DEF SameOutages
  <2> QED
    BY <2>1, OlderLatest
<1> QED
  BY <1>1, <1>2 DEF SameOutages

-----------------------------------------------------------------------------

\* The steps with the history are steps of the loop.
LEMMA HistoryStep == [HNext]_histVars => [Next]_vars
  BY DEF HNext, HLoop, HLost, HAnswered, HRotate, HPublishFails, HCrash, HTick, Next, Loop,
         histVars

\* The empty log is a log.
LEMMA EmptyLog == << >> \in Seq(Ages) /\ Len(<< >>) = 0
  OBVIOUS

\* An outage is logged by a push onto the log.
LEMMA LoggedIsPush ==
  ASSUME NEW l
  PROVE  Logged(l) = Push(l, Keep)
  BY DEF Logged, Push

\* The model never leaves its types.
LEMMA TypeStep == TypeOK /\ [Next]_vars => TypeOK'
<1> SUFFICES ASSUME TypeOK, [Next]_vars PROVE TypeOK'
  OBVIOUS
<1>1. log \in Seq(Ages) /\ Len(log) <= Keep /\ shownLog \in Seq(Ages) /\ Len(shownLog) <= Keep
  BY DEF TypeOK, Ages
<1>2. CASE Lost
  <2>1. Logged(log) \in Seq(Ages) /\ Len(Logged(log)) <= Keep
    <3>1. Push(log, Keep) \in Seq(Ages) /\ Len(Push(log, Keep)) <= Keep
      BY <1>1, PushFacts, DetectorAssumption
    <3> QED
      BY <3>1, LoggedIsPush
  <2>2. log' \in Seq(Ages) /\ Len(log') <= Keep
    BY <1>1, <1>2, <2>1 DEF Lost
  <2>3. run' \in 0 .. LossThreshold
    BY <1>2, DetectorAssumption DEF Lost, TypeOK
  <2> QED
    BY <1>2, <2>2, <2>3 DEF Lost, TypeOK, Ages
<1>3. CASE Answered \/ Rotate \/ Crash
  <2>1. run' \in 0 .. LossThreshold /\ << >> \in Seq(Ages) /\ Len(<< >>) <= Keep
    BY <1>3, EmptyLog, DetectorAssumption DEF Answered, Rotate, Crash
  <2> QED
    BY <1>3, <2>1 DEF Answered, Rotate, Crash, TypeOK, Ages
<1>4. CASE Tick
  <2>1. Older(log) \in Seq(Ages) /\ Len(Older(log)) <= Keep
        /\ Older(shownLog) \in Seq(Ages) /\ Len(Older(shownLog)) <= Keep
    BY <1>1, OlderLatest
  <2> QED
    BY <1>4, <2>1 DEF Tick, TypeOK, Ages
<1>5. CASE Continue \/ Publish \/ PublishFails \/ Boot \/ UNCHANGED vars
  BY <1>5 DEF Continue, Publish, PublishFails, Boot, vars, loopVars, TypeOK
<1> QED
  BY <1>2, <1>3, <1>4, <1>5 DEF Next, Loop

\* Every step keeps the types of the history.
LEMMA HTypeStep == HTypeOK /\ [HNext]_histVars => HTypeOK'
<1> SUFFICES ASSUME HTypeOK, [HNext]_histVars PROVE HTypeOK'
  OBVIOUS
<1>1. TypeOK'
  BY HistoryStep, TypeStep DEF HTypeOK
<1>2. events \in Seq(Ages) /\ Len(events) <= Remembered /\ netRun \in 0 .. LossThreshold
      /\ mishap \in {"none", "some", "cut"}
  BY DEF HTypeOK, Ages
<1>3. CASE HLost
  <2>1. Push(events, Remembered) \in Seq(Ages) /\ Len(Push(events, Remembered)) <= Remembered
    BY <1>2, PushFacts, HistoryAssumption
  <2>2. events' \in {events, Push(events, Remembered)}
    BY <1>3 DEF HLost, Push
  <2>3. netRun' \in 0 .. LossThreshold
    BY <1>2, <1>3, DetectorAssumption DEF HLost
  <2> QED
    BY <1>1, <1>2, <1>3, <2>1, <2>2, <2>3 DEF HLost, HTypeOK, Ages
<1>4. CASE HRotate \/ HPublishFails \/ HCrash
  <2>1. events' = << >> /\ mishap' \in {"some", "cut"}
    BY <1>4 DEF HRotate, HPublishFails, HCrash, Mishap
  <2>2. << >> \in Seq(Ages) /\ Len(<< >>) <= Remembered
    BY EmptyLog, HistoryAssumption
  <2>3. netRun' \in 0 .. LossThreshold
    BY <1>2, <1>4, DetectorAssumption DEF HRotate, HPublishFails, HCrash
  <2> QED
    BY <1>1, <2>1, <2>2, <2>3 DEF HTypeOK, Ages
<1>5. CASE HTick
  <2>1. Older(events) \in Seq(Ages) /\ Len(Older(events)) <= Remembered
    BY <1>2, OlderLatest
  <2> QED
    BY <1>1, <1>2, <1>5, <2>1 DEF HTick, HTypeOK, Ages
<1>6. CASE UNCHANGED <<events, mishap>> /\ netRun' \in {0, netRun}
  <2>1. netRun' \in 0 .. LossThreshold
    BY <1>2, <1>6, DetectorAssumption
  <2> QED
    BY <1>1, <1>2, <1>6, <2>1 DEF HTypeOK, Ages
<1> QED
  BY <1>3, <1>4, <1>5, <1>6 DEF HNext, HLoop, HAnswered, histVars

\* The loop's run is the observer's, unless a mishap has cut it.
LEMMA RunStep == HInv /\ [HNext]_histVars => RunIsOnTheNet'
<1> SUFFICES ASSUME HInv, [HNext]_histVars PROVE RunIsOnTheNet'
  OBVIOUS
<1>1. LossThreshold \in Nat \ {0} /\ run \in 0 .. LossThreshold /\ netRun \in 0 .. LossThreshold
      /\ run <= netRun /\ (mishap = "none" => run = netRun)
  BY DetectorAssumption DEF HInv, HTypeOK, TypeOK, RunIsOnTheNet
<1>2. CASE HLost
  BY <1>1, <1>2 DEF HLost, Lost, RunIsOnTheNet
<1>3. CASE HAnswered
  BY <1>1, <1>3 DEF HAnswered, Answered, RunIsOnTheNet
<1>4. CASE HRotate \/ HPublishFails \/ HCrash
  <2>1. mishap' # "none"
    BY <1>4 DEF HRotate, HPublishFails, HCrash, Mishap
  <2>2. run' <= netRun'
    BY <1>1, <1>4 DEF HRotate, Rotate, HPublishFails, PublishFails, loopVars, HCrash, Crash
  <2> QED
    BY <2>1, <2>2 DEF RunIsOnTheNet
<1>5. CASE UNCHANGED <<run, netRun, mishap>>
  BY <1>1, <1>5 DEF RunIsOnTheNet
<1> QED
  BY <1>2, <1>3, <1>4, <1>5
  DEF HNext, HLoop, HTick, Tick, Continue, Publish, Boot, histVars, vars, loopVars

\* The loop's log is the observer's, unless a mishap has emptied one of them.
LEMMA LogStep == HInv /\ [HNext]_histVars => LogIsHistory'
<1> SUFFICES ASSUME HInv, [HNext]_histVars, mishap' = "none" PROVE LogIsHistory'
  BY DEF LogIsHistory
<1>1. log \in Seq(Ages) /\ Len(log) <= Keep /\ events \in Seq(Ages) /\ Len(events) <= Remembered
  BY DEF HInv, HTypeOK, TypeOK, Ages
<1>2. mishap = "none"
  BY DEF HNext, HLoop, HLost, HAnswered, HRotate, HPublishFails, HCrash, HTick, Mishap, histVars
<1>3. /\ phase # "off" /\ LatestFirst(log) /\ LatestFirst(events) /\ SameOutages(log, events)
      /\ phase # "write" => shownLog = log
  BY <1>2 DEF HInv, LogIsHistory
<1>4. CASE HLost
  <2>1. phase' = "write"
    BY <1>4 DEF HLost, Lost
  <2>2. CASE inOutage' /\ ~inOutage
    <3>1. log' = Push(log, Keep)
      BY <1>4, <2>2, LoggedIsPush DEF HLost, Lost
    <3>2. netRun' = LossThreshold /\ netRun < LossThreshold
      BY <1>2, <1>4, <2>2, DetectorAssumption
      DEF HLost, Lost, HInv, RunIsOnTheNet, AlarmMatchesRun, HTypeOK, TypeOK
    <3>3. events' = Push(events, Remembered)
      BY <1>2, <1>4, <3>2, DetectorAssumption DEF HLost, Push, HInv, HTypeOK
    <3>4. LatestFirst(log') /\ LatestFirst(events') /\ SameOutages(log', events')
      BY <1>1, <1>3, <3>1, <3>3, PushLatestFirst, PushSame, DetectorAssumption, HistoryAssumption
    <3> QED
      BY <2>1, <3>4 DEF LogIsHistory, LatestFirst, SameOutages, Latest
  <2>3. CASE ~(inOutage' /\ ~inOutage)
    <3>1. log' = log
      BY <1>4, <2>3 DEF HLost, Lost
    <3>2. netRun' = netRun \/ netRun' < LossThreshold
      <4>1. run = netRun /\ run \in 0 .. LossThreshold /\ (inOutage <=> run = LossThreshold)
        BY <1>2 DEF HInv, RunIsOnTheNet, AlarmMatchesRun, HTypeOK, TypeOK
      <4>2. (inOutage' <=> run' = LossThreshold) /\ run' = netRun'
            /\ netRun' = IF netRun < LossThreshold THEN netRun + 1 ELSE netRun
        BY <1>4, <4>1 DEF HLost, Lost
      <4> QED
        BY <2>3, <4>1, <4>2, DetectorAssumption
    <3>3. events' = events
      BY <1>4, <3>2 DEF HLost
    <3> QED
      BY <1>3, <2>1, <3>1, <3>3 DEF LogIsHistory, LatestFirst, SameOutages, Latest
  <2> QED
    BY <2>2, <2>3
<1>5. CASE HTick
  <2>1. log' = Older(log) /\ shownLog' = Older(shownLog) /\ events' = Older(events)
        /\ phase' = phase
    BY <1>5 DEF HTick, Tick
  <2>2. LatestFirst(log') /\ LatestFirst(events') /\ SameOutages(log', events')
    BY <1>1, <1>3, <2>1, OlderLatestFirst, OlderSame
  <2> QED
    BY <1>3, <2>1, <2>2 DEF LogIsHistory, LatestFirst, SameOutages, Latest
<1>6. CASE UNCHANGED <<log, events>> /\ phase' # "off" /\ (phase' # "write" => shownLog' = log)
  BY <1>3, <1>6 DEF LogIsHistory, LatestFirst, SameOutages, Latest
<1>7. ~HRotate /\ ~HPublishFails /\ ~HCrash
  BY DEF HRotate, HPublishFails, HCrash, Mishap
<1>8. CASE HAnswered
  BY <1>6, <1>8 DEF HAnswered, Answered
<1>9. CASE (Continue \/ Publish) /\ UNCHANGED <<netRun, events, mishap>>
  BY <1>3, <1>6, <1>9 DEF Continue, Publish, loopVars
<1>10. CASE UNCHANGED histVars
  BY <1>3, <1>6, <1>10 DEF histVars, vars, loopVars
<1> QED
  BY <1>3, <1>4, <1>5, <1>7, <1>8, <1>9, <1>10 DEF HNext, HLoop, Boot

\* The invariant of the detector with its history.
LEMMA HistoryInvariant == HSpec => []HInv
<1>1. HInit => HInv
  <2> SUFFICES ASSUME HInit PROVE HInv
    OBVIOUS
  <2>1. << >> \in Seq(Ages) /\ Len(<< >>) = 0
    BY EmptyLog
  <2>2. HTypeOK
    <3>1. 0 \in 0 .. LossThreshold /\ Len(<< >>) <= Keep /\ Len(<< >>) <= Remembered
      BY <2>1, DetectorAssumption, HistoryAssumption
    <3>2. TypeOK
      BY <2>1, <3>1 DEF HInit, Init, TypeOK, Ages
    <3> QED
      BY <2>1, <3>1, <3>2 DEF HInit, HTypeOK, Ages
  <2>3. AlarmMatchesRun
    BY AlarmInit DEF HInit, IInv
  <2>4. LatestFirst(<< >>) /\ SameOutages(<< >>, << >>)
    BY <2>1 DEF LatestFirst, SameOutages
  <2> QED
    BY <2>2, <2>3, <2>4 DEF HInit, Init, HInv, RunIsOnTheNet, LogIsHistory
<1>2. HInv /\ [HNext]_histVars => HInv'
  <2> SUFFICES ASSUME HInv, [HNext]_histVars PROVE HInv'
    OBVIOUS
  <2>1. AlarmMatchesRun'
    <3>1. IInv
      BY DEF HInv, HTypeOK, TypeOK, IInv, Ages
    <3> QED
      BY <3>1, AlarmStep, HistoryStep DEF IInv
  <2> QED
    BY <2>1, HTypeStep, RunStep, LogStep DEF HInv
<1> QED
  BY <1>1, <1>2, PTL DEF HSpec

-----------------------------------------------------------------------------

\* The model never leaves its types, the bounds of both logs included.
THEOREM TypeCorrect == HSpec => []HTypeOK
<1>1. HInv => HTypeOK
  BY DEF HInv
<1> QED
  BY <1>1, HistoryInvariant, PTL

\* The snapshot's flag never rises without LossThreshold unanswered pings in a row on the
\* network, for any threshold, whatever rotations, restarts and failed writes come between.
THEOREM NoAlarmIsFalse == HSpec => NoFalseAlarm
<1>1. HInv /\ [HNext]_histVars => [~flag /\ flag' => netRun' = LossThreshold]_histVars
  <2> SUFFICES ASSUME HInv, [HNext]_histVars, ~flag, flag'
               PROVE  netRun' = LossThreshold
    OBVIOUS
  <2>1. HLost
    BY DEF HNext, HLoop, HAnswered, Answered, HRotate, Rotate, HPublishFails, PublishFails, HCrash,
           Crash, HTick, Tick, Continue, Publish, Boot, histVars, vars, loopVars
  <2>2. run' = LossThreshold
    BY <2>1 DEF HLost, Lost
  <2> QED
    BY <2>1, <2>2, DetectorAssumption
    DEF HLost, Lost, HInv, HTypeOK, TypeOK, RunIsOnTheNet
<1> QED
  BY <1>1, HistoryInvariant, PTL DEF HSpec, NoFalseAlarm

\* At least j outages of a log are fresh when the j-th latest one is.
LEMMA FreshAtLeast ==
  ASSUME NEW l \in Seq(Ages), LatestFirst(l), NEW j \in Nat \ {0}
  PROVE  /\ Fresh(l) \in Nat
         /\ Fresh(l) >= j <=> j <= Len(l) /\ Latest(l, j) < Hour
<1> DEFINE n == Len(l)
           F == {k \in 1 .. n : l[k] < Hour}
<1>1. n \in Nat /\ Fresh(l) = Cardinality(F)
  <2>1. DOMAIN l = 1 .. n /\ n \in Nat
    BY LenProperties
  <2> QED
    BY <2>1 DEF Fresh
<1>2. IsFiniteSet(F) /\ Cardinality(F) \in Nat
  <2>1. IsFiniteSet(1 .. n)
    BY <1>1, FS_Interval
  <2> QED
    BY <2>1, FS_Subset, FS_CardinalityType
<1>3. \A i \in 1 .. n : l[i] = Latest(l, n - i + 1)
  BY <1>1 DEF Latest
<1>4. CASE j <= n /\ Latest(l, j) < Hour
  <2> DEFINE B == n - j + 1 .. n
  <2>1. B \subseteq F
    <3> SUFFICES ASSUME NEW k \in B PROVE k \in F
      OBVIOUS
    <3>1. k \in 1 .. n /\ n - k + 1 \in 1 .. n /\ j \in 1 .. n /\ n - k + 1 <= j
      BY <1>1, <1>4
    <3>2. Latest(l, n - k + 1) <= Latest(l, j)
      BY <3>1 DEF LatestFirst
    <3>3. l[k] = Latest(l, n - k + 1) /\ l[k] \in Ages
      BY <1>3, <3>1, ElementOfSeq
    <3>4. n - j + 1 \in 1 .. n
      BY <1>1, <1>4
    <3>5. Latest(l, j) \in Ages
      BY <3>4, ElementOfSeq DEF Latest
    <3> HIDE DEF n
    <3>6. l[k] < Hour
      BY <1>4, <3>2, <3>3, <3>5, DetectorAssumption DEF Ages
    <3> QED
      BY <3>1, <3>6
  <2>2. Cardinality(B) = j
    <3> HIDE DEF n
    <3>1. n - j + 1 \in Int /\ n \in Int
      BY <1>1
    <3> QED
      BY <1>1, <1>4, <3>1, FS_Interval
  <2>3. Cardinality(B) <= Cardinality(F)
    BY <1>2, <2>1, FS_Subset
  <2> HIDE DEF F, B
  <2> QED
    BY <1>1, <1>2, <1>4, <2>2, <2>3
<1>5. CASE ~(j <= n /\ Latest(l, j) < Hour)
  <2> DEFINE a == IF j <= n THEN n - j + 2 ELSE 1
  <2>1. F \subseteq a .. n
    <3> SUFFICES ASSUME NEW k \in F PROVE k >= a
      BY <1>1
    <3>1. CASE j > n
      BY <1>1, <3>1
    <3>2. CASE j <= n
      <4> SUFFICES ASSUME k < a PROVE FALSE
        BY <1>1
      <4>1. k \in 1 .. n /\ n - k + 1 \in 1 .. n /\ j \in 1 .. n /\ j <= n - k + 1
        BY <1>1, <3>2
      <4>2. Latest(l, j) <= Latest(l, n - k + 1)
        BY <4>1 DEF LatestFirst
      <4>3. l[k] = Latest(l, n - k + 1) /\ l[k] \in Ages /\ l[k] < Hour
        BY <1>3, <4>1, ElementOfSeq
      <4>4. n - j + 1 \in 1 .. n
        BY <4>1
      <4>5. Latest(l, j) \in Ages
        BY <4>4, ElementOfSeq DEF Latest
      <4> HIDE DEF n
      <4> QED
        BY <1>5, <3>2, <4>2, <4>3, <4>5, DetectorAssumption DEF Ages
    <3> QED
      BY <1>1, <3>1, <3>2
  <2>2. IsFiniteSet(a .. n) /\ Cardinality(a .. n) < j /\ Cardinality(a .. n) \in Nat
    <3> HIDE DEF n
    <3>1. a \in Int /\ n \in Int
      BY <1>1
    <3>2. IsFiniteSet(a .. n) /\ Cardinality(a .. n) = IF a > n THEN 0 ELSE n - a + 1
      BY <3>1, FS_Interval
    <3> QED
      BY <1>1, <3>1, <3>2
  <2>3. Cardinality(F) <= Cardinality(a .. n)
    BY <2>1, <2>2, FS_Subset
  <2> HIDE DEF F, a
  <2>4. ~(Cardinality(F) >= j)
    BY <1>2, <2>2, <2>3
  <2> QED
    BY <1>1, <1>2, <1>5, <2>4
<1> QED
  BY <1>4, <1>5

\* The score of the outages a log kept is that of all outages there were, for every number
\* of outages kept that the thresholds of the score can tell apart.
THEOREM OutagesAreScored ==
  ASSUME Keep >= 3, Remembered >= 3
  PROVE  HSpec => []LastHourScored
<1>1. HInv => LastHourScored
  <2> SUFFICES ASSUME HInv, phase = "top", mishap = "none"
               PROVE  OutageScore(Fresh(shownLog)) = OutageScore(Fresh(events))
    BY DEF LastHourScored
  <2>1. /\ log \in Seq(Ages) /\ Len(log) \in Nat /\ events \in Seq(Ages) /\ Len(events) \in Nat
        /\ shownLog = log /\ LatestFirst(log) /\ LatestFirst(events) /\ SameOutages(log, events)
    BY DEF HInv, HTypeOK, TypeOK, LogIsHistory, Ages
  <2>2. ASSUME NEW j \in 1 .. 3
        PROVE  Fresh(log) >= j <=> Fresh(events) >= j
    <3>1. Keep \in Nat /\ Remembered \in Nat /\ Keep >= j /\ Remembered >= j
      BY DetectorAssumption, HistoryAssumption
    <3>2. j <= Len(log) <=> j <= Len(events)
      BY <2>1, <3>1 DEF SameOutages
    <3>3. j <= Len(log) /\ j <= Len(events) => Latest(log, j) = Latest(events, j)
      BY <2>1 DEF SameOutages
    <3>4. /\ Fresh(log) >= j <=> j <= Len(log) /\ Latest(log, j) < Hour
          /\ Fresh(events) >= j <=> j <= Len(events) /\ Latest(events, j) < Hour
      BY <2>1, FreshAtLeast
    <3> QED
      BY <3>2, <3>3, <3>4
  <2>3. (Fresh(log) >= 1 <=> Fresh(events) >= 1) /\ (Fresh(log) >= 3 <=> Fresh(events) >= 3)
    BY <2>2
  <2> QED
    BY <2>1, <2>3 DEF OutageScore
<1> QED
  BY <1>1, HistoryInvariant, PTL

=============================================================================
