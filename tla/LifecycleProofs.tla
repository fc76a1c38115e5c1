--------------------------- MODULE LifecycleProofs ---------------------------
(***************************************************************************)
(* For every number of commands, in whatever order they overlap: what      *)
(* nobody locks is kept by the commands that wait for one another, and     *)
(* every one that does not costs one daemon.                               *)
(*                                                                         *)
(* The daemons that run and the PID file change at different steps, so     *)
(* the proof counts claimants: a daemon that is about to be spawned, one   *)
(* that runs, and one whose handler has still to remove the file.          *)
(***************************************************************************)
EXTENDS Lifecycle, FiniteSetTheorems, TLAPS

\* A daemon that will come to write the PID file, has written it or will remove it.
Claims(s) == start[s] = "spawn" \/ daemon[s] \in {"init", "writing", "deaf", "up", "exiting"}

Claimants == {s \in Starts : Claims(s)}

\* A daemon is none before its Start has spawned it.
Unspawned == \A s \in Starts : start[s] \in {"idle", "spawn"} => daemon[s] = "none"

FileHasCreator == pidFile.creator = NoDaemon => pidFile.pid = NoPid

OpenHasCreator == \A d \in Starts : daemon[d] = "writing" => opened[d] # NoDaemon

OneMoreThanHasty == Cardinality(Claimants) <= 1 + hasty

\* Once the file has settled, the daemon it names is the one that is not hasty.
OthersAreHasty == ~Arriving /\ ~Removing => Cardinality(Claimants \ {pidFile.pid}) <= hasty

\* A Stop that finds the file stale leaves no daemon behind that is not hasty.
RemovedIsHasty == Removing => Cardinality(Claimants) <= hasty

\* So does the removal of a file a daemon has opened and will write to in vain.
LostFileIsHasty ==
  (\E d \in Starts : daemon[d] = "writing" /\ opened[d] # pidFile.creator)
    => Cardinality(Claimants) <= hasty

Counts == OneMoreThanHasty /\ OthersAreHasty /\ RemovedIsHasty /\ LostFileIsHasty

Histories == Unspawned /\ FileHasCreator /\ OpenHasCreator

IInv == TypeOK /\ Histories /\ Counts

-----------------------------------------------------------------------------
(* Counting. *)

\* A part of a finite set is finite and no larger.
LEMMA SmallerSet ==
  ASSUME NEW S, IsFiniteSet(S), NEW T, T \subseteq S
  PROVE  /\ IsFiniteSet(T)
         /\ Cardinality(T) \in Nat /\ Cardinality(S) \in Nat
         /\ Cardinality(T) <= Cardinality(S)
  BY FS_Subset, FS_CardinalityType

\* A set without one of its elements has one less.
LEMMA OneElementLess ==
  ASSUME NEW S, IsFiniteSet(S), NEW x \in S, NEW T, T \subseteq S \ {x}
  PROVE  Cardinality(T) <= Cardinality(S) - 1
<1>1. IsFiniteSet(S \ {x}) /\ Cardinality(S \ {x}) = Cardinality(S) - 1
  BY FS_RemoveElement
<1>2. Cardinality(T) <= Cardinality(S \ {x})
  BY <1>1, SmallerSet
<1> QED
  BY <1>1, <1>2

\* A set with another element has at most one more.
LEMMA OneElementMore ==
  ASSUME NEW S, IsFiniteSet(S), NEW x, NEW T, T \subseteq S \cup {x}
  PROVE  Cardinality(T) <= Cardinality(S) + 1
<1>1. IsFiniteSet(S \cup {x}) /\ Cardinality(S) \in Nat
      /\ Cardinality(S \cup {x}) \in {Cardinality(S), Cardinality(S) + 1}
  BY FS_AddElement, FS_CardinalityType
<1>2. Cardinality(T) \in Nat /\ Cardinality(T) <= Cardinality(S \cup {x})
  BY <1>1, SmallerSet
<1> QED
  BY <1>1, <1>2

\* Any set of daemons is finite.
LEMMA FiniteDaemons ==
  ASSUME NEW T, T \subseteq Starts
  PROVE  /\ IsFiniteSet(T)
         /\ Cardinality(T) \in Nat /\ Cardinality(Starts) \in Nat
         /\ Cardinality(T) <= Cardinality(Starts)
  BY SmallerSet, LifecycleAssumption

\* What the history counter does.
LEMMA OneMoreCounts ==
  ASSUME TypeOK
  PROVE  /\ hasty \in Nat /\ Cardinality(Starts) \in Nat
         /\ OneMore \in 0 .. Cardinality(Starts)
         /\ OneMore >= hasty
         /\ OneMore = hasty + 1 \/ OneMore = Cardinality(Starts)
<1>1. Cardinality(Starts) \in Nat
  BY FiniteDaemons
<1> QED
  BY <1>1 DEF TypeOK, OneMore

-----------------------------------------------------------------------------
(* Type correctness. *)

\* Before the first command nothing runs and nobody claims the file.
LEMMA InitInv == Init => IInv
<1> SUFFICES ASSUME Init PROVE IInv
  OBVIOUS
<1>1. Claimants = {} /\ Claimants \ {pidFile.pid} = {}
  BY DEF Init, Claimants, Claims
<1>2. Cardinality(Claimants) = 0 /\ Cardinality(Claimants \ {pidFile.pid}) = 0
  BY <1>1, FS_EmptySet
<1>3. Cardinality(Starts) \in Nat
  BY FiniteDaemons
<1>4. TypeOK
  BY <1>3 DEF Init, TypeOK, NoFile, StartPlaces, StopPlaces, DaemonPlaces
<1>5. Histories
  BY DEF Init, Histories, Unspawned, FileHasCreator, OpenHasCreator, NoFile
<1>6. Counts
  BY <1>2 DEF Init, Counts, OneMoreThanHasty, OthersAreHasty, RemovedIsHasty, LostFileIsHasty
<1> QED
  BY <1>4, <1>5, <1>6 DEF IInv

\* Every step keeps the types.
LEMMA TypeStep == TypeOK /\ [Next]_vars => TypeOK'
<1> SUFFICES ASSUME TypeOK, [Next]_vars PROVE TypeOK'
  OBVIOUS
<1> USE DEF TypeOK, StartPlaces, StopPlaces, DaemonPlaces
<1>1. ASSUME NEW s \in Starts, StartCheck(s) PROVE TypeOK'
  BY <1>1, OneMoreCounts DEF StartCheck
<1>2. ASSUME NEW s \in Starts, StartStep(s) PROVE TypeOK'
  BY <1>2 DEF StartStep, StartSpawn, StartReturns
<1>3. ASSUME NEW d \in Starts, DaemonOpens(d) PROVE TypeOK'
  BY <1>3 DEF DaemonOpens, NoFile
<1>4. ASSUME NEW d \in Starts, DaemonWrites(d) PROVE TypeOK'
  BY <1>4 DEF DaemonWrites
<1>5. ASSUME NEW d \in Starts, DaemonListens(d) PROVE TypeOK'
  BY <1>5 DEF DaemonListens
<1>6. ASSUME NEW d \in Starts, Handler(d) PROVE TypeOK'
  BY <1>6 DEF Handler, HandlerRemoves, HandlerExits, NoFile
<1>7. ASSUME NEW d \in Starts, Dies(d) PROVE TypeOK'
  BY <1>7 DEF Dies
<1>8. ASSUME NEW d \in Starts, Reused(d) PROVE TypeOK'
  BY <1>8 DEF Reused
<1>9. ASSUME NEW t \in Stops, StopCheck(t) PROVE TypeOK'
  BY <1>9, OneMoreCounts DEF StopCheck
<1>10. ASSUME NEW t \in Stops, StopRemoves(t) PROVE TypeOK'
  BY <1>10 DEF StopRemoves, NoFile
<1>11. ASSUME NEW t \in Stops, StopSignals(t) PROVE TypeOK'
  <2>1. \A place \in DaemonPlaces : Signalled(place) \in DaemonPlaces
    BY DEF Signalled
  <2>2. daemon' \in [Starts -> DaemonPlaces]
    BY <1>11, <2>1 DEF StopSignals
  <2> QED
    BY <1>11, <2>2 DEF StopSignals
<1>12. CASE UNCHANGED vars
  BY <1>12 DEF vars
<1> QED
  BY <1>1, <1>2, <1>3, <1>4, <1>5, <1>6, <1>7, <1>8, <1>9, <1>10, <1>11, <1>12
  DEF Next, DaemonStep, StopStep

-----------------------------------------------------------------------------
(* The histories of the PID file and of each daemon. *)

\* Every step keeps what processes must have done before.
LEMMA HistoriesStep == IInv /\ [Next]_vars => Histories'
<1> SUFFICES ASSUME IInv, [Next]_vars PROVE Histories'
  OBVIOUS
<1> USE DEF IInv, TypeOK, Histories, Unspawned, FileHasCreator, OpenHasCreator,
            StartPlaces, StopPlaces, DaemonPlaces
<1>1. ASSUME NEW s \in Starts, StartCheck(s) PROVE Histories'
  BY <1>1 DEF StartCheck
<1>2. ASSUME NEW s \in Starts, StartStep(s) PROVE Histories'
  BY <1>2 DEF StartStep, StartSpawn, StartReturns
<1>3. ASSUME NEW d \in Starts, DaemonOpens(d) PROVE Histories'
  BY <1>3, LifecycleAssumption DEF DaemonOpens, NoFile
<1>4. ASSUME NEW d \in Starts, DaemonWrites(d) PROVE Histories'
  BY <1>4 DEF DaemonWrites
<1>5. ASSUME NEW d \in Starts, DaemonListens(d) PROVE Histories'
  BY <1>5 DEF DaemonListens
<1>6. ASSUME NEW d \in Starts, Handler(d) PROVE Histories'
  BY <1>6 DEF Handler, HandlerRemoves, HandlerExits, NoFile
<1>7. ASSUME NEW d \in Starts, Dies(d) PROVE Histories'
  BY <1>7 DEF Dies, Living
<1>8. ASSUME NEW d \in Starts, Reused(d) PROVE Histories'
  BY <1>8 DEF Reused
<1>9. ASSUME NEW t \in Stops, StopCheck(t) PROVE Histories'
  BY <1>9 DEF StopCheck
<1>10. ASSUME NEW t \in Stops, StopRemoves(t) PROVE Histories'
  BY <1>10 DEF StopRemoves, NoFile
<1>11. ASSUME NEW t \in Stops, StopSignals(t) PROVE Histories'
  <2>1. \A d \in Starts : daemon'[d] = daemon[d] \/ daemon'[d] = Signalled(daemon[d])
    BY <1>11 DEF StopSignals
  <2>2. Signalled("none") = "none"
        /\ \A place \in DaemonPlaces : Signalled(place) = "writing" => place = "writing"
    BY DEF Signalled
  <2> QED
    BY <1>11, <2>1, <2>2 DEF StopSignals
<1>12. CASE UNCHANGED vars
  BY <1>12 DEF vars
<1> QED
  BY <1>1, <1>2, <1>3, <1>4, <1>5, <1>6, <1>7, <1>8, <1>9, <1>10, <1>11, <1>12
  DEF Next, DaemonStep, StopStep

-----------------------------------------------------------------------------
(* The counts. *)

LostFile == \E d \in Starts : daemon[d] = "writing" /\ opened[d] # pidFile.creator

\* A step that ends with no more daemons than hasty commands keeps all counts.
LEMMA EnoughHasty ==
  ASSUME hasty' \in Nat, Cardinality(Claimants') <= hasty'
  PROVE  Counts'
<1>1. Cardinality(Claimants') \in Nat
      /\ Cardinality(Claimants' \ {pidFile'.pid}) \in Nat
      /\ Cardinality(Claimants' \ {pidFile'.pid}) <= Cardinality(Claimants')
  <2>1. Claimants' \subseteq Starts /\ Claimants' \ {pidFile'.pid} \subseteq Claimants'
    BY DEF Claimants
  <2> QED
    BY <2>1, FiniteDaemons, SmallerSet
<1> QED
  BY <1>1 DEF Counts, OneMoreThanHasty, OthersAreHasty, RemovedIsHasty, LostFileIsHasty

\* A step that takes one daemon away leaves no more than are hasty.
LEMMA OneDaemonLess ==
  ASSUME IInv, TypeOK', hasty' = hasty,
         NEW d \in Claimants, Claimants' \subseteq Claimants \ {d}
  PROVE  Counts'
<1>1. IsFiniteSet(Claimants) /\ Cardinality(Claimants) \in Nat
  BY FiniteDaemons DEF Claimants
<1>2. Cardinality(Claimants') <= Cardinality(Claimants) - 1
  BY <1>1, OneElementLess
<1>3. Cardinality(Claimants') \in Nat
  <2>1. Claimants' \subseteq Starts
    BY DEF Claimants
  <2> QED
    BY <2>1, FiniteDaemons
<1>4. hasty' \in Nat /\ Cardinality(Claimants') <= hasty'
  BY <1>1, <1>2, <1>3, OneMoreCounts DEF IInv, Counts, OneMoreThanHasty
<1> QED
  BY <1>4, EnoughHasty

\* A step that changes nothing the counts look at.
LEMMA SameCounts ==
  ASSUME Counts, hasty' = hasty, pidFile'.pid = pidFile.pid, Claimants' = Claimants,
         Arriving => Arriving', Removing' <=> Removing, LostFile' => LostFile
  PROVE  Counts'
  BY DEF Counts, OneMoreThanHasty, OthersAreHasty, RemovedIsHasty, LostFileIsHasty, LostFile

\* A Start that waits for the file to settle finds no daemon but the hasty ones.
LEMMA SettledIsHasty ==
  ASSUME IInv, ~Arriving, ~Removing, ~Alive(pidFile.pid)
  PROVE  Cardinality(Claimants) <= hasty
<1>1. pidFile.pid \notin Claimants
  BY DEF Alive, Living, Claimants, Claims, Arriving
<1>2. Claimants \ {pidFile.pid} = Claimants
  BY <1>1
<1> QED
  BY <1>2 DEF IInv, Counts, OthersAreHasty

\* The check of a start keeps the counts.
LEMMA StartCheckCounts ==
  ASSUME IInv, TypeOK', NEW s \in Starts, StartCheck(s)
  PROVE  Counts'
<1>1. IsFiniteSet(Claimants) /\ Cardinality(Claimants) \in Nat
  BY FiniteDaemons DEF Claimants
<1>2. hasty \in Nat /\ hasty' \in Nat /\ Cardinality(Starts) \in Nat
  BY OneMoreCounts, FiniteDaemons DEF IInv, TypeOK
<1>3. CASE Alive(pidFile.pid)
  <2>1. UNCHANGED <<start, daemon, pidFile, stop, opened, hasty>>
    BY <1>3 DEF StartCheck, IInv, TypeOK
  <2> QED
    BY <2>1, SameCounts DEF IInv, Claimants, Claims, Arriving, Removing, LostFile
<1>4. CASE ~Alive(pidFile.pid)
  <2>1. Claimants' \subseteq Claimants \cup {s}
    BY DEF StartCheck, IInv, TypeOK, Claimants, Claims
  <2>2. Cardinality(Claimants') <= Cardinality(Claimants) + 1
    BY <2>1, <1>1, OneElementMore
  <2>3. Cardinality(Claimants') \in Nat /\ Cardinality(Claimants') <= Cardinality(Starts)
    <3>1. Claimants' \subseteq Starts
      BY DEF Claimants
    <3> QED
      BY <3>1, FiniteDaemons
  <2>4. Arriving'
    BY <1>4 DEF StartCheck, IInv, TypeOK, Arriving
  <2>5. (Removing' <=> Removing) /\ (LostFile' => LostFile)
    BY DEF StartCheck, Removing, LostFile
  <2>6. CASE Arriving \/ Removing
    <3>1. hasty' = OneMore
      BY <1>4, <2>6 DEF StartCheck
    <3>2. Cardinality(Claimants') <= 1 + hasty'
      BY <1>1, <1>2, <2>2, <2>3, <3>1, OneMoreCounts DEF IInv, Counts, OneMoreThanHasty
    <3>3. Removing \/ LostFile => Cardinality(Claimants') <= hasty'
      BY <1>1, <1>2, <2>2, <2>3, <3>1, OneMoreCounts
      DEF IInv, Counts, RemovedIsHasty, LostFileIsHasty, LostFile
    <3> QED
      BY <2>4, <2>5, <3>2, <3>3
      DEF Counts, OneMoreThanHasty, OthersAreHasty, RemovedIsHasty, LostFileIsHasty, LostFile
  <2>7. CASE ~Arriving /\ ~Removing
    <3>1. Cardinality(Claimants) <= hasty /\ hasty' = hasty
      BY <1>4, <2>7, SettledIsHasty DEF StartCheck
    <3>2. Cardinality(Claimants') <= 1 + hasty'
      BY <1>1, <1>2, <2>2, <2>3, <3>1
    <3>3. ~LostFile /\ ~Removing
      BY <2>7 DEF Arriving, LostFile
    <3> QED
      BY <2>4, <2>5, <3>2, <3>3
      DEF Counts, OneMoreThanHasty, OthersAreHasty, RemovedIsHasty, LostFileIsHasty, LostFile
  <2> QED
    BY <2>6, <2>7
<1> QED
  BY <1>3, <1>4

\* The check of a stop keeps the counts.
LEMMA StopCheckCounts ==
  ASSUME IInv, TypeOK', NEW t \in Stops, StopCheck(t)
  PROVE  Counts'
<1> DEFINE p == pidFile.pid
<1>1. Cardinality(Claimants) \in Nat /\ Cardinality(Claimants) <= Cardinality(Starts)
  BY FiniteDaemons DEF Claimants
<1>2. hasty \in Nat /\ hasty' \in Nat
  BY OneMoreCounts, FiniteDaemons DEF IInv, TypeOK
<1>3. Claimants' = Claimants /\ (Arriving' <=> Arriving) /\ (LostFile' <=> LostFile)
      /\ pidFile' = pidFile
  BY DEF StopCheck, Claimants, Claims, Arriving, LostFile
<1>4. CASE p = NoPid \/ Alive(p)
  <2>1. stop'[t] # "remove" /\ hasty' = hasty
    BY <1>4 DEF StopCheck, IInv, TypeOK
  <2>2. Removing' <=> Removing
    BY <2>1 DEF StopCheck, IInv, TypeOK, Removing
  <2> QED
    BY <1>3, <2>1, <2>2, SameCounts DEF IInv
<1>5. CASE p # NoPid /\ ~Alive(p)
  <2>1. stop'[t] = "remove" /\ hasty' = IF Arriving THEN OneMore ELSE hasty
    BY <1>5 DEF StopCheck, IInv, TypeOK
  <2>2. CASE Arriving
    BY <1>1, <1>2, <1>3, <2>1, <2>2, OneMoreCounts, EnoughHasty
    DEF IInv, Counts, OneMoreThanHasty
  <2>3. CASE ~Arriving /\ Removing
    BY <1>2, <1>3, <2>1, <2>3, EnoughHasty DEF IInv, Counts, RemovedIsHasty
  <2>4. CASE ~Arriving /\ ~Removing
    BY <1>2, <1>3, <1>5, <2>1, <2>4, SettledIsHasty, EnoughHasty
  <2> QED
    BY <2>2, <2>3, <2>4
<1> QED
  BY <1>4, <1>5

\* What a daemon does, its death included, keeps the counts.
LEMMA DaemonCounts ==
  ASSUME IInv, TypeOK', NEW d \in Starts, DaemonStep(d) \/ Dies(d)
  PROVE  Counts'
<1> USE DEF StartPlaces, DaemonPlaces
<1>1. hasty \in Nat /\ hasty' = hasty
  BY OneMoreCounts
  DEF IInv, DaemonStep, DaemonOpens, DaemonWrites, DaemonListens, Handler, HandlerRemoves,
      HandlerExits, Dies
<1>2. daemon[d] # "none" => start[d] # "spawn"
  BY DEF IInv, Histories, Unspawned
<1>3. CASE DaemonOpens(d)
  <2>1. Claimants' = Claimants /\ Arriving'
    BY <1>3 DEF DaemonOpens, IInv, TypeOK, Claimants, Claims, Arriving
  <2>2. LostFile' => LostFile
    BY <1>3 DEF DaemonOpens, IInv, TypeOK, LostFile, NoFile, Histories, OpenHasCreator
  <2>3. Removing' <=> Removing
    BY <1>3 DEF DaemonOpens, Removing
  <2> QED
    BY <1>1, <2>1, <2>2, <2>3
    DEF IInv, Counts, OneMoreThanHasty, OthersAreHasty, RemovedIsHasty, LostFileIsHasty, LostFile
<1>4. CASE DaemonWrites(d)
  <2>1. Claimants' = Claimants /\ d \in Claimants
    BY <1>4 DEF DaemonWrites, IInv, TypeOK, Claimants, Claims
  <2>2. CASE LostFile
    BY <1>1, <2>1, <2>2, EnoughHasty DEF IInv, Counts, LostFileIsHasty, LostFile
  <2>3. CASE ~LostFile
    <3>1. pidFile'.pid = d /\ pidFile'.creator = pidFile.creator
      BY <1>4, <2>3 DEF DaemonWrites, IInv, TypeOK, LostFile
    <3>2. ~LostFile' /\ (Removing' <=> Removing)
      BY <1>4, <2>3, <3>1 DEF DaemonWrites, IInv, TypeOK, LostFile, Removing
    <3>3. Cardinality(Claimants' \ {pidFile'.pid}) <= hasty'
      <4>1. IsFiniteSet(Claimants) /\ Cardinality(Claimants) \in Nat
        BY FiniteDaemons DEF Claimants
      <4>2. Cardinality(Claimants \ {d}) <= Cardinality(Claimants) - 1
        BY <2>1, <4>1, OneElementLess
      <4>3. Cardinality(Claimants \ {d}) \in Nat
        BY <4>1, SmallerSet
      <4>4. Cardinality(Claimants \ {d}) <= hasty
        BY <1>1, <4>1, <4>2, <4>3 DEF IInv, Counts, OneMoreThanHasty
      <4> QED
        BY <1>1, <2>1, <3>1, <4>4
    <3> QED
      BY <1>1, <2>1, <3>2, <3>3
      DEF IInv, Counts, OneMoreThanHasty, OthersAreHasty, RemovedIsHasty, LostFileIsHasty, LostFile
  <2> QED
    BY <2>2, <2>3
<1>5. CASE DaemonListens(d) \/ HandlerExits(d)
  <2>1. Claimants' = Claimants /\ (Arriving' <=> Arriving) /\ (LostFile' <=> LostFile)
    BY <1>5 DEF DaemonListens, HandlerExits, IInv, TypeOK, Claimants, Claims, Arriving, LostFile
  <2>2. (Removing' <=> Removing) /\ pidFile' = pidFile
    BY <1>5 DEF DaemonListens, HandlerExits, Removing
  <2> QED
    BY <1>1, <2>1, <2>2, SameCounts DEF IInv
<1>6. CASE HandlerRemoves(d)
  <2>1. d \in Claimants /\ Claimants' \subseteq Claimants \ {d}
    BY <1>2, <1>6 DEF HandlerRemoves, IInv, TypeOK, Claimants, Claims
  <2> QED
    BY <1>1, <2>1, OneDaemonLess
<1>7. CASE Dies(d)
  <2>1. CASE d \in Claimants
    <3>1. Claimants' \subseteq Claimants \ {d}
      BY <1>2, <1>7 DEF Dies, Living, IInv, TypeOK, Claimants, Claims
    <3> QED
      BY <1>1, <2>1, <3>1, OneDaemonLess
  <2>2. CASE d \notin Claimants
    <3>1. daemon[d] = "leaving"
      BY <1>7, <2>2 DEF Dies, Living, IInv, TypeOK, Claimants, Claims
    <3>2. Claimants' = Claimants /\ (Arriving' <=> Arriving) /\ (LostFile' <=> LostFile)
      BY <1>7, <3>1 DEF Dies, IInv, TypeOK, Claimants, Claims, Arriving, LostFile
    <3>3. (Removing' <=> Removing) /\ pidFile' = pidFile
      BY <1>7 DEF Dies, Removing
    <3> QED
      BY <1>1, <3>2, <3>3, SameCounts DEF IInv
  <2> QED
    BY <2>1, <2>2
<1> QED
  BY <1>3, <1>4, <1>5, <1>6, <1>7 DEF DaemonStep, Handler

\* The signal of a stop keeps the counts.
LEMMA SignalCounts ==
  ASSUME IInv, TypeOK', NEW t \in Stops, StopSignals(t)
  PROVE  Counts'
<1> DEFINE p == target[t]
<1> USE DEF StartPlaces, DaemonPlaces
<1>1. hasty' = hasty /\ pidFile' = pidFile
  BY DEF StopSignals
<1>2. Removing' <=> Removing
  BY DEF StopSignals, IInv, TypeOK, Removing
<1>3. CASE p \in Starts /\ daemon[p] \in {"init", "writing", "deaf"}
  <2>1. daemon' = [daemon EXCEPT ![p] = "dead"] /\ start' = start
    BY <1>3 DEF StopSignals, Signalled
  <2>2. start[p] # "spawn"
    BY <1>3 DEF IInv, Histories, Unspawned
  <2>3. p \in Claimants /\ Claimants' \subseteq Claimants \ {p}
    BY <1>3, <2>1, <2>2 DEF IInv, TypeOK, Claimants, Claims
  <2> QED
    BY <1>1, <2>3, OneDaemonLess
<1>4. CASE ~(p \in Starts /\ daemon[p] \in {"init", "writing", "deaf"})
  <2>1. UNCHANGED <<start, opened>> /\ daemon' \in [Starts -> DaemonPlaces]
    BY DEF StopSignals, TypeOK
  <2>2. \A d \in Starts : daemon'[d] = daemon[d] \/ (daemon[d] = "up" /\ daemon'[d] = "exiting")
    BY <1>4 DEF StopSignals, Signalled, IInv, TypeOK
  <2>3. Claimants' = Claimants /\ (Arriving' <=> Arriving) /\ (LostFile' <=> LostFile)
    BY <1>1, <2>1, <2>2 DEF Claimants, Claims, Arriving, LostFile
  <2> QED
    BY <1>1, <1>2, <2>3, SameCounts DEF IInv
<1> QED
  BY <1>3, <1>4

\* So every step keeps the counts.
LEMMA CountsStep == IInv /\ TypeOK' /\ [Next]_vars => Counts'
<1> SUFFICES ASSUME IInv, TypeOK', [Next]_vars PROVE Counts'
  OBVIOUS
<1> USE DEF StartPlaces, DaemonPlaces
<1>1. ASSUME NEW s \in Starts, StartSpawn(s) PROVE Counts'
  <2>1. Claimants' = Claimants /\ Arriving'
    BY <1>1 DEF StartSpawn, IInv, TypeOK, Claimants, Claims, Arriving
  <2>2. (LostFile' => LostFile) /\ (Removing' <=> Removing)
    BY <1>1 DEF StartSpawn, IInv, TypeOK, LostFile, Removing
  <2> QED
    BY <1>1, <2>1, <2>2, SameCounts DEF StartSpawn, IInv
<1>2. ASSUME NEW s \in Starts, StartReturns(s) PROVE Counts'
  <2>1. Claimants' = Claimants /\ (Arriving' <=> Arriving)
    BY <1>2 DEF StartReturns, IInv, TypeOK, Claimants, Claims, Arriving
  <2>2. (LostFile' <=> LostFile) /\ (Removing' <=> Removing)
    BY <1>2 DEF StartReturns, LostFile, Removing
  <2> QED
    BY <1>2, <2>1, <2>2, SameCounts DEF StartReturns, IInv
<1>3. ASSUME NEW t \in Stops, StopRemoves(t) PROVE Counts'
  <2>1. Removing /\ Claimants' = Claimants /\ hasty' = hasty
    BY <1>3 DEF StopRemoves, Removing, Claimants, Claims
  <2>2. hasty \in Nat
    BY OneMoreCounts DEF IInv
  <2> QED
    BY <2>1, <2>2, EnoughHasty DEF IInv, Counts, RemovedIsHasty
<1>4. ASSUME UNCHANGED <<pidFile, start, stop, daemon, opened, hasty>> PROVE Counts'
  <2>1. Claimants' = Claimants /\ (Arriving' <=> Arriving) /\ (Removing' <=> Removing)
        /\ (LostFile' <=> LostFile)
    BY <1>4 DEF Claimants, Claims, Arriving, LostFile, Removing
  <2> QED
    BY <1>4, <2>1, SameCounts DEF IInv
<1>5. ASSUME NEW d \in Starts, Reused(d) PROVE Counts'
  BY <1>4, <1>5 DEF Reused
<1>6. CASE UNCHANGED vars
  BY <1>4, <1>6 DEF vars
<1> QED
  BY <1>1, <1>2, <1>3, <1>5, <1>6, StartCheckCounts, StopCheckCounts, DaemonCounts, SignalCounts
  DEF Next, StartStep, StopStep

\* Every step keeps the invariant.
LEMMA IInvStep == IInv /\ [Next]_vars => IInv'
  BY TypeStep, HistoriesStep, CountsStep DEF IInv

-----------------------------------------------------------------------------
(* The theorems. *)

\* The model never leaves its types.
THEOREM TypeCorrect == Spec => []TypeOK
<1>1. Init => TypeOK
  BY InitInv DEF IInv
<1> QED
  BY <1>1, TypeStep, PTL DEF Spec

\* The invariant holds in every behaviour.
LEMMA InvHolds == Spec => []IInv
  BY InitInv, IInvStep, PTL DEF Spec

\* A second daemon takes a command that did not wait for the file to settle, and each such
\* command adds one daemon at most, for any number of commands.
THEOREM AtMostOneDaemon == Spec => []SingleDaemon
<1>1. IInv => SingleDaemon
  <2> SUFFICES ASSUME IInv PROVE SingleDaemon
    OBVIOUS
  <2> DEFINE W == {d \in Starts : Working(d)}
  <2>1. W \subseteq Claimants /\ Claimants \subseteq Starts
    BY DEF Working, Claimants, Claims
  <2>2. Cardinality(W) \in Nat /\ Cardinality(Claimants) \in Nat
        /\ Cardinality(W) <= Cardinality(Claimants)
    BY <2>1, FiniteDaemons, SmallerSet
  <2>3. hasty \in Nat
    BY OneMoreCounts DEF IInv
  <2> HIDE DEF W
  <2>4. Cardinality(W) <= 1 + hasty
    BY <2>2, <2>3 DEF IInv, Counts, OneMoreThanHasty
  <2> QED
    BY <2>4 DEF SingleDaemon, W
<1> QED
  BY <1>1, InvHolds, PTL

\* Between commands the PID file names the daemon that runs; at most one daemon is out of
\* reach for each command that did not wait, for any number of commands.
THEOREM FileNamesTheDaemon == Spec => []RunningIsNamed
<1>1. IInv => RunningIsNamed
  <2> SUFFICES ASSUME IInv, Quiet
               PROVE  Cardinality({d \in Starts : daemon[d] \in {"deaf", "up"} /\ pidFile.pid # d})
                        <= hasty
    BY DEF RunningIsNamed
  <2> DEFINE U == {d \in Starts : daemon[d] \in {"deaf", "up"} /\ pidFile.pid # d}
  <2>1. U \subseteq Claimants \ {pidFile.pid} /\ Claimants \subseteq Starts /\ U \subseteq Claimants
    BY DEF Claimants, Claims
  <2>2. IsFiniteSet(Claimants) /\ Cardinality(Claimants) \in Nat /\ Cardinality(U) \in Nat
        /\ Cardinality(Claimants \ {pidFile.pid}) \in Nat
    BY <2>1, FiniteDaemons, SmallerSet
  <2>3. hasty \in Nat
    BY OneMoreCounts DEF IInv
  <2>4. CASE ~Arriving
    <3>1. ~Removing
      BY DEF Quiet, Removing
    <3>2. IsFiniteSet(Claimants \ {pidFile.pid})
      BY <2>2, SmallerSet
    <3>3. Cardinality(U) <= Cardinality(Claimants \ {pidFile.pid})
      BY <2>1, <3>2, SmallerSet
    <3> HIDE DEF U
    <3>4. Cardinality(U) <= hasty
      BY <2>2, <2>3, <2>4, <3>1, <3>3 DEF IInv, Counts, OthersAreHasty
    <3> QED
      BY <3>4 DEF U
  <2>5. CASE Arriving
    <3>1. PICK d \in Starts : daemon[d] \in {"init", "writing"}
      BY <2>5 DEF Arriving, Quiet
    <3>2. d \in Claimants /\ U \subseteq Claimants \ {d}
      BY <2>1, <3>1 DEF Claimants, Claims
    <3> HIDE DEF U
    <3>3. Cardinality(U) <= Cardinality(Claimants) - 1
      BY <2>2, <3>2, OneElementLess
    <3>4. Cardinality(U) <= hasty
      BY <2>2, <2>3, <3>3 DEF IInv, Counts, OneMoreThanHasty
    <3> QED
      BY <3>4 DEF U
  <2> QED
    BY <2>4, <2>5
<1> QED
  BY <1>1, InvHolds, PTL

=============================================================================
