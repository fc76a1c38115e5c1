---------------------------- MODULE OutageDetector ----------------------------
(***************************************************************************)
(* What the main loop of the daemon promises about outages, without its    *)
(* counters: LossThreshold lost pings in a row raise the alarm and log an  *)
(* outage, the first answered ping clears the alarm, and each iteration    *)
(* publishes the alarm and the log for `nstat status`.  A log rotation     *)
(* restarts the count and the log but leaves the flag of the snapshot as   *)
(* it was (daemon.go:165-182); a restart loses all but what was published. *)
(*                                                                         *)
(* Time is the age of the logged outages: an outage is old once Hour ticks *)
(* have passed since it was logged, and old outages are all alike.         *)
(***************************************************************************)
EXTENDS Naturals, Sequences, FiniteSets

CONSTANTS LossThreshold,  \* lost pings in a row that make an outage
          Keep,           \* outages the log keeps
          Hour,           \* ticks in an hour
          Rotates,        \* whether log rotations happen
          Restarts,       \* whether the daemon dies and is started again
          WriteFaults     \* whether publishing can fail

ASSUME DetectorAssumption == /\ LossThreshold \in Nat \ {0}
                             /\ Keep \in Nat \ {0}
                             /\ Hour \in Nat \ {0}
                             /\ Rotates \in BOOLEAN
                             /\ Restarts \in BOOLEAN
                             /\ WriteFaults \in BOOLEAN

VARIABLES phase,     \* "off", or the part of the loop that comes next
          run,       \* lost pings in a row, counted up to LossThreshold
          inOutage,  \* the loop's own flag
          log,       \* ages of the outages the loop has logged
          flag,      \* the flag of the snapshot in memory
          answered,  \* whether the last ping was answered
          shown,     \* the flag of the published snapshot
          shownLog   \* ages of the outages of the published snapshot

loopVars == <<run, inOutage, log, flag, answered>>
vars == <<phase, loopVars, shown, shownLog>>

Older(l) == [k \in DOMAIN l |-> IF l[k] < Hour THEN l[k] + 1 ELSE l[k]]

\* Mutant of Logged: the log is trimmed one outage early.
LoggedShort(l) == IF Len(l) + 1 < Keep THEN Append(l, 0) ELSE Append(Tail(l), 0)

\* RecordOutage: a new outage of age 0; the oldest goes when there are too many.
Logged(l) == IF Len(l) < Keep THEN Append(l, 0) ELSE Append(Tail(l), 0)

Fresh(l) == Cardinality({k \in DOMAIN l : l[k] < Hour})

Init == /\ phase = "top"
        /\ run = 0 /\ inOutage = FALSE /\ log = << >>
        /\ flag = FALSE /\ answered = FALSE
        /\ shown = FALSE /\ shownLog = << >>

\* A ping, after a log rotation when one is due.
Continue == /\ phase = "top" /\ phase' = "ping"
            /\ UNCHANGED <<loopVars, shown, shownLog>>

Rotate == /\ Rotates
          /\ phase = "top" /\ phase' = "ping"
          /\ run' = 0
          /\ inOutage' = FALSE
          /\ log' = << >>
          /\ UNCHANGED <<flag, answered, shown, shownLog>>

\* Mutant of Lost: the threshold test is consecutiveLoss > LossThreshold.
LostLate == /\ phase = "ping" /\ phase' = "write"
            /\ run' = IF run < LossThreshold THEN run + 1 ELSE run
            /\ inOutage' = (run = LossThreshold)
            /\ log' = IF inOutage' /\ ~inOutage THEN Logged(log) ELSE log
            /\ flag' = (flag \/ inOutage')
            /\ answered' = FALSE
            /\ UNCHANGED <<shown, shownLog>>

\* Mutant of Lost: the snapshot's flag is not set.
LostUnflagged == /\ phase = "ping" /\ phase' = "write"
                 /\ run' = IF run < LossThreshold THEN run + 1 ELSE run
                 /\ inOutage' = (run' = LossThreshold)
                 /\ log' = IF inOutage' /\ ~inOutage THEN Logged(log) ELSE log
                 /\ answered' = FALSE
                 /\ UNCHANGED <<flag, shown, shownLog>>

\* The alarm is raised when the run reaches the threshold, not at each later loss.
Lost == /\ phase = "ping" /\ phase' = "write"
        /\ run' = IF run < LossThreshold THEN run + 1 ELSE run
        /\ inOutage' = (run' = LossThreshold)
        /\ log' = IF inOutage' /\ ~inOutage THEN Logged(log) ELSE log
        /\ flag' = (flag \/ inOutage')
        /\ answered' = FALSE
        /\ UNCHANGED <<shown, shownLog>>

\* Mutant of Answered: the alarm is cleared, the run of losses is not.
AnsweredKeepsRun ==
  /\ phase = "ping" /\ phase' = "write"
  /\ inOutage' = FALSE
  /\ flag' = (flag /\ ~inOutage)
  /\ answered' = TRUE
  /\ UNCHANGED <<run, log, shown, shownLog>>

\* Mutant of Answered: the flag of the snapshot is not cleared.
AnsweredKeepsFlag ==
  /\ phase = "ping" /\ phase' = "write"
  /\ run' = 0
  /\ inOutage' = FALSE
  /\ answered' = TRUE
  /\ UNCHANGED <<log, flag, shown, shownLog>>

Answered == /\ phase = "ping" /\ phase' = "write"
            /\ run' = 0
            /\ inOutage' = FALSE
            /\ flag' = (flag /\ ~inOutage)
            /\ answered' = TRUE
            /\ UNCHANGED <<log, shown, shownLog>>

Publish == /\ phase = "write" /\ phase' = "top"
           /\ shown' = flag
           /\ shownLog' = log
           /\ UNCHANGED loopVars

PublishFails == /\ WriteFaults
                /\ phase = "write" /\ phase' = "top"
                /\ UNCHANGED <<loopVars, shown, shownLog>>

\* The process dies; only what was published survives.
Crash == /\ Restarts
         /\ phase # "off" /\ phase' = "off"
         /\ run' = 0 /\ inOutage' = FALSE /\ log' = << >>
         /\ flag' = FALSE /\ answered' = FALSE
         /\ UNCHANGED <<shown, shownLog>>

Boot == /\ phase = "off" /\ phase' = "top"
        /\ UNCHANGED <<loopVars, shown, shownLog>>

Tick == /\ log' = Older(log)
        /\ shownLog' = Older(shownLog)
        /\ UNCHANGED <<phase, run, inOutage, flag, answered, shown>>

Loop == Continue \/ Rotate \/ Lost \/ Answered \/ Publish \/ PublishFails

Next == Loop \/ Crash \/ Boot \/ Tick

Spec == Init /\ [][Next]_vars

-----------------------------------------------------------------------------
(* Properties. *)

TypeOK == /\ phase \in {"off", "top", "ping", "write"}
          /\ run \in 0 .. LossThreshold
          /\ inOutage \in BOOLEAN /\ flag \in BOOLEAN /\ answered \in BOOLEAN
          /\ log \in Seq(0 .. Hour) /\ Len(log) <= Keep
          /\ shown \in BOOLEAN
          /\ shownLog \in Seq(0 .. Hour) /\ Len(shownLog) <= Keep

\* The loop's flag says that LossThreshold pings in a row were lost; an outage the
\* loop is in is flagged in its snapshot and logged, whatever rotations and restarts
\* came before.
AlarmMatchesRun == /\ inOutage <=> run = LossThreshold
                   /\ inOutage => flag /\ log # << >>

=============================================================================
