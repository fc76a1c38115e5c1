---------------------------- MODULE OutageHistory ----------------------------
(***************************************************************************)
(* OutageDetector with a history of what happened on the network: the runs *)
(* of lost pings as an observer sees them, who knows nothing of rotations, *)
(* and the age of the last outages.                                        *)
(***************************************************************************)
EXTENDS OutageDetector

CONSTANT Remembered   \* outages the history remembers

ASSUME HistoryAssumption == Remembered \in Nat \ {0}

VARIABLES netRun,   \* lost pings in a row, counted up to LossThreshold
          events,   \* ages of the last outages, while there is no mishap
          mishap    \* "none"; "cut" after a rotation during an outage, "some" after another
                    \* rotation, a restart or a failed write

histVars == <<vars, netRun, events, mishap>>

HInit == Init /\ netRun = 0 /\ events = << >> /\ mishap = "none"

HLost ==
  /\ Lost
  /\ netRun' = IF netRun < LossThreshold THEN netRun + 1 ELSE netRun
  /\ events' = IF netRun' = netRun \/ netRun' < LossThreshold \/ mishap # "none" THEN events
               ELSE Append(IF Len(events) < Remembered THEN events ELSE Tail(events), 0)
  /\ UNCHANGED mishap

HAnswered == Answered /\ netRun' = 0 /\ UNCHANGED <<events, mishap>>

HTick == Tick /\ events' = Older(events) /\ UNCHANGED <<netRun, mishap>>

Mishap(how) == mishap' = (IF mishap = "cut" THEN "cut" ELSE how) /\ events' = << >>

HRotate == /\ Rotate
           /\ Mishap(IF inOutage THEN "cut" ELSE "some")
           /\ UNCHANGED netRun

HPublishFails == PublishFails /\ Mishap("some") /\ UNCHANGED netRun

\* Nobody watches the network while the daemon is down.
HCrash == Crash /\ Mishap("some") /\ netRun' = 0

HLoop == \/ HLost \/ HAnswered \/ HRotate \/ HPublishFails
         \/ (Continue \/ Publish) /\ UNCHANGED <<netRun, events, mishap>>

HNext == HLoop \/ HCrash \/ HTick \/ (Boot /\ UNCHANGED <<netRun, events, mishap>>)

HSpec == HInit /\ [][HNext]_histVars

\* The loop keeps running while the process lives: every wait in it has a deadline
\* (2 s for a ping, at most PingInterval for the sleep), but nmcli, which reads the lease
\* and is assumed to return.  Nothing forces a restart.
HFairSpec == HSpec /\ WF_histVars(HLoop)

-----------------------------------------------------------------------------
(* Properties. *)

HTypeOK == /\ TypeOK
           /\ netRun \in 0 .. LossThreshold
           /\ events \in Seq(0 .. Hour) /\ Len(events) <= Remembered
           /\ mishap \in {"none", "some", "cut"}

\* The alarm rises only when LossThreshold pings in a row went unanswered, with no
\* answer in between, rotations and restarts notwithstanding.
NoFalseAlarm == [][~flag /\ flag' => netRun' = LossThreshold]_histVars

\* Outages/1h: 0 is GOOD, 1 and 2 are WARN, 3 and more are CRIT.
OutageScore(n) == IF n >= 3 THEN "Crit" ELSE IF n >= 1 THEN "Warn" ELSE "Good"

\* What `nstat status` counts in a snapshot just published scores as the "distinct
\* outage events (>= 3 consecutive losses) in the last hour" do (README.md:18),
\* although the log keeps only the last Keep of them.  A rotation or a restart forgets
\* the hour before it (daemon.go:178).
LastHourScored ==
  phase = "top" /\ mishap = "none" => OutageScore(Fresh(shownLog)) = OutageScore(Fresh(events))

\* Once every ping is answered, the published snapshot is not IN OUTAGE for ever, unless
\* writes fail for ever or a rotation has cut an outage in two.
AlarmClears == /\ <>[](phase # "off" /\ answered)
               /\ []<><<Publish>>_histVars
               /\ [](mishap # "cut")
               => <>[]~shown

\* Once every ping is lost, the published snapshot says IN OUTAGE for good, rotations
\* during the outage included, unless writes fail for ever or every run of losses is cut.
AlarmRaised == /\ <>[](phase # "off" /\ ~answered)
               /\ []<><<Publish>>_histVars
               /\ []<>(run = LossThreshold)
               => <>[]shown

\* The file is the "Current snapshot read by `nstat status`" (README.md:260): once every
\* ping is answered it is not IN OUTAGE for ever, rotations notwithstanding.
RecoveryIsShown == <>[](phase # "off" /\ answered) => <>[]~shown

=============================================================================
