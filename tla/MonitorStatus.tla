---------------------------- MODULE MonitorStatus ----------------------------
(***************************************************************************)
(* The main loop and `nstat status`, which reads the state file at any     *)
(* moment: the [IN OUTAGE] of its heading, its counts of lost pings and of *)
(* outages, and its overall score come from different observers of the     *)
(* same pings.                                                             *)
(***************************************************************************)
EXTENDS Monitor, StatusView

\* Five per cent of the window are no more than the pings of an outage (3 of 60).
ASSUME MonitorStatusAssumption == 5 * Window <= 100 * LossThreshold

VARIABLE cut   \* history: a rotation has cut an outage in two, and no later snapshot
               \* without the flag has been published

statusVars == <<vars, cut>>

SInit == Init /\ cut = FALSE

SRotate == Rotate /\ cut' = (cut \/ snap.InOutage)
SRename == Rename /\ cut' = (cut /\ tmp.snap.InOutage)

SNext == \/ SRotate \/ SRename
         \/ /\ \/ Continue \/ PingLost \/ PingAnswered
               \/ OpenTmp \/ FillTmp \/ WriteFails
               \/ Crash \/ Boot \/ Tick
            /\ UNCHANGED cut

SSpec == SInit /\ [][SNext]_statusVars

-----------------------------------------------------------------------------
(* Properties. *)

\* The snapshot of file f, all well but for the pings.
Seen(f) == [Healthy EXCEPT !.LossWinLost = f.snap.LossWinLost,
                           !.LossWinTotal = f.snap.LossWinTotal]

\* `nstat status` never says GOOD under its heading [IN OUTAGE]: the outage is one of
\* the last hour, or the loss window has enough samples and the pings of the outage alone
\* make it CRIT.  Excepted are an outage cut by a rotation, which leaves neither, and
\* one that is older than an hour within fewer than MinSamples pings (a suspended laptop).
OutageIsNotGood ==
  disk.kind = "complete" /\ disk.snap.InOutage /\ ~cut =>
    LET outages1h == countOutagesInWindow(disk.RecentOutage, Hour)
        overall == overallScore(Seen(disk), outages1h)
    IN  /\ outages1h > 0 => overall # Good
        /\ disk.snap.LossWinTotal >= MinSamples => overall = Crit

=============================================================================
