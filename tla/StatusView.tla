------------------------------ MODULE StatusView ------------------------------
(***************************************************************************)
(* What `nstat status` makes of a snapshot (cmd/status.go): the rows of    *)
(* its table, each with a score, and the overall score below them, which   *)
(* is computed apart from the rows.                                        *)
(*                                                                         *)
(* A snapshot is the record state.State, with a loss as its two counts and *)
(* the lease by its score (DHCPLeaseScore of module DHCPLease).  Outages   *)
(* are counted from the ages of RecentOutage.                              *)
(***************************************************************************)
EXTENDS Integers, FiniteSets, FiniteSetsExt

CONSTANT MinSamples   \* minLossSamples (25)

ASSUME StatusViewAssumption == MinSamples \in Nat \ {0}

Good == 0
Warn == 1
Crit == 2

ScoreOf(value, ok, warn, crit) ==
  IF ~ok \/ value >= crit THEN Crit ELSE IF value >= warn THEN Warn ELSE Good

\* lost of total, scored at 1 and at 5 per cent.
LossScore(lost, total) ==
  IF total < MinSamples THEN Good ELSE ScoreOf(100 * lost, TRUE, total, 5 * total)

\* An outage is older than an hour once its age is hour.
countOutagesInWindow(ages, hour) == Cardinality({k \in DOMAIN ages : ages[k] < hour})

BreakdownScore(s) ==
  IF s.TCPTimeoutCount + s.TCPRefusedCount + s.TCPResetCount > 0 THEN Warn ELSE Good

\* 0 is not tested, or a probe that failed.
MTUScore(s) == CASE s.MTUDetected = 0 -> IF s.MTUHasIssues THEN Warn ELSE Good
                 [] s.MTUDetected \in 1 .. 1199 -> Crit
                 [] s.MTUDetected \in 1200 .. 1399 -> Warn
                 [] OTHER -> Good

KernelRows(s) ==
  IF s.KernelDeltaOutSegs + s.KernelRetransPct + s.KernelCurrEstab = 0 THEN {}
  ELSE {<<"TCP retrans", ScoreOf(s.KernelRetransPct, TRUE, 2, 5)>>} \cup
       (IF s.KernelDeltaInErrs + s.KernelDeltaResets = 0 THEN {}
        ELSE {<<"TCP errors", ScoreOf(s.KernelDeltaInErrs + s.KernelDeltaResets, TRUE, 1, 10)>>})

\* The rows of the targets; a snapshot without any has that of the first one.
TargetRows(s) ==
  IF DOMAIN s.TCPTargets = {} THEN {<<"TCP 1", ScoreOf(s.TCPLastMs, s.TCPLastOK, 150, 150)>>}
  ELSE {<<IF t = 1 THEN "TCP 1" ELSE "TCP others",
          ScoreOf(s.TCPTargets[t].LastMs, s.TCPTargets[t].LastOK, 150, 150)>>
          : t \in DOMAIN s.TCPTargets}

Rows(s, outages1h) ==
  {<<"RTT (avg)", ScoreOf(s.RTTAvg, TRUE, 80, 200)>>,
   <<"Jitter", ScoreOf(s.RTTJitter, TRUE, 10, 30)>>,
   <<"Packet loss", LossScore(s.LossWinLost, s.LossWinTotal)>>,
   <<"TCP loss", LossScore(s.TCPTimeoutCount, s.TCPTotal)>>,
   <<"TCP breakdown", BreakdownScore(s)>>,
   <<"MTU probe", MTUScore(s)>>,
   <<"DNS", ScoreOf(s.DNSLastMs, s.DNSLastOK, 100, 500)>>,
   <<"Gateway", ScoreOf(s.GatewayLastMs, s.GatewayLastOK, 10, 50)>>,
   <<"DHCP", s.DHCPLease>>,
   <<"Outages/1h", ScoreOf(outages1h, TRUE, 1, 3)>>}
  \cup TargetRows(s) \cup KernelRows(s)

\* Mutant of overallScore: packet loss is left out.
overallScoreDeaf(s, outages1h) ==
  Max({ScoreOf(s.RTTAvg, TRUE, 80, 200), ScoreOf(s.RTTJitter, TRUE, 10, 30),
       ScoreOf(s.TCPLastMs, s.TCPLastOK, 150, 150), LossScore(s.TCPTimeoutCount, s.TCPTotal),
       ScoreOf(s.DNSLastMs, s.DNSLastOK, 100, 500),
       ScoreOf(s.GatewayLastMs, s.GatewayLastOK, 10, 50),
       s.DHCPLease, ScoreOf(outages1h, TRUE, 1, 3)})

overallScore(s, outages1h) ==
  Max({ScoreOf(s.RTTAvg, TRUE, 80, 200), ScoreOf(s.RTTJitter, TRUE, 10, 30),
       LossScore(s.LossWinLost, s.LossWinTotal),
       ScoreOf(s.TCPLastMs, s.TCPLastOK, 150, 150), LossScore(s.TCPTimeoutCount, s.TCPTotal),
       ScoreOf(s.DNSLastMs, s.DNSLastOK, 100, 500),
       ScoreOf(s.GatewayLastMs, s.GatewayLastOK, 10, 50),
       s.DHCPLease, ScoreOf(outages1h, TRUE, 1, 3)})

\* A snapshot of a network and a path without a fault.
Healthy ==
  [RTTAvg |-> 20, RTTJitter |-> 2, LossWinLost |-> 0, LossWinTotal |-> 0,
   TCPTargets |-> << >>, TCPLastMs |-> 20, TCPLastOK |-> TRUE, TCPTotal |-> 0,
   TCPTimeoutCount |-> 0, TCPRefusedCount |-> 0, TCPResetCount |-> 0,
   MTUDetected |-> 1500, MTUHasIssues |-> FALSE,
   DNSLastMs |-> 20, DNSLastOK |-> TRUE, GatewayLastMs |-> 2, GatewayLastOK |-> TRUE,
   DHCPLease |-> Good,
   KernelDeltaOutSegs |-> 0, KernelRetransPct |-> 0, KernelCurrEstab |-> 0,
   KernelDeltaInErrs |-> 0, KernelDeltaResets |-> 0]

=============================================================================
