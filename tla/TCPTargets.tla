------------------------------ MODULE TCPTargets ------------------------------
(***************************************************************************)
(* The TCP part of the LAN checks (doLANChecks in daemon/daemon.go) and    *)
(* the trackers it feeds (dim/tcp.go): every target has a window of its    *)
(* own, the first target feeds a second tracker as well, the one behind    *)
(* the dimensions, and the snapshot adds the targets' windows up anew on   *)
(* each round.  The session tallies live until the log rotates, the        *)
(* windows as long as the process.                                         *)
(*                                                                         *)
(* The snapshot is written by the main loop only, so it is read when no    *)
(* round is in progress.                                                   *)
(***************************************************************************)
EXTENDS Integers, Sequences, FiniteSets, FiniteSetsExt, StatusView

CONSTANTS Count,         \* number of targets (cfg.TCPTargets)
          Size,          \* defaultTCPWindow: the length of each window
          Latencies,     \* milliseconds a handshake can take
          SessionChecks  \* bound: checks between two log rotations

ASSUME TCPTargetsAssumption ==
  /\ Count \in Nat \ {0}
  /\ Size \in Nat \ {0}
  /\ Latencies \subseteq Nat \ {0}
  /\ SessionChecks \in Nat

VARIABLES next,     \* the target to check next, 0 between two rounds
          ring,     \* TCPStats.window, pos and filled of each target
          primary,  \* the same of the tracker behind the dimensions
          last,     \* LastReason and LastMs of each target, in tracker and snapshot
          snapLast, \* snap.TCPLastReason and TCPLastMs, the last attempt of the first
          shown,    \* snap.TCPTargets
          sums,     \* snap.TCPTotal, TCPFail and the four counts
          life      \* snap.TCPLifeTotal and TCPLifeFail

vars == <<next, ring, primary, last, snapLast, shown, sums, life>>

Targets == 1 .. Count
Figures == {"Total", "Fail", "Timeout", "Refused", "Reset", "Other"}

\* Errors of a dial: whether its time was up, what the system said, and whether a name
\* was being looked up.
Errors == [timeout : BOOLEAN, errno : {"none", "ECONNREFUSED", "ECONNRESET", "ENETUNREACH"},
           lookup : BOOLEAN]

\* Time that is up comes before all else; a network that cannot be reached is "other".
classifyTCPError(err) == CASE err.timeout -> "timeout"
                           [] ~err.timeout /\ err.errno = "ECONNREFUSED" -> "refused"
                           [] ~err.timeout /\ err.errno = "ECONNRESET" -> "reset"
                           [] OTHER -> IF err.lookup THEN "dns" ELSE "other"

Failures == {classifyTCPError(err) : err \in Errors}

\* The TCPFailReasons there are, "none" for a success.
Reasons == {"none"} \cup Failures

R == INSTANCE Ring WITH Outcomes <- Reasons, Zero <- "none"

\* Mutant of Members: a refused connection is a loss.
MembersRefused(f) == CASE f = "Total" -> Reasons
                       [] f = "Fail" -> Failures
                       [] f = "Timeout" -> {"timeout", "refused"}
                       [] f = "Refused" -> {"refused"}
                       [] f = "Reset" -> {"reset"}
                       [] f = "Other" -> {"dns", "other"}

\* The outcomes each figure counts.
Members(f) == CASE f = "Total" -> Reasons
                [] f = "Fail" -> Failures
                [] f = "Timeout" -> {"timeout"}
                [] f = "Refused" -> {"refused"}
                [] f = "Reset" -> {"reset"}
                [] f = "Other" -> {"dns", "other"}

recompute(r) == [f \in Figures |-> R!CountOf(r, Members(f))]

Nothing == [f \in Figures |-> 0]

Plus(a, b) == [f \in Figures |-> a[f] + b[f]]

\* LastOK is that there is no reason; a failed attempt has 0 ms.
Untried == [reason |-> "none", ms |-> 0]

Init == /\ next = 0
        /\ ring = [t \in Targets |-> R!NewRing]
        /\ primary = R!NewRing
        /\ last = [t \in Targets |-> Untried] /\ snapLast = Untried
        /\ shown = [t \in Targets |-> Nothing]
        /\ sums = Nothing
        /\ life = [total |-> 0, fail |-> 0]

\* Mutant of Begin: the sums of the last round are carried on.
BeginCarriesOn == /\ next = 0 /\ next' = 1
                  /\ life.total + Count <= SessionChecks
                  /\ UNCHANGED <<ring, primary, last, snapLast, shown, sums, life>>

\* A round begins with its sums at zero (daemon.go:281-286).
Begin == /\ next = 0 /\ next' = 1
         /\ life.total + Count <= SessionChecks
         /\ sums' = Nothing
         /\ UNCHANGED <<ring, primary, last, snapLast, shown, life>>

\* Mutant of Check: every target feeds the tracker behind the dimensions.
CheckFeedsAll(reason, ms) ==
  LET t == next
      attempt == [reason |-> reason, ms |-> ms]
  IN  /\ t # 0
      /\ next' = IF t = Count THEN 0 ELSE t + 1
      /\ life' = [total |-> life.total + 1,
                  fail |-> life.fail + (IF reason = "none" THEN 0 ELSE 1)]
      /\ ring' = [ring EXCEPT ![t] = R!Put(@, reason)]
      /\ shown' = [shown EXCEPT ![t] = recompute(ring'[t])]
      /\ sums' = Plus(sums, shown'[t])
      /\ primary' = R!Put(primary, reason)
      /\ last' = [last EXCEPT ![t] = attempt]
      /\ snapLast' = attempt

\* One connection attempt and all that is recorded of it (daemon.go:288-343).
Check(reason, ms) ==
  LET t == next
      attempt == [reason |-> reason, ms |-> ms]
  IN  /\ t # 0
      /\ next' = IF t = Count THEN 0 ELSE t + 1
      /\ life' = [total |-> life.total + 1,
                  fail |-> life.fail + (IF reason = "none" THEN 0 ELSE 1)]
      /\ ring' = [ring EXCEPT ![t] = R!Put(@, reason)]
      /\ shown' = [shown EXCEPT ![t] = recompute(ring'[t])]
      /\ sums' = Plus(sums, shown'[t])
      /\ primary' = IF t = 1 THEN R!Put(primary, reason) ELSE primary
      /\ last' = [last EXCEPT ![t] = attempt]
      /\ snapLast' = IF t = 1 THEN attempt ELSE snapLast

\* A log rotation clears the tallies, not the windows (daemon.go:174-175).
Rotate == /\ next = 0
          /\ life' = [total |-> 0, fail |-> 0]
          /\ UNCHANGED <<next, ring, primary, last, snapLast, shown, sums>>

\* What tcpCheckWithReason returns.
Attempts == [reason : {"none"}, ms : Latencies] \cup [reason : Failures, ms : {0}]

Next == Begin \/ Rotate \/ \E a \in Attempts : Check(a.reason, a.ms)

Spec == Init /\ [][Next]_vars

-----------------------------------------------------------------------------
(* Properties. *)

FigureRecords == [Figures -> Nat]

TypeOK == /\ next \in 0 .. Count
          /\ ring \in [Targets -> R!Rings] /\ primary \in R!Rings
          /\ last \in [Targets -> Attempts \cup {Untried}] /\ snapLast \in Attempts \cup {Untried}
          /\ shown \in [Targets -> FigureRecords] /\ sums \in FigureRecords
          /\ \A t \in Targets : shown[t]["Total"] <= Size
          /\ life \in [total : 0 .. SessionChecks, fail : Nat]

\* The breakdown of the snapshot accounts for every failure.
FailuresAddUp ==
  sums["Fail"] = sums["Timeout"] + sums["Refused"] + sums["Reset"] + sums["Other"]

\* Between two rounds the snapshot's totals are those of its targets, and its breakdown
\* accounts for every failure, however often a window has wrapped since the last round.
TotalsAddUp ==
  next = 0 => /\ \A f \in Figures : sums[f] = MapThenSumSet(LAMBDA t : shown[t][f], Targets)
              /\ FailuresAddUp

\* The score of the TCP-loss dimension and the first row of the targets' table are
\* computed by two trackers; they never disagree between two rounds.
TrackersAgree == next = 0 => primary = ring[1] /\ snapLast = last[1]

\* Each target's loss is the share of timeouts among its last Size attempts: old
\* failures age out, a log rotation does not touch them (tcp.go:34-37).
Recent(t) ==
  LET r == ring[t]
  IN  IF r.filled THEN [k \in 1 .. Size |-> r.slots[(r.pos + k - 1) % Size]]
      ELSE [k \in 1 .. r.pos |-> r.slots[k - 1]]

Window(t) == INSTANCE SlidingWindow
               WITH Outcomes <- Reasons, Bad <- "timeout", recent <- Recent(t),
                    total <- shown[t]["Total"], lost <- shown[t]["Timeout"]

LossIsRecentTimeouts ==
  /\ \A t \in Targets : Window(t)!Init
  /\ [][\A t \in Targets : IF next = t THEN \E o \in Reasons : Window(t)!Record(o)
                           ELSE UNCHANGED <<Recent(t), shown[t]>>]_vars

\* The snapshot as `nstat status` reads it, all well but for TCP.
Seen == [Healthy EXCEPT !.TCPTargets = [t \in Targets |-> [LastMs |-> last[t].ms,
                                                          LastOK |-> last[t].reason = "none"]],
                        !.TCPLastMs = snapLast.ms, !.TCPLastOK = snapLast.reason = "none",
                        !.TCPTotal = sums["Total"], !.TCPTimeoutCount = sums["Timeout"],
                        !.TCPRefusedCount = sums["Refused"], !.TCPResetCount = sums["Reset"]]

Outcomes(t) == {Recent(t)[k] : k \in DOMAIN Recent(t)}

\* A target that times out is not GOOD for ever, whichever of them it is: once its window
\* is full of timeouts the loss of all targets, up to a hundred, keeps the overall score
\* from GOOD.  A host that refuses or resets was reached (tcp.go:55-58): as long as no
\* target fails in another way, the overall score is that of the first target's last
\* handshake.
TimeoutsReachOverall ==
  LET overall == overallScore(Seen, 0)
  IN  next = 0 =>
        /\ \A t \in Targets :
             Outcomes(t) = {"timeout"} /\ Len(Recent(t)) = Size /\ sums["Total"] >= MinSamples
               => overall # Good
        /\ (\A t \in Targets : Outcomes(t) \subseteq {"none", "refused", "reset"})
             => overall = ScoreOf(last[1].ms, last[1].reason = "none", 150, 150)

\* The "worst score across all dimensions" (help.go:54), of the rows that the table lists
\* under "dimension" (status.go:59).  The code does otherwise: any target but the first may
\* answer late, refuse or be out of reach, and is a CRIT row under an overall GOOD.
OverallIsWorst ==
  next = 0 => \A row \in Rows(Seen, 0) : row[2] <= overallScore(Seen, 0)

=============================================================================
