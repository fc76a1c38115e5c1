----------------------------- MODULE PingWindows -----------------------------
(***************************************************************************)
(* The observers of the ping loop (dim/ping.go): LossStats, a ring of lost *)
(* or answered pings, and PingStats, the round-trip times of the last Size *)
(* answered ones.  Every ping is handed to both (daemon.go:198-200 and     *)
(* 228-230); a log rotation replaces both by new ones (daemon.go:166-169). *)
(*                                                                         *)
(* The loss percentage is kept as its numerator and denominator, the mean  *)
(* and the standard deviation as the sums they are computed from: each     *)
(* score is then a comparison of integers.                                 *)
(***************************************************************************)
EXTENDS Integers, Sequences, FiniteSets, SequencesExt

CONSTANTS Size,        \* RTTWindow: the length of both windows
          MinSamples,  \* minLossSamples: below it the loss score is Good
          RTTs         \* round-trip times, in ms

ASSUME PingWindowsAssumption == /\ Size \in Nat \ {0}
                                /\ MinSamples \in Nat
                                /\ RTTs \subseteq Nat \ {0}

VARIABLES ring,    \* LossStats.window, pos and filled
          total,   \* LossStats.Total
          lost,    \* LossStats.Lost
          rtts     \* PingStats.window

vars == <<ring, total, lost, rtts>>

R == INSTANCE Ring WITH Outcomes <- BOOLEAN, Zero <- FALSE

Init == ring = R!NewRing /\ total = 0 /\ lost = 0 /\ rtts = << >>

record(isLost) == /\ ring' = R!Put(ring, isLost)
                  /\ total' = R!Valid(ring')
                  /\ lost' = R!CountOf(ring', {TRUE})

OnPingFailure == record(TRUE) /\ UNCHANGED rtts

\* Mutant of OnPingSuccess: the RTT window drops its oldest entry one ping early.
OnPingSuccessShort(ms) ==
  /\ record(FALSE)
  /\ rtts' = LET w == Append(rtts, ms)
             IN  IF Len(w) >= Size THEN Tail(w) ELSE w

OnPingSuccess(ms) ==
  /\ record(FALSE)
  /\ rtts' = LET w == Append(rtts, ms)
             IN  IF Len(w) > Size THEN Tail(w) ELSE w

\* NewPingStats and NewPacketLoss on a log rotation.
Rotate == ring' = R!NewRing /\ total' = 0 /\ lost' = 0 /\ rtts' = << >>

Next == OnPingFailure \/ Rotate \/ \E ms \in RTTs : OnPingSuccess(ms)

Spec == Init /\ [][Next]_vars

-----------------------------------------------------------------------------
(* Scores. *)

\* ScoreOf for the ratio num/den, with integer thresholds.
ScoreOfRatio(num, den, warn, crit) ==
  IF num >= crit * den THEN "Crit" ELSE IF num >= warn * den THEN "Warn" ELSE "Good"

\* Mutant of LossScore: the window must hold more than MinSamples outcomes.
LossScoreLate(l, n) == IF n <= MinSamples THEN "Good" ELSE ScoreOfRatio(100 * l, n, 1, 5)

\* PacketLoss.Score: 100 * lost / total against 1% and 5%.
LossScore(l, n) == IF n < MinSamples THEN "Good" ELSE ScoreOfRatio(100 * l, n, 1, 5)

SumOf(w) == FoldSeq(LAMBDA x, y : x + y, 0, w)

\* RTT.Score: the mean against 80 and 200 ms (0 when the window is empty).
RTTScore(w) == IF w = << >> THEN "Good" ELSE ScoreOfRatio(SumOf(w), Len(w), 80, 200)

\* Mutant of Spread: the variance of a sample, n^2 / (n - 1) times the mean square.
SampleSpread(w) ==
  IF Len(w) < 2 THEN 0
  ELSE (Len(w) * (Len(w) * SumOf([k \in DOMAIN w |-> w[k] * w[k]])
                   - SumOf(w) * SumOf(w))) \div (Len(w) - 1)

\* n^2 times the population variance of the window.
Spread(w) == Len(w) * SumOf([k \in DOMAIN w |-> w[k] * w[k]]) - SumOf(w) * SumOf(w)

\* Jitter.Score: the standard deviation against 10 and 30 ms, both sides squared.
JitterScore(w) ==
  IF w = << >> THEN "Good" ELSE ScoreOfRatio(Spread(w), Len(w) * Len(w), 100, 900)

-----------------------------------------------------------------------------
(* Properties. *)

\* The ring read oldest first: from pos when it has wrapped, from slot 0 before.
Contents(r) ==
  [k \in 1 .. R!Valid(r) |->
     r.slots[IF ~r.filled THEN k - 1
             ELSE IF r.pos + k - 1 < Size THEN r.pos + k - 1 ELSE r.pos + k - 1 - Size]]

Window == INSTANCE SlidingWindow
            WITH Outcomes <- BOOLEAN, Bad <- TRUE, recent <- Contents(ring)

TypeOK == /\ ring \in R!Rings
          /\ total \in 0 .. Size
          /\ lost \in 0 .. Size
          /\ rtts \in BoundedSeq(RTTs, Size)

\* LossStats: the published loss figures (snap.LossWinLost, snap.LossWinTotal) are
\* those of the last Size pings of the session, whatever the wrap-arounds and the
\* resets of the ring have been.
WindowIsRecentPings == Window!Spec

\* LossStats and PingStats are two windows of the same pings: every answered ping
\* the loss window counts still has its round-trip time in the RTT window.
AnsweredPingsHaveRTTs == total - lost <= Len(rtts)

\* PingStats: a CRIT is never an artefact of the averaging.  RTT is CRIT only if
\* some ping of the window took 200 ms, jitter only if two of them are 60 ms apart
\* (the deviation of a set is at most half of its range).
CritHasACause ==
  /\ RTTScore(rtts) = "Crit" => \E k \in DOMAIN rtts : rtts[k] >= 200
  /\ JitterScore(rtts) = "Crit" =>
       \E j, k \in DOMAIN rtts : rtts[j] - rtts[k] >= 60

\* README.md:23-24: loss metrics "stay GOOD until the window has enough samples".
\* A window that has all the samples it will ever have and lost every one of them
\* is not GOOD.
FullLossIsSeen == (total = Size /\ lost = Size) => LossScore(lost, total) # "Good"

=============================================================================
