------------------------------- MODULE MTUProbe -------------------------------
(***************************************************************************)
(* The path-MTU probe of the LAN checks: mtuProbe (daemon/probes.go) looks *)
(* for the largest packet that arrives unfragmented by bisection, dfPing   *)
(* (daemon/mtu_linux.go) sends each size up to Tries times, and doLANChecks*)
(* hands the result to the dimension (dim/mtu.go) and to the snapshot.     *)
(*                                                                         *)
(* A packet that fits the path may be lost; one that does not is answered  *)
(* by the local interface or a router, or dropped without a word.  The     *)
(* path may change at any moment, also while a probe runs; path 0 is an    *)
(* unreachable target.  What the kernel remembers of the path is part of   *)
(* path.                                                                   *)
(***************************************************************************)
EXTENDS Integers

CONSTANTS Floor,       \* mtuFloor (576)
          Ceiling,     \* mtuCeiling (1500)
          Usable,      \* HasIssue: a smaller MTU is an issue (1400)
          Tries,       \* tries of dfPing (3)
          Paths,       \* the path MTUs there can be
          MaxPackets,  \* the packets a probe may cost
          Rounds       \* bound: probes of a behaviour

ASSUME MTUProbeAssumption == /\ Floor \in Nat /\ Ceiling \in Nat /\ Floor < Ceiling
                             /\ Usable \in Nat
                             /\ Tries \in Nat \ {0}
                             /\ Paths \subseteq Nat
                             /\ MaxPackets \in Nat
                             /\ Rounds \in Nat

VARIABLES phase,     \* "idle", or which size is sent: the "floor", the middle in "search"
          lo, hi, best, tries,
          detected,  \* MTUProbe.DetectedSize
          lastOK,    \* MTUProbe.LastOK
          snapMTU,   \* snap.MTUDetected and snap.MTUHasIssues
          path,      \* environment: the MTU of the path to the target
          round,     \* history: probes begun
          packets,   \* history: packets of the current probe, up to MaxPackets + 1
          widest,    \* history: the widest path since the current probe began
          misled     \* history: the path changed during the probe, or a size it carries
                     \* was lost Tries times

search == <<lo, hi, best>>
result == <<detected, lastOK, snapMTU>>
probeHistory == <<round, packets, widest, misled>>
probeVars == <<phase, search, tries, result, path, probeHistory>>

Wider(p, q) == IF p > q THEN p ELSE q

ProbeInit == /\ phase = "idle"
             /\ lo = Floor + 1 /\ hi = Ceiling /\ best = Floor /\ tries = 0
             /\ detected = 0 /\ lastOK = TRUE
             /\ snapMTU = [MTUDetected |-> 0, MTUHasIssues |-> FALSE]
             /\ path \in Paths
             /\ round = 0 /\ packets = 0 /\ widest = path /\ misled = FALSE

\* The size dfPing is asked to send.
Size == IF phase = "floor" THEN Floor ELSE (lo + hi) \div 2

BeginProbe == /\ phase = "idle" /\ phase' = "floor"
              /\ round < Rounds /\ round' = round + 1
              /\ lo' = Floor + 1 /\ hi' = Ceiling /\ best' = Floor /\ tries' = 0
              /\ packets' = 0 /\ widest' = path /\ misled' = FALSE
              /\ UNCHANGED <<result, path>>

\* A packet of dfPingOnce is out: the floor, or the middle while there is one.
Sending == /\ phase = "floor" \/ (phase = "search" /\ lo <= hi)
           /\ packets' = IF packets > MaxPackets THEN packets ELSE packets + 1
           /\ UNCHANGED <<path, round, widest>>

\* The result of a probe that measured nothing (OnMTUError, daemon.go:358-361).
MeasuredNothing == /\ phase' = "idle"
                   /\ lastOK' = FALSE
                   /\ snapMTU' = [MTUDetected |-> 0, MTUHasIssues |-> TRUE]
                   /\ UNCHANGED detected

\* dfPing's answer that the size did not arrive.
Rejected == /\ tries' = 0
            /\ IF phase = "floor"
                 THEN MeasuredNothing /\ UNCHANGED search
                 ELSE hi' = Size - 1 /\ UNCHANGED <<phase, lo, best, result>>

\* Mutant of EchoReply: best is not moved.
EchoReplyKeepsBest == /\ Sending
                      /\ Size <= path
                      /\ tries' = 0
                      /\ phase' = "search"
                      /\ lo' = Size + 1
                      /\ UNCHANGED <<hi, best, result, misled>>

\* The echo reply arrives.
EchoReply == /\ Sending
             /\ Size <= path
             /\ tries' = 0
             /\ phase' = "search"
             /\ best' = Size /\ lo' = Size + 1
             /\ UNCHANGED <<hi, result, misled>>

\* EMSGSIZE, or a destination-unreachable message.
TooBig == /\ Sending
          /\ Size > path
          /\ Rejected
          /\ UNCHANGED misled

\* Mutant of NoReply: the timeout is taken for an answer at the first try.
NoReplyOnce == /\ Sending
               /\ Rejected
               /\ UNCHANGED misled

\* Mutant of NoReply: one try more than Tries.
NoReplyAgain == /\ Sending
                /\ \/ /\ tries < Tries
                      /\ tries' = tries + 1
                      /\ UNCHANGED <<phase, search, result, misled>>
                   \/ /\ tries = Tries
                      /\ Rejected
                      /\ misled' = (misled \/ Size <= path)

\* Mutant of NoReply: the count of tries starts over instead of ending.
NoReplyForever == /\ Sending
                  /\ tries' = (tries + 1) % Tries
                  /\ UNCHANGED <<phase, search, result, misled>>

\* No answer within the deadline: another try, until there have been Tries of them.
NoReply == /\ Sending
           /\ \/ /\ tries + 1 < Tries
                 /\ tries' = tries + 1
                 /\ UNCHANGED <<phase, search, result, misled>>
              \/ /\ tries + 1 = Tries
                 /\ Rejected
                 /\ misled' = (misled \/ Size <= path)

\* A socket or send error ends the probe.
Error == Sending /\ MeasuredNothing /\ tries' = 0 /\ UNCHANGED <<search, misled>>

\* The bisection is over (OnMTUDetected, daemon.go:363-374).
Conclude == /\ phase = "search" /\ lo > hi
            /\ phase' = "idle"
            /\ detected' = best /\ lastOK' = TRUE
            /\ snapMTU' = [MTUDetected |-> best, MTUHasIssues |-> best < Usable]
            /\ UNCHANGED <<search, tries, path, probeHistory>>

\* Environment: the route changes, or the target goes and comes back.
PathChanges == \E p \in Paths \ {path} :
                 /\ path' = p
                 /\ widest' = Wider(widest, p)
                 /\ misled' = (misled \/ phase # "idle")
                 /\ UNCHANGED <<phase, search, tries, result, round, packets>>

ProbeStep == EchoReply \/ TooBig \/ NoReply \/ Error \/ Conclude

ProbeNext == BeginProbe \/ ProbeStep \/ PathChanges

ProbeSpec == ProbeInit /\ [][ProbeNext]_probeVars

\* Each packet has a deadline of 2 s, so a probe that runs takes its next step.  When
\* a probe begins is up to the main loop.
FairProbeSpec == ProbeSpec /\ WF_probeVars(ProbeStep)

-----------------------------------------------------------------------------
(* Properties. *)

ProbeTypeOK == /\ phase \in {"idle", "floor", "search"}
               /\ lo \in Floor + 1 .. Ceiling + 1 /\ hi \in Floor .. Ceiling
               /\ best \in Floor .. Ceiling
               /\ tries \in 0 .. Tries - 1
               /\ detected \in {0} \cup Floor .. Ceiling /\ lastOK \in BOOLEAN
               /\ snapMTU \in [MTUDetected : {0} \cup Floor .. Ceiling, MTUHasIssues : BOOLEAN]
               /\ path \in Nat /\ widest \in Nat /\ round \in Nat /\ packets \in Nat
               /\ misled \in BOOLEAN

\* The bisection never loses the answer: sizes up to best have been carried, and unless
\* the probe was misled everything above hi is too large for the path (probes.go:190-204).
Bracket == phase = "search" => /\ best < lo /\ best <= hi
                               /\ best <= widest
                               /\ ~misled => best <= path /\ (path <= hi \/ hi = Ceiling)

\* A reported MTU was carried by the path during the probe, and is exactly the path's
\* (up to Ceiling) unless Tries packets in a row of a size that fits were lost or the
\* path changed: fewer losses, in any number, are ridden out (mtu_linux.go:17-18, "retrying
\* a few times to ride out transient ICMP loss").
Measured ==
  [][phase = "search" /\ phase' = "idle" /\ lastOK' =>
       /\ snapMTU'.MTUDetected <= widest
       /\ ~misled => snapMTU'.MTUDetected = IF path < Ceiling THEN path ELSE Ceiling]_probeVars

\* The main loop waits for the probe: it costs at most MaxPackets deadlines of 2 s.
ProbeIsBounded == packets <= MaxPackets

\* A probe ends, whatever is lost and however the path changes.
ProbeEnds == phase # "idle" ~> phase = "idle"

=============================================================================
