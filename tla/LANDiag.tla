-------------------------------- MODULE LANDiag --------------------------------
(***************************************************************************)
(* `nstat status -l` (cmd/landiag.go): one test of Samples probes after    *)
(* another.  The router comes first if there is one, then hosts of the     *)
(* neighbour table, which is read line by line and each host given a name, *)
(* then servers of the Internet; then the average loss of three groups of  *)
(* tests decides which verdicts are printed.                               *)
(*                                                                         *)
(* A test is known by what it is a test of and by its protocol; of a       *)
(* host's name only what GroupOf looks at is kept.  The loss of a group is *)
(* kept as the failed probes and the number of tests, so an average of x%  *)
(* is x * count = loss * 100 / Samples.                                    *)
(***************************************************************************)
EXTENDS Integers, Sequences, FiniteSetsExt

CONSTANTS Samples,  \* lanDiagSamples (50)
          Fails,    \* the numbers of failed probes a test can have
          Hosts     \* the hosts discoverLANHosts stops at (5)

ASSUME LANDiagAssumption == /\ Samples \in Nat \ {0}
                            /\ Fails \subseteq 0 .. Samples
                            /\ Hosts \in Nat \ {0}

VARIABLES gateway,  \* whether detectGateway has found one
          stage,    \* "router", "discover", "hosts" (and the Internet), "done"
          todo,     \* the tests to do
          loss,     \* failed probes of each group
          count,    \* tests of each group
          failing,  \* history: which tests have lost a probe
          dead,     \* history: which tests have lost all of them
          answered, \* history: which tests have had an answer
          verdicts  \* what the analysis has printed

results == <<loss, count, failing, dead, answered>>
vars == <<gateway, stage, todo, results, verdicts>>

Test(of, proto) == [of |-> of, proto |-> proto]
Kinds == [of : {"router", "lanHost", "host", "wan"}, proto : {"ICMP", "TCP", "DNS"}]
Groups == {"lan", "wanICMP", "wanTCP"}

RouterTests == <<Test("router", "ICMP"), Test("router", "TCP"), Test("router", "DNS")>>
WANTests == <<Test("wan", "ICMP"), Test("wan", "ICMP"),
              Test("wan", "TCP"), Test("wan", "TCP"), Test("wan", "TCP"), Test("wan", "TCP"),
              Test("wan", "DNS"), Test("wan", "DNS")>>

Init == /\ gateway \in BOOLEAN
        /\ stage = "router"
        /\ todo = IF gateway THEN RouterTests ELSE << >>
        /\ loss = [g \in Groups |-> 0] /\ count = [g \in Groups |-> 0]
        /\ failing = {} /\ dead = {} /\ answered = {}
        /\ verdicts = {}

-----------------------------------------------------------------------------
(* The hosts of the LAN. *)

\* A line of `ip neigh show`: an address with its state.
Lines == [ip : {"gateway", "private", "public"},
          state : {"REACHABLE", "STALE", "DELAY", "FAILED", "PERMANENT"}]

\* What reverse DNS, mDNS, NetBIOS and the MAC's vendor make of an address, in the order
\* they are asked: nothing, a name beginning with "Router" or "LAN", or another.  A
\* vendor stands in brackets.
Names == {n \in [1 .. 4 -> {"", "LAN", "other"}] : n[4] # "LAN"}

resolveHostname(names) ==
  LET given == {k \in 1 .. 4 : names[k] # ""}
  IN  IF given = {} THEN "" ELSE names[Min(given)]

\* The lines that are skipped: the router's own, those outside the private networks,
\* those of hosts that are gone.  Without a gateway the router is a host like others.
Skipped(line) == \/ line.ip = "gateway" /\ gateway
                 \/ line.ip = "public"
                 \/ line.state \notin {"REACHABLE", "STALE", "DELAY"}

\* formatLANHost: a name with the end of the address, or the address.
formatLANHost(name) == IF name = "LAN" THEN "lanHost" ELSE "host"

\* One more line of the table; which lines there are is up to the LAN.
Discover(line, names) ==
  /\ stage = "discover" /\ Len(todo) < Hosts
  /\ todo' = IF Skipped(line) THEN todo
             ELSE Append(todo, Test(formatLANHost(resolveHostname(names)), "ICMP"))
  /\ UNCHANGED <<gateway, stage, results, verdicts>>

\* The router has been tested: the neighbours are listed.
List == /\ stage = "router" /\ todo = << >>
        /\ stage' = "discover"
        /\ UNCHANGED <<gateway, todo, results, verdicts>>

\* The table is at its end, or there are hosts enough.
Listed == /\ stage = "discover"
          /\ stage' = "hosts"
          /\ todo' = todo \o WANTests
          /\ UNCHANGED <<gateway, results, verdicts>>

-----------------------------------------------------------------------------
(* The tests. *)

\* Mutant of GroupOf: the loss of TCP tests is added to that of ICMP.
GroupOfWAN(t) == CASE t.of \in {"router", "lanHost"} -> "lan"
                   [] t.of \in {"host", "wan"} /\ t.proto # "DNS" -> "wanICMP"
                   [] OTHER -> "none"

\* Mutant of GroupOf: hosts of the LAN are counted in no group.
GroupOfHosts(t) == CASE t.of \in {"router", "lanHost"} -> "lan"
                     [] t.of = "wan" /\ t.proto = "ICMP" -> "wanICMP"
                     [] t.of = "wan" /\ t.proto = "TCP" -> "wanTCP"
                     [] OTHER -> "none"

\* The group a result is counted in: by the prefix of its name, then by its protocol.
\* formatLANHost gives a host its own name or its address.
GroupOf(t) == CASE t.of \in {"router", "lanHost"} -> "lan"
                [] t.of \in {"host", "wan"} /\ t.proto = "ICMP" -> "wanICMP"
                [] t.of = "wan" /\ t.proto = "TCP" -> "wanTCP"
                [] OTHER -> "none"

\* testICMP, testTCP and testDNS.
Run(fails) ==
  LET t == Head(todo)
      g == GroupOf(t)
  IN  /\ stage \in {"router", "hosts"} /\ todo # << >>
      /\ todo' = Tail(todo)
      /\ loss' = IF g = "none" THEN loss ELSE [loss EXCEPT ![g] = @ + fails]
      /\ count' = IF g = "none" THEN count ELSE [count EXCEPT ![g] = @ + 1]
      /\ failing' = IF fails > 0 THEN failing \cup {t} ELSE failing
      /\ dead' = IF fails = Samples THEN dead \cup {t} ELSE dead
      /\ answered' = IF fails < Samples THEN answered \cup {t} ELSE answered
      /\ UNCHANGED <<gateway, stage, verdicts>>

-----------------------------------------------------------------------------
(* The analysis. *)

\* The average loss of group g is at least, or more than, pct percent.
AtLeast(g, pct) == count[g] > 0 /\ 100 * loss[g] >= pct * Samples * count[g]
MoreThan(g, pct) == 100 * loss[g] > pct * Samples * count[g]

\* The average loss of group g is more than twice that of group h.
Twice(g, h) == loss[g] * (IF count[h] = 0 THEN 1 ELSE count[h]) > 2 * loss[h] * count[g]

\* Mutant of Verdicts: the LAN is healthy unless it has lost everything.
VerdictsLAN ==
  {v \in {"lanHealthy", "lanIssues", "throttling", "icmpLoss", "allPassed"} :
     CASE v = "lanHealthy" -> MoreThan("wanTCP", 1)
       [] v = "lanIssues" -> AtLeast("lan", 1)
       [] v = "throttling" -> Twice("wanTCP", "wanICMP") /\ MoreThan("wanTCP", 1)
       [] v = "icmpLoss" -> MoreThan("wanICMP", 5)
       [] v = "allPassed" -> \A g \in Groups : loss[g] = 0}

Verdicts ==
  {v \in {"lanHealthy", "lanIssues", "throttling", "icmpLoss", "allPassed"} :
     CASE v = "lanHealthy" -> ~AtLeast("lan", 1) /\ MoreThan("wanTCP", 1)
       [] v = "lanIssues" -> AtLeast("lan", 1)
       [] v = "throttling" -> Twice("wanTCP", "wanICMP") /\ MoreThan("wanTCP", 1)
       [] v = "icmpLoss" -> MoreThan("wanICMP", 5)
       [] v = "allPassed" -> \A g \in Groups : loss[g] = 0}

Analyse == /\ stage = "hosts" /\ todo = << >>
           /\ stage' = "done"
           /\ verdicts' = Verdicts
           /\ UNCHANGED <<gateway, todo, results>>

Next == \/ List \/ Listed \/ Analyse
        \/ \E line \in Lines, names \in Names : Discover(line, names)
        \/ \E fails \in Fails : Run(fails)

Spec == Init /\ [][Next]_vars

-----------------------------------------------------------------------------
(* Properties. *)

Of(kind) == {t \in Kinds : t.of = kind}

\* A verdict has its cause in the tests: "LAN is healthy, problem is router/ISP" is not
\* printed when a router test failed altogether, nor "LAN has issues" when all is well on
\* the LAN's side, nor one of the two together with the other; a verdict on WAN TCP needs
\* a TCP test of the Internet that lost probes; high ICMP loss may be that of a host of
\* the LAN without a LAN name (landiag.go:86-124).
VerdictsHaveCauses ==
  /\ "lanHealthy" \in verdicts => "lanIssues" \notin verdicts /\ Of("router") \cap dead = {}
  /\ "lanIssues" \in verdicts => (Of("router") \cup Of("lanHost")) \cap failing # {}
  /\ verdicts \cap {"lanHealthy", "throttling"} # {} => Test("wan", "TCP") \in failing
  /\ "icmpLoss" \in verdicts => {Test("wan", "ICMP"), Test("host", "ICMP")} \cap failing # {}

\* "All tests passed" leaves no test unmentioned but the Internet's DNS servers, and no
\* report of a failed test is empty but for a loss below the limits.
PassedMeansAnswered ==
  /\ "allPassed" \in verdicts => failing \subseteq {Test("wan", "DNS")}
  /\ stage = "done" /\ dead \ {Test("wan", "DNS")} # {} => verdicts # {} /\ "allPassed" \notin verdicts

\* When nothing on the Internet answers, the report says so: hosts of the LAN that are
\* averaged in with the Internet and answer do not hide it.
BlackoutIsNamed ==
  stage = "done" /\ Of("wan") \cap answered = {} =>
    "icmpLoss" \in verdicts /\ verdicts \cap {"lanHealthy", "lanIssues"} # {}

=============================================================================
