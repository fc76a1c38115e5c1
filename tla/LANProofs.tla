-------------------------------- MODULE LANProofs --------------------------------
(***************************************************************************)
(* Four parts of a LAN round and the LAN diagnosis, whose models have no   *)
(* variable in common: the DHCP lease, the DNS and gateway targets, the    *)
(* path-MTU probe, the kernel's TCP counters and the verdicts of           *)
(* `nstat landiag`.                                                        *)
(*                                                                         *)
(* The lease holds for every set of interfaces, clients and lease times.   *)
(* The score of a lease is that of the round before, so it depends on how  *)
(* far rounds are apart: RoundsInTime is that condition, and the invariant *)
(* behind it is that what a lease has lost since it was past its half is   *)
(* no more than the time since the last round.                             *)
(*                                                                         *)
(* The results of the targets are those of the servers the snapshot names, *)
(* for every set of networks, of sequence numbers and of replies under     *)
(* way.  A round detects at two steps and probes at two others, so what is *)
(* shown and what is asked agree only in part while it runs; the invariant *)
(* says which part at which step.                                          *)
(*                                                                         *)
(* The bounds of the probe's bisection hold the answer for every floor,    *)
(* ceiling and path.  What it costs is counted in halvings.                *)
(*                                                                         *)
(* The changes of the kernel's counters add up, for every set of counters  *)
(* and every history of failed reads.  ReportedOnce is not inductive: the  *)
(* first reading makes the baseline only because nothing has been reported *)
(* before it.  The rows of the graph follow the changes shown.             *)
(*                                                                         *)
(* The verdicts of the diagnosis have their causes for every number of     *)
(* probes and every number of hosts up to a bound of each theorem, which   *)
(* is exact: a dead test is a share of its group's average, and more hosts *)
(* make it smaller than the limit of the verdict.  The invariant counts:   *)
(* what each group has had, with the tests to do, is what it will have had *)
(* when they are done.  The tests to do are in order (Order), so their     *)
(* number says which of them are left; a group's losses are those of its   *)
(* tests (Tallies), all of them while nothing on the Internet has answered *)
(* (Silence).                                                              *)
(***************************************************************************)
EXTENDS DHCPLease, NetworkTargets, MTUProbe, KernelStats, LANDiag, SequenceTheorems, TLAPS

-----------------------------------------------------------------------------
(* The DHCP lease. *)

Leases == [server : Servers, left : Nat, length : Lengths]

LeaseTypes == /\ iface \in Ifaces \cup {NoIface}
              /\ held \in [Ifaces -> Leases \cup {NoLease}]
              /\ client \in [Ifaces -> Clients \cup {"none"}]
              /\ blocks \subseteq [iface : Ifaces \cup {NoIface}, lease : Leases]
              /\ snap \in Leases \cup {NoLease}
              /\ since \in Nat /\ since <= Every
              /\ overdue \in BOOLEAN

\* Who holds a lease has a client, and dhclient has filed its own.
LeasesAreFiled ==
  \A i \in Ifaces : held[i] # NoLease =>
    /\ client[i] \in Clients
    /\ client[i] = "dhclient" => held[i] \in Matching(i)

\* A lease that was renewed in time was read before its half, or is as much older as the
\* last round is back.
SinceHalf ==
  ~overdue /\ blocks = {} => snap = NoLease \/ snap.length \div 2 <= snap.left + since

LInv == LeaseTypes /\ LeasesAreFiled /\ SinceHalf

\* No interface has a lease when the daemon starts.
LEMMA InitLease == LeaseInit => LInv
<1> SUFFICES ASSUME LeaseInit PROVE LInv
  OBVIOUS
<1>1. held \in [Ifaces -> Leases \cup {NoLease}] /\ snap = NoLease
  BY DEF LeaseInit
<1>2. since = 0 /\ overdue = FALSE
  BY DEF LeaseInit
<1>3. client \in [Ifaces -> Clients \cup {"none"}] /\ iface \in Ifaces \cup {NoIface}
  BY DEF LeaseInit
<1>4. blocks = {}
  BY DEF LeaseInit
<1>5. Every \in Nat
  BY DHCPLeaseAssumption
<1>6. LeaseTypes
  <2>1. overdue \in BOOLEAN
    BY <1>2
  <2>2. since \in Nat /\ since <= Every
    BY <1>2, <1>5
  <2>3. blocks \subseteq [iface : Ifaces \cup {NoIface}, lease : Leases]
    BY <1>4
  <2>4. snap \in Leases \cup {NoLease}
    BY <1>1
  <2> QED
    BY <1>1, <1>3, <2>1, <2>2, <2>3, <2>4 DEF LeaseTypes
<1> QED
  BY <1>6 DEF LeaseInit, LInv, LeasesAreFiled, SinceHalf

\* Time spares nothing but what is no lease, and takes no more than a step.
LEMMA Aged ==
  /\ Older(NoLease) = NoLease
  /\ \A l \in Leases : /\ Older(l) \in Leases /\ Older(l) # NoLease
                       /\ Older(l).length = l.length /\ l.left <= Older(l).left + Step
<1>1. Older(NoLease) = NoLease
  BY DHCPLeaseAssumption DEF Older, NoLease
<1>2. ASSUME NEW l \in Leases
      PROVE  /\ Older(l) \in Leases /\ Older(l) # NoLease
             /\ Older(l).length = l.length /\ l.left <= Older(l).left + Step
  <2>1. Older(l) = [server |-> l.server, length |-> l.length,
                    left |-> IF l.left > Step THEN l.left - Step ELSE 0]
    BY DEF Older, Leases
  <2> QED
    BY <2>1, DHCPLeaseAssumption DEF Leases, NoLease
<1> QED
  BY <1>1, <1>2

\* What the sources give for an interface: its own lease or dhclient's.
LEMMA Sources ==
  ASSUME LeaseTypes, NEW l \in readDHCPLease, iface # NoIface
  PROVE  \/ l = held[iface] /\ l # NoLease /\ client[iface] \in {"nmcli", "networkd"}
         \/ /\ l \in leaseFromDhclient(iface)
            /\ held[iface] # NoLease => client[iface] \notin {"nmcli", "networkd"}
  BY DEF readDHCPLease, leaseFromNMCLI, leaseFromNetworkd, HeldBy

\* Of dhclient's leases none is left out that expires later.
LEMMA DhclientLeases ==
  ASSUME LeaseTypes, NEW i \in Ifaces, NEW l \in leaseFromDhclient(i)
  PROVE  /\ l \in Leases \cup {NoLease}
         /\ blocks = {} => l = NoLease
         /\ \A m \in Matching(i) : m.left <= l.left
<1>1. Matching(i) \subseteq Leases /\ (blocks = {} => Matching(i) = {})
  BY DEF Matching, LeaseTypes
<1> QED
  BY <1>1 DEF leaseFromDhclient, Latest

\* A round reads what is held, or an older lease if dhclient has filed one.
LEMMA RoundLease == LInv /\ LeaseRound => LInv'
<1> SUFFICES ASSUME LInv, LeaseRound PROVE LInv'
  OBVIOUS
<1>1. LeaseTypes /\ LeasesAreFiled /\ UNCHANGED <<iface, held, client, blocks>>
      /\ since' = 0 /\ overdue' = (\E i \in Ifaces : PastHalf(held[i])) /\ snap' \in readDHCPLease
  BY DEF LInv, LeaseRound, network
<1>2. CASE iface = NoIface
  <2>1. snap' = NoLease
    BY <1>1, <1>2 DEF readDHCPLease
  <2> QED
    BY <1>1, <2>1, DHCPLeaseAssumption DEF LInv, LeaseTypes, LeasesAreFiled, Matching, SinceHalf
<1>3. CASE iface # NoIface
  <2>1. iface \in Ifaces /\ held[iface] \in Leases \cup {NoLease}
    BY <1>1, <1>3 DEF LeaseTypes
  <2>2. CASE snap' = held[iface] /\ snap' # NoLease
    <3>1. ~overdue' => ~(held[iface].left < held[iface].length \div 2)
      BY <1>1, <2>1, <2>2 DEF PastHalf
    <3>2. held[iface].left \in Nat /\ held[iface].length \in Nat
      BY <2>1, <2>2, DHCPLeaseAssumption DEF Leases
    <3>3. SinceHalf'
      BY <1>1, <2>2, <3>1, <3>2 DEF SinceHalf
    <3> QED
      BY <1>1, <2>1, <2>2, <3>3, DHCPLeaseAssumption
      DEF LInv, LeaseTypes, LeasesAreFiled, Matching
  <2>3. CASE snap' \in leaseFromDhclient(iface)
    <3>1. snap' \in Leases \cup {NoLease} /\ (blocks = {} => snap' = NoLease)
      BY <1>1, <2>1, <2>3, DhclientLeases
    <3> QED
      BY <1>1, <3>1, DHCPLeaseAssumption DEF LInv, LeaseTypes, LeasesAreFiled, Matching, SinceHalf
  <2> QED
    BY <1>1, <1>3, <2>2, <2>3, Sources
<1> QED
  BY <1>2, <1>3

\* A new lease is filed before anybody can read it.
LEMMA GrantLease ==
  ASSUME LInv, NEW i \in Ifaces, NEW c \in Clients, NEW l \in Leases, Grant(i, c, l)
  PROVE  LInv'
<1>1. LeaseTypes /\ LeasesAreFiled /\ SinceHalf /\ UNCHANGED <<iface, snap, since, overdue>>
      /\ held' = [held EXCEPT ![i] = l] /\ client' = [client EXCEPT ![i] = c]
  BY DEF LInv, Grant
<1>2. blocks \subseteq blocks'
      /\ blocks' \subseteq [iface : Ifaces \cup {NoIface}, lease : Leases]
  BY <1>1 DEF Grant, Filed, LeaseTypes
<1>3. c = "dhclient" => l \in Matching(i)'
  BY DEF Grant, Filed, Matching
<1>4. LeaseTypes'
  BY <1>1, <1>2 DEF LeaseTypes
<1>5. LeasesAreFiled'
  <2> SUFFICES ASSUME NEW j \in Ifaces, held'[j] # NoLease
               PROVE  /\ client'[j] \in Clients
                      /\ client'[j] = "dhclient" => held'[j] \in Matching(j)'
    BY DEF LeasesAreFiled
  <2>1. CASE j = i
    BY <1>1, <1>3, <2>1 DEF LeaseTypes
  <2>2. CASE j # i
    <3>1. held'[j] = held[j] /\ client'[j] = client[j]
      BY <1>1, <2>2 DEF LeaseTypes
    <3>2. Matching(j) \subseteq Matching(j)'
      BY <1>2 DEF Matching
    <3> QED
      BY <1>1, <3>1, <3>2 DEF LeasesAreFiled
  <2> QED
    BY <2>1, <2>2
<1>6. SinceHalf'
  BY <1>1, <1>2 DEF SinceHalf
<1> QED
  BY <1>4, <1>5, <1>6 DEF LInv

\* The clock takes from the lease in use and from its copies alike.
LEMMA TickLease == LInv /\ Tick => LInv'
<1> SUFFICES ASSUME LInv, Tick PROVE LInv'
  OBVIOUS
<1>1. /\ LeaseTypes /\ LeasesAreFiled /\ SinceHalf /\ UNCHANGED <<iface, client>>
      /\ since + Step <= Every /\ since' = since + Step /\ snap' = Older(snap)
      /\ held' = [i \in Ifaces |-> Older(held[i])]
      /\ overdue' = (overdue \/ \E i \in Ifaces : PastHalf(held'[i]))
      /\ blocks' = {[b EXCEPT !.lease = Older(@)] : b \in blocks}
  BY DEF LInv, Tick
<1>2. \A b \in blocks : [b EXCEPT !.lease = Older(@)]
                         = [iface |-> b.iface, lease |-> Older(b.lease)]
  BY <1>1 DEF LeaseTypes
<1>3. blocks' \subseteq [iface : Ifaces \cup {NoIface}, lease : Leases]
      /\ (blocks' = {} => blocks = {})
  <2>1. ASSUME NEW x \in blocks' PROVE x \in [iface : Ifaces \cup {NoIface}, lease : Leases]
    <3>1. PICK b \in blocks : x = [iface |-> b.iface, lease |-> Older(b.lease)]
      BY <1>1, <1>2, <2>1
    <3>2. b.iface \in Ifaces \cup {NoIface} /\ b.lease \in Leases
      BY <1>1 DEF LeaseTypes
    <3> QED
      BY <3>1, <3>2, Aged
  <2>2. ASSUME NEW b \in blocks PROVE blocks' # {}
    BY <1>1, <2>2
  <2> QED
    BY <2>1, <2>2
<1>4. held' \in [Ifaces -> Leases \cup {NoLease}] /\ snap' \in Leases \cup {NoLease}
  BY <1>1, Aged DEF LeaseTypes
<1>5. LeaseTypes'
  BY <1>1, <1>3, <1>4, DHCPLeaseAssumption DEF LeaseTypes
<1>6. LeasesAreFiled'
  <2> SUFFICES ASSUME NEW i \in Ifaces, held'[i] # NoLease
               PROVE  /\ client'[i] \in Clients
                      /\ client'[i] = "dhclient" => held'[i] \in Matching(i)'
    BY DEF LeasesAreFiled
  <2>1. held[i] # NoLease /\ held'[i] = Older(held[i])
    BY <1>1, Aged
  <2>2. client'[i] = client[i] /\ client[i] \in Clients
    BY <1>1, <2>1 DEF LeasesAreFiled
  <2>3. ASSUME client[i] = "dhclient" PROVE held'[i] \in Matching(i)'
    <3>1. PICK b \in blocks : b.iface \in {i, NoIface} /\ b.lease = held[i]
      BY <1>1, <2>1, <2>3 DEF LeasesAreFiled, Matching
    <3> DEFINE o == [iface |-> b.iface, lease |-> Older(b.lease)]
    <3>2. o \in blocks'
      BY <1>1, <1>2
    <3>3. o.iface \in {i, NoIface} /\ o.lease = held'[i]
      BY <2>1, <3>1
    <3> HIDE DEF o
    <3> QED
      BY <3>2, <3>3 DEF Matching
  <2> QED
    BY <2>2, <2>3
<1>7. SinceHalf'
  <2> SUFFICES ASSUME ~overdue', blocks' = {}, snap' # NoLease
               PROVE  snap'.length \div 2 <= snap'.left + since'
    BY DEF SinceHalf
  <2>1. snap \in Leases
    BY <1>1, Aged DEF LeaseTypes
  <2>2. snap # NoLease
    BY <2>1, DHCPLeaseAssumption DEF Leases, NoLease
  <2>3. snap.length \div 2 <= snap.left + since
    BY <1>1, <1>3, <2>2 DEF SinceHalf
  <2>4. snap'.length = snap.length /\ snap.left <= snap'.left + Step /\ snap' \in Leases
    BY <1>1, <2>1, Aged
  <2>5. /\ snap.left \in Nat /\ snap'.left \in Nat
        /\ snap.length \in Nat /\ since \in Nat /\ Step \in Nat
    BY <1>1, <2>1, <2>4, DHCPLeaseAssumption DEF Leases, LeaseTypes
  <2>6. snap.length \div 2 \in Nat
    BY <2>5
  <2> DEFINE h == snap.length \div 2
  <2>7. h <= snap'.left + since'
    <3> HIDE DEF h
    <3> QED
      BY <1>1, <2>3, <2>4, <2>5, <2>6 DEF h
  <2> QED
    BY <2>4, <2>7
<1> QED
  BY <1>5, <1>6, <1>7 DEF LInv

\* Each step of the clients, the clock and the rounds.
LEMMA LeaseStep == LInv /\ [LeaseNext]_leaseVars => LInv'
<1> SUFFICES ASSUME LInv, [LeaseNext]_leaseVars PROVE LInv'
  OBVIOUS
<1>1. CASE LeaseRound
  BY <1>1, RoundLease
<1>2. CASE Tick
  BY <1>2, TickLease
<1>3. CASE Route
  BY <1>3 DEF Route, LInv, LeaseTypes, LeasesAreFiled, SinceHalf, Matching
<1>4. ASSUME NEW i \in Ifaces, Obtain(i) PROVE LInv'
  <2>1. PICK c \in Clients, s \in Servers, n \in Lengths : Grant(i, c, Lease(s, n))
    BY <1>4 DEF Obtain
  <2>2. Lease(s, n) \in Leases
    BY <2>1, DHCPLeaseAssumption DEF Lease, Leases
  <2> QED
    BY <2>1, <2>2, GrantLease
<1>5. ASSUME NEW i \in Ifaces, Renew(i) PROVE LInv'
  <2>1. held[i] # NoLease /\ held[i] \in Leases \cup {NoLease} /\ client[i] \in Clients
    BY <1>5 DEF Renew, LInv, LeaseTypes, LeasesAreFiled
  <2>2. Lease(held[i].server, held[i].length) \in Leases
    BY <2>1, DHCPLeaseAssumption DEF Lease, Leases
  <2> QED
    BY <1>5, <2>1, <2>2, GrantLease DEF Renew
<1>6. ASSUME NEW i \in Ifaces, Leave(i) PROVE LInv'
  <2>1. /\ UNCHANGED <<iface, blocks, snap, since, overdue>>
        /\ held' = [held EXCEPT ![i] = NoLease] /\ client' = [client EXCEPT ![i] = "none"]
        /\ LeaseTypes /\ LeasesAreFiled /\ SinceHalf
    BY <1>6 DEF Leave, LInv
  <2>2. LeaseTypes' /\ SinceHalf'
    BY <2>1 DEF LeaseTypes, SinceHalf
  <2>3. LeasesAreFiled'
    BY <2>1 DEF LeasesAreFiled, LeaseTypes, Matching
  <2> QED
    BY <2>2, <2>3 DEF LInv
<1>7. CASE UNCHANGED leaseVars
  BY <1>7 DEF leaseVars, network, LInv, LeaseTypes, LeasesAreFiled, SinceHalf, Matching
<1> QED
  BY <1>1, <1>2, <1>3, <1>4, <1>5, <1>6, <1>7 DEF LeaseNext

\* The invariant of the lease.
LEMMA LeaseInv == LeaseSpec => []LInv
  BY InitLease, LeaseStep, PTL DEF LeaseSpec

\* A tenth of every lease is left when a lease read at its half is a round old.
RoundsInTime ==
  \A n \in Lengths : Every < n \div 2 /\ Every + n \div 10 <= n \div 2

\* Whatever clients, interfaces and lease times there are, as long as the rounds are in
\* time: the lease of a client that renews by half-time is GOOD whenever the status is
\* run (DHCPLeaseScore, dhcplease.go).
THEOREM RenewedIsGood == ASSUME RoundsInTime PROVE LeaseSpec => []HealthyIsGood
<1>1. LInv => HealthyIsGood
  <2> SUFFICES ASSUME LInv, ~overdue, blocks = {} PROVE DHCPLeaseScore(snap) = "Good"
    BY DEF HealthyIsGood
  <2>7. CASE snap = NoLease
    BY <2>7 DEF DHCPLeaseScore, NoLease
  <2> SUFFICES ASSUME snap # NoLease PROVE DHCPLeaseScore(snap) = "Good"
    BY <2>7
  <2>1. /\ snap \in Leases /\ snap.length \div 2 <= snap.left + since
        /\ since \in Nat /\ since <= Every
    BY DEF LInv, LeaseTypes, SinceHalf
  <2>2. snap.left \in Nat /\ snap.length \in Lengths /\ snap.length \in Nat /\ Every \in Nat
    BY <2>1, DHCPLeaseAssumption DEF Leases
  <2> DEFINE h == snap.length \div 2
             t == snap.length \div 10
  <2>3. h \in Nat /\ t \in Nat
    BY <2>2
  <2>4. Every < h /\ Every + t <= h
    BY <2>2 DEF RoundsInTime
  <2>5. h <= snap.left + since
    BY <2>1
  <2>6. snap.left > 0 /\ ~(snap.left < t)
    <3> HIDE DEF h, t
    <3> QED
      BY <2>1, <2>2, <2>3, <2>4, <2>5
  <2> QED
    BY <2>2, <2>6 DEF DHCPLeaseScore
<1> QED
  BY <1>1, LeaseInv, PTL

\* A round reads the lease in use, and of dhclient's one that expires no earlier.
THEOREM LeaseIsCurrent == LeaseSpec => CurrentLease
<1>1. LInv /\ [LeaseNext]_leaseVars =>
        [LeaseRound /\ iface # NoIface /\ held[iface] # NoLease =>
          /\ snap'.left >= held[iface].left
          /\ client[iface] # "dhclient" => snap' = held[iface]]_leaseVars
  <2> SUFFICES ASSUME LInv, LeaseRound, iface # NoIface, held[iface] # NoLease
               PROVE  /\ snap'.left >= held[iface].left
                      /\ client[iface] # "dhclient" => snap' = held[iface]
    OBVIOUS
  <2>1. LeaseTypes /\ LeasesAreFiled /\ iface \in Ifaces /\ held[iface] \in Leases
    BY DEF LInv, LeaseTypes
  <2>2. client[iface] \in {"nmcli", "networkd", "dhclient"}
    BY <2>1, DHCPLeaseAssumption DEF LeasesAreFiled
  <2>3. snap' \in readDHCPLease
    BY DEF LeaseRound
  <2>4. CASE snap' = held[iface]
    BY <2>1, <2>4 DEF Leases
  <2>5. CASE snap' \in leaseFromDhclient(iface) /\ client[iface] \notin {"nmcli", "networkd"}
    <3>1. held[iface] \in Matching(iface)
      BY <2>1, <2>2, <2>5 DEF LeasesAreFiled
    <3>2. held[iface].left <= snap'.left /\ snap' \in Leases \cup {NoLease}
      BY <2>1, <2>5, <3>1, DhclientLeases
    <3>3. held[iface].left \in Nat /\ snap'.left \in Nat
      BY <2>1, <3>2 DEF Leases, NoLease
    <3> QED
      BY <2>2, <2>5, <3>2, <3>3
  <2> QED
    BY <2>1, <2>3, <2>4, <2>5, Sources
<1> QED
  BY <1>1, LeaseInv, PTL DEF LeaseSpec, CurrentLease

-----------------------------------------------------------------------------
(* The DNS and gateway targets, of the module NetworkTargets. *)

Places == {"idle", "dns", "gateway", "resolve", "ping", "wait"}

TargetTypes == /\ pc \in Places
          /\ server \in [dns : Resolvers \cup {Stub}, gateway : Routers \cup {NoServer}]
          /\ net \in Networks
          /\ shown \in [DNSServer : Resolvers \cup {Stub}, DNSLastOK : BOOLEAN,
                        GatewayServer : Routers \cup {NoServer}, GatewayLastOK : BOOLEAN]
          /\ asked \in [dns : Resolvers \cup {Stub, NoServer},
                        gateway : Routers \cup {Target, NoServer}]
          /\ replies \subseteq [from : Routers \cup {Target}, seq : Seqs]
          /\ raw \in BOOLEAN /\ seq \in Seqs /\ collided \in BOOLEAN

\* What a round has detected it shows before it probes, and between two rounds it is shown.
ShownIsDetected ==
  /\ pc # "gateway" => shown.DNSServer = server.dns
  /\ shown.GatewayServer = server.gateway

\* The name server that is shown is the one that was asked last, from its probe on.
ResolverWasAsked == pc \in {"ping", "wait", "idle"} => asked.dns = server.dns

\* As long as there has been no gateway, none was pinged and none has failed.
NoGatewayNoPing ==
  server.gateway = NoServer => /\ pc # "wait"
                             /\ asked.gateway = NoServer /\ shown.GatewayLastOK

\* The gateway that is shown is the one that has answered last, or failed to.
GatewayWasAsked == pc = "idle" => asked.gateway = server.gateway \/ collided

\* A reply that will be taken is the gateway's.
OwnReplies ==
  pc = "wait" /\ ~collided => \A r \in replies : Accepted(r) => r.from = server.gateway

TInv == /\ TargetTypes
        /\ ShownIsDetected
        /\ ResolverWasAsked
        /\ NoGatewayNoPing
        /\ GatewayWasAsked
        /\ OwnReplies

-----------------------------------------------------------------------------

\* The daemon starts with what it has detected.
LEMMA TargetInit == TargetsInit => TInv
<1> SUFFICES ASSUME TargetsInit PROVE TInv
  OBVIOUS
<1>1. TargetTypes
  BY DEF TargetsInit, Networks, detectDNS, detectGateway,
         TargetTypes, Places
<1> QED
  BY <1>1 DEF TargetsInit, TInv, ShownIsDetected, ResolverWasAsked, NoGatewayNoPing,
              GatewayWasAsked, OwnReplies

\* What the two detections return.
LEMMA Detected ==
  ASSUME TargetTypes
  PROVE  /\ detectDNS \in Resolvers \cup {Stub}
         /\ detectGateway \in Routers \cup {NoServer}
  BY DEF TargetTypes, Networks, detectDNS, detectGateway

\* Types, at every step of a round and of the laptop.
LEMMA TargetTypesStep == TargetTypes /\ [TargetsNext]_targetsVars => TargetTypes'
<1> SUFFICES ASSUME TargetTypes, [TargetsNext]_targetsVars PROVE TargetTypes'
  OBVIOUS
<1> USE DEF TargetTypes, Places
<1>1. CASE Begin \/ NoGateway
  BY <1>1 DEF Begin, NoGateway, ping
<1>2. CASE DetectDNS
  BY <1>2, Detected DEF DetectDNS, ping
<1>3. CASE DetectGateway
  <2>1. server' \in [dns : Resolvers \cup {Stub}, gateway : Routers \cup {NoServer}]
    BY <1>3, Detected DEF DetectGateway
  <2>2. shown' \in [DNSServer : Resolvers \cup {Stub}, DNSLastOK : BOOLEAN,
                    GatewayServer : Routers \cup {NoServer}, GatewayLastOK : BOOLEAN]
    BY <1>3, <2>1 DEF DetectGateway
  <2> QED
    BY <1>3, <2>1, <2>2 DEF DetectGateway, ping
<1>4. ASSUME NEW ok \in BOOLEAN, Resolve(ok) PROVE TargetTypes'
  BY <1>4 DEF Resolve, ping
<1>5. ASSUME NEW n \in Seqs, Send(n) PROVE TargetTypes'
  <2>1. Reply(server.gateway, n) \in [from : Routers \cup {Target}, seq : Seqs]
    BY <1>5 DEF Send, Reply
  <2> QED
    BY <1>5, <2>1 DEF Send
<1>6. ASSUME NEW ok \in BOOLEAN, NEW from \in Routers \cup {Target, NoServer},
             NEW rest \in SUBSET replies, Ends(ok, from, rest)
      PROVE  TargetTypes'
  BY <1>6 DEF Ends
<1>7. ASSUME NEW r \in replies, Answered(r) PROVE TargetTypes'
  <2>1. r.from \in Routers \cup {Target, NoServer} /\ replies \ {r} \in SUBSET replies
    BY <1>7
  <2>2. Ends(TRUE, r.from, replies \ {r})
    BY <1>7 DEF Answered
  <2> QED
    BY <1>6, <2>1, <2>2
<1>8. CASE TimesOut
  BY <1>6, <1>8 DEF TimesOut
<1>9. ASSUME NEW r \in replies, Skip(r) \/ Lost(r) PROVE TargetTypes'
  BY <1>9 DEF Skip, Lost
<1>10. CASE Move
  BY <1>10 DEF Move, ping
<1>11. ASSUME NEW n \in Seqs, PingTarget(n) PROVE TargetTypes'
  BY <1>11 DEF PingTarget, Reply
<1>12. CASE UNCHANGED targetsVars
  BY <1>12 DEF targetsVars, ping
<1> QED
  BY <1>1, <1>2, <1>3, <1>4, <1>5, <1>7, <1>8, <1>9, <1>10, <1>11, <1>12
  DEF TargetsNext, TargetsRound

Rest == ShownIsDetected /\ ResolverWasAsked /\ NoGatewayNoPing /\ GatewayWasAsked /\ OwnReplies

\* The end of a ping records the gateway it was for, unless the reply was another ping's.
LEMMA PingEnds ==
  ASSUME TInv, pc = "wait", NEW ok, NEW from, NEW rest, Ends(ok, from, rest),
         from = server.gateway \/ collided
  PROVE  Rest'
<1>1. server.gateway # NoServer
  BY DEF TInv, NoGatewayNoPing
<1>2. /\ pc' = "idle" /\ server' = server /\ collided' = collided
      /\ shown' = [shown EXCEPT !.GatewayLastOK = ok]
      /\ asked' = [asked EXCEPT !.gateway = from]
  BY DEF Ends
<1>3. asked'.dns = asked.dns /\ asked'.gateway = from
      /\ shown'.DNSServer = shown.DNSServer /\ shown'.GatewayServer = shown.GatewayServer
  BY <1>2 DEF TInv, TargetTypes
<1> QED
  BY <1>1, <1>2, <1>3
  DEF TInv, Rest, ShownIsDetected, ResolverWasAsked, NoGatewayNoPing, GatewayWasAsked, OwnReplies

\* What the snapshot shows and what was asked agree as far as the step says.
LEMMA RestStep == TInv /\ [TargetsNext]_targetsVars => Rest'
<1> SUFFICES ASSUME TInv, [TargetsNext]_targetsVars PROVE Rest'
  OBVIOUS
<1> USE DEF TInv, TargetTypes, Places, Rest, ShownIsDetected, ResolverWasAsked, NoGatewayNoPing,
            GatewayWasAsked, OwnReplies
<1>1. CASE Begin \/ NoGateway
  BY <1>1 DEF Begin, NoGateway, ping
<1>2. CASE DetectDNS
  BY <1>2 DEF DetectDNS, ping
<1>3. CASE DetectGateway
  <2>1. server'.dns = server.dns /\ (server'.gateway = NoServer => server.gateway = NoServer)
    BY <1>3 DEF DetectGateway
  <2>2. shown'.DNSServer = server'.dns /\ shown'.GatewayServer = server'.gateway
        /\ shown'.GatewayLastOK = shown.GatewayLastOK
    BY <1>3 DEF DetectGateway
  <2> QED
    BY <1>3, <2>1, <2>2 DEF DetectGateway, ping
<1>4. ASSUME NEW ok \in BOOLEAN, Resolve(ok) PROVE Rest'
  BY <1>4 DEF Resolve, ping
<1>5. ASSUME NEW n \in Seqs, Send(n) PROVE Rest'
  <2>1. ASSUME ~collided', NEW r \in replies', r.seq = n PROVE r.from = server.gateway
    <3>1. r \notin replies
      BY <1>5, <2>1 DEF Send
    <3>2. r = Reply(server.gateway, n)
      BY <1>5, <2>1, <3>1 DEF Send
    <3> QED
      BY <3>2 DEF Reply
  <2>2. OwnReplies'
    BY <1>5, <2>1 DEF Send, Accepted
  <2> QED
    BY <1>5, <2>2 DEF Send
<1>6. ASSUME NEW r \in replies, Answered(r) PROVE Rest'
  <2>1. /\ pc = "wait" /\ Ends(TRUE, r.from, replies \ {r})
        /\ r.from = server.gateway \/ collided
    BY <1>6 DEF Answered
  <2> QED
    BY <2>1, PingEnds
<1>7. CASE TimesOut
  BY <1>7, PingEnds DEF TimesOut
<1>8. ASSUME NEW r \in replies, Skip(r) \/ Lost(r) PROVE Rest'
  <2>1. replies' \subseteq replies /\ UNCHANGED <<pc, server, shown, seq, asked, collided>>
    BY <1>8 DEF Skip, Lost
  <2> QED
    BY <2>1 DEF Accepted
<1>9. CASE Move \/ UNCHANGED targetsVars
  BY <1>9 DEF Move, targetsVars, ping, Accepted
<1>10. ASSUME NEW n \in Seqs, PingTarget(n) PROVE Rest'
  BY <1>10 DEF PingTarget
<1> QED
  BY <1>1, <1>2, <1>3, <1>4, <1>5, <1>6, <1>7, <1>8, <1>9, <1>10 DEF TargetsNext, TargetsRound

\* The invariant of the DNS and gateway targets.
LEMMA TargetInv == TargetsSpec => []TInv
<1>1. TInv /\ [TargetsNext]_targetsVars => TInv'
  BY TargetTypesStep, RestStep DEF TInv, Rest
<1> QED
  BY <1>1, TargetInit, PTL DEF TargetsSpec

-----------------------------------------------------------------------------

\* No result is shown under the name of another server, whatever the networks the laptop
\* joins and leaves between two steps of a round, and whatever replies come late, but for
\* a late reply with the very number of the ping that waits.
THEOREM ResultsNameTheirServers == TargetsSpec => []ResultsAreTheServers
<1>1. TInv => ResultsAreTheServers
  BY DEF TInv, ShownIsDetected, ResolverWasAsked, NoGatewayNoPing, GatewayWasAsked,
         ResultsAreTheServers
<1> QED
  BY <1>1, TargetInv, PTL

-----------------------------------------------------------------------------
(* The path-MTU probe, of the module MTUProbe. *)

\* The middle of two sizes lies between them.
LEMMA Middle ==
  ASSUME NEW a \in Int, NEW b \in Int, a <= b
  PROVE  (a + b) \div 2 \in Int /\ a <= (a + b) \div 2 /\ (a + b) \div 2 <= b
OBVIOUS

ProbeTypes == /\ lo \in Int /\ hi \in Int /\ best \in Int
              /\ path \in Nat /\ widest \in Nat /\ path <= widest
              /\ misled \in BOOLEAN
              /\ phase \in {"idle", "floor", "search"}

\* Before the floor answers nothing is known; then best and hi close in on the path.
Narrowed == /\ phase = "floor" => lo = Floor + 1 /\ hi = Ceiling
            /\ phase = "search" => lo = best + 1 /\ hi <= Ceiling

PInv == ProbeTypes /\ Narrowed /\ Bracket

\* A size that was rejected is too big, or the probe is misled.
LEMMA RejectedStep ==
  ASSUME PInv, Sending, Rejected, phase = "search",
         misled' \in BOOLEAN, misled => misled', Size <= path => misled'
  PROVE  PInv'
<1> DEFINE mid == (lo + hi) \div 2
<1>1. /\ lo \in Int /\ hi \in Int /\ best \in Int /\ path \in Nat /\ widest \in Nat
      /\ lo <= hi /\ lo = best + 1 /\ hi <= Ceiling /\ best <= widest /\ path <= widest
      /\ Ceiling \in Nat
  BY MTUProbeAssumption DEF PInv, ProbeTypes, Narrowed, Bracket, Sending
<1>2. mid \in Int /\ lo <= mid /\ mid <= hi
  BY <1>1, Middle
<1>3. Size = mid
  BY DEF Size
<1> HIDE DEF mid
<1>4. /\ hi' = mid - 1 /\ phase' = "search" /\ lo' = lo /\ best' = best
      /\ path' = path /\ widest' = widest
  BY <1>3 DEF Rejected, Sending
<1>5. ProbeTypes' /\ Narrowed'
  BY <1>1, <1>2, <1>4 DEF ProbeTypes, Narrowed
<1>6. best < lo /\ best <= mid - 1
  BY <1>1, <1>2
<1>7. ~misled' => best <= path /\ path <= mid - 1
  BY <1>1, <1>2, <1>3 DEF PInv, Bracket
<1>8. Bracket'
  BY <1>1, <1>4, <1>6, <1>7 DEF Bracket
<1> QED
  BY <1>5, <1>8 DEF PInv

\* A probe that fails, at the floor or by an error, leaves no search behind.
LEMMA NothingStep ==
  ASSUME PInv, phase' = "idle", UNCHANGED <<search, path, widest>>, misled' \in BOOLEAN
  PROVE  PInv'
BY DEF PInv, ProbeTypes, Narrowed, Bracket, search

\* An echo reply raises the lower bound past the size that got through.
LEMMA EchoReplyStep == PInv /\ EchoReply => PInv'
<1> SUFFICES ASSUME PInv, EchoReply
             PROVE  PInv'
  OBVIOUS
<1>1. /\ phase' = "search" /\ best' = Size /\ lo' = Size + 1 /\ hi' = hi /\ misled' = misled
      /\ path' = path /\ widest' = widest /\ Size <= path
  BY DEF EchoReply, Sending
<1>2. /\ lo \in Int /\ hi \in Int /\ best \in Int /\ path \in Nat /\ widest \in Nat
      /\ path <= widest /\ Floor \in Nat /\ Ceiling \in Nat /\ Floor < Ceiling
      /\ misled \in BOOLEAN
  BY MTUProbeAssumption DEF PInv, ProbeTypes
<1>3. Size \in Int /\ Size <= hi /\ hi <= Ceiling
  <2>1. CASE phase = "floor"
    BY <1>2, <2>1 DEF PInv, Narrowed, Size
  <2>2. CASE phase = "search"
    <3>1. lo <= hi /\ hi <= Ceiling /\ Size = (lo + hi) \div 2
      BY <2>2 DEF PInv, Narrowed, EchoReply, Sending, Size
    <3> QED
      BY <1>2, <3>1, Middle
  <2> QED
    BY <2>1, <2>2 DEF EchoReply, Sending
<1>4. ~misled => path <= hi \/ hi = Ceiling
  BY DEF PInv, Narrowed, Bracket, EchoReply, Sending
<1>5. ProbeTypes' /\ Narrowed'
  BY <1>1, <1>2, <1>3 DEF ProbeTypes, Narrowed
<1>6. Bracket'
  <2> DEFINE m == Size
  <2>1. m \in Int /\ m <= hi /\ m <= path /\ m < m + 1 /\ m <= widest
    BY <1>1, <1>2, <1>3
  <2> HIDE DEF m
  <2>2. best' = m /\ lo' = m + 1
    BY <1>1 DEF m
  <2> QED
    BY <1>1, <1>4, <2>1, <2>2 DEF Bracket
<1> QED
  BY <1>5, <1>6 DEF PInv

\* The first bisection starts with every size still possible.
LEMMA InitProbe == ProbeInit => PInv
<1> SUFFICES ASSUME ProbeInit
             PROVE  PInv
  OBVIOUS
<1>1. /\ phase = "idle" /\ lo = Floor + 1 /\ hi = Ceiling /\ best = Floor
      /\ path \in Nat /\ widest = path /\ misled = FALSE
  BY MTUProbeAssumption DEF ProbeInit
<1>2. Floor + 1 \in Int /\ Floor \in Int /\ Ceiling \in Int /\ path <= path
  <2>1. Floor \in Nat /\ Ceiling \in Nat
    BY MTUProbeAssumption
  <2> QED
    BY <1>1, <2>1
<1>3. ProbeTypes
  BY <1>1, <1>2 DEF ProbeTypes
<1> QED
  BY <1>1, <1>3 DEF PInv, Narrowed, Bracket

\* Every step of the probe, and every change of the path, keeps the invariant.
LEMMA ProbeInvariance == PInv /\ [ProbeNext]_probeVars => PInv'
<1> SUFFICES ASSUME PInv, [ProbeNext]_probeVars
             PROVE  PInv'
  OBVIOUS
<1>1. CASE BeginProbe
  <2>1. /\ phase' = "floor" /\ lo' = Floor + 1 /\ hi' = Ceiling /\ best' = Floor
        /\ path' = path /\ widest' = path /\ misled' = FALSE
    BY <1>1 DEF BeginProbe
  <2>2. path \in Nat /\ Floor + 1 \in Int /\ Floor \in Int /\ Ceiling \in Int /\ path <= path
    <3>1. path \in Nat /\ Floor \in Nat /\ Ceiling \in Nat
      BY MTUProbeAssumption DEF PInv, ProbeTypes
    <3> QED
      BY <3>1
  <2>3. ProbeTypes'
    BY <2>1, <2>2 DEF ProbeTypes
  <2> QED
    BY <2>1, <2>3 DEF PInv, Narrowed, Bracket
<1>2. CASE EchoReply
  BY <1>2, EchoReplyStep
<1>3. CASE TooBig
  <2>1. Size \in Int /\ path \in Nat /\ misled' = misled /\ misled \in BOOLEAN /\ ~(Size <= path)
    <3>1. lo \in Int /\ hi \in Int /\ Floor \in Nat /\ path \in Nat /\ misled \in BOOLEAN
      BY MTUProbeAssumption DEF PInv, ProbeTypes
    <3>2. Size \in Int
      BY <3>1 DEF Size
    <3> QED
      BY <1>3, <3>1, <3>2 DEF TooBig
  <2>2. CASE phase = "search"
    BY <1>3, <2>1, <2>2, RejectedStep DEF TooBig
  <2>3. CASE phase = "floor"
    BY <1>3, <2>1, <2>3, NothingStep DEF TooBig, Rejected, MeasuredNothing, Sending
  <2> QED
    BY <1>3, <2>2, <2>3 DEF TooBig, Sending
<1>4. CASE NoReply
  <2>1. CASE UNCHANGED <<phase, search, result, misled>>
    BY <1>4, <2>1 DEF NoReply, Sending, search, PInv, ProbeTypes, Narrowed, Bracket
  <2>2. CASE Rejected /\ misled' = (misled \/ Size <= path)
    <3>1. misled' \in BOOLEAN
      BY <2>2
    <3>2. CASE phase = "search"
      BY <1>4, <2>2, <3>1, <3>2, RejectedStep DEF NoReply
    <3>3. CASE phase = "floor"
      BY <1>4, <2>2, <3>1, <3>3, NothingStep DEF NoReply, Rejected, MeasuredNothing, Sending
    <3> QED
      BY <1>4, <3>2, <3>3 DEF NoReply, Sending
  <2> QED
    BY <1>4, <2>1, <2>2 DEF NoReply
<1>5. CASE Error
  <2>1. misled' \in BOOLEAN
    BY <1>5 DEF Error, PInv, ProbeTypes
  <2> QED
    BY <1>5, <2>1, NothingStep DEF Error, MeasuredNothing, Sending
<1>6. CASE Conclude
  <2>1. misled' \in BOOLEAN
    BY <1>6 DEF Conclude, probeHistory, PInv, ProbeTypes
  <2> QED
    BY <1>6, <2>1, NothingStep DEF Conclude, probeHistory
<1>7. CASE PathChanges
  <2> PICK p \in Paths \ {path} : /\ path' = p /\ widest' = Wider(widest, p)
                                  /\ misled' = (misled \/ phase # "idle")
                                  /\ UNCHANGED <<phase, search, tries, result, round, packets>>
    BY <1>7 DEF PathChanges
  <2>1. p \in Nat /\ widest \in Nat /\ best \in Int
    BY MTUProbeAssumption DEF PInv, ProbeTypes
  <2>2. widest' \in Nat /\ p <= widest' /\ widest <= widest'
    BY <2>1 DEF Wider
  <2>3. ProbeTypes' /\ Narrowed'
    BY <2>1, <2>2 DEF PInv, ProbeTypes, Narrowed, search
  <2>4. phase = "search" => best <= widest'
    BY <2>1, <2>2 DEF PInv, Bracket
  <2>5. Bracket'
    BY <2>4 DEF PInv, Bracket, search
  <2> QED
    BY <2>3, <2>5 DEF PInv
<1>8. CASE UNCHANGED probeVars
  BY <1>8 DEF probeVars, search, probeHistory, PInv, ProbeTypes, Narrowed, Bracket
<1> QED
  BY <1>1, <1>2, <1>3, <1>4, <1>5, <1>6, <1>7, <1>8 DEF ProbeNext, ProbeStep

\* mtuProbe, for every floor, ceiling and path: the bounds of the bisection keep
\* their order and their meaning (probes.go:190-204).
THEOREM ProbeInvariant == ProbeSpec => []PInv
BY InitProbe, ProbeInvariance, PTL DEF ProbeSpec

\* The bisection keeps the answer, whatever is lost and however the path changes
\* (mtuProbe, probes.go:190-204).
THEOREM BracketHolds == ProbeSpec => []Bracket
<1>1. PInv => Bracket
  BY DEF PInv
<1> QED
  BY <1>1, ProbeInvariant, PTL

\* A reported MTU was carried by the path, and is the path's unless the probe was
\* misled (mtuProbe, dfPing and the MTU part of doLANChecks).
THEOREM MeasuredHolds == ProbeSpec => Measured
<1> DEFINE Report == phase = "search" /\ phase' = "idle" /\ lastOK' =>
                       /\ snapMTU'.MTUDetected <= widest
                       /\ ~misled => snapMTU'.MTUDetected = IF path < Ceiling THEN path ELSE Ceiling
<1>1. PInv /\ ProbeNext => Report
  <2> SUFFICES ASSUME PInv, ProbeNext, phase = "search", phase' = "idle", lastOK'
               PROVE  /\ snapMTU'.MTUDetected <= widest
                      /\ ~misled => snapMTU'.MTUDetected = IF path < Ceiling THEN path ELSE Ceiling
    OBVIOUS
  <2>1. Conclude
    BY DEF ProbeNext, ProbeStep, BeginProbe, EchoReply, TooBig, NoReply, Error, PathChanges, Rejected, MeasuredNothing
  <2>2. snapMTU'.MTUDetected = best /\ lo > hi
    BY <2>1 DEF Conclude
  <2>3. /\ lo \in Int /\ hi \in Int /\ best \in Int /\ path \in Nat /\ widest \in Nat
        /\ lo = best + 1 /\ best <= hi /\ best <= widest /\ hi <= Ceiling /\ Ceiling \in Nat
        /\ ~misled => best <= path /\ (path <= hi \/ hi = Ceiling)
    BY MTUProbeAssumption DEF PInv, ProbeTypes, Narrowed, Bracket
  <2>4. ~misled => best = IF path < Ceiling THEN path ELSE Ceiling
    BY <2>2, <2>3
  <2> QED
    BY <2>2, <2>3, <2>4
<1>2. PInv /\ [ProbeNext]_probeVars => [Report]_probeVars
  BY <1>1
<1> QED
  BY <1>2, ProbeInvariant, PTL DEF ProbeSpec, Measured

-----------------------------------------------------------------------------
(***************************************************************************)
(* The packets of a probe.  Each size that is sent, with its Tries tries,  *)
(* at least halves the sizes that are left.                                *)
(***************************************************************************)

\* How often n sizes can be halved before none is left, for less than 1024 of them.
Halvings(n) == CASE n < 1 -> 0
                 [] n \in 1 .. 1 -> 1
                 [] n \in 2 .. 3 -> 2
                 [] n \in 4 .. 7 -> 3
                 [] n \in 8 .. 15 -> 4
                 [] n \in 16 .. 31 -> 5
                 [] n \in 32 .. 63 -> 6
                 [] n \in 64 .. 127 -> 7
                 [] n \in 128 .. 255 -> 8
                 [] n \in 256 .. 511 -> 9
                 [] OTHER -> 10

\* At most half of a range takes one halving less.
LEMMA HalvingsDrop ==
  ASSUME NEW n \in Int, 1 <= n, n < 1024, NEW m \in Int, 2 * m <= n
  PROVE  Halvings(m) + 1 <= Halvings(n)
  BY SMTT(60) DEF Halvings

\* At most ten halvings, and none of an empty range.
LEMMA HalvingsType ==
  ASSUME NEW n \in Int
  PROVE  Halvings(n) \in 0 .. 10 /\ (n < 1 <=> Halvings(n) = 0)
  BY DEF Halvings

\* Tries times a number grows by Tries at least when the number grows.
LEMMA TriesTimes ==
  ASSUME NEW i \in Nat, NEW j \in Nat, i + 1 <= j
  PROVE  /\ Tries * i \in Nat /\ Tries * j \in Nat
         /\ Tries * i + Tries <= Tries * j
<1>1. Tries \in Nat \ {0}
  BY MTUProbeAssumption
<1> DEFINE d == j - (i + 1)
<1>2. d \in Nat /\ j = i + 1 + d
  OBVIOUS
<1> HIDE DEF d
<1>3. Tries * d \in Nat
  BY <1>1, <1>2
<1>4. Tries * (i + 1 + d) = Tries * i + Tries + Tries * d
  BY <1>1, <1>2
<1>5. Tries * i \in Nat
  BY <1>1
<1> QED
  BY <1>1, <1>2, <1>3, <1>4, <1>5

\* The packets sent so far are those of the sizes that are done with and of the one that
\* is tried.
Spent == /\ tries \in Nat /\ tries < Tries
         /\ packets \in Nat
         /\ phase = "idle" => packets <= Tries * 11
         /\ phase = "floor" => packets <= tries
         /\ phase = "search" => /\ packets <= Tries * (11 - Halvings(hi - lo + 1)) + tries
                                /\ hi - lo + 1 < 1024
                                /\ lo > hi => tries = 0

\* As long as a size is tried, one packet more fits.
LEMMA SendingSpends ==
  ASSUME PInv, Spent, Sending, MaxPackets >= Tries * 11
  PROVE  /\ packets' = packets + 1 /\ packets + 1 <= MaxPackets
         /\ phase = "search" => /\ Halvings(hi - lo + 1) \in 1 .. 10
                                /\ packets + 1 <= Tries * (11 - Halvings(hi - lo + 1)) + Tries
                                /\ Tries * (11 - Halvings(hi - lo + 1)) + Tries <= Tries * 11
<1>1. /\ Tries \in Nat \ {0} /\ MaxPackets \in Nat /\ packets \in Nat /\ tries \in Nat
      /\ tries < Tries /\ lo \in Int /\ hi \in Int
  BY MTUProbeAssumption DEF PInv, ProbeTypes, Spent
<1>2. packets' = IF packets > MaxPackets THEN packets ELSE packets + 1
  BY DEF Sending
<1>3. CASE phase = "floor"
  <2>1. packets <= tries
    BY <1>3 DEF Spent
  <2>2. packets + 1 <= Tries /\ Tries <= Tries * 11
    BY <1>1, <2>1
  <2> QED
    BY <1>1, <1>2, <1>3, <2>2
<1>4. CASE phase = "search"
  <2> DEFINE h == Halvings(hi - lo + 1)
             s == Tries * (11 - h)
  <2>1. lo <= hi /\ packets <= s + tries
    BY <1>4 DEF Sending, Spent
  <2>2. h \in 1 .. 10
    <3>1. hi - lo + 1 \in Int /\ ~(hi - lo + 1 < 1)
      BY <1>1, <2>1
    <3>2. h \in 0 .. 10 /\ h # 0
      BY <3>1, HalvingsType
    <3> QED
      BY <3>2
  <2> HIDE DEF h
  <2>3. 11 - h \in Nat /\ 11 - h + 1 <= 11
    BY <2>2
  <2>4. s \in Nat /\ Tries * 11 \in Nat /\ s + Tries <= Tries * 11
    BY <2>3, TriesTimes
  <2> HIDE DEF s
  <2>5. packets + 1 <= s + Tries /\ packets + 1 <= MaxPackets
    BY <1>1, <2>1, <2>4
  <2> QED
    BY <1>1, <1>2, <1>4, <2>2, <2>4, <2>5 DEF h, s
<1> QED
  BY <1>3, <1>4 DEF Sending

\* A size that is done with leaves at most half of the sizes.
LEMMA SizeDone ==
  ASSUME PInv, Spent, Sending, phase = "search", MaxPackets >= Tries * 11,
         phase' = "search", tries' = 0,
         \/ lo' = Size + 1 /\ hi' = hi
         \/ lo' = lo /\ hi' = Size - 1
  PROVE  Spent'
<1> DEFINE n == hi - lo + 1
           m == hi' - lo' + 1
           h == Halvings(n)
           k == Halvings(m)
<1>1. lo \in Int /\ hi \in Int /\ lo <= hi /\ Size = (lo + hi) \div 2
  BY DEF PInv, ProbeTypes, Sending, Size
<1>2. m \in Int /\ 2 * m <= n /\ n \in Int /\ 1 <= n
  BY <1>1
<1>3. n < 1024
  BY DEF Spent
<1> HIDE DEF n, m
<1>4. k + 1 <= h /\ k \in 0 .. 10 /\ h \in 0 .. 10
  BY <1>2, <1>3, HalvingsDrop, HalvingsType
<1>5. m < 1024
  BY <1>2, <1>3
<1>6. packets' = packets + 1 /\ packets + 1 <= Tries * (11 - h) + Tries
  BY SendingSpends DEF h, n
<1> HIDE DEF h, k
<1>7. Tries * (11 - h) + Tries <= Tries * (11 - k) /\ Tries * (11 - k) \in Nat
      /\ Tries * (11 - h) \in Nat
  <2>1. 11 - h \in Nat /\ 11 - k \in Nat /\ 11 - h + 1 <= 11 - k
    BY <1>4
  <2> QED
    BY <2>1, TriesTimes
<1>8. packets' \in Nat /\ Tries \in Nat \ {0}
  BY <1>6, MTUProbeAssumption DEF Spent
<1>9. packets' <= Tries * (11 - k) + 0
  BY <1>6, <1>7, <1>8
<1> QED
  BY <1>5, <1>8, <1>9 DEF Spent, k, m

\* No more than eleven sizes are ever sent.
LEMMA SpentBound ==
  ASSUME PInv, Spent
  PROVE  packets <= Tries * 11
<1>0. /\ Tries \in Nat \ {0} /\ packets \in Nat /\ tries \in Nat /\ tries < Tries
      /\ Tries * 11 \in Nat /\ 0 <= Tries * 11 /\ Tries <= Tries * 11
  BY MTUProbeAssumption DEF Spent
<1>1. CASE phase = "search" /\ ~(lo > hi)
  <2>1. lo \in Int /\ hi \in Int
    BY DEF PInv, ProbeTypes
  <2> DEFINE h == Halvings(hi - lo + 1)
  <2>2. h \in 0 .. 10 /\ h # 0
    <3>1. hi - lo + 1 \in Int /\ ~(hi - lo + 1 < 1)
      BY <1>1, <2>1
    <3> QED
      BY <3>1, HalvingsType
  <2>3. packets <= Tries * (11 - h) + tries
    BY <1>1 DEF Spent
  <2> HIDE DEF h
  <2>4. Tries * (11 - h) + Tries <= Tries * 11 /\ Tries * (11 - h) \in Nat
    <3>1. 11 - h \in Nat /\ 11 - h + 1 <= 11
      BY <2>2
    <3> QED
      BY <3>1, TriesTimes
  <2> QED
    BY <1>0, <2>3, <2>4
<1>2. CASE phase = "search" /\ lo > hi
  <2>1. hi - lo + 1 \in Int /\ hi - lo + 1 < 1 /\ tries = 0
    BY <1>2 DEF PInv, ProbeTypes, Spent
  <2>2. Halvings(hi - lo + 1) = 0
    BY <2>1, HalvingsType
  <2> QED
    BY <1>0, <1>2, <2>1, <2>2 DEF Spent
<1>3. CASE phase # "search"
  BY <1>0, <1>3 DEF Spent, PInv, ProbeTypes
<1> QED
  BY <1>1, <1>2, <1>3

\* Nothing has been sent before the first probe.
LEMMA SpentInit == ProbeInit => Spent
<1> SUFFICES ASSUME ProbeInit PROVE Spent
  OBVIOUS
<1>1. phase = "idle" /\ tries = 0 /\ packets = 0 /\ Tries \in Nat \ {0} /\ 0 <= Tries * 11
  BY MTUProbeAssumption DEF ProbeInit
<1> QED
  BY <1>1 DEF Spent

\* Every step keeps the account of the packets.
LEMMA SpentStep ==
  ASSUME Ceiling - Floor < 1024, MaxPackets >= Tries * 11,
         PInv, Spent, [ProbeNext]_probeVars
  PROVE  Spent'
<1>1. /\ Tries \in Nat \ {0} /\ MaxPackets \in Nat /\ packets \in Nat /\ tries \in Nat
      /\ tries < Tries /\ Floor \in Nat /\ Ceiling \in Nat /\ Floor < Ceiling
      /\ Tries * 11 \in Nat /\ 0 <= Tries * 11 /\ Tries <= Tries * 11
  BY MTUProbeAssumption DEF Spent
<1>2. packets <= Tries * 11
  BY SpentBound
<1>3. ASSUME phase' = "idle", tries' = 0, Sending PROVE Spent'
  <2>1. packets' = packets + 1 /\ packets + 1 <= Tries * 11
    <3>1. CASE phase = "search"
      BY <1>1, <1>3, <3>1, SendingSpends
    <3>2. CASE phase = "floor"
      BY <1>1, <1>3, <3>2, SendingSpends DEF Spent
    <3> QED
      BY <1>3, <3>1, <3>2 DEF Sending
  <2> QED
    BY <1>1, <1>3, <2>1 DEF Spent
<1>4. CASE BeginProbe
  BY <1>1, <1>4 DEF BeginProbe, Spent
<1>5. CASE EchoReply
  <2>1. phase' = "search" /\ lo' = Size + 1 /\ hi' = hi /\ tries' = 0 /\ Sending
    BY <1>5 DEF EchoReply
  <2>2. CASE phase = "search"
    BY <2>1, <2>2, SizeDone
  <2>3. CASE phase = "floor"
    <3>1. hi' - lo' + 1 = Ceiling - Floor
      BY <1>1, <2>1, <2>3 DEF PInv, Narrowed, Size
    <3>2. packets' = packets + 1 /\ packets <= tries
      BY <1>1, <2>1, <2>3, SendingSpends DEF Spent
    <3> DEFINE k == Halvings(hi' - lo' + 1)
    <3>3. k \in 0 .. 10 /\ hi' - lo' + 1 < 1024 /\ ~(lo' > hi')
      <4>1. Ceiling - Floor \in Int
        BY <1>1
      <4>2. Halvings(Ceiling - Floor) \in 0 .. 10
        BY <4>1, HalvingsType
      <4>3. lo' = Floor + 1 /\ hi' = Ceiling
        BY <2>1, <2>3 DEF PInv, Narrowed, Size
      <4> QED
        BY <1>1, <3>1, <4>2, <4>3
    <3> HIDE DEF k
    <3>4. Tries <= Tries * (11 - k) /\ Tries * (11 - k) \in Nat
      <4>1. 0 \in Nat /\ 11 - k \in Nat /\ 0 + 1 <= 11 - k
        BY <3>3
      <4>2. Tries * 0 + Tries <= Tries * (11 - k) /\ Tries * (11 - k) \in Nat
        BY <4>1, TriesTimes
      <4> QED
        BY <1>1, <4>2
    <3>5. packets' <= Tries * (11 - k) + 0
      BY <1>1, <3>2, <3>4
    <3> QED
      BY <1>1, <2>1, <3>2, <3>3, <3>5 DEF Spent, k
  <2> QED
    BY <2>1, <2>2, <2>3 DEF Sending
<1>6. ASSUME Sending, Rejected PROVE Spent'
  <2>1. CASE phase = "search"
    <3>1. hi' = Size - 1 /\ lo' = lo /\ phase' = "search" /\ tries' = 0
      BY <1>6, <2>1 DEF Rejected
    <3> QED
      BY <1>6, <2>1, <3>1, SizeDone
  <2>2. CASE phase = "floor"
    BY <1>3, <1>6, <2>2 DEF Rejected, MeasuredNothing
  <2> QED
    BY <1>6, <2>1, <2>2 DEF Sending
<1>7. CASE TooBig
  BY <1>6, <1>7 DEF TooBig
<1>8. CASE NoReply
  <2>1. CASE Rejected
    BY <1>6, <1>8, <2>1 DEF NoReply
  <2>2. CASE tries + 1 < Tries /\ tries' = tries + 1 /\ UNCHANGED <<phase, search>>
    <3>1. packets' = packets + 1 /\ Sending
      BY <1>8, SendingSpends DEF NoReply
    <3>2. CASE phase = "floor"
      BY <1>1, <2>2, <3>1, <3>2 DEF Spent, search
    <3>3. CASE phase = "search"
      <4> DEFINE s == Tries * (11 - Halvings(hi - lo + 1))
      <4>1. packets <= s + tries /\ hi - lo + 1 < 1024 /\ lo <= hi /\ lo \in Int /\ hi \in Int
        BY <3>1, <3>3 DEF Spent, Sending, PInv, ProbeTypes
      <4>2. s \in Int
        <5>1. hi - lo + 1 \in Int
          BY <4>1
        <5>2. Halvings(hi - lo + 1) \in 0 .. 10
          BY <5>1, HalvingsType
        <5> QED
          BY <1>1, <5>2
      <4>3. s' = s
        BY <2>2 DEF search, Halvings
      <4> HIDE DEF s
      <4>4. packets' <= s + tries'
        BY <1>1, <2>2, <3>1, <4>1, <4>2
      <4>5. packets' <= (Tries * (11 - Halvings(hi - lo + 1)))' + tries'
        BY <4>3, <4>4 DEF s
      <4> QED
        BY <1>1, <2>2, <3>1, <3>3, <4>1, <4>5 DEF Spent, search
    <3> QED
      BY <3>1, <3>2, <3>3 DEF Sending
  <2> QED
    BY <1>8, <2>1, <2>2 DEF NoReply
<1>9. CASE Error
  BY <1>3, <1>9 DEF Error, MeasuredNothing
<1>10. CASE Conclude
  BY <1>1, <1>2, <1>10 DEF Conclude, Spent, probeHistory
<1>11. CASE PathChanges \/ UNCHANGED probeVars
  <2>1. UNCHANGED <<phase, lo, hi, tries, packets>>
    BY <1>11 DEF PathChanges, probeVars, search, probeHistory
  <2>2. Halvings(hi - lo + 1)' = Halvings(hi - lo + 1)
    BY <2>1 DEF Halvings
  <2> QED
    BY <2>1, <2>2 DEF Spent
<1> QED
  BY <1>4, <1>5, <1>7, <1>8, <1>9, <1>10, <1>11 DEF ProbeNext, ProbeStep

\* The main loop waits for the probe: with less than 1024 sizes above the floor, as
\* between 576 and 1500, a probe costs no more than eleven sizes of Tries packets each,
\* whatever is lost and however the path changes (mtuProbe, probes.go:181-204).
THEOREM ProbeCosts ==
  ASSUME Ceiling - Floor < 1024, MaxPackets >= Tries * 11
  PROVE  ProbeSpec => []ProbeIsBounded
<1>1. ProbeInit => PInv /\ Spent
  BY InitProbe, SpentInit
<1>2. PInv /\ Spent /\ [ProbeNext]_probeVars => (PInv /\ Spent)'
  BY ProbeInvariance, SpentStep
<1>3. PInv /\ Spent => ProbeIsBounded
  <2> SUFFICES ASSUME PInv, Spent PROVE ProbeIsBounded
    OBVIOUS
  <2>1. packets <= Tries * 11 /\ packets \in Nat /\ Tries * 11 \in Nat /\ MaxPackets \in Nat
    BY SpentBound, MTUProbeAssumption DEF Spent
  <2> QED
    BY <2>1 DEF ProbeIsBounded
<1> QED
  BY <1>1, <1>2, <1>3, PTL DEF ProbeSpec

-----------------------------------------------------------------------------
(* The kernel's TCP counters, of the module KernelStats. *)

KInv == /\ CountersTypeOK
        /\ ReportedOnce
        /\ RowsShowErrors
        /\ ~initialized => delta = Zeros /\ reported = Zeros

\* The two ways to write a record of counters.
LEMMA PointwiseFacts ==
  ASSUME NEW a \in Readings, NEW b \in Readings
  PROVE  /\ Zeros \in Readings
         /\ Plus(a, b) \in Readings
         /\ \A c \in Counters : Plus(a, b)[c] = a[c] + b[c]
         /\ \A c \in Counters : Minus(a, b)[c] = a[c] - b[c]
         /\ (\A c \in Counters : b[c] <= a[c]) => Minus(a, b) \in Readings
  BY DEF Readings, Zeros, Plus, Minus

\* The errors of a reading, and of two added up.
LEMMA ErrorFacts ==
  ASSUME NEW a \in Readings, NEW b \in Readings
  PROVE  /\ Errors(a) \in Nat
         /\ Errors(Plus(a, b)) = Errors(a) + Errors(b)
         /\ Errors(Zeros) = 0
  BY KernelStatsAssumption DEF Errors, Readings, Plus, Zeros

\* The daemon starts with nothing reported.
LEMMA KernelInit == CountersInit => KInv
<1> SUFFICES ASSUME CountersInit PROVE KInv
  OBVIOUS
<1>1. counter \in Readings
  BY KernelStatsAssumption DEF CountersInit, Readings
<1>2. Zeros \in Readings
  BY DEF Zeros, Readings
<1>3. CountersTypeOK
  BY <1>1, <1>2 DEF CountersInit, CountersTypeOK
<1>4. ReportedOnce
  BY <1>1 DEF CountersInit, ReportedOnce, Readings, Zeros
<1>5. RowsShowErrors
  BY <1>2, ErrorFacts DEF CountersInit, RowsShowErrors
<1> QED
  BY <1>3, <1>4, <1>5 DEF CountersInit, KInv

\* A reading reports what has come since the one before it.
LEMMA KernelRead == KInv /\ Read => KInv'
<1> SUFFICES ASSUME KInv, Read PROVE KInv'
  OBVIOUS
<1>1. CountersTypeOK /\ ReportedOnce
  BY DEF KInv
<1>2. prev' = counter /\ counter' = counter /\ initialized' = TRUE
  BY DEF Read, Update
<1>3. reported' = Plus(reported, delta') /\ changes' = delta'
  BY DEF Read
<1>4. first' = IF initialized THEN first ELSE counter
  BY DEF Read
<1> DEFINE e == Errors(delta')
<1>5. rows' = rows + e /\ faults' = faults
  BY DEF Read
<1>6. ASSUME e \in Nat, Errors(reported') = Errors(reported) + e
      PROVE  RowsShowErrors'
  <2>1. Errors(reported) \in Nat /\ rows \in Nat
    BY <1>1, ErrorFacts DEF CountersTypeOK
  <2>2. Errors(reported) <= rows /\ (faults = 0 => rows = Errors(reported))
    BY DEF KInv, RowsShowErrors
  <2>3. Errors(reported)' = Errors(reported')
    BY DEF Errors
  <2> HIDE DEF e
  <2> QED
    BY <1>5, <1>6, <2>1, <2>2, <2>3 DEF RowsShowErrors
<1>7. CASE initialized
  <2>1. delta' = Minus(counter, prev)
    BY <1>7 DEF Read, Update
  <2>2. /\ delta' \in Readings
        /\ \A c \in Counters : delta'[c] = counter[c] - prev[c]
    BY <1>1, <2>1, PointwiseFacts DEF CountersTypeOK, ReportedOnce
  <2>3. /\ reported' \in Readings
        /\ \A c \in Counters : reported'[c] = reported[c] + delta'[c]
    BY <1>1, <1>3, <2>2, PointwiseFacts DEF CountersTypeOK
  <2>4. first' = first
    BY <1>4, <1>7
  <2>7. e \in Nat /\ Errors(reported') = Errors(reported) + e
    BY <1>1, <1>3, <2>2, ErrorFacts DEF CountersTypeOK
  <2>5. CountersTypeOK'
    BY <1>1, <1>2, <1>3, <1>5, <2>2, <2>3, <2>4, <2>7 DEF CountersTypeOK, Read
  <2>6. ReportedOnce'
    BY <1>1, <1>2, <2>2, <2>3, <2>4 DEF ReportedOnce, CountersTypeOK, Readings
  <2> QED
    BY <1>2, <1>6, <2>5, <2>6, <2>7 DEF KInv
<1>8. CASE ~initialized
  <2>1. delta' = Zeros /\ reported = Zeros /\ first' = counter
    BY <1>4, <1>8 DEF Read, Update, KInv
  <2>2. reported' = Zeros
    BY <1>3, <2>1 DEF Plus, Zeros
  <2>5. e = 0 /\ Errors(reported') = Errors(reported) + e
    BY <1>1, <2>1, <2>2, ErrorFacts DEF CountersTypeOK
  <2>3. CountersTypeOK'
    BY <1>1, <1>2, <1>3, <1>5, <2>1, <2>2, <2>5, PointwiseFacts DEF CountersTypeOK, Read
  <2>4. ReportedOnce'
    BY <1>1, <1>2, <2>1, <2>2
    DEF ReportedOnce, CountersTypeOK, Readings, Zeros
  <2> QED
    BY <1>2, <1>6, <2>3, <2>4, <2>5 DEF KInv
<1> QED
  BY <1>7, <1>8

\* A failed read leaves the baseline alone.
LEMMA KernelReadFails == KInv /\ ReadFails => KInv'
<1> SUFFICES ASSUME KInv, ReadFails PROVE KInv'
  OBVIOUS
<1>1. UNCHANGED <<counter, prev, delta, initialized, changes, first, reported>>
  BY DEF ReadFails, tracker
<1>2. /\ faults' = faults + 1 /\ rows' = rows + Errors(delta)
      /\ faults \in Nat /\ rows \in Nat
  BY DEF ReadFails, KInv, CountersTypeOK
<1>3. Errors(delta) \in Nat /\ Errors(reported) \in Nat
  BY ErrorFacts DEF KInv, CountersTypeOK
<1>4. CountersTypeOK'
  BY <1>1, <1>2, <1>3 DEF KInv, CountersTypeOK
<1>5. RowsShowErrors'
  <2>1. Errors(reported)' = Errors(reported)
    BY <1>1 DEF Errors
  <2> QED
    BY <1>2, <1>3, <2>1 DEF KInv, RowsShowErrors
<1>6. ReportedOnce'
  BY <1>1 DEF KInv, ReportedOnce
<1>7. (~initialized => delta = Zeros /\ reported = Zeros)'
  BY <1>1 DEF KInv, Zeros
<1> QED
  BY <1>4, <1>6, <1>7, <1>5 DEF KInv

\* The counters only grow.
LEMMA KernelCounts == ASSUME NEW c \in Counters PROVE KInv /\ Count(c) => KInv'
<1> SUFFICES ASSUME KInv, Count(c) PROVE KInv'
  OBVIOUS
<1>1. UNCHANGED <<prev, delta, initialized, changes, first, reported, faults, rows>>
  BY DEF Count, tracker, history
<1>2. /\ counter' \in Readings
      /\ \A d \in Counters : counter[d] <= counter'[d]
  BY DEF Count, KInv, CountersTypeOK, Readings
<1>3. \A d \in Counters : prev[d] \in Nat /\ counter[d] \in Nat /\ counter'[d] \in Nat
  BY <1>2 DEF KInv, CountersTypeOK, Readings
<1>4. \A d \in Counters : prev[d] <= counter'[d]
  BY <1>2, <1>3 DEF KInv, ReportedOnce
<1>5. RowsShowErrors'
  BY <1>1 DEF KInv, RowsShowErrors, Errors
<1> QED
  BY <1>1, <1>2, <1>4, <1>5 DEF KInv, CountersTypeOK, ReportedOnce

\* Each step keeps the figures together.
LEMMA KernelStep == KInv /\ [CountersNext]_countersVars => KInv'
<1> SUFFICES ASSUME KInv, [CountersNext]_countersVars PROVE KInv'
  OBVIOUS
<1>1. CASE Read
  BY <1>1, KernelRead
<1>2. CASE ReadFails
  BY <1>2, KernelReadFails
<1>3. CASE \E c \in Counters : Count(c)
  BY <1>3, KernelCounts
<1>4. CASE UNCHANGED countersVars
  BY <1>4 DEF countersVars, tracker, history, KInv, CountersTypeOK,
              ReportedOnce, RowsShowErrors, Errors
<1> QED
  BY <1>1, <1>2, <1>3, <1>4 DEF CountersNext

\* Every event the kernel counted is in exactly one of the changes the daemon shows.
THEOREM Reported == CountersSpec => []ReportedOnce
<1>1. KInv => ReportedOnce
  BY DEF KInv
<1> QED
  BY <1>1, KernelInit, KernelStep, PTL DEF CountersSpec

\* The graph has every error that was reported, and others only after failed reads.
THEOREM RowsShown == CountersSpec => []RowsShowErrors
<1>1. KInv => RowsShowErrors
  BY DEF KInv
<1> QED
  BY <1>1, KernelInit, KernelStep, PTL DEF CountersSpec

-----------------------------------------------------------------------------
(* The LAN diagnosis, of the module LANDiag. *)

\* The tests there are.
Router == {Test("router", p) : p \in {"ICMP", "TCP", "DNS"}}
Neighbours == {Test("lanHost", "ICMP"), Test("host", "ICMP")}
Internet == {Test("wan", p) : p \in {"ICMP", "TCP", "DNS"}}
Tests == Router \cup Neighbours \cup Internet

Types == /\ gateway \in BOOLEAN
         /\ stage \in {"router", "discover", "hosts", "done"}
         /\ todo \in Seq(Tests)
         /\ loss \in [Groups -> Nat] /\ count \in [Groups -> Nat]
         /\ failing \subseteq Tests /\ dead \subseteq failing /\ answered \subseteq Tests

\* A group has lost probes when one of its tests has, and all those of a dead one.
Tallies == /\ \A g \in Groups : loss[g] > 0 => \E t \in failing : GroupOf(t) = g
           /\ \A g \in Groups : loss[g] > 0 => count[g] > 0
           /\ \A t \in failing : GroupOf(t) # "none" => loss[GroupOf(t)] > 0
           /\ \A t \in dead : GroupOf(t) # "none" => loss[GroupOf(t)] >= Samples

\* Of n tests to do, those of neighbours and those of the Internet by ICMP and TCP: the
\* last of all are WANTests.
HostsLeft(n) == IF n > 8 THEN n - 8 ELSE 0
ICMPLeft(n) == CASE n > 7 -> 2 [] n = 7 -> 1 [] OTHER -> 0
TCPLeft(n) == CASE n > 5 -> 4 [] n \in 2 .. 5 -> n - 2 [] OTHER -> 0

\* The router's tests, and the list of neighbours.
Before == stage \in {"router", "discover"} =>
            /\ count["wanICMP"] = 0 /\ count["wanTCP"] = 0
            /\ stage = "router" => /\ \A k \in 1 .. Len(todo) : todo[k] \in Router
                                   /\ count["lan"] + Len(todo) <= 3
            /\ stage = "discover" => /\ \A k \in 1 .. Len(todo) : todo[k] \in Neighbours
                                     /\ count["lan"] <= 3 /\ Len(todo) <= Hosts

\* Then the neighbours' tests and those of the Internet, in this order.
Order == stage \in {"hosts", "done"} =>
           /\ \A k \in 1 .. Len(todo) - 8 : todo[k] \in Neighbours
           /\ \A k \in 1 .. 8 : Len(todo) - 8 + k >= 1 => todo[Len(todo) - 8 + k] = WANTests[k]

\* The tests that each group has had and will have.
Counts == stage \in {"hosts", "done"} =>
            /\ count["lan"] + HostsLeft(Len(todo)) <= 3 + Hosts
            /\ count["wanICMP"] + HostsLeft(Len(todo)) + ICMPLeft(Len(todo)) <= 2 + Hosts
            /\ count["wanTCP"] + TCPLeft(Len(todo)) = 4

\* As long as nothing on the Internet has answered, its tests have lost all their probes.
Silence == stage \in {"hosts", "done"} /\ Of("wan") \cap answered = {} =>
             /\ loss["wanICMP"] >= Samples * (2 - ICMPLeft(Len(todo)))
             /\ loss["wanTCP"] >= Samples * (4 - TCPLeft(Len(todo)))

\* The analysis is that of the last figures.
Analysed == IF stage = "done" THEN todo = << >> /\ verdicts = Verdicts ELSE verdicts = {}

IInv == Types /\ Tallies /\ Before /\ Order /\ Counts /\ Silence /\ Analysed

-----------------------------------------------------------------------------

\* The group of each test.
LEMMA GroupFacts ==
  /\ \A t \in Tests : GroupOf(t) \in Groups \cup {"none"} /\ t \in Kinds
  /\ \A t \in Router : GroupOf(t) = "lan"
  /\ GroupOf(Test("lanHost", "ICMP")) = "lan"
  /\ GroupOf(Test("host", "ICMP")) = "wanICMP"
  /\ GroupOf(Test("wan", "ICMP")) = "wanICMP"
  /\ GroupOf(Test("wan", "TCP")) = "wanTCP"
  /\ GroupOf(Test("wan", "DNS")) = "none"
<1>1. \A t \in Router : GroupOf(t) = "lan" /\ t \in Kinds
  BY DEF Router, Test, GroupOf, Kinds
<1>2. GroupOf(Test("lanHost", "ICMP")) = "lan" /\ Test("lanHost", "ICMP") \in Kinds
  BY DEF Test, GroupOf, Kinds
<1>3. GroupOf(Test("host", "ICMP")) = "wanICMP" /\ Test("host", "ICMP") \in Kinds
  BY DEF Test, GroupOf, Kinds
<1>4. GroupOf(Test("wan", "ICMP")) = "wanICMP" /\ Test("wan", "ICMP") \in Kinds
  BY DEF Test, GroupOf, Kinds
<1>5. GroupOf(Test("wan", "TCP")) = "wanTCP" /\ Test("wan", "TCP") \in Kinds
  BY DEF Test, GroupOf, Kinds
<1>6. GroupOf(Test("wan", "DNS")) = "none" /\ Test("wan", "DNS") \in Kinds
  BY DEF Test, GroupOf, Kinds
<1>7. \A t \in Tests : \/ t \in Router
                       \/ t \in {Test("lanHost", "ICMP"), Test("host", "ICMP"), Test("wan", "ICMP"),
                                 Test("wan", "TCP"), Test("wan", "DNS")}
  BY DEF Tests, Neighbours, Internet
<1> QED
  BY <1>1, <1>2, <1>3, <1>4, <1>5, <1>6, <1>7 DEF Groups

\* The tests of each group.
LEMMA GroupMembers ==
  ASSUME NEW t \in Tests
  PROVE  /\ GroupOf(t) = "lan" => t \in Of("router") \cup Of("lanHost")
         /\ GroupOf(t) = "wanICMP" => t \in {Test("wan", "ICMP"), Test("host", "ICMP")}
         /\ GroupOf(t) = "wanTCP" => t = Test("wan", "TCP")
         /\ GroupOf(t) = "none" => t = Test("wan", "DNS")
         /\ t \in Of("router") => GroupOf(t) = "lan"
<1>1. CASE t \in Router
  BY <1>1, GroupFacts DEF Router, Of, Test
<1>2. CASE t = Test("lanHost", "ICMP")
  BY <1>2, GroupFacts DEF Of, Test
<1>3. CASE t = Test("host", "ICMP")
  BY <1>3, GroupFacts DEF Of, Test
<1>4. CASE t \in Internet
  BY <1>4, GroupFacts DEF Internet, Of, Test
<1> QED
  BY <1>1, <1>2, <1>3, <1>4 DEF Tests, Neighbours

\* The Internet's tests, in their order.
LEMMA WANFacts ==
  /\ WANTests \in Seq(Tests) /\ Len(WANTests) = 8
  /\ WANTests[1] = Test("wan", "ICMP") /\ WANTests[2] = Test("wan", "ICMP")
  /\ \A k \in 3 .. 6 : WANTests[k] = Test("wan", "TCP")
  /\ \A k \in 7 .. 8 : WANTests[k] = Test("wan", "DNS")
<1>1. \A p \in {"ICMP", "TCP", "DNS"} : Test("wan", p) \in Tests
  BY DEF Tests, Internet
<1> HIDE DEF Test
<1> QED
  BY <1>1 DEF WANTests

\* The diagnosis begins with the router's tests or none.
LEMMA InitInv == Init => IInv
<1> SUFFICES ASSUME Init PROVE IInv
  OBVIOUS
<1>1. /\ RouterTests \in Seq(Tests) /\ Len(RouterTests) = 3
      /\ \A k \in 1 .. 3 : RouterTests[k] \in Router
  <2>1. \A p \in {"ICMP", "TCP", "DNS"} : Test("router", p) \in Router
    BY DEF Router
  <2>2. Router \subseteq Tests
    BY DEF Tests
  <2> QED
    BY <2>1, <2>2 DEF RouterTests
<1>2. /\ todo \in Seq(Tests) /\ Len(todo) <= 3
      /\ \A k \in 1 .. Len(todo) : todo[k] \in Router
  BY <1>1 DEF Init
<1>3. Types
  BY <1>2 DEF Init, Types
<1>4. Before
  BY <1>2 DEF Init, Before, Groups
<1> QED
  BY <1>3, <1>4 DEF Init, IInv, Tallies, Order, Counts, Silence, Analysed

-----------------------------------------------------------------------------
(* A test. *)

\* The first of the tests to do.
LEMMA HeadFacts ==
  ASSUME Types, todo # << >>
  PROVE  /\ Head(todo) = todo[1] /\ Head(todo) \in Tests
         /\ Tail(todo) \in Seq(Tests) /\ Len(Tail(todo)) = Len(todo) - 1 /\ Len(todo) \in Nat \ {0}
         /\ \A k \in 1 .. Len(todo) - 1 : Tail(todo)[k] = todo[k + 1]
  BY DEF Types

\* The figures of each group after a test.
LEMMA RunFigures ==
  ASSUME Types, NEW fails \in Fails, Run(fails), NEW g \in Groups
  PROVE  /\ loss'[g] = IF g = GroupOf(Head(todo)) THEN loss[g] + fails ELSE loss[g]
         /\ count'[g] = IF g = GroupOf(Head(todo)) THEN count[g] + 1 ELSE count[g]
         /\ fails \in 0 .. Samples
<1>1. fails \in 0 .. Samples
  BY LANDiagAssumption
<1> DEFINE h == GroupOf(Head(todo))
<1>2. h \in Groups \cup {"none"} /\ "none" \notin Groups
  BY HeadFacts, GroupFacts DEF Run, Groups
<1>3. /\ loss' = IF h = "none" THEN loss ELSE [loss EXCEPT ![h] = @ + fails]
      /\ count' = IF h = "none" THEN count ELSE [count EXCEPT ![h] = @ + 1]
  BY DEF Run
<1> HIDE DEF h
<1>4. loss'[g] = (IF g = h THEN loss[g] + fails ELSE loss[g])
      /\ count'[g] = (IF g = h THEN count[g] + 1 ELSE count[g])
  BY <1>2, <1>3 DEF Types
<1> QED
  BY <1>1, <1>4 DEF h

\* A test leaves the types.
LEMMA RunTypes == ASSUME Types, NEW fails \in Fails, Run(fails) PROVE Types'
<1>1. fails \in Nat
  BY LANDiagAssumption
<1>2. Head(todo) \in Tests /\ Tail(todo) \in Seq(Tests)
  BY HeadFacts DEF Run
<1> DEFINE h == GroupOf(Head(todo))
<1>6. h \in Groups \cup {"none"}
  BY <1>2, GroupFacts
<1>3. /\ loss' = IF h = "none" THEN loss ELSE [loss EXCEPT ![h] = @ + fails]
      /\ count' = IF h = "none" THEN count ELSE [count EXCEPT ![h] = @ + 1]
  BY DEF Run
<1> HIDE DEF h
<1>4. loss' \in [Groups -> Nat] /\ count' \in [Groups -> Nat]
  BY <1>1, <1>3, <1>6 DEF Types
<1>5. failing' \subseteq Tests /\ dead' \subseteq failing' /\ answered' \subseteq Tests
  <2>1. Samples \in Nat \ {0}
    BY LANDiagAssumption
  <2> QED
    BY <1>2, <2>1 DEF Run, Types
<1> QED
  BY <1>2, <1>4, <1>5 DEF Run, Types

\* A failed probe is counted in the group of its test, and all those of a dead one.
LEMMA RunTallies == ASSUME Types, Tallies, NEW fails \in Fails, Run(fails) PROVE Tallies'
<1> DEFINE t == Head(todo)
<1>1. t \in Tests /\ GroupOf(t) \in Groups \cup {"none"} /\ "none" \notin Groups
  BY HeadFacts, GroupFacts DEF Run, Groups
<1>2. /\ failing' = IF fails > 0 THEN failing \cup {t} ELSE failing
      /\ dead' = IF fails = Samples THEN dead \cup {t} ELSE dead
  BY DEF Run
<1>3. fails \in Nat /\ fails <= Samples /\ Samples \in Nat \ {0}
  BY LANDiagAssumption
<1>4. \A g \in Groups : /\ loss[g] \in Nat /\ count[g] \in Nat
                        /\ loss'[g] = IF g = GroupOf(t) THEN loss[g] + fails ELSE loss[g]
                        /\ count'[g] = IF g = GroupOf(t) THEN count[g] + 1 ELSE count[g]
  BY RunFigures DEF Types
<1>5. \A x \in Tests : GroupOf(x) \in Groups \cup {"none"}
  BY GroupFacts
<1>6. failing \subseteq Tests /\ dead \subseteq failing
  BY DEF Types
<1> HIDE DEF t
<1>7. ASSUME NEW g \in Groups, loss'[g] > 0 PROVE \E x \in failing' : GroupOf(x) = g
  BY <1>2, <1>3, <1>4, <1>7 DEF Tallies
<1>8. ASSUME NEW g \in Groups, loss'[g] > 0 PROVE count'[g] > 0
  BY <1>3, <1>4, <1>8 DEF Tallies
<1>9. ASSUME NEW x \in failing', GroupOf(x) # "none" PROVE loss'[GroupOf(x)] > 0
  <2>1. CASE x \in failing
    BY <1>3, <1>4, <1>5, <1>6, <1>9, <2>1 DEF Tallies
  <2>2. CASE x = t /\ fails > 0
    BY <1>1, <1>3, <1>4, <1>9, <2>2
  <2> QED
    BY <1>2, <2>1, <2>2
<1>10. ASSUME NEW x \in dead', GroupOf(x) # "none" PROVE loss'[GroupOf(x)] >= Samples
  <2>1. CASE x \in dead
    <3>1. GroupOf(x) \in Groups /\ loss[GroupOf(x)] >= Samples
      BY <1>5, <1>6, <1>10, <2>1 DEF Tallies
    <3> QED
      BY <1>3, <1>4, <3>1
  <2>2. CASE x = t /\ fails = Samples
    BY <1>1, <1>3, <1>4, <1>10, <2>2
  <2> QED
    BY <1>2, <2>1, <2>2
<1> QED
  BY <1>7, <1>8, <1>9, <1>10 DEF Tallies, GroupOf
\* The neighbours have not been listed yet: the router is tested.
LEMMA RunBefore ==
  ASSUME Types, Before, NEW fails \in Fails, Run(fails), stage = "router"
  PROVE  Before' /\ Order' /\ Counts' /\ Silence'
<1>1. stage' = "router" /\ todo' = Tail(todo) /\ todo # << >>
  BY DEF Run
<1>2. Head(todo) \in Router /\ GroupOf(Head(todo)) = "lan"
  BY <1>1, HeadFacts, GroupFacts DEF Before
<1>3. \A k \in 1 .. Len(todo') : todo'[k] \in Router
  BY <1>1, HeadFacts DEF Before
<1>4. count'["lan"] = count["lan"] + 1 /\ count'["wanICMP"] = count["wanICMP"]
      /\ count'["wanTCP"] = count["wanTCP"] /\ count["lan"] \in Nat
  BY <1>2, RunFigures DEF Groups, Types
<1>5. count'["lan"] + Len(todo') <= 3
  BY <1>1, <1>4, HeadFacts DEF Before
<1> QED
  BY <1>1, <1>3, <1>4, <1>5 DEF Before, Order, Counts, Silence

\* What is first, by the number of tests to do.
LEMMA FirstTest ==
  ASSUME Types, Order, stage = "hosts", todo # << >>
  PROVE  LET n == Len(todo)
         IN  /\ n > 8 => Head(todo) \in Neighbours
             /\ n \in 7 .. 8 => Head(todo) = Test("wan", "ICMP")
             /\ n \in 3 .. 6 => Head(todo) = Test("wan", "TCP")
             /\ n \in 1 .. 2 => Head(todo) = Test("wan", "DNS")
<1> DEFINE n == Len(todo)
<1>1. n \in Nat \ {0} /\ Head(todo) = todo[1]
  BY HeadFacts
<1>2. n > 8 => todo[1] \in Neighbours
  BY <1>1 DEF Order
<1>3. ASSUME n <= 8 PROVE todo[1] = WANTests[9 - n]
  <2>1. 9 - n \in 1 .. 8 /\ n - 8 + (9 - n) = 1
    BY <1>1, <1>3
  <2>2. n - 8 + (9 - n) >= 1 => todo[n - 8 + (9 - n)] = WANTests[9 - n]
    BY <2>1 DEF Order
  <2> QED
    BY <2>1, <2>2
<1> HIDE DEF n
<1>4. n \in 7 .. 8 => 9 - n \in 1 .. 2
  OBVIOUS
<1>5. n \in 3 .. 6 => 9 - n \in 3 .. 6
  OBVIOUS
<1>6. n \in 1 .. 2 => 9 - n \in 7 .. 8
  OBVIOUS
<1>7. n \in 7 .. 8 => todo[1] = Test("wan", "ICMP")
  BY <1>3, <1>4, WANFacts
<1>8. n \in 3 .. 6 => todo[1] = Test("wan", "TCP")
  BY <1>3, <1>5, WANFacts
<1>9. n \in 1 .. 2 => todo[1] = Test("wan", "DNS")
  BY <1>3, <1>6, WANFacts
<1> QED
  BY <1>1, <1>2, <1>7, <1>8, <1>9 DEF n

\* The order is kept.
LEMMA RunOrder ==
  ASSUME Types, Order, NEW fails \in Fails, Run(fails), stage = "hosts"
  PROVE  Order'
<1> DEFINE n == Len(todo)
<1>1. todo' = Tail(todo) /\ todo # << >>
  BY DEF Run
<1>2. n \in Nat \ {0} /\ Len(todo') = n - 1
      /\ \A k \in 1 .. n - 1 : todo'[k] = todo[k + 1]
  BY <1>1, HeadFacts
<1>3. \A k \in 1 .. n - 8 : todo[k] \in Neighbours
  BY DEF Order
<1>4. \A k \in 1 .. 8 : n - 8 + k >= 1 => todo[n - 8 + k] = WANTests[k]
  BY DEF Order
<1>5. ASSUME NEW k \in 1 .. (n - 1) - 8 PROVE todo'[k] \in Neighbours
  <2> HIDE DEF n
  <2>1. k \in 1 .. n - 1 /\ k + 1 \in 1 .. n - 8
    BY <1>2
  <2> QED
    BY <1>2, <1>3, <2>1
<1>6. ASSUME NEW k \in 1 .. 8, (n - 1) - 8 + k >= 1 PROVE todo'[(n - 1) - 8 + k] = WANTests[k]
  <2> HIDE DEF n
  <2>1. (n - 1) - 8 + k \in 1 .. n - 1 /\ ((n - 1) - 8 + k) + 1 = n - 8 + k /\ n - 8 + k >= 1
    BY <1>2, <1>6
  <2>2. todo'[(n - 1) - 8 + k] = todo[n - 8 + k]
    BY <1>2, <2>1
  <2> QED
    BY <1>4, <2>1, <2>2
<1> HIDE DEF n
<1> QED
  BY <1>2, <1>5, <1>6 DEF Order

\* How the numbers of tests to do fall.
LEMMA LeftFacts ==
  ASSUME NEW n \in Nat \ {0}
  PROVE  /\ HostsLeft(n) \in Nat /\ ICMPLeft(n) \in 0 .. 2 /\ TCPLeft(n) \in 0 .. 4
         /\ n > 8 => /\ HostsLeft(n - 1) = HostsLeft(n) - 1
                     /\ ICMPLeft(n - 1) = ICMPLeft(n) /\ TCPLeft(n - 1) = TCPLeft(n)
         /\ n \in 7 .. 8 => /\ HostsLeft(n - 1) = HostsLeft(n)
                            /\ ICMPLeft(n - 1) = ICMPLeft(n) - 1 /\ TCPLeft(n - 1) = TCPLeft(n)
         /\ n \in 3 .. 6 => /\ HostsLeft(n - 1) = HostsLeft(n)
                            /\ ICMPLeft(n - 1) = ICMPLeft(n) /\ TCPLeft(n - 1) = TCPLeft(n) - 1
         /\ n \in 1 .. 2 => /\ HostsLeft(n - 1) = HostsLeft(n)
                            /\ ICMPLeft(n - 1) = ICMPLeft(n) /\ TCPLeft(n - 1) = TCPLeft(n)
<1>1. HostsLeft(n) \in Nat /\ ICMPLeft(n) \in 0 .. 2 /\ TCPLeft(n) \in 0 .. 4
  BY DEF HostsLeft, ICMPLeft, TCPLeft
<1>2. CASE n > 9
  BY <1>1, <1>2 DEF HostsLeft, ICMPLeft, TCPLeft
<1>3. CASE n \in 1 .. 9
  BY <1>1, <1>3 DEF HostsLeft, ICMPLeft, TCPLeft
<1> QED
  BY <1>2, <1>3

\* Each test is one less to do and one more counted in its group.
LEMMA RunCounts ==
  ASSUME Types, Order, Counts, NEW fails \in Fails, Run(fails), stage = "hosts"
  PROVE  Counts'
<1> DEFINE n == Len(todo)
           h == GroupOf(Head(todo))
<1>1. todo' = Tail(todo) /\ todo # << >>
  BY DEF Run
<1>2. n \in Nat \ {0} /\ Len(todo') = n - 1
  BY <1>1, HeadFacts
<1>3. \A g \in Groups : count[g] \in Nat /\ count'[g] = IF g = h THEN count[g] + 1 ELSE count[g]
  BY RunFigures DEF Types
<1>4. /\ n > 8 => h \in {"lan", "wanICMP"}
      /\ n \in 7 .. 8 => h = "wanICMP"
      /\ n \in 3 .. 6 => h = "wanTCP"
      /\ n \in 1 .. 2 => h = "none"
  BY <1>1, FirstTest, GroupFacts DEF Neighbours
<1>5. /\ count["lan"] + HostsLeft(n) <= 3 + Hosts
      /\ count["wanICMP"] + HostsLeft(n) + ICMPLeft(n) <= 2 + Hosts
      /\ count["wanTCP"] + TCPLeft(n) = 4
  BY DEF Counts
<1>6. Hosts \in Nat
  BY LANDiagAssumption
<1> HIDE DEF n, h
<1>7. /\ count'["lan"] + HostsLeft(n - 1) <= 3 + Hosts
      /\ count'["wanICMP"] + HostsLeft(n - 1) + ICMPLeft(n - 1) <= 2 + Hosts
      /\ count'["wanTCP"] + TCPLeft(n - 1) = 4
  <2>1. HostsLeft(n) \in Nat /\ ICMPLeft(n) \in 0 .. 2 /\ TCPLeft(n) \in 0 .. 4
    BY <1>2, LeftFacts
  <2>2. CASE n > 8
    <3>1. HostsLeft(n - 1) = HostsLeft(n) - 1
          /\ ICMPLeft(n - 1) = ICMPLeft(n) /\ TCPLeft(n - 1) = TCPLeft(n)
      BY <1>2, <2>2, LeftFacts
    <3> QED
      BY <1>3, <1>4, <1>5, <1>6, <2>1, <2>2, <3>1 DEF Groups
  <2>3. CASE n \in 7 .. 8
    <3>1. HostsLeft(n - 1) = HostsLeft(n)
          /\ ICMPLeft(n - 1) = ICMPLeft(n) - 1 /\ TCPLeft(n - 1) = TCPLeft(n)
      BY <1>2, <2>3, LeftFacts
    <3> QED
      BY <1>3, <1>4, <1>5, <1>6, <2>1, <2>3, <3>1 DEF Groups
  <2>4. CASE n \in 3 .. 6
    <3>1. HostsLeft(n - 1) = HostsLeft(n)
          /\ ICMPLeft(n - 1) = ICMPLeft(n) /\ TCPLeft(n - 1) = TCPLeft(n) - 1
      BY <1>2, <2>4, LeftFacts
    <3> QED
      BY <1>3, <1>4, <1>5, <1>6, <2>1, <2>4, <3>1 DEF Groups
  <2>5. CASE n \in 1 .. 2
    <3>1. HostsLeft(n - 1) = HostsLeft(n)
          /\ ICMPLeft(n - 1) = ICMPLeft(n) /\ TCPLeft(n - 1) = TCPLeft(n)
      BY <1>2, <2>5, LeftFacts
    <3> QED
      BY <1>3, <1>4, <1>5, <1>6, <2>1, <2>5, <3>1 DEF Groups
  <2> QED
    BY <1>2, <2>2, <2>3, <2>4, <2>5
<1> QED
  BY <1>2, <1>7 DEF Counts

\* Unless a test of the Internet is answered, it loses all its probes.
LEMMA RunSilence ==
  ASSUME Types, Order, Silence, NEW fails \in Fails, Run(fails), stage = "hosts"
  PROVE  Silence'
<1> SUFFICES ASSUME Of("wan") \cap answered' = {}
             PROVE  /\ loss'["wanICMP"] >= Samples * (2 - ICMPLeft(Len(todo')))
                    /\ loss'["wanTCP"] >= Samples * (4 - TCPLeft(Len(todo')))
  BY DEF Silence, Of
<1> DEFINE n == Len(todo)
           h == GroupOf(Head(todo))
<1>1. todo' = Tail(todo) /\ todo # << >>
  BY DEF Run
<1>2. n \in Nat \ {0} /\ Len(todo') = n - 1
  BY <1>1, HeadFacts
<1>3. answered' = IF fails < Samples THEN answered \cup {Head(todo)} ELSE answered
  BY DEF Run
<1>4. fails \in Nat /\ fails <= Samples /\ Samples \in Nat
  BY LANDiagAssumption
<1>5. \A g \in Groups : loss[g] \in Nat /\ loss'[g] = IF g = h THEN loss[g] + fails ELSE loss[g]
  BY RunFigures DEF Types
<1>6. ASSUME n <= 8 PROVE fails = Samples
  <2>1. n \in 1 .. 2 \/ n \in 3 .. 6 \/ n \in 7 .. 8
    <3> HIDE DEF n
    <3> QED
      BY <1>2, <1>6
  <2>2. \E p \in {"ICMP", "TCP", "DNS"} : Head(todo) = Test("wan", p)
    BY <1>1, <2>1, FirstTest
  <2>3. Head(todo) \in Of("wan")
    BY <2>2 DEF Of, Kinds, Test
  <2> QED
    BY <1>3, <1>4, <2>3
<1>7. /\ n > 8 => h \in {"lan", "wanICMP"}
      /\ n \in 7 .. 8 => h = "wanICMP"
      /\ n \in 3 .. 6 => h = "wanTCP"
      /\ n \in 1 .. 2 => h = "none"
  BY <1>1, FirstTest, GroupFacts DEF Neighbours
<1>8. /\ loss["wanICMP"] >= Samples * (2 - ICMPLeft(n))
      /\ loss["wanTCP"] >= Samples * (4 - TCPLeft(n))
  BY <1>3 DEF Silence
<1>9. /\ loss["wanICMP"] \in Nat /\ loss["wanTCP"] \in Nat
      /\ loss'["wanICMP"] = (IF h = "wanICMP" THEN loss["wanICMP"] + fails ELSE loss["wanICMP"])
      /\ loss'["wanTCP"] = (IF h = "wanTCP" THEN loss["wanTCP"] + fails ELSE loss["wanTCP"])
  BY <1>5 DEF Groups
<1> HIDE DEF n, h
<1>10. ICMPLeft(n) \in 0 .. 2 /\ TCPLeft(n) \in 0 .. 4
  BY <1>2, LeftFacts
<1>11. /\ loss'["wanICMP"] >= Samples * (2 - ICMPLeft(n - 1))
       /\ loss'["wanTCP"] >= Samples * (4 - TCPLeft(n - 1))
  <2>1. CASE n > 8
    <3>1. ICMPLeft(n - 1) = ICMPLeft(n) /\ TCPLeft(n - 1) = TCPLeft(n)
      BY <1>2, <2>1, LeftFacts
    <3> QED
      BY <1>4, <1>7, <1>8, <1>9, <1>10, <2>1, <3>1
  <2>2. CASE n \in 7 .. 8
    <3>1. ICMPLeft(n - 1) = ICMPLeft(n) - 1 /\ TCPLeft(n - 1) = TCPLeft(n)
      BY <1>2, <2>2, LeftFacts
    <3>2. Samples * (2 - (ICMPLeft(n) - 1)) = Samples * (2 - ICMPLeft(n)) + Samples
      BY <1>4, <1>10
    <3> QED
      BY <1>4, <1>6, <1>7, <1>8, <1>9, <1>10, <2>2, <3>1, <3>2
  <2>3. CASE n \in 3 .. 6
    <3>1. ICMPLeft(n - 1) = ICMPLeft(n) /\ TCPLeft(n - 1) = TCPLeft(n) - 1
      BY <1>2, <2>3, LeftFacts
    <3>2. Samples * (4 - (TCPLeft(n) - 1)) = Samples * (4 - TCPLeft(n)) + Samples
      BY <1>4, <1>10
    <3> QED
      BY <1>4, <1>6, <1>7, <1>8, <1>9, <1>10, <2>3, <3>1, <3>2
  <2>4. CASE n \in 1 .. 2
    <3>1. ICMPLeft(n - 1) = ICMPLeft(n) /\ TCPLeft(n - 1) = TCPLeft(n)
      BY <1>2, <2>4, LeftFacts
    <3> QED
      BY <1>4, <1>7, <1>8, <1>9, <1>10, <2>4, <3>1
  <2> QED
    BY <1>2, <2>1, <2>2, <2>3, <2>4
<1> QED
  BY <1>2, <1>11

-----------------------------------------------------------------------------
(* The other steps, and all together. *)

\* Between the router and its neighbours no test is left.
LEMMA ListInv == IInv /\ List => IInv'
<1> SUFFICES ASSUME IInv, List PROVE IInv'
  OBVIOUS
<1>1. /\ stage = "router" /\ todo = << >> /\ stage' = "discover"
      /\ UNCHANGED <<gateway, todo, loss, count, failing, dead, answered, verdicts>>
  BY DEF List, results
<1>2. Types /\ Tallies /\ Before /\ Analysed
  BY DEF IInv
<1>3. Types'
  BY <1>1, <1>2 DEF Types
<1>4. Tallies'
  BY <1>1, <1>2 DEF Tallies, GroupOf
<1>5. count["lan"] \in Nat /\ Len(todo) = 0 /\ Hosts \in Nat
  BY <1>1, <1>2, LANDiagAssumption DEF Types, Groups
<1>6. Before'
  BY <1>1, <1>2, <1>5 DEF Before
<1> QED
  BY <1>1, <1>2, <1>3, <1>4, <1>6 DEF IInv, Order, Counts, Silence, Analysed

\* One more neighbour, or none.
LEMMA DiscoverInv ==
  ASSUME IInv, NEW line \in Lines, NEW names \in Names, Discover(line, names)
  PROVE  IInv'
<1>1. /\ stage = "discover" /\ stage' = stage /\ Len(todo) < Hosts
      /\ UNCHANGED <<gateway, loss, count, failing, dead, answered, verdicts>>
  BY DEF Discover, results
<1>2. Types /\ Tallies /\ Before /\ Analysed
  BY DEF IInv
<1> DEFINE t == Test(formatLANHost(resolveHostname(names)), "ICMP")
<1>3. t \in Neighbours
  BY DEF formatLANHost, Neighbours
<1>4. todo' = todo \/ todo' = Append(todo, t)
  BY DEF Discover
<1> HIDE DEF t
<1>5. t \in Tests /\ Hosts \in Nat
  BY <1>3, LANDiagAssumption DEF Tests
<1>6. Types'
  BY <1>1, <1>2, <1>4, <1>5 DEF Types
<1>7. Tallies'
  BY <1>1, <1>2 DEF Tallies, GroupOf
<1>8. Len(todo') <= Hosts /\ \A k \in 1 .. Len(todo') : todo'[k] \in Neighbours
  <2>1. todo \in Seq(Tests) /\ \A k \in 1 .. Len(todo) : todo[k] \in Neighbours
    BY <1>1, <1>2 DEF Types, Before
  <2>2. CASE todo' = todo
    BY <1>1, <1>5, <2>1, <2>2
  <2>3. CASE todo' = Append(todo, t)
    BY <1>1, <1>3, <1>5, <2>1, <2>3
  <2> QED
    BY <1>4, <2>2, <2>3
<1>9. Before'
  BY <1>1, <1>2, <1>8 DEF Before
<1> QED
  BY <1>1, <1>2, <1>6, <1>7, <1>9 DEF IInv, Order, Counts, Silence, Analysed

\* The Internet's tests come after the neighbours'.
LEMMA ListedInv == IInv /\ Listed => IInv'
<1> SUFFICES ASSUME IInv, Listed PROVE IInv'
  OBVIOUS
<1>1. /\ stage = "discover" /\ stage' = "hosts" /\ todo' = todo \o WANTests
      /\ UNCHANGED <<gateway, loss, count, failing, dead, answered, verdicts>>
  BY DEF Listed, results
<1>2. Types /\ Tallies /\ Before /\ Analysed
  BY DEF IInv
<1> DEFINE n == Len(todo)
<1>3. /\ n \in Nat /\ n <= Hosts /\ Hosts \in Nat
      /\ count["lan"] \in Nat /\ count["lan"] <= 3 /\ count["wanICMP"] = 0 /\ count["wanTCP"] = 0
      /\ \A k \in 1 .. n : todo[k] \in Neighbours
  BY <1>1, <1>2, LANDiagAssumption DEF Types, Before, Groups
<1>4. /\ todo' \in Seq(Tests) /\ Len(todo') = n + 8
      /\ \A k \in 1 .. n : todo'[k] = todo[k]
      /\ \A k \in 1 .. 8 : todo'[n + k] = WANTests[k]
  <2>1. todo \in Seq(Tests) /\ WANTests \in Seq(Tests) /\ Len(WANTests) = 8
    BY <1>2, WANFacts DEF Types
  <2> DEFINE s == todo \o WANTests
  <2>2. /\ s \in Seq(Tests) /\ Len(s) = Len(todo) + Len(WANTests)
        /\ \A k \in 1 .. Len(todo) + Len(WANTests) :
             s[k] = IF k <= Len(todo) THEN todo[k] ELSE WANTests[k - Len(todo)]
    BY <2>1, ConcatProperties, Zenon
  <2>3. todo' = s
    BY <1>1
  <2> HIDE DEF s
  <2>4. todo' \in Seq(Tests) /\ Len(todo') = n + 8
    BY <2>1, <2>2, <2>3
  <2>5. \A k \in 1 .. n + 8 : todo'[k] = IF k <= n THEN todo[k] ELSE WANTests[k - n]
    BY <2>1, <2>2, <2>3
  <2> HIDE DEF n
  <2>6. \A k \in 1 .. n : todo'[k] = todo[k]
    BY <1>3, <2>5
  <2>7. ASSUME NEW k \in 1 .. 8 PROVE todo'[n + k] = WANTests[k]
    <3>1. n + k \in 1 .. n + 8 /\ ~(n + k <= n) /\ (n + k) - n = k
      BY <1>3
    <3> QED
      BY <2>5, <3>1
  <2> QED
    BY <2>4, <2>6, <2>7
<1> HIDE DEF n
<1>5. Types'
  BY <1>1, <1>2, <1>4 DEF Types
<1>6. Tallies'
  BY <1>1, <1>2 DEF Tallies, GroupOf
<1>7. Order'
  <2>1. \A k \in 1 .. 8 : (n + 8) - 8 + k = n + k
    BY <1>3
  <2>2. (n + 8) - 8 = n
    BY <1>3
  <2> QED
    BY <1>3, <1>4, <2>1, <2>2 DEF Order
<1>8. Counts'
  <2>1. HostsLeft(n + 8) = n /\ ICMPLeft(n + 8) = 2 /\ TCPLeft(n + 8) = 4
    BY <1>3 DEF HostsLeft, ICMPLeft, TCPLeft
  <2>2. /\ count'["lan"] + HostsLeft(n + 8) <= 3 + Hosts
        /\ count'["wanICMP"] + HostsLeft(n + 8) + ICMPLeft(n + 8) <= 2 + Hosts
        /\ count'["wanTCP"] + TCPLeft(n + 8) = 4
    BY <1>1, <1>3, <2>1
  <2> QED
    BY <1>4, <2>2 DEF Counts
<1>9. Silence'
  <2>1. ICMPLeft(n + 8) = 2 /\ TCPLeft(n + 8) = 4
    BY <1>3 DEF ICMPLeft, TCPLeft
  <2>2. loss["wanICMP"] \in Nat /\ loss["wanTCP"] \in Nat /\ Samples * 0 = 0
    BY <1>2, LANDiagAssumption DEF Types, Groups
  <2> QED
    BY <1>1, <1>4, <2>1, <2>2 DEF Silence
<1> QED
  BY <1>1, <1>2, <1>5, <1>6, <1>7, <1>8, <1>9 DEF IInv, Before, Analysed

\* The analysis changes no figure.
LEMMA AnalyseInv == IInv /\ Analyse => IInv'
<1> SUFFICES ASSUME IInv, Analyse PROVE IInv'
  OBVIOUS
<1>1. /\ stage = "hosts" /\ stage' = "done" /\ todo = << >> /\ verdicts' = Verdicts
      /\ UNCHANGED <<gateway, todo, loss, count, failing, dead, answered>>
  BY DEF Analyse, results
<1>2. Verdicts' = Verdicts
  BY <1>1 DEF Verdicts, AtLeast, MoreThan, Twice
<1> QED
  BY <1>1, <1>2
  DEF IInv, Types, Tallies, GroupOf, Before, Order, Counts, Silence, Of, Analysed

\* A test, before or after the neighbours are listed.
LEMMA RunInv == ASSUME IInv, NEW fails \in Fails, Run(fails) PROVE IInv'
<1>1. stage \in {"router", "hosts"} /\ stage' = stage /\ verdicts' = verdicts
  BY DEF Run
<1>2. Types' /\ Tallies'
  BY RunTypes, RunTallies DEF IInv
<1>3. CASE stage = "router"
  BY <1>1, <1>2, <1>3, RunBefore DEF IInv, Analysed
<1>4. CASE stage = "hosts"
  BY <1>1, <1>2, <1>4, RunOrder, RunCounts, RunSilence DEF IInv, Analysed, Before
<1> QED
  BY <1>1, <1>3, <1>4

\* Each step keeps the invariant.
LEMMA Invariance == IInv /\ [Next]_vars => IInv'
<1> SUFFICES ASSUME IInv, [Next]_vars PROVE IInv'
  OBVIOUS
<1>1. CASE List
  BY <1>1, ListInv
<1>2. CASE Listed
  BY <1>2, ListedInv
<1>3. CASE Analyse
  BY <1>3, AnalyseInv
<1>4. ASSUME NEW line \in Lines, NEW names \in Names, Discover(line, names) PROVE IInv'
  BY <1>4, DiscoverInv
<1>5. ASSUME NEW fails \in Fails, Run(fails) PROVE IInv'
  BY <1>5, RunInv
<1>6. CASE UNCHANGED vars
  <2>1. UNCHANGED <<gateway, stage, todo, loss, count, failing, dead, answered, verdicts>>
    BY <1>6 DEF vars, results
  <2>2. Verdicts' = Verdicts
    BY <2>1 DEF Verdicts, AtLeast, MoreThan, Twice
  <2> QED
    BY <2>1, <2>2
    DEF IInv, Types, Tallies, GroupOf, Before, Order, Counts, Silence, Of, Analysed
<1> QED
  BY <1>1, <1>2, <1>3, <1>4, <1>5, <1>6 DEF Next

\* What the tests have counted, at every moment of the diagnosis.
THEOREM DiagnosisInvariant == Spec => []IInv
  BY InitInv, Invariance, PTL DEF Spec

-----------------------------------------------------------------------------
(* The verdicts. *)

\* When each verdict is printed.
LEMMA VerdictFacts ==
  /\ "lanHealthy" \in Verdicts <=> ~AtLeast("lan", 1) /\ MoreThan("wanTCP", 1)
  /\ "lanIssues" \in Verdicts <=> AtLeast("lan", 1)
  /\ "throttling" \in Verdicts => MoreThan("wanTCP", 1)
  /\ "icmpLoss" \in Verdicts <=> MoreThan("wanICMP", 5)
  /\ "allPassed" \in Verdicts <=> \A g \in Groups : loss[g] = 0
  BY DEF Verdicts

\* An average of c tests, of which at most k are counted.
LEMMA Products ==
  ASSUME NEW c \in Nat, NEW k \in Nat, c <= k
  PROVE  /\ Samples * c \in Nat /\ Samples * c <= Samples * k
         /\ c > 0 => Samples * c > 0
<1>1. Samples \in Nat \ {0}
  BY LANDiagAssumption
<1>2. Samples * c \in Nat /\ Samples * (k - c) \in Nat
  BY <1>1
<1>3. Samples * k = Samples * c + Samples * (k - c)
  BY <1>1
<1>4. c > 0 => Samples * c > 0
  BY <1>1
<1> QED
  BY <1>2, <1>3, <1>4

\* The two comparisons, with the factors apart.
LEMMA Averages ==
  ASSUME Types, NEW g \in Groups
  PROVE  /\ AtLeast(g, 1) <=> count[g] > 0 /\ 100 * loss[g] >= Samples * count[g]
         /\ MoreThan(g, 1) <=> 100 * loss[g] > Samples * count[g]
         /\ MoreThan(g, 5) <=> 100 * loss[g] > 5 * (Samples * count[g])
         /\ loss[g] \in Nat /\ count[g] \in Nat
<1>1. loss[g] \in Nat /\ count[g] \in Nat /\ Samples \in Nat
  BY LANDiagAssumption DEF Types
<1>2. /\ 1 * Samples * count[g] = Samples * count[g]
      /\ 5 * Samples * count[g] = 5 * (Samples * count[g])
  BY <1>1
<1> QED
  BY <1>1, <1>2 DEF AtLeast, MoreThan

\* What is over a limit has lost probes.
LEMMA OverTheLimit ==
  ASSUME Types, NEW g \in Groups, AtLeast(g, 1) \/ MoreThan(g, 1) \/ MoreThan(g, 5)
  PROVE  loss[g] > 0
<1> DEFINE p == Samples * count[g]
<1>1. /\ AtLeast(g, 1) => count[g] > 0 /\ 100 * loss[g] >= p
      /\ MoreThan(g, 1) => 100 * loss[g] > p
      /\ MoreThan(g, 5) => 100 * loss[g] > 5 * p
      /\ loss[g] \in Nat /\ count[g] \in Nat
  BY Averages
<1>2. p \in Nat /\ (count[g] > 0 => p > 0)
  BY <1>1, Products
<1> HIDE DEF p
<1> QED
  BY <1>1, <1>2

\* Among at most k tests, m lost altogether are over any limit below a share of m in k.
LEMMA LostAltogether ==
  ASSUME Types, NEW g \in Groups, NEW k \in Nat, NEW m \in Nat \ {0}, count[g] <= k,
         loss[g] >= Samples * m
  PROVE  /\ count[g] > 0 /\ k <= 100 * m => AtLeast(g, 1)
         /\ k < 100 * m => MoreThan(g, 1)
         /\ 5 * k < 100 * m => MoreThan(g, 5)
<1> DEFINE p == Samples * count[g]
           q == Samples * k
           r == Samples * m
<1>1. /\ count[g] > 0 /\ 100 * loss[g] >= p => AtLeast(g, 1)
      /\ 100 * loss[g] > p => MoreThan(g, 1)
      /\ 100 * loss[g] > 5 * p => MoreThan(g, 5)
      /\ loss[g] \in Nat /\ count[g] \in Nat
  BY Averages
<1>2. p \in Nat /\ p <= q
  BY <1>1, Products
<1>3. q \in Nat /\ r \in Nat
  BY LANDiagAssumption
<1>4. Samples * (100 * m) = 100 * r /\ Samples * (5 * k) = 5 * q
  BY LANDiagAssumption
<1>5. k <= 100 * m => q <= 100 * r
  BY <1>4, Products
<1>6. ASSUME NEW a \in Nat, NEW b \in Nat, a < b PROVE Samples * a < Samples * b
  <2>1. Samples * (a + 1) <= Samples * b
    BY <1>6, Products
  <2>2. Samples * (a + 1) = Samples * a + Samples
    BY LANDiagAssumption
  <2>3. Samples * a \in Nat /\ Samples * b \in Nat /\ Samples \in Nat \ {0}
    BY LANDiagAssumption
  <2> QED
    BY <2>1, <2>2, <2>3
<1>7. k < 100 * m => q < 100 * r
  <2>1. k < 100 * m => Samples * k < Samples * (100 * m)
    BY <1>6
  <2> QED
    BY <1>4, <2>1
<1>8. 5 * k < 100 * m => 5 * q < 100 * r
  <2>1. 5 * k < 100 * m => Samples * (5 * k) < Samples * (100 * m)
    BY <1>6
  <2> QED
    BY <1>4, <2>1
<1>9. loss[g] >= r
  OBVIOUS
<1> HIDE DEF p, q, r
<1>10. /\ k <= 100 * m => 100 * loss[g] >= p
       /\ k < 100 * m => 100 * loss[g] > p
       /\ 5 * k < 100 * m => 100 * loss[g] > 5 * p
  BY <1>1, <1>2, <1>3, <1>5, <1>7, <1>8, <1>9
<1> QED
  BY <1>1, <1>10

\* The tests there are of each group, once all are done.
LEMMA AllCounted ==
  ASSUME IInv, stage = "done"
  PROVE  /\ verdicts = Verdicts
         /\ count["lan"] <= 3 + Hosts /\ count["wanICMP"] <= 2 + Hosts /\ count["wanTCP"] = 4
         /\ Of("wan") \cap answered = {} =>
              loss["wanICMP"] >= Samples * 2 /\ loss["wanTCP"] >= Samples * 4
         /\ Hosts \in Nat /\ Samples \in Nat \ {0}
<1>1. Len(todo) = 0 /\ verdicts = Verdicts
  BY DEF IInv, Analysed
<1>2. HostsLeft(0) = 0 /\ ICMPLeft(0) = 0 /\ TCPLeft(0) = 0
  BY DEF HostsLeft, ICMPLeft, TCPLeft
<1>3. count["lan"] \in Nat /\ count["wanICMP"] \in Nat /\ count["wanTCP"] \in Nat
  BY DEF IInv, Types, Groups
<1>4. /\ count["lan"] <= 3 + Hosts /\ count["wanICMP"] <= 2 + Hosts /\ count["wanTCP"] = 4
  BY <1>1, <1>2, <1>3, LANDiagAssumption DEF IInv, Counts
<1>5. Of("wan") \cap answered = {} =>
        loss["wanICMP"] >= Samples * 2 /\ loss["wanTCP"] >= Samples * 4
  BY <1>1, <1>2 DEF IInv, Silence
<1> QED
  BY <1>1, <1>4, <1>5, LANDiagAssumption

\* As long as there is no report, there are no verdicts.
LEMMA NoReport == ASSUME IInv, stage # "done" PROVE verdicts = {}
  BY DEF IInv, Analysed

\* Up to 97 hosts, 5 in the code, every verdict has its cause in the tests: with one more
\* the average of the LAN could hide a dead router (landiag.go:86-124).
THEOREM CausesOfVerdicts == ASSUME Hosts <= 97 PROVE Spec => []VerdictsHaveCauses
<1>1. ASSUME IInv, stage = "done" PROVE VerdictsHaveCauses
  <2>1. Types /\ Tallies
    BY <1>1 DEF IInv
  <2>2. failing \subseteq Tests /\ dead \subseteq failing
    BY <2>1 DEF Types
  <2>3. ASSUME NEW g \in Groups, loss[g] > 0
        PROVE  /\ g = "lan" => (Of("router") \cup Of("lanHost")) \cap failing # {}
               /\ g = "wanICMP" => {Test("wan", "ICMP"), Test("host", "ICMP")} \cap failing # {}
               /\ g = "wanTCP" => Test("wan", "TCP") \in failing
    <3>1. PICK t \in failing : GroupOf(t) = g
      BY <2>1, <2>3 DEF Tallies
    <3> QED
      BY <2>2, <3>1, GroupMembers
  <2>4. ASSUME ~AtLeast("lan", 1) PROVE Of("router") \cap dead = {}
    <3>1. ASSUME NEW t \in Of("router") \cap dead PROVE FALSE
      <4>1. GroupOf(t) = "lan"
        BY <2>2, <3>1, GroupMembers
      <4>2. loss["lan"] >= Samples /\ loss["lan"] \in Nat /\ Samples \in Nat \ {0}
        BY <2>1, <3>1, <4>1, LANDiagAssumption DEF Tallies, Types, Groups
      <4>3. count["lan"] > 0
        BY <2>1, <4>2 DEF Tallies, Groups
      <4>4. count["lan"] <= 100 /\ Samples * 1 = Samples
        BY <1>1, <2>1, <4>2, AllCounted DEF Types, Groups
      <4>5. "lan" \in Groups
        BY DEF Groups
      <4> QED
        BY <2>1, <2>4, <4>2, <4>3, <4>4, <4>5, LostAltogether
    <3> QED
      BY <3>1
  <2>5. verdicts = Verdicts
    BY <1>1, AllCounted
  <2>6. {"lan", "wanICMP", "wanTCP"} \subseteq Groups
    BY DEF Groups
  <2>7. "lanHealthy" \in verdicts => "lanIssues" \notin verdicts /\ Of("router") \cap dead = {}
    BY <2>4, <2>5, VerdictFacts
  <2>8. "lanIssues" \in verdicts => (Of("router") \cup Of("lanHost")) \cap failing # {}
    BY <2>1, <2>3, <2>5, <2>6, VerdictFacts, OverTheLimit
  <2>9. verdicts \cap {"lanHealthy", "throttling"} # {} => Test("wan", "TCP") \in failing
    BY <2>1, <2>3, <2>5, <2>6, VerdictFacts, OverTheLimit
  <2>10. "icmpLoss" \in verdicts => {Test("wan", "ICMP"), Test("host", "ICMP")} \cap failing # {}
    BY <2>1, <2>3, <2>5, <2>6, VerdictFacts, OverTheLimit
  <2> QED
    BY <2>7, <2>8, <2>9, <2>10 DEF VerdictsHaveCauses
<1>2. ASSUME IInv, stage # "done" PROVE VerdictsHaveCauses
  BY <1>2, NoReport DEF VerdictsHaveCauses
<1>3. IInv => VerdictsHaveCauses
  BY <1>1, <1>2
<1> QED
  BY <1>3, DiagnosisInvariant, PTL

\* Up to 17 hosts, 5 in the code: no failed test but those of the Internet's DNS servers
\* goes with "all tests passed", and none that has failed altogether with an empty report.
\* With one more a dead host could be five per cent of its group, which is no high loss.
THEOREM FailuresAreReported == ASSUME Hosts <= 17 PROVE Spec => []PassedMeansAnswered
<1>1. ASSUME IInv, stage = "done" PROVE PassedMeansAnswered
  <2>1. Types /\ Tallies /\ verdicts = Verdicts /\ Samples \in Nat \ {0} /\ Hosts \in Nat
    BY <1>1, AllCounted DEF IInv
  <2>2. failing \subseteq Tests /\ dead \subseteq failing
    BY <2>1 DEF Types
  <2>3. {"lan", "wanICMP", "wanTCP"} \subseteq Groups
    BY DEF Groups
  <2>4. ASSUME "allPassed" \in verdicts, NEW t \in failing PROVE t = Test("wan", "DNS")
    <3>1. GroupOf(t) \in Groups \cup {"none"}
      BY <2>2, GroupFacts
    <3>2. GroupOf(t) = "none"
      BY <2>1, <2>4, <3>1, VerdictFacts DEF Tallies
    <3> QED
      BY <2>2, <3>2, GroupMembers
  <2>5. ASSUME NEW t \in dead, t # Test("wan", "DNS")
        PROVE  verdicts # {} /\ "allPassed" \notin verdicts
    <3> DEFINE g == GroupOf(t)
    <3>1. g \in Groups
      BY <2>2, <2>5, GroupFacts, GroupMembers
    <3>2. loss[g] >= Samples * 1
      BY <2>1, <2>5, <3>1 DEF Tallies, Groups
    <3>3. loss[g] \in Nat /\ count[g] \in Nat
      BY <2>1, <3>1 DEF Types
    <3> HIDE DEF g
    <3>4. loss[g] > 0 /\ count[g] > 0
      BY <2>1, <3>1, <3>2, <3>3 DEF Tallies
    <3>5. CASE g = "lan"
      <4>1. count[g] <= 20
        BY <1>1, <2>1, <3>3, <3>5, AllCounted
      <4>2. AtLeast(g, 1)
        BY <2>1, <3>1, <3>2, <3>4, <4>1, LostAltogether
      <4> QED
        BY <2>1, <3>1, <3>4, <3>5, <4>2, VerdictFacts
    <3>6. CASE g = "wanICMP"
      <4>1. count[g] <= 19
        BY <1>1, <2>1, <3>3, <3>6, AllCounted
      <4>2. MoreThan(g, 5)
        BY <2>1, <3>1, <3>2, <3>4, <4>1, LostAltogether
      <4> QED
        BY <2>1, <3>1, <3>4, <3>6, <4>2, VerdictFacts
    <3>7. CASE g = "wanTCP"
      <4>1. count[g] <= 4
        BY <1>1, <2>1, <3>3, <3>7, AllCounted
      <4>2. MoreThan(g, 1)
        BY <2>1, <3>1, <3>2, <3>4, <4>1, LostAltogether
      <4> QED
        BY <2>1, <3>1, <3>4, <3>7, <4>2, VerdictFacts
    <3> QED
      BY <3>1, <3>5, <3>6, <3>7 DEF Groups
  <2> QED
    BY <2>4, <2>5 DEF PassedMeansAnswered
<1>2. ASSUME IInv, stage # "done" PROVE PassedMeansAnswered
  BY <1>2, NoReport DEF PassedMeansAnswered
<1>3. IInv => PassedMeansAnswered
  BY <1>1, <1>2
<1> QED
  BY <1>3, DiagnosisInvariant, PTL

\* Up to 37 hosts, 5 in the code: when nothing on the Internet answers, the report says so
\* however well the hosts of the LAN answer that are counted with it.  With one more they
\* could make two dead tests in forty, which is no high loss.
THEOREM BlackoutsAreNamed == ASSUME Hosts <= 37 PROVE Spec => []BlackoutIsNamed
<1>1. ASSUME IInv, stage = "done", Of("wan") \cap answered = {}
      PROVE  "icmpLoss" \in verdicts /\ verdicts \cap {"lanHealthy", "lanIssues"} # {}
  <2>1. /\ Types /\ verdicts = Verdicts /\ Samples \in Nat \ {0} /\ Hosts \in Nat
        /\ count["wanICMP"] <= 2 + Hosts /\ count["wanTCP"] = 4
        /\ loss["wanICMP"] >= Samples * 2 /\ loss["wanTCP"] >= Samples * 4
    BY <1>1, AllCounted DEF IInv
  <2>2. "wanICMP" \in Groups /\ "wanTCP" \in Groups
    BY DEF Groups
  <2>3. count["wanICMP"] <= 39
    BY <2>1, <2>2 DEF Types
  <2>4. MoreThan("wanICMP", 5)
    BY <2>1, <2>2, <2>3, LostAltogether
  <2>5. MoreThan("wanTCP", 1)
    BY <2>1, <2>2, LostAltogether
  <2> QED
    BY <2>1, <2>4, <2>5, VerdictFacts
<1>2. IInv => BlackoutIsNamed
  BY <1>1 DEF BlackoutIsNamed
<1> QED
  BY <1>2, DiagnosisInvariant, PTL

=============================================================================
