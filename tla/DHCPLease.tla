------------------------------ MODULE DHCPLease ------------------------------
(***************************************************************************)
(* The DHCP lease that `nstat status` shows: each LAN round asks three     *)
(* DHCP clients in turn for the lease of the default route's interface     *)
(* (readDHCPLease in daemon/sysnet_linux.go), and the status scores the    *)
(* time that lease has left (DHCPLeaseScore in dim/dhcplease.go).          *)
(*                                                                         *)
(* NetworkManager and networkd tell the lease they hold.  Of dhclient only *)
(* the lease files are read, which keep the leases of every network it has *)
(* been on.  A lease is kept as the ticks it has left, so that an expired  *)
(* one has 0 left, and the snapshot's lease runs out like any other; of    *)
(* several expired leases any may pass for the one that expires last.      *)
(***************************************************************************)
EXTENDS Naturals, FiniteSets

CONSTANTS Ifaces,     \* network interfaces
          Servers,    \* DHCP servers
          Lengths,    \* lease times the servers grant, in ticks
          Clients,    \* the DHCP clients in use
          NoIface,    \* no default route, or a lease block without an interface line
          Nobody,     \* no DHCP server
          Every,      \* ticks between two LAN rounds, at most
          Step,       \* ticks the clock advances at a time
          MaxBlocks   \* bound: leases in the files of dhclient

ASSUME DHCPLeaseAssumption == /\ NoIface \notin Ifaces /\ Nobody \notin Servers
                              /\ Lengths \subseteq Nat \ {0}
                              /\ Clients \subseteq {"nmcli", "networkd", "dhclient"}
                              /\ Every \in Nat /\ Step \in Nat \ {0}
                              /\ MaxBlocks \in Nat

VARIABLES iface,    \* environment: the interface of the default route
          held,     \* environment: the lease of each interface
          client,   \* environment: the DHCP client of each interface
          blocks,   \* environment: the leases in the files of dhclient
          snap,     \* snap.DHCPServer, DHCPLeaseExpiry and DHCPLeaseTime
          since,    \* ticks since the last LAN round
          overdue   \* history: whether a lease has passed its half since then

network == <<iface, held, client, blocks>>
leaseVars == <<network, snap, since, overdue>>

NoLease == [server |-> Nobody, left |-> 0, length |-> 0]
Lease(s, n) == [server |-> s, left |-> n, length |-> n]

LeaseInit == /\ iface \in Ifaces \cup {NoIface}
             /\ held = [i \in Ifaces |-> NoLease] /\ client = [i \in Ifaces |-> "none"]
             /\ blocks = {}
             /\ snap = NoLease
             /\ since = 0 /\ overdue = FALSE

-----------------------------------------------------------------------------
(* readDHCPLease; a source without a lease gives NoLease. *)

HeldBy(c, i) == IF client[i] = c THEN held[i] ELSE NoLease

leaseFromNMCLI(i) == HeldBy("nmcli", i)

\* The expiry is that of the file's last change plus the lease time: the lease's own.
leaseFromNetworkd(i) == HeldBy("networkd", i)

\* The leases of the files that are the interface's, or nobody's.
Matching(i) == {b.lease : b \in {x \in blocks : x.iface \in {i, NoIface}}}

\* Those that expire last.
Latest(ls) == {l \in ls : \A m \in ls : m.left <= l.left}

\* One of the leases that expire last; which one is up to the order of the files.
leaseFromDhclient(i) == IF Matching(i) = {} THEN {NoLease} ELSE Latest(Matching(i))

\* Mutant of readDHCPLease: the files of dhclient are asked first.
readDHCPLeaseFiles ==
  IF iface = NoIface THEN {NoLease}
  ELSE IF Matching(iface) # {} THEN leaseFromDhclient(iface)
  ELSE IF leaseFromNMCLI(iface) # NoLease THEN {leaseFromNMCLI(iface)}
  ELSE {leaseFromNetworkd(iface)}

\* The first source that has a lease.
readDHCPLease ==
  IF iface = NoIface THEN {NoLease}
  ELSE IF leaseFromNMCLI(iface) # NoLease THEN {leaseFromNMCLI(iface)}
  ELSE IF leaseFromNetworkd(iface) # NoLease THEN {leaseFromNetworkd(iface)}
  ELSE leaseFromDhclient(iface)

PastHalf(l) == l # NoLease /\ l.left < l.length \div 2

\* The lease part of a LAN round.
LeaseRound == /\ snap' \in readDHCPLease
              /\ since' = 0
              /\ overdue' = \E i \in Ifaces : PastHalf(held[i])
              /\ UNCHANGED network

-----------------------------------------------------------------------------
(* Environment. *)

\* What dhclient writes for a lease: a block, with or without its interface.
Filed(i, l) == /\ Cardinality(blocks) < MaxBlocks
               /\ \E name \in {i, NoIface} :
                    blocks' = blocks \cup {[iface |-> name, lease |-> l]}

Grant(i, c, l) == /\ held' = [held EXCEPT ![i] = l]
                  /\ client' = [client EXCEPT ![i] = c]
                  /\ IF c = "dhclient" THEN Filed(i, l) ELSE UNCHANGED blocks
                  /\ UNCHANGED <<iface, snap, since, overdue>>

\* An interface joins a network with a DHCP server.
Obtain(i) == /\ client[i] = "none"
             /\ \E c \in Clients, s \in Servers, n \in Lengths : Grant(i, c, Lease(s, n))

Renew(i) == /\ held[i] # NoLease
            /\ Grant(i, client[i], Lease(held[i].server, held[i].length))

\* The interface leaves the network or gets a static address, or its lease is dropped.
Leave(i) == /\ client[i] # "none"
            /\ held' = [held EXCEPT ![i] = NoLease]
            /\ client' = [client EXCEPT ![i] = "none"]
            /\ UNCHANGED <<iface, blocks, snap, since, overdue>>

\* The default route moves to another interface, or there is none.
Route == /\ iface' \in (Ifaces \cup {NoIface}) \ {iface}
         /\ UNCHANGED <<held, client, blocks, snap, since, overdue>>

Older(l) == [l EXCEPT !.left = IF @ > Step THEN @ - Step ELSE 0]

\* The clock; a LAN round is never further back than Every ticks.
Tick == /\ since + Step <= Every /\ since' = since + Step
        /\ held' = [i \in Ifaces |-> Older(held[i])]
        /\ blocks' = {[b EXCEPT !.lease = Older(@)] : b \in blocks}
        /\ snap' = Older(snap)
        /\ overdue' = (overdue \/ \E i \in Ifaces : PastHalf(held'[i]))
        /\ UNCHANGED <<iface, client>>

LeaseNext == \/ LeaseRound \/ Route \/ Tick
             \/ \E i \in Ifaces : Obtain(i) \/ Renew(i) \/ Leave(i)

LeaseSpec == LeaseInit /\ [][LeaseNext]_leaseVars

-----------------------------------------------------------------------------
(* The score of the lease, when `nstat status` is run. *)

\* Mutant of DHCPLeaseScore: the last third of the lease is a warning.
DHCPLeaseScoreEarly(l) == CASE l = NoLease -> "Good"
                            [] l # NoLease /\ l.left = 0 -> "Crit"
                            [] l.left > 0 /\ l.left < l.length \div 3 -> "Warn"
                            [] OTHER -> "Good"

DHCPLeaseScore(l) == CASE l = NoLease -> "Good"
                       [] l # NoLease /\ l.left = 0 -> "Crit"
                       [] l.left > 0 /\ l.left < l.length \div 10 -> "Warn"
                       [] OTHER -> "Good"

-----------------------------------------------------------------------------
(* Properties. *)

\* README.md:34-36, "A healthy client renews around the halfway mark, so a lease that drops
\* below 10% remaining [...] means renewal is failing": at whatever moment the status is
\* run, between two rounds too, the lease of a client that renews in time is GOOD, unless dhclient has left older ones.
HealthyIsGood == ~overdue /\ blocks = {} => DHCPLeaseScore(snap) = "Good"

\* A round reads the lease the default route's interface has: exactly that of
\* NetworkManager or networkd, whatever older leases lie in dhclient's files, and one of
\* dhclient's that expires no earlier.
CurrentLease ==
  [][LeaseRound /\ iface # NoIface /\ held[iface] # NoLease =>
       /\ snap'.left >= held[iface].left
       /\ client[iface] # "dhclient" => snap' = held[iface]]_leaseVars

=============================================================================
