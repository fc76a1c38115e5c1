---------------------------- MODULE NetworkTargets ----------------------------
(***************************************************************************)
(* The probes that follow the network: each LAN round detects the DNS      *)
(* server and the default gateway anew, hands them to the dimensions       *)
(* (dim/dns.go, dim/dhcp.go) and probes both (doLANChecks in               *)
(* daemon/daemon.go).  The system's configuration is read at two moments   *)
(* and the probes come later, so the laptop may change networks at any     *)
(* point of a round.                                                       *)
(*                                                                         *)
(* The ping of the gateway (pingOnce in daemon/probes.go) takes the first  *)
(* echo reply that carries its sequence number, whoever sent it.  Where    *)
(* unprivileged sockets are allowed each ping has a socket of its own and  *)
(* gets only replies to it; a raw socket gets all replies the host gets,   *)
(* late ones to earlier pings of the process included.                     *)
(*                                                                         *)
(* The snapshot is written by the main loop only, so it is read when no    *)
(* round is in progress.                                                   *)
(***************************************************************************)
EXTENDS Naturals, FiniteSets

CONSTANTS Resolvers,  \* name servers a network can have
          Routers,    \* default gateways a network can have
          Stub,       \* 127.0.0.53, which detectDNS falls back on
          NoServer,   \* no gateway, no probe yet
          Target,     \* cfg.PingTarget, which the main loop pings
          Seqs,       \* sequence numbers, the low 16 bits of the time
          Late        \* bound: replies under way at a time

ASSUME NetworkTargetsAssumption == /\ Stub \notin Resolvers
                                   /\ NoServer \notin Routers \cup Resolvers
                                   /\ Target \notin Routers \cup {NoServer}
                                   /\ Late \in Nat

VARIABLES pc,        \* the next step of the round, "idle" between rounds
          net,       \* environment: the name server and the default route
          server,    \* DNS.server and Gateway.server
          shown,     \* the snapshot's server and last result of both
          raw,       \* whether pings need a raw socket
          seq,       \* sequence number of the ping of the gateway
          replies,   \* environment: the replies under way to sockets that may get them
          asked,     \* history: the server behind each last result
          collided   \* history: the ping had the number of a reply under way

ping == <<raw, seq, replies>>
targetsVars == <<pc, net, server, shown, ping, asked, collided>>

Networks == [dns : Resolvers \cup {NoServer}, gateway : Routers \cup {NoServer}]

\* detectDNS: the first name server that is not on this host, or the stub.
detectDNS == IF net.dns = NoServer THEN Stub ELSE net.dns

\* detectGateway: Nobody stands for its error.
detectGateway == net.gateway

\* Run up to its first round: nothing is probed yet, and nothing has failed.
TargetsInit == /\ pc = "dns"
               /\ net \in Networks
               /\ server = [dns |-> detectDNS, gateway |-> detectGateway]
               /\ shown = [DNSServer |-> server.dns, DNSLastOK |-> TRUE,
                           GatewayServer |-> server.gateway, GatewayLastOK |-> TRUE]
               /\ raw \in BOOLEAN /\ seq \in Seqs /\ replies = {}
               /\ asked = [dns |-> NoServer, gateway |-> NoServer]
               /\ collided = FALSE

Begin == /\ pc = "idle" /\ pc' = "dns"
         /\ UNCHANGED <<net, server, shown, ping, asked, collided>>

\* A reply of server s to the ping with number n.
Reply(s, n) == [from |-> s, seq |-> n]

\* A ping of the main loop between two rounds that has timed out: its reply may be late.
PingTarget(n) == /\ pc = "idle"
                 /\ raw /\ Cardinality(replies) < Late
                 /\ replies' = replies \cup {Reply(Target, n)}
                 /\ UNCHANGED <<pc, net, server, shown, raw, seq, asked, collided>>

DetectDNS == /\ pc = "dns" /\ pc' = "gateway"
             /\ server' = [server EXCEPT !.dns = detectDNS]
             /\ UNCHANGED <<net, shown, ping, asked, collided>>

\* Mutant of DetectGateway: a gateway is only taken up while there is none.
DetectGatewayOnce ==
  /\ pc = "gateway" /\ pc' = "resolve"
  /\ server' = IF server.gateway # NoServer THEN server
               ELSE [server EXCEPT !.gateway = detectGateway]
  /\ shown' = [shown EXCEPT !.DNSServer = server'.dns, !.GatewayServer = server'.gateway]
  /\ UNCHANGED <<net, ping, asked, collided>>

\* A failed detection leaves the gateway as it was; then the snapshot gets both servers.
DetectGateway ==
  /\ pc = "gateway" /\ pc' = "resolve"
  /\ server' = IF detectGateway = NoServer THEN server
               ELSE [server EXCEPT !.gateway = detectGateway]
  /\ shown' = [shown EXCEPT !.DNSServer = server'.dns, !.GatewayServer = server'.gateway]
  /\ UNCHANGED <<net, ping, asked, collided>>

\* dnsCheck: whether the server answers is up to the network.
Resolve(ok) == /\ pc = "resolve" /\ pc' = "ping"
               /\ shown' = [shown EXCEPT !.DNSLastOK = ok]
               /\ asked' = [asked EXCEPT !.dns = server.dns]
               /\ UNCHANGED <<net, server, ping, collided>>

-----------------------------------------------------------------------------
(* The ping of the gateway. *)

\* It is left out while no gateway has ever been detected.
NoGateway == /\ pc = "ping" /\ pc' = "idle"
             /\ server.gateway = NoServer
             /\ UNCHANGED <<net, server, shown, ping, asked, collided>>

\* The request leaves; the gateway's reply may come soon, late or never.
Send(n) == /\ pc = "ping" /\ pc' = "wait"
           /\ server.gateway # NoServer
           /\ seq' = n
           /\ \E r \in {{}, {Reply(server.gateway, n)}} : replies' = replies \cup r
           /\ Cardinality(replies') <= Late
           /\ collided' = (n \in {r.seq : r \in replies})
           /\ UNCHANGED <<net, server, shown, raw, asked>>

\* The end of a ping, and of the round: an unprivileged socket takes its replies along.
Ends(ok, from, rest) ==
  /\ pc' = "idle"
  /\ shown' = [shown EXCEPT !.GatewayLastOK = ok]
  /\ asked' = [asked EXCEPT !.gateway = from]
  /\ replies' = IF raw THEN rest ELSE {}
  /\ UNCHANGED <<net, server, raw, seq, collided>>

\* Mutant of Accepted: every echo reply will do.
AcceptedAny(r) == r \in replies

\* The read loop goes on to the first reply with the right number.
Accepted(r) == r.seq = seq

Answered(r) == /\ pc = "wait" /\ r \in replies /\ Accepted(r)
               /\ Ends(TRUE, r.from, replies \ {r})

\* Another reply is read and skipped; the deadline stays.
Skip(r) == /\ pc = "wait" /\ r \in replies /\ ~Accepted(r)
           /\ replies' = replies \ {r}
           /\ UNCHANGED <<pc, net, server, shown, raw, seq, asked, collided>>

\* Mutant of TimesOut: a lost ping of the gateway is not recorded.
TimesOutSilently == /\ pc = "wait" /\ pc' = "idle"
                    /\ replies' = IF raw THEN replies ELSE {}
                    /\ UNCHANGED <<net, server, shown, raw, seq, asked, collided>>

\* No reply in time, or no socket, or no route to send on.
TimesOut == pc = "wait" /\ Ends(FALSE, server.gateway, replies)

\* Environment: a reply is lost, or read by no ping.
Lost(r) == /\ r \in replies
           /\ replies' = replies \ {r}
           /\ UNCHANGED <<pc, net, server, shown, raw, seq, asked, collided>>

\* Environment: the laptop joins another network, or loses this one.
Move == /\ net' \in Networks \ {net}
        /\ UNCHANGED <<pc, server, shown, ping, asked, collided>>

TargetsRound == \/ Begin \/ DetectDNS \/ DetectGateway \/ NoGateway \/ TimesOut
                \/ \E ok \in BOOLEAN : Resolve(ok)
                \/ \E n \in Seqs : Send(n)
                \/ \E r \in replies : Answered(r)

TargetsNext == \/ TargetsRound \/ Move
               \/ \E n \in Seqs : PingTarget(n)
               \/ \E r \in replies : Skip(r) \/ Lost(r)

TargetsSpec == TargetsInit /\ [][TargetsNext]_targetsVars

\* The main loop runs a round every LANInterval.  Each probe of it has a deadline; nmcli,
\* which reads the lease after them, has none and is assumed to return.
FairTargetsSpec == TargetsSpec /\ WF_targetsVars(TargetsRound)

-----------------------------------------------------------------------------
(* Properties. *)

\* The snapshot never shows the result of one server under the name of another, neither
\* after a change of networks nor by a late reply, unless that reply has the number of the
\* ping that waits; and a gateway nobody has detected is not unreachable.
ResultsAreTheServers ==
  pc = "idle" => /\ asked.dns = shown.DNSServer
                 /\ asked.gateway = shown.GatewayServer \/ collided
                 /\ shown.GatewayServer = NoServer => shown.GatewayLastOK

\* On a network with a gateway and a name server where the laptop stays, both are the
\* ones probed in the end (README.md:27-29, "follows the laptop onto new networks").
FollowsTheLaptop ==
  \A g \in Routers, d \in Resolvers :
    <>[](net = [dns |-> d, gateway |-> g])
      => <>[](shown.DNSServer = d /\ shown.GatewayServer = g)

\* A default route that is lost is not detected as such, the gateway before stays
\* (daemon.go:407): the pings have to tell.  If it does not answer any more, the snapshot
\* shows it as failed in the end, not with the last result it had on its own network.
LeftGatewayFails ==
  <>[](net.gateway = NoServer) /\ <>[][\A r \in replies : ~Answered(r)]_targetsVars
    => <>[](shown.GatewayServer = NoServer \/ ~shown.GatewayLastOK)

=============================================================================
