------------------------------ MODULE Lifecycle ------------------------------
(***************************************************************************)
(* Starting and stopping the daemon: the commands `nstat start` and `nstat *)
(* stop` (cmd/start.go, cmd/stop.go), the daemon's PID file and its signal *)
(* handler (Run in daemon/daemon.go).  Commands and daemons are processes  *)
(* that share only the PID file and what the system says of a process id.  *)
(*                                                                         *)
(* The daemon a Start spawns is named after it: its process id is new.     *)
(* Once a daemon is gone its id may be given to another program, which is  *)
(* what happens to a PID file that outlives a reboot.                      *)
(*                                                                         *)
(* Nothing is locked.  Commands may overlap, and a daemon may come up      *)
(* after its Start has given up: `hasty` counts the commands that acted on *)
(* the file while another one was still to change it.                      *)
(***************************************************************************)
EXTENDS Naturals, FiniteSets

CONSTANTS Starts,   \* the runs of `nstat start` that spawn a daemon
          Stops,    \* the users who run `nstat stop`, again and again
          NoPid,    \* what readPID finds in no file, or in an empty one
          NoDaemon, \* no daemon, or no open file
          Reuse     \* whether ids of dead daemons are given to other programs

ASSUME LifecycleAssumption == /\ IsFiniteSet(Starts)
                              /\ NoPid \notin Starts /\ NoDaemon \notin Starts
                              /\ Reuse \in BOOLEAN

VARIABLES pidFile,  \* the file at PIDFile: the daemon that created it, the id in it
          start,    \* where each Start is
          stop,     \* where each Stop is
          target,   \* the id a Stop has read, then the one it has signalled
          daemon,   \* where the daemon of each Start is
          opened,   \* the file a daemon writes its id to, by creator
          foreign,  \* ids that belong to other programs
          hasty     \* history: the commands that did not wait for the one before

vars == <<pidFile, start, stop, target, daemon, opened, foreign, hasty>>

NoFile == [creator |-> NoDaemon, pid |-> NoPid]

StartPlaces == {"idle", "spawn", "poll", "done"}
StopPlaces == {"idle", "signal", "remove"}
DaemonPlaces == {"none", "init", "writing", "deaf", "up", "exiting", "leaving", "dead"}

Init == /\ pidFile = NoFile
        /\ start = [s \in Starts |-> "idle"]
        /\ stop = [t \in Stops |-> "idle"]
        /\ target = [t \in Stops |-> NoPid]
        /\ daemon = [d \in Starts |-> "none"]
        /\ opened = [d \in Starts |-> NoDaemon]
        /\ foreign = {} /\ hasty = 0

Living(d) == daemon[d] \notin {"none", "dead"}

\* isAlive: kill(pid, 0) finds another program too, and a dead child its Start has not
\* left behind yet.
Alive(p) == \/ p \in foreign
            \/ p \in Starts /\ (Living(p) \/ (daemon[p] = "dead" /\ start[p] = "poll"))

Quiet == /\ \A s \in Starts : start[s] \notin {"spawn", "poll"}
         /\ \A t \in Stops : stop[t] \notin {"signal", "remove"}

\* The file is about to change: a daemon has still to write its id, a Stop to remove it.
Arriving == \E s \in Starts : start[s] = "spawn" \/ daemon[s] \in {"init", "writing"}
\* More than there are daemons says nothing new.
OneMore == IF hasty < Cardinality(Starts) THEN hasty + 1 ELSE hasty
Removing == \E t \in Stops : stop[t] = "remove"

-----------------------------------------------------------------------------
(* nstat start *)

\* Mutant of StartCheck: whatever the file says, the daemon is spawned.
StartUnchecked(s) ==
  /\ start[s] = "idle"
  /\ start' = [start EXCEPT ![s] = "spawn"]
  /\ hasty' = IF Arriving \/ Removing THEN OneMore ELSE hasty
  /\ UNCHANGED <<pidFile, stop, target, daemon, opened, foreign>>

\* "check if already running"
StartCheck(s) ==
  /\ start[s] = "idle"
  /\ start' = [start EXCEPT ![s] = IF Alive(pidFile.pid) THEN "idle" ELSE "spawn"]
  /\ hasty' = IF ~Alive(pidFile.pid) /\ (Arriving \/ Removing) THEN OneMore ELSE hasty
  /\ UNCHANGED <<pidFile, stop, target, daemon, opened, foreign>>

StartSpawn(s) ==
  /\ start[s] = "spawn"
  /\ start' = [start EXCEPT ![s] = "poll"]
  /\ daemon' = [daemon EXCEPT ![s] = "init"]
  /\ UNCHANGED <<pidFile, stop, target, opened, foreign, hasty>>

\* Start returns once the file holds a live id, whoever's, or after 2 s, although its
\* daemon may still come up.
StartReturns(s) ==
  /\ start[s] = "poll"
  /\ start' = [start EXCEPT ![s] = "done"]
  /\ UNCHANGED <<pidFile, stop, target, daemon, opened, foreign, hasty>>

-----------------------------------------------------------------------------
(* The daemon: the PID file is created or truncated, then written; until          *)
(* signal.Notify a SIGTERM kills it; then the handler removes the file and exits. *)

DaemonOpens(d) ==
  LET creator == IF pidFile = NoFile THEN d ELSE pidFile.creator
  IN  /\ daemon[d] = "init"
      /\ daemon' = [daemon EXCEPT ![d] = "writing"]
      /\ pidFile' = [creator |-> creator, pid |-> NoPid]
      /\ opened' = [opened EXCEPT ![d] = creator]
      /\ UNCHANGED <<start, stop, target, foreign, hasty>>

\* The write reaches the file that was opened, even if it has been removed since.
DaemonWrites(d) ==
  /\ daemon[d] = "writing"
  /\ daemon' = [daemon EXCEPT ![d] = "deaf"]
  /\ pidFile' = IF pidFile.creator = opened[d] THEN [pidFile EXCEPT !.pid = d] ELSE pidFile
  /\ UNCHANGED <<start, stop, target, opened, foreign, hasty>>

DaemonListens(d) ==
  /\ daemon[d] = "deaf"
  /\ daemon' = [daemon EXCEPT ![d] = "up"]
  /\ UNCHANGED <<pidFile, start, stop, target, opened, foreign, hasty>>

\* Mutant of HandlerRemoves: the file is removed and the process goes on.
HandlerReturns(d) ==
  /\ daemon[d] = "exiting"
  /\ daemon' = [daemon EXCEPT ![d] = "up"]
  /\ pidFile' = NoFile
  /\ UNCHANGED <<start, stop, target, opened, foreign, hasty>>

\* os.Remove(cfg.PIDFile), without a look at what it names.
HandlerRemoves(d) ==
  /\ daemon[d] = "exiting"
  /\ daemon' = [daemon EXCEPT ![d] = "leaving"]
  /\ pidFile' = NoFile
  /\ UNCHANGED <<start, stop, target, opened, foreign, hasty>>

HandlerExits(d) ==
  /\ daemon[d] = "leaving"
  /\ daemon' = [daemon EXCEPT ![d] = "dead"]
  /\ UNCHANGED <<pidFile, start, stop, target, opened, foreign, hasty>>

-----------------------------------------------------------------------------
(* nstat stop *)

StopCheck(t) ==
  LET p == pidFile.pid
  IN  /\ stop[t] = "idle"
      /\ stop' = [stop EXCEPT ![t] = IF p = NoPid THEN "idle"
                                     ELSE IF Alive(p) THEN "signal" ELSE "remove"]
      /\ target' = [target EXCEPT ![t] = p]
      /\ hasty' = IF stop'[t] = "remove" /\ Arriving THEN OneMore ELSE hasty
      /\ UNCHANGED <<pidFile, start, daemon, opened, foreign>>

\* The stale file is removed, whatever it holds by now.
StopRemoves(t) ==
  /\ stop[t] = "remove"
  /\ stop' = [stop EXCEPT ![t] = "idle"]
  /\ target' = [target EXCEPT ![t] = NoPid]
  /\ pidFile' = NoFile
  /\ UNCHANGED <<start, daemon, opened, foreign, hasty>>

\* Mutant of Signalled: SIGTERM is handled from the first instruction on, and lost
\* while nobody listens.
SignalIgnored(place) == IF place = "up" THEN "exiting" ELSE place

\* What SIGTERM does to a daemon.
Signalled(place) ==
  CASE place \in {"init", "writing", "deaf"} -> "dead"
    [] place = "up" -> "exiting"
    [] OTHER -> place

StopSignals(t) ==
  LET p == target[t]
  IN  /\ stop[t] = "signal"
      /\ stop' = [stop EXCEPT ![t] = "idle"]
      /\ target' = IF Alive(p) THEN target ELSE [target EXCEPT ![t] = NoPid]
      /\ daemon' = [daemon EXCEPT ![p] = Signalled(@)]
      /\ foreign' = foreign \ {p}
      /\ UNCHANGED <<pidFile, start, opened, hasty>>

-----------------------------------------------------------------------------
(* Environment. *)

\* A daemon dies without its handler: a failed open of the log, a crash, a reboot.
Dies(d) == /\ Living(d)
           /\ daemon' = [daemon EXCEPT ![d] = "dead"]
           /\ UNCHANGED <<pidFile, start, stop, target, opened, foreign, hasty>>

\* Ids are handed out in turn: one comes back after a long time or a reboot, not within
\* the seconds of a command.
Reused(p) == /\ Reuse /\ Quiet
             /\ daemon[p] = "dead" /\ ~Alive(p)
             /\ foreign' = foreign \cup {p}
             /\ UNCHANGED <<pidFile, start, stop, target, daemon, opened, hasty>>

Handler(d) == HandlerRemoves(d) \/ HandlerExits(d)

DaemonStep(d) == DaemonOpens(d) \/ DaemonWrites(d) \/ DaemonListens(d) \/ Handler(d)

StartStep(s) == StartSpawn(s) \/ StartReturns(s)

StopStep(t) == StopRemoves(t) \/ StopSignals(t)

Next == \/ \E s \in Starts : StartCheck(s) \/ StartStep(s)
        \/ \E d \in Starts : DaemonStep(d) \/ Dies(d) \/ Reused(d)
        \/ \E t \in Stops : StopCheck(t) \/ StopStep(t)

Spec == Init /\ [][Next]_vars

\* A signal handler that has begun goes on; nobody is forced to give a command.
FairSpec == Spec /\ \A d \in Starts : WF_vars(Handler(d))

-----------------------------------------------------------------------------
(* Properties. *)

TypeOK == /\ pidFile \in [creator : Starts \cup {NoDaemon}, pid : Starts \cup {NoPid}]
          /\ start \in [Starts -> StartPlaces]
          /\ stop \in [Stops -> StopPlaces]
          /\ target \in [Stops -> Starts \cup {NoPid}]
          /\ daemon \in [Starts -> DaemonPlaces]
          /\ opened \in [Starts -> Starts \cup {NoDaemon}]
          /\ foreign \subseteq Starts /\ hasty \in 0 .. Cardinality(Starts)

Working(d) == daemon[d] \in {"init", "writing", "deaf", "up"}

\* One daemon at a time probes the network and writes the state file: Start is there to
\* refuse a second one (start.go:43, "check if already running").  Only a command that
\* did not wait for the file to settle can add one, and then only one, however many
\* commands follow.
SingleDaemon == Cardinality({d \in Starts : Working(d)}) <= 1 + hasty

\* Between commands the PID file names the daemon that runs, so `nstat status` reports
\* it and `nstat stop` reaches it.  What a hasty command puts out of reach is one daemon.
RunningIsNamed ==
  Quiet => Cardinality({d \in Starts : daemon[d] \in {"deaf", "up"} /\ pidFile.pid # d}) <= hasty

\* The daemon a Stop has signalled is gone in the end (stop.go:27, "nstat stopped"),
\* in whatever part of its life the signal found it.
StopTakesEffect ==
  \A t \in Stops, d \in Starts : (stop[t] = "idle" /\ target[t] = d) ~> daemon[d] = "dead"

=============================================================================
