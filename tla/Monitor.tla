-------------------------------- MODULE Monitor --------------------------------
(***************************************************************************)
(* The main loop of the daemon (Run in daemon/daemon.go) and the state     *)
(* file it publishes (state/state.go): the ping of each iteration, the     *)
(* outage detection, the counters of the session, the log rotation that    *)
(* restarts them, and the write of the snapshot to a temporary file that   *)
(* is then renamed.  The process can die between any two steps and be      *)
(* started again; each system call of the write can fail.                  *)
(*                                                                         *)
(* The loss window is the sliding window LossStats implements              *)
(* (PingWindows, WindowIsRecentPings).  The LAN checks of the loop write   *)
(* other fields of the snapshot; TCPTargets and MTUProbe model them.       *)
(***************************************************************************)
EXTENDS Integers, Sequences, FiniteSets

CONSTANTS LossThreshold,  \* cfg.LossThreshold
          Window,         \* cfg.RTTWindow
          Keep,           \* outages RecordOutage keeps (20)
          Hour,           \* ticks in an hour
          Rotates,        \* whether log rotations happen
          SessionPings    \* bound: pings between two rotations (24 h of them)

ASSUME MonitorAssumption == /\ LossThreshold \in Nat \ {0}
                            /\ Window \in Nat \ {0}
                            /\ Keep \in Nat \ {0}
                            /\ Hour \in Nat \ {0}
                            /\ Rotates \in BOOLEAN
                            /\ SessionPings \in Nat \ {0}

VARIABLES pc,               \* the next step of the loop, "off" when no daemon runs
          consecutiveLoss, inOutage, outages, outageTimes, recent, snap,
          tmp, disk,        \* nstat.state.json.tmp and nstat.state.json
          hist              \* history: the pings of the session, TRUE for a lost one

memory == <<consecutiveLoss, inOutage, outages, outageTimes, recent, snap>>
files == <<tmp, disk>>
vars == <<pc, memory, files, hist>>

\* outages is Outages.Count, outageTimes the ages of Outages.recentTimes, recent the
\* window of LossStats; both observers of the pings are replaced at a rotation.
W == INSTANCE SlidingWindow
       WITH Size <- Window, Outcomes <- BOOLEAN, Bad <- TRUE,
            total <- snap.LossWinTotal, lost <- snap.LossWinLost

Older(l) == [k \in DOMAIN l |-> IF l[k] < Hour THEN l[k] + 1 ELSE l[k]]

\* RecordOutage: append the new outage, drop the oldest beyond Keep.
RecordedIn(l) == LET m == Append(l, 0) IN IF Len(m) > Keep THEN Tail(m) ELSE m

NewSnap == [PingsTotal |-> 0, LossTotal |-> 0, OutageCount |-> 0, InOutage |-> FALSE,
            Answered |-> FALSE, LossWinTotal |-> 0, LossWinLost |-> 0]

\* What a file holds: nothing, part of a snapshot, or a snapshot and the outage times
\* copied into it just before the write (daemon.go:253).
NoFile == [kind |-> "none"]
Torn == [kind |-> "torn"]
Complete(s, times) == [kind |-> "complete", snap |-> s, RecentOutage |-> times]
\* A temporary file left behind is truncated before anything reads it: of its content
\* only that it is not a snapshot to publish is kept.
LeftBehind(f) == IF f = NoFile THEN NoFile ELSE Torn

OlderFile(f) ==
  IF f.kind = "complete" THEN [f EXCEPT !.RecentOutage = Older(@)] ELSE f

FreshProcess == /\ consecutiveLoss = 0 /\ inOutage = FALSE
                /\ outages = 0 /\ outageTimes = << >>
                /\ recent = << >>
                /\ snap = NewSnap
                /\ hist = << >>

Init == pc = "top" /\ FreshProcess /\ tmp = NoFile /\ disk = NoFile

-----------------------------------------------------------------------------
(* The loop. *)

Continue == /\ pc = "top" /\ pc' = "ping"
            /\ snap.PingsTotal < SessionPings
            /\ UNCHANGED <<memory, files, hist>>

\* Mutant of Rotate: the run of losses is not reset.
RotateKeepsRun ==
  /\ Rotates
  /\ pc = "top" /\ pc' = "ping"
  /\ recent' = << >>
  /\ snap' = [snap EXCEPT !.PingsTotal = 0, !.LossTotal = 0, !.OutageCount = 0]
  /\ outages' = 0 /\ outageTimes' = << >>
  /\ inOutage' = FALSE
  /\ hist' = << >>
  /\ UNCHANGED <<consecutiveLoss, files>>

\* The reset at a log rotation.  snap.InOutage and snap.RecentOutage keep their values.
Rotate == /\ Rotates
          /\ pc = "top" /\ pc' = "ping"
          /\ recent' = << >>
          /\ snap' = [snap EXCEPT !.PingsTotal = 0, !.LossTotal = 0, !.OutageCount = 0]
          /\ outages' = 0 /\ outageTimes' = << >>
          /\ consecutiveLoss' = 0
          /\ inOutage' = FALSE
          /\ hist' = << >>
          /\ UNCHANGED files

\* The observers of the ping and the copies of their figures (daemon.go:233-237).
Observe(lost) == recent' = W!Slide(recent, lost)

\* Mutant of PingLost: an outage is recorded at each loss past the threshold.
PingLostEach ==
  LET starts == consecutiveLoss + 1 >= LossThreshold
  IN  /\ pc = "ping" /\ pc' = "write"
      /\ consecutiveLoss' = consecutiveLoss + 1
      /\ Observe(TRUE)
      /\ inOutage' = (inOutage \/ starts)
      /\ outages' = IF starts THEN outages + 1 ELSE outages
      /\ outageTimes' = IF starts THEN RecordedIn(outageTimes) ELSE outageTimes
      /\ snap' = [snap EXCEPT !.PingsTotal = @ + 1, !.LossTotal = @ + 1,
                              !.Answered = FALSE,
                              !.InOutage = @ \/ starts,
                              !.OutageCount = IF starts THEN outages' ELSE @,
                              !.LossWinTotal = Len(recent'),
                              !.LossWinLost = W!LostIn(recent')]
      /\ hist' = Append(hist, TRUE)
      /\ UNCHANGED files

PingLost ==
  LET starts == consecutiveLoss + 1 = LossThreshold
  IN  /\ pc = "ping" /\ pc' = "write"
      /\ consecutiveLoss' = consecutiveLoss + 1
      /\ Observe(TRUE)
      /\ inOutage' = (inOutage \/ starts)
      /\ outages' = IF starts THEN outages + 1 ELSE outages
      /\ outageTimes' = IF starts THEN RecordedIn(outageTimes) ELSE outageTimes
      /\ snap' = [snap EXCEPT !.PingsTotal = @ + 1, !.LossTotal = @ + 1,
                              !.Answered = FALSE,
                              !.InOutage = @ \/ starts,
                              !.OutageCount = IF starts THEN outages' ELSE @,
                              !.LossWinTotal = Len(recent'),
                              !.LossWinLost = W!LostIn(recent')]
      /\ hist' = Append(hist, TRUE)
      /\ UNCHANGED files

PingAnswered ==
  /\ pc = "ping" /\ pc' = "write"
  /\ consecutiveLoss' = 0
  /\ Observe(FALSE)
  /\ inOutage' = FALSE
  /\ snap' = [snap EXCEPT !.PingsTotal = @ + 1,
                          !.Answered = TRUE,
                          !.InOutage = @ /\ ~inOutage,
                          !.LossWinTotal = Len(recent'),
                          !.LossWinLost = W!LostIn(recent')]
  /\ hist' = Append(hist, FALSE)
  /\ UNCHANGED <<outages, outageTimes, files>>

-----------------------------------------------------------------------------
(* state.Write: os.WriteFile truncates the temporary file and fills it, then it is  *)
(* renamed.  An error of any of the calls is logged and the loop goes on.           *)

\* Mutant of OpenTmp: the state file itself is truncated.
OpenInPlace == /\ pc = "write" /\ pc' = "fill"
               /\ disk' = Torn
               /\ UNCHANGED <<memory, tmp, hist>>

OpenTmp == /\ pc = "write" /\ pc' = "fill"
           /\ tmp' = Torn
           /\ UNCHANGED <<memory, disk, hist>>

FillTmp == /\ pc = "fill" /\ pc' = "rename"
           /\ tmp' = Complete(snap, outageTimes)
           /\ UNCHANGED <<memory, disk, hist>>

Rename == /\ pc = "rename" /\ pc' = "top"
          /\ disk' = tmp
          /\ tmp' = NoFile
          /\ UNCHANGED <<memory, hist>>

WriteFails == /\ pc \in {"write", "fill", "rename"} /\ pc' = "top"
              /\ tmp' = LeftBehind(tmp)
              /\ UNCHANGED <<memory, disk, hist>>

-----------------------------------------------------------------------------
(* Environment. *)

\* The process dies; the files stay as they are.
Crash == /\ pc # "off" /\ pc' = "off"
         /\ consecutiveLoss' = 0 /\ inOutage' = FALSE
         /\ outages' = 0 /\ outageTimes' = << >>
         /\ recent' = << >>
         /\ snap' = NewSnap
         /\ hist' = << >>
         /\ tmp' = LeftBehind(tmp)
         /\ UNCHANGED disk

\* A new daemon is started: Run up to its loop.
Boot == /\ pc = "off" /\ pc' = "top"
        /\ UNCHANGED <<memory, files, hist>>

Tick == /\ outageTimes' = Older(outageTimes)
        /\ tmp' = OlderFile(tmp) /\ disk' = OlderFile(disk)
        /\ UNCHANGED <<pc, consecutiveLoss, inOutage, outages, recent, snap, hist>>

Next == \/ Continue \/ Rotate \/ PingLost \/ PingAnswered
        \/ OpenTmp \/ FillTmp \/ Rename \/ WriteFails
        \/ Crash \/ Boot \/ Tick

Spec == Init /\ [][Next]_vars

-----------------------------------------------------------------------------
(* Properties. *)

TypeOK ==
  /\ pc \in {"off", "top", "ping", "write", "fill", "rename"}
  /\ consecutiveLoss \in Nat /\ inOutage \in BOOLEAN
  /\ outages \in Nat /\ outageTimes \in Seq(0 .. Hour) /\ Len(outageTimes) <= Keep
  /\ recent \in Seq(BOOLEAN) /\ Len(recent) <= Window
  /\ snap \in [PingsTotal : Nat, LossTotal : Nat, OutageCount : Nat, InOutage : BOOLEAN,
               Answered : BOOLEAN, LossWinTotal : 0 .. Window, LossWinLost : 0 .. Window]
  /\ tmp.kind \in {"none", "torn", "complete"} /\ disk.kind \in {"none", "torn", "complete"}
  /\ hist \in Seq(BOOLEAN)

\* The figures of a session, read off its pings.
LostPings(h) == {k \in 1 .. Len(h) : h[k]}
RunAt(h, n) == Cardinality({k \in 1 .. n : \A j \in k .. n : h[j]})
OutageStarts(h) == {n \in 1 .. Len(h) : RunAt(h, n) = LossThreshold}
LastPings(h) == {k \in LostPings(h) : k > Len(h) - Window}

\* The session summary and the windowed loss are those of the pings of the session:
\* every loss and every outage is counted once, and a rotation forgets all of them.
SessionFigures ==
  /\ snap.PingsTotal = Len(hist)
  /\ snap.LossTotal = Cardinality(LostPings(hist))
  /\ consecutiveLoss = RunAt(hist, Len(hist))
  /\ outages = Cardinality(OutageStarts(hist)) /\ snap.OutageCount = outages
  /\ hist # << >> => /\ snap.Answered = ~hist[Len(hist)]
                     /\ snap.LossWinTotal = Len(recent)
                     /\ snap.LossWinLost = Cardinality(LastPings(hist))

\* The figures of one snapshot fit together: the loss window covers the session or
\* is full, no loss of the window is missing from the lifetime count, every counted
\* outage accounts for LossThreshold lost pings, and the list of outage times has
\* every counted outage up to its limit.
FitsTogether(f) ==
  f.kind = "complete" =>
    LET s == f.snap
    IN  /\ s.LossTotal <= s.PingsTotal
        /\ s.LossWinTotal = IF s.PingsTotal < Window THEN s.PingsTotal ELSE Window
        /\ s.LossWinLost <= s.LossTotal
        /\ LossThreshold * s.OutageCount <= s.LossTotal
        /\ Len(f.RecentOutage) = IF s.OutageCount < Keep THEN s.OutageCount ELSE Keep

\* What `nstat status` reads is a whole snapshot of one moment of the loop, at
\* whatever point of the write the daemon dies or a call fails.
PublishedIsWhole == disk.kind # "torn" /\ FitsTogether(disk)

\* The loop implements the outage detector: its counters and its file operations do
\* not change when the alarm is raised, cleared and published.
Detector ==
  INSTANCE OutageDetector
    WITH phase <- IF pc \in {"fill", "rename"} THEN "write" ELSE pc,
         run <- IF consecutiveLoss < LossThreshold THEN consecutiveLoss ELSE LossThreshold,
         log <- outageTimes,
         flag <- snap.InOutage,
         answered <- snap.Answered,
         shown <- disk.kind = "complete" /\ disk.snap.InOutage,
         shownLog <- IF disk.kind = "complete" THEN disk.RecentOutage ELSE << >>,
         Restarts <- TRUE,
         WriteFaults <- TRUE

ImplementsDetector == Detector!Spec

=============================================================================
