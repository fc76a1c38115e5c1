------------------------------ MODULE KernelStats ------------------------------
(***************************************************************************)
(* The kernel's TCP counters as the daemon reports them: each LAN round    *)
(* reads them (doLANChecks in daemon/daemon.go), KernelTCPStats.Update     *)
(* (dim/kernelstats.go) turns them into changes, and the snapshot shows    *)
(* the changes.  A round whose read fails leaves all of it as it was, and  *)
(* adds the row of the round before to the CSV files once more.  The first *)
(* reading only sets the baseline.                                         *)
(***************************************************************************)
EXTENDS Integers

CONSTANTS Counters,  \* the counters Update keeps a change of
          AtStart,   \* what a counter can be when the daemon starts
          Limit,     \* bound: how far each counter goes
          Faults     \* bound: rounds whose read fails

ASSUME KernelStatsAssumption == /\ {"InErrs", "EstabResets"} \subseteq Counters
                                /\ AtStart \subseteq Nat
                                /\ Limit \in Nat
                                /\ Faults \in Nat

VARIABLES counter,      \* environment: the counters of the kernel
          prev, delta, initialized,
          changes,      \* the changes in the snapshot
          first,        \* history: the first reading
          reported,     \* history: the changes shown so far, added up
          faults,       \* history: rounds whose read has failed
          rows          \* history: the rows of csv_tcp_errors.csv, added up

tracker == <<prev, delta, initialized>>
history == <<first, reported, faults, rows>>
countersVars == <<counter, tracker, changes, history>>

Readings == [Counters -> Nat]
Zeros == [c \in Counters |-> 0]

CountersInit == /\ counter \in [Counters -> AtStart]
                /\ prev = Zeros /\ delta = Zeros /\ initialized = FALSE
                /\ changes = Zeros
                /\ first = Zeros /\ reported = Zeros
                /\ faults = 0 /\ rows = 0

Minus(a, b) == [c \in Counters |-> a[c] - b[c]]
Plus(a, b) == [c \in Counters |-> a[c] + b[c]]

\* Mutant of Update: the baseline is that of the first reading.
UpdateKeepsBaseline(now) ==
  /\ delta' = IF initialized THEN Minus(now, prev) ELSE delta
  /\ prev' = IF initialized THEN prev ELSE now
  /\ initialized' = TRUE

\* KernelTCPStats.Update.
Update(now) ==
  /\ delta' = IF initialized THEN Minus(now, prev) ELSE delta
  /\ prev' = now
  /\ initialized' = TRUE

\* TCPErrors.Value, the row that is appended to csv_tcp_errors.csv.
Errors(d) == d["InErrs"] + d["EstabResets"]

\* Mutant of Read: the row is appended before the reading.
ReadLogsFirst == /\ Update(counter)
                 /\ changes' = delta'
                 /\ rows' = rows + Errors(delta)
                 /\ first' = IF initialized THEN first ELSE counter
                 /\ reported' = Plus(reported, changes')
                 /\ UNCHANGED <<counter, faults>>

\* A round whose read succeeds: the change is shown and logged (daemon.go:383-398).
Read == /\ Update(counter)
        /\ changes' = delta'
        /\ rows' = rows + Errors(delta')
        /\ first' = IF initialized THEN first ELSE counter
        /\ reported' = Plus(reported, changes')
        /\ UNCHANGED <<counter, faults>>

\* A round whose read fails shows and logs the changes of the round before.
ReadFails == /\ faults < Faults
             /\ faults' = faults + 1
             /\ rows' = rows + Errors(delta)
             /\ UNCHANGED <<counter, tracker, changes, first, reported>>

\* Environment: traffic.
Count(c) == /\ counter[c] < Limit
            /\ counter' = [counter EXCEPT ![c] = @ + 1]
            /\ UNCHANGED <<tracker, changes, history>>

CountersNext == Read \/ ReadFails \/ \E c \in Counters : Count(c)

CountersSpec == CountersInit /\ [][CountersNext]_countersVars

-----------------------------------------------------------------------------
(* Properties. *)

CountersTypeOK == /\ counter \in Readings /\ prev \in Readings
                  /\ delta \in Readings /\ changes \in Readings
                  /\ initialized \in BOOLEAN
                  /\ first \in Readings /\ reported \in Readings
                  /\ faults \in Nat /\ rows \in Nat

\* Every event the kernel counted between the first and the last reading is shown in
\* exactly one change, whatever reads have failed in between.
ReportedOnce == /\ \A c \in Counters : first[c] + reported[c] = prev[c]
                /\ \A c \in Counters : prev[c] <= counter[c]

\* The graph of the errors shows every error that was reported: its rows are never fewer
\* than the errors, and only the repeated row of a failed read is counted twice.
RowsShowErrors == /\ Errors(reported) <= rows
                  /\ faults = 0 => rows = Errors(reported)

=============================================================================
