------------------------------- MODULE Trackers -------------------------------
(***************************************************************************)
(* The loop of Run (daemon/daemon.go) over two kinds of trackers: each     *)
(* iteration pings and hands the outcome to the windows of PingWindows,    *)
(* some go on with a LAN round, which reads the counters of KernelStats.   *)
(* A log rotation replaces the windows and leaves the baseline of the      *)
(* counters alone (daemon.go:166-171), so that changes are reported across *)
(* rotations.                                                              *)
(*                                                                         *)
(* A round may follow any ping, the LAN interval being any number of       *)
(* pings; the kernel counts at any time.                                   *)
(***************************************************************************)
EXTENDS PingWindows, KernelStats

tvars == <<vars, countersVars>>

TInit == Init /\ CountersInit

\* An iteration up to its LAN round: a due rotation, or a ping and what it changes.
Pings == Next /\ UNCHANGED countersVars

\* The kernel's part of a round, and the kernel.
Counting == CountersNext /\ UNCHANGED vars

TNext == Pings \/ Counting

TSpec == TInit /\ [][TNext]_tvars

=============================================================================
