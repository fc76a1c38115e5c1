# nstat in TLA+

`nstat` watches a laptop's network connection. A daemon pings a server, runs a
set of LAN checks every half minute, keeps statistics in memory, publishes them
in a state file and appends them to CSV files; commands start and stop the
daemon, show the status and draw graphs. This directory models the parts of it
that keep state or decide something, checks them with TLC on small instances and
proves the most important results with TLAPS.

All source locations below are relative to the repository's root, at the commit
the models were written from. The Linux build is the one modelled.

## 1. The system

| Component | State | Operations | Talks to |
|---|---|---|---|
| main loop (`daemon/daemon.go`, `Run`) | ping windows, consecutive losses, outage flag, outage log, session counters, snapshot | one iteration: due rotation, ping, outage detection, due LAN round, write of the snapshot | everything below, in one goroutine |
| ping windows (`dim/ping.go`, `dim/dim.go`) | ring of lost/answered pings, list of round-trip times | `OnPingSuccess`, `OnPingFailure`, scores | called by the main loop |
| state file (`state/state.go`) | `nstat.state` and its temporary file | `Write` (open, fill, rename), `Read` | written by the daemon, read by `nstat status` |
| TCP targets (`dim/tcp.go`, `daemon/probes.go`) | a window per target and one more for the first target, session tallies | `OnCheck`, `recompute` | a LAN round |
| path-MTU probe (`daemon/probes.go`, `daemon/mtu_linux.go`, `dim/mtu.go`) | bounds of the bisection, last result | `mtuProbe`, `dfPing` | a LAN round, the network |
| kernel counters (`dim/kernelstats.go`) | last reading, changes | `Update` | a LAN round, `/proc/net/netstat`, `/proc/net/snmp` |
| DNS and gateway (`dim/dns.go`, `dim/dhcp.go`, `daemon/sysnet_linux.go`, `daemon/probes.go`) | the server of each, last result | `detectDNS`, `detectGateway`, `dnsCheck`, `pingOnce` | a LAN round, the system's configuration, the network |
| DHCP lease (`dim/dhcplease.go`, `daemon/sysnet_linux.go`) | last lease read | `readDHCPLease`, `DHCPLeaseScore` | a LAN round, three DHCP clients, `nstat status` |
| CSV store (`store/csv.go`) | a file and its backups for each dimension | `Append`, `RotateCSVs` | main loop and LAN round write, `nstat graph` reads |
| start, stop, PID file (`cmd/start.go`, `cmd/stop.go`, `cmd/daemon.go`, `daemon/daemon.go`) | the PID file, processes | `Start`, `Stop`, signal handler | separate processes |
| LAN diagnosis (`cmd/landiag.go`) | hosts found, results of the tests | `RunLANDiag` | the neighbour table, name services, the network |
| status view (`cmd/status.go`) | none | a score for each row, one overall | state file, PID file |
| graph (`graph/graph.go`) | none | `LoadCSV`, `sampleData`, `gapThreshold`, the page | CSV files |
| log, help, version, configuration, other platforms | fixed text, constants, replaced system calls | | |

The daemon is one goroutine and a signal handler. Nothing in `Run` is locked:
the LAN checks run in the loop, so a slow probe delays the next ping. What runs
concurrently is: the commands and the daemon (they share the PID file, the state
file and the CSV files), the signal handler and the loop, and the network, the
kernel and the system's configuration, which change while a round is in
progress.

### What is hard here, and what must hold

* **Crashes.** The state file is written in three system calls, a CSV row in
  three or four, a rotation in up to four renames: whatever is left behind is
  found by the next process. `nstat status` must read a whole, coherent snapshot
  at every moment; the graph must not lose more than a row.
* **State kept twice.** The outage flag is in the loop and in the snapshot; a
  ping is in two windows; the first TCP target feeds two trackers. The copies
  must agree although they are reset at different moments (a rotation resets
  some of them).
* **Order.** Losses, answers, rotations and restarts in any order: one outage
  for each run of losses, an alarm exactly while it lasts.
* **Rings.** Windows wrap at their own moments; totals over several of them are
  recomputed.
* **An unreliable network.** Packets of the MTU probe are lost, the path changes
  between two of them, the laptop changes networks between detection and probe.
* **Commands at the same time.** `start` checks the PID file, which the daemon
  writes up to two seconds later; `stop` checks and signals; ids are used again.
* **Stale data.** An old PID file, an old gateway, leases of networks left long
  ago, changes of counters left from an earlier reading, a reply to an earlier ping.
* **Figures of several origins on one screen.** The heading, the rows and the
  overall score of `nstat status` are computed apart from each other: an outage
  must not be GOOD, a target that only times out must reach the overall score.
* **Data reduced before it is drawn.** The graph keeps one row in many and breaks
  its line where rows are far apart: what stands out must stay, and a break must
  be a silence (lost pings in a row, which leave no RTT or jitter, a LAN round that
  holds the loop, a pause of the daemon) and never rows on time.

`PROJECT.json` lists the hazards, each at its line with the properties about it.

## 2. The modules

| Module | Models | Uses |
|---|---|---|
| `SlidingWindow` | *abstract*: figures are those of the last `Size` outcomes | |
| `Ring` | the ring buffer behind `LossStats` and `TCPStats` | |
| `PingWindows` | `LossStats`, `PingStats`, the scores of RTT, jitter and loss | `Ring`; refines `SlidingWindow` |
| `OutageDetector` | *abstract*: what the main loop promises about outages | |
| `OutageHistory` | the detector with a history of the network, and the score of the last hour | extends `OutageDetector` |
| `Monitor` | `Run` without the LAN checks, and `state.Write` | `SlidingWindow`; refines `OutageDetector` |
| `StatusView` | the rows of `nstat status` and its overall score, as operators on a snapshot | |
| `MonitorStatus` | `nstat status` run at any moment of the main loop | extends `Monitor`, `StatusView` |
| `TCPTargets` | TCP part of a LAN round, both trackers, the status of its figures | `Ring`, `SlidingWindow`; extends `StatusView` |
| `MTUProbe` | `mtuProbe`, `dfPing` and their use in a round | |
| `KernelStats` | kernel part of a LAN round | |
| `Trackers` | the loop's pings and the kernel part of its rounds, interleaved | extends `PingWindows`, `KernelStats` |
| `NetworkTargets` | DNS and gateway part of a LAN round, `pingOnce` | |
| `DHCPLease` | lease part of a LAN round and its score | |
| `CSVStore` | `Append`, `rotateFile`, the rows `LoadCSV` finds | |
| `Graph` | one panel of `nstat graph` over a file at any moment of the store: cutoff, sampling, gaps | extends `CSVStore` |
| `Lifecycle` | `Start`, `Stop`, the daemon's start and end | |
| `LANDiag` | `RunLANDiag`, `discoverLANHosts` | |
| `FoldLemmas` | what the folds and loops of the models compute, for every input | `FiniteSetsExt` |
| `PingWindowsProofs`, `TCPTargetsProofs`, `LifecycleProofs` | theorems | extend the module they are named after; the first two `FoldLemmas` |
| `OutageDetectorProofs`, `MonitorProofs` | theorems of the detector and its history; of the main loop and the status view | extend `OutageHistory`; `MonitorStatus` |
| `LANProofs` | theorems of four parts of a LAN round and of the LAN diagnosis | extends `DHCPLease`, `NetworkTargets`, `MTUProbe`, `KernelStats`, `LANDiag` |
| `GraphProofs` | theorems of the CSV store, its reader and the line drawn | extends `Graph`, `FoldLemmas` |

`DHCPLease`, `NetworkTargets`, `MTUProbe`, `KernelStats` and `LANDiag` share no name, so
that one module can extend them all: `LeaseInit`, `TargetsNext`, `CountersSpec` and so on.

A specification is its own MC module: its constants are the bounds, and each
`.cfg` gives them values. Operators whose name starts like another definition's
and are commented "Mutant of ..." are plausible mistakes in the code; each
property is violated once the definition is replaced by its mutant, which shows
that the property is about the code and not about the shape of the model.

### Correspondence

* **`PingWindows`.** `ring` is `window`, `pos` and `filled` of `LossStats`;
  `total` and `lost` its public figures; `rtts` the window of `PingStats`. One
  action per result of a ping, `Rotate` for the replacement of both. Scores are
  comparisons of integers: a percentage is compared by numerator and
  denominator, a deviation by its square.
* **`Monitor`.** Variables carry the names of `Run`'s locals and of the
  snapshot's fields. An iteration is `Rotate` (or `Continue`), then `PingLost` or
  `PingAnswered`, then `OpenTmp`, `FillTmp`, `Rename`; `WriteFails` may take the
  place of any of the three, and `Crash` can come before any step, followed by
  `Boot`. `Run` does not read the state file back, so `Boot` starts from an empty
  snapshot while the old file stays. The extra ping at the start of an outage
  (its result is only logged) is left out.
* **`OutageDetector`, `OutageHistory`.** The detector keeps the count of losses,
  both flags, the log and what is published; time is the age of the log's
  entries. `OutageHistory` adds an observer who sees pings but no rotations,
  against whom the alarm and the score are judged, and remembers mishaps
  (rotations, restarts, failed writes) that the score and the alarm may suffer from.
* **`StatusView`, `MonitorStatus`.** Every row of the table is a pair of its name and
  its score, `overallScore` the maximum `overallScore` of the code takes, over its
  own choice of figures. The modules that publish a snapshot fill the fields they
  model into `Healthy`, a snapshot without a fault. `MonitorStatus` adds one history
  variable to `Monitor`: `cut`, a rotation has cut an outage in two and no snapshot
  without the flag has been published since.
* **`TCPTargets`.** `Begin` sets the round's totals to zero, `Check(reason, ms)` is
  the loop's body for the next target: its tracker, for the first one the
  dimension's tracker also, the session tallies, the totals. The reasons are what
  `classifyTCPError` makes of an error, which is chosen by its three features the
  function looks at.
* **`MTUProbe`.** `lo`, `hi`, `best` are `mtuProbe`'s variables, `tries` counts the
  sends of `dfPing`. A send ends in `EchoReply`, `TooBig` (the local error or a
  router's answer), `NoReply` (the time is up) or `Error`.
* **`KernelStats`.** `Read` and `ReadFails` are the two outcomes of
  `ReadKernelTCPStats`; the second changes neither the tracker nor the snapshot, but
  appends the row of the reading before once more. Of the rows their sum is kept.
* **`Trackers`.** A step of the loop is one of `PingWindows` or one of `KernelStats`,
  the other's state unchanged: a rotation (`Rotate`) replaces the windows and not the
  baseline of the counters. A round may follow any ping.
* **`NetworkTargets`.** One action per read of the system's configuration and per
  probe, `Move` for the laptop at any point between them. The ping of the gateway is
  `Send`, then `Skip` for each reply with another number, then `Answered` or
  `TimesOut`. `replies` are those that a socket of this process may still get: all of
  them on a raw socket (`raw`), those to this very ping otherwise. `PingTarget` is
  the main loop's own ping, whose late reply is the one that matters here.
* **`DHCPLease`.** `LeaseRound` reads the lease through the three sources; the other
  actions are the clients, the default route and the clock. A lease is kept as the
  time it has left.
* **`CSVStore`.** One action per system call of `Append` and `rotateFile`. A file
  is a sequence of lines, a line the number of its fields and the sample it is of,
  which is all that `LoadCSV` tells apart; its loop over the records is the recursive
  function in `Chosen`. `Abandon` is a crash between any two
  calls, or a file that cannot be opened; `torn` remembers that a write has
  stopped half-way.
* **`Graph`.** The command only reads, so it is a function of the file, and its
  properties are invariants: they hold of the panel drawn at any moment of the
  store. The file is one this daemon fills, or one of `Histories`, that former
  daemons have filled, to which this one adds none (`GraphAssumption`). The rows of the
  latter are on time (`Regular`, one every `Interval`) with any values, or any
  `Distances` apart: a whole multiple of the interval where pings were lost (no RTT or
  jitter is written, `daemon.go:241`), as long as a LAN round takes (249), as long as no
  daemon ran, or backwards by a clock put back. `sampleData`
  follows the code bucket by bucket (a recursive function), with areas
  multiplied by the number of rows of the next bucket so that they are whole
  numbers; a bound that floating point may put one too low is a choice (`low`). The
  entry in the middle of the sorted distances (`Median`) is said by what it is: at most
  half of them are less, more than half no greater.
* **`Lifecycle`.** Each `Start`, each `Stop` and each daemon is a process with a
  program counter; the PID file, and what the system answers about an id, are
  shared. Commands overlap as they like; `hasty` counts those that acted on the PID
  file while another process was still about to change it.
* **`LANDiag`.** The gateway, the lines of the neighbour table one by one with the
  names the four sources give to each, the list of tests that results, the loss of
  each test by choice, the grouping of its result by name, and the verdicts.

## 3. Runs

### Properties that hold

| Run | Shows |
|---|---|
| `trackers` | `WindowIsRecentPings`: the ring implements the sliding window. `AnsweredPingsHaveRTTs`: each answered ping of the ring has its time in the list. `CritHasACause`: RTT is CRIT only if some ping took 200 ms, jitter only if two are 60 ms apart. `FullLossIsSeen`: a full window with every ping lost is not GOOD. `ReportedOnce`: no kernel event is lost or reported twice, across rotations too. `RowsShowErrors`: nor is it missing from the graph, where only rounds whose reading failed count it again. |
| `outage_history` | Through rotations, restarts and failed writes: `AlarmMatchesRun` (the loop's alarm is on exactly during a run of losses), `NoFalseAlarm` (no alarm without its losses), `AlarmRaised` and `AlarmClears` (what is published follows the network once it settles), `LastHourScored` (while nothing is forgotten, the score is that of the true outages of the last hour although the log is shorter). |
| `monitor` | `SessionFigures` (each ping counted once, figures of the session add up), `PublishedIsWhole` (the state file is absent, or one whole snapshot whose figures agree), `ImplementsDetector`, and of `nstat status` at any moment `OutageIsNotGood`: never GOOD below the heading IN OUTAGE. |
| `tcp_targets` | `TotalsAddUp`, `TrackersAgree`, `LossIsRecentTimeouts`; `TimeoutsReachOverall`: a target that only times out keeps the overall score from GOOD, whichever it is; a host that refuses or resets was reached, and is no loss (`tcp.go:55-58`). |
| `mtu_probe` | `Bracket` (the answer stays between `best` and `hi`, on a path that changes too), `Measured` (the result is the path's MTU exactly, unless all tries of a size were lost or the path changed), `ProbeIsBounded` (packets of a probe: the tries of the floor and of each halving), `ProbeEnds`. |
| `network_targets` | `ResultsAreTheServers` (no result under another server's name, late replies included unless their number is that of the ping), `FollowsTheLaptop`, `LeftGatewayFails` (a gateway left behind does not stay OK). |
| `dhcp_lease` | `HealthyIsGood`: the lease of a client that renews by half-time is GOOD at whatever moment the status is run. `CurrentLease`: the lease that NetworkManager or networkd hold is the one read; one of dhclient's never expires before the current. |
| `csv_graph` | `AtMostFirstHidden`: crashes and failed writes hide at most the first row of a file from the graph, as long as no write stopped half-way. `InOrder`, `OldestGoFirst`: backups are in order and only the rows of the last one are dropped, also when a rotation is cut short. `SamplingIsFair`, `SpikesAreDrawn`: the drawn rows leave no stretch out, and not all that stand out. `BreaksAreSilences`: with every row drawn and most on time, the line is broken exactly where more than four intervals pass without a row; with every second row drawn and none less than an interval after the last, no break lies over rows on time. |
| `lifecycle` | `SingleDaemon`, `RunningIsNamed`: each command that did not wait for the one before costs at most one daemon too many, or one out of reach; commands given one after the other cost none. `StopTakesEffect`. |
| `lan_diag` | `VerdictsHaveCauses`, `BlackoutIsNamed`; `PassedMeansAnswered`: "all tests passed" leaves out no failed test but those of the Internet's DNS servers. |

### Statements the code does not keep

`outage_rotation`: README.md:260 calls the state file the "Current snapshot read
by `nstat status`". `RecoveryIsShown` says that it leaves IN OUTAGE once every ping
is answered. A rotation during an outage clears `inOutage` but not
`snap.InOutage` (`daemon.go:165-182`), and only a recovery that finds the former
set clears the latter (218-224): IN OUTAGE stays for ever, until another outage
ends. `AlarmClears` of the passing run therefore excludes behaviours in which a
rotation has cut an outage in two.

`tcp_overall`: help.go:54 calls the overall score the "worst score across all
dimensions", and status.go:59 heads the rows of the table "dimension".
`OverallIsWorst` says that no row is worse. `overallScore` takes the last handshake
of the first target and the timeouts of all (`status.go:217-218`), so another target
that answers late, refuses or is out of reach is a CRIT row under an overall GOOD. A
network that cannot be reached is no timeout (`probes.go:156`), hence no loss
either, so a second target may be ENETUNREACH for ever. What does hold is
`TimeoutsReachOverall`.

### Other deviations, and where the properties stop

These were met while modelling. No run of its own is kept for them; the property
named says what holds instead, and its condition is where the deviation begins.

| Code | Deviation | Property and condition |
|---|---|---|
| `daemon.go:178` | a rotation forgets the outages of the last hour (README.md:18) | `LastHourScored`: no mishap yet |
| `dim/tcp.go:47` | with a window below 25 samples the loss is never scored | `FullLossIsSeen`: `MinSamples` at most `Size`; fails in `PingWindows` with `Size` below `MinSamples` |
| `cmd/status.go:207` | nor does the overall score know the MTU, the kernel's counters and the breakdown, as in the second statement above | `TimeoutsReachOverall` is of the handshake of the first target and the timeouts |
| `cmd/status.go:33`, `daemon.go:165` | IN OUTAGE and GOOD at once, when a rotation has cut the outage, or when the outage is older than an hour and the window has fewer than 25 samples (a suspended laptop) | `OutageIsNotGood`: `~cut`, and its two premises |
| `daemon/probes.go:156` | a network that cannot be reached is no timeout, hence no loss: "genuine unreachability" (`README.md:25`) of a target other than the first does not reach the overall score | `TimeoutsReachOverall` says so of windows of timeouts, and promises nothing but for targets that answer, refuse or reset; `OverallIsWorst` fails |
| `daemon/probes.go:45` | on a raw socket a late reply whose number is that of the waiting ping is taken for its answer, whoever sent it | `ResultsAreTheServers`: `collided` |
| `cmd/status.go:33` | after a restart the snapshot of the former daemon is shown under the new one's id | `PublishedIsWhole` asks for one moment of some daemon |
| `store/csv.go:40` | the CSV files are rotated with the log (README.md:263: "never rotated", and `help.go:64`) | `OldestGoFirst` is about the file and its backups: rows leave with the last backup only, which the statement denies |
| `graph/graph.go:475` | a torn row hides all rows after it | `AtMostFirstHidden`: `~torn` |
| `graph/graph.go:397` | the quotient `(n - 2) / (max - 2)` times a whole number may fall just below one: the row before the last is then in no bucket (at 3000 points about one length in 17, 3001 is the first) | `SpikesAreDrawn` excepts that row |
| `graph/graph.go:132` | "daemon not running": four lost pings leave no RTT or jitter for more than four intervals (`daemon.go:241`), and a LAN round holds the loop (`daemon.go:249`), the MTU probe alone for up to 66 s; the line breaks while the daemon runs | `BreaksAreSilences`: a break is a silence, of whatever origin |
| `graph/graph.go:135` | "ordinary jitter never trips it": the threshold is four times the median distance of the drawn rows, and sampling makes ordinary distances that long once about twice as many rows as points are loaded; it is also lower once most rows are less than an interval apart | `BreaksAreSilences`: at most two rows a point, and no two rows less than an interval apart |
| `store/csv.go:31` | times are local and have no zone: a clock put back hides rows from a cutoff, and a silence from the line | `BreaksAreSilences`: the time that passed between the rows as written, and forward only |
| `graph/graph.go:427` | after a clock was put back the point before a bucket and the mean of the next may have the same time; if both are zero, all triangles are flat and the first row of the bucket is kept, whatever stands out in it | `SpikesOfForwardClock`: the clock was never put back |
| `cmd/start.go:44` | two starts at the same time leave two daemons | `SingleDaemon`, `RunningIsNamed`: `hasty` more |
| `cmd/start.go:45`, `cmd/stop.go:23` | "already running" because another program has the id of a stale PID file; a `stop` signals that program | nothing is said of a refused start, nor of a program that is no daemon: `RunningIsNamed` and `StopTakesEffect` are about daemons |
| `daemon.go:397` | after a failed read the previous changes are logged again | `RowsShowErrors`: no fewer rows than errors; equal without failed reads |
| `daemon.go:407` | without a default route the previous gateway is pinged for ever | `FollowsTheLaptop`: a network with a gateway; `LeftGatewayFails`: unless it still answers |
| `cmd/landiag.go:260` | of a default route without a gateway (`default dev tun0`) the interface's name is taken for the router's address | the models take a gateway or none |
| `sysnet_linux.go:163` | of dhclient's leases the one that expires last is taken, be it an earlier network's or an expired one on an interface that has none | `HealthyIsGood`: no block of dhclient's; `CurrentLease`: no earlier expiry only |
| `cmd/landiag.go:93`, `:90` | DNS tests of the Internet are counted in no group, so all tests may have "passed"; hosts of the LAN without a LAN name are counted as the Internet, so a phone asleep is "high ICMP loss" | `PassedMeansAnswered`, `VerdictsHaveCauses` name both |

### Bounds

* Windows of 2 to 3 slots wrap several times within a behaviour, at every position
  relative to each other; nothing in the code depends on the length but the
  comparison with 25 samples, which has its own constant. The proofs remove the
  bound.
* `LossThreshold` 2 or 3: 3 is the code's, 2 leaves a count that has started and is
  not an outage.
* `Keep`, `Hour`, `Remembered` (log entries, ticks of an hour, outages the history
  remembers): an outage can leave the log by age and by number, and more outages
  happen than the score tells apart.
* `SessionPings`, `SessionChecks`, `Samples` (CSV), `Limit`, `Rounds`, `MaxBlocks`
  cap counters that only grow; a session is longer than its windows, a CSV file
  sees more rows than backups.
* `MTUProbe`: a range of 16 sizes instead of 925, seven paths (none, below the
  floor, at both ends, between, above the ceiling), two probes in a row. With the
  code's 576, 1500 and three tries the bound of `ProbeIsBounded` is 33 packets:
  3 for the floor and 3 for each of 10 halvings, so the loop waits at most 66 s.
* `MonitorStatus` (run `monitor`): a window of three with enough samples at three, so
  that an outage of two fills it, and one tick for the hour. The condition on the
  constants, five per cent of the window are no more than an outage's pings, holds
  of the code's 60 and 3 with equality.
* `Graph`: six points of files with 6 to 11 rows, so buckets of one to three rows,
  empty ones by rounding included; `Hours` 0 (all rows) and 16, which cuts a file in
  its middle. An interval is 2, and two rows are 1, 2, 8 or 9 apart, or 3 backwards: too
  soon, on time, four intervals (three lost pings, no break) and just more. The file of the running daemon has up to five rows and three backups.
* `Lifecycle`: three starts and one user who stops again and again are enough for a
  start that finds the file of a dead daemon, of a living one and of another
  program, and for two hasty commands. With two such users, too, both invariants
  hold (2.5 million states, too many for a regular run).
* `NetworkTargets`: two name servers, two routers; two numbers and two replies under
  way, the least for a reply that is skipped and one that collides.
* `Trackers`: two counters, those behind the graph of errors, with up to two events
  each; two failed readings, in a row or apart.
* `LANDiag`: two hosts instead of five, each with any name; 50 probes with none, one
  or all of them lost. The proofs allow any number of probes and find how many hosts
  the verdicts bear: 17 for all three properties.
* `DHCPLease`: the clock advances 7 ticks at a time over a lease of 30, so that it
  passes full, renewable, overdue, below a tenth and expired. A snapshot taken just
  before half-time is a step old when the next round comes; the property needs the
  distance of rounds to be at most 0.4 of the lease (`RoundsInTime` of
  `LANProofs`): with rounds 30 s apart, leases of 75 s or more. Two blocks are the least for dhclient's files to hold an old
  lease beside the current one.
* Deadlock checking is off only where everything comes to an end: the runs of
  `Lifecycle`, `Graph`, `MTUProbe` and `LANDiag`, which run out of commands,
  samples, probes and tests.

### Fairness

* `OutageHistory`: weak fairness of the loop. Each wait in `Run`
  has a deadline (2 s for a ping, a packet or a connection, `PingInterval` for the
  pause), but for one: `nmcli`, which reads the lease at the end of a LAN round
  (`sysnet_linux.go:53`), has none. It is assumed to return; then an iteration always
  ends. Nothing is assumed of the network,
  the writes and the rotations: the liveness properties say what follows if the
  network stays down, or up, while some writes succeed.
* `MTUProbe`: weak fairness of the probe's steps, because a packet is answered or
  times out. The path changes without fairness.
* `NetworkTargets`: weak fairness of the round, with the same assumption of
  `nmcli`, which runs between this round's probes and the next round; the laptop is
  not obliged to stay anywhere.
* `Lifecycle`: a signal handler that has begun goes on. Nothing else is needed:
  nobody is obliged to give a command, nor a daemon to come up.

## 4. Proofs

The theorems hold for all constants that meet the named `ASSUME` of their module,
and from nothing else, but for conditions that stand in the theorem itself
(`ASSUME ... PROVE`) and are listed here.

* **`PingWindowsProofs`.** `FiguresOfRing` ties `total` and `lost` to the slots of
  the ring. To relate them to the last pings one has to know where the oldest slot
  is: `Slot(r, k)` names the slot of the k-th oldest outcome, before and after the
  wrap. The inductive invariant is `FiguresOfRing`, the bound of `rtts`, and
  `AnsweredPingsHaveRTTs`, which is inductive only with the first two: one more
  answered ping leaves the ring's count unchanged when an answered one falls out.
  `Refinement` maps the ring to the sequence of its outcomes and proves
  `WindowIsRecentPings`. `FullLoss` proves `FullLossIsSeen` when a window holds the
  samples the score asks for, and `ShortWindowIsGood` that otherwise nothing that
  is lost is ever scored: the condition is the right one. `CritIsCaused` proves
  `CritHasACause`: the mean of a list is no more than its greatest entry, and if no two
  entries are 60 ms apart, each is within 60 ms of the least, so the variance is at most
  a quarter of the square of that range.
* **`OutageDetectorProofs`.** `Alarm` proves `AlarmMatchesRun`. It needs that the
  log is a sequence (so that a log with one more outage is not empty) and the
  range of the count, not its length or ages. `NoAlarmIsFalse` compares the loop's
  count with the observer's, which no rotation resets. `OutagesAreScored` proves
  `LastHourScored`: the log and the observer's memory are of different lengths, so
  they are compared from the newest entry backwards (`Latest`); as long as there was
  no mishap the entries that both have are the same (`SameOutages`), and each of the
  two is in the order of age (`LatestFirst`), so an entry that has fallen out is
  older than those left. A log of three entries is enough, as the score does not
  tell more than three apart; it needs that the observer remembers as many.
* **`MonitorProofs`.** The inductive invariant has six parts: the types; the alarm
  of the loop; the accounts (each ping of the session is lost or answered, and in
  the window); the lists; the copies (what the snapshot has in common with the
  loop at each program counter); the published file, complete whenever it has its
  name. `PublishedWhole` is one of its consequences, although a single step of
  the write says nothing of coherence: the file gets its name only after it was
  filled from a snapshot whose copies agreed. `Implementation` maps each step to a
  step of `OutageDetector` or a stutter: the write is published at the rename.
  `SessionIsItsPings` proves `SessionFigures`, with lemmas of what one more ping
  does to the counts over a sequence. `OutageShown` proves `OutageIsNotGood` for the
  status view at any moment. That the window holds the losses of the current run is
  a statement of positions (`RunInWindow`: the last pings of the window, as many as
  the run has, are lost), because a count would not survive the ping that falls out
  at the other end; the same is said of the snapshot, the temporary file and the
  published one, each of which may be older than the one before.
* **`TCPTargetsProofs`.** The totals are sums over a ring; what they say of the last
  checks goes through the sequence read off the ring in the order it was filled.
  `LossIsRecent` proves the refinement `LossIsRecentTimeouts`, `FirstTargetOnce` that
  the trackers of the first target agree. `TotalsAreOfTheTargets` proves `TotalsAddUp`:
  in the middle of a round the totals are the sums over the targets checked so far, which
  the next check adds one target to (a fold over one element more, `FoldLemmas`);
  `EveryFailureHasAReason` is its half about a single tracker. `TimeoutsCount`
  proves `TimeoutsReachOverall` for at most 100 targets: the loss of one target is
  diluted by the others, and with 101 targets it can be below the one per cent that
  is scored. The code has three. Its second half, that nothing milder than a timeout
  counts, is of targets that answer, refuse or reset.
* **`LifecycleProofs`.** The counts of `SingleDaemon` and `RunningIsNamed` are over
  processes of which some do not run yet: between the check of the PID file and the
  write to it up to two seconds pass. The invariant (`Counts`) therefore counts the
  claimants, the daemons that run or will be spawned, and says that there are at most
  `hasty` of them beside one, and which one: that the file names, as soon as nobody is
  about to write or remove it; none, when a stop is about to remove the file or a daemon
  to write one that is no longer there.
  It holds for any number of starts, stops and process ids.
* **`LANProofs`.** *DHCP lease:* `RenewedIsGood` proves `HealthyIsGood` under
  `RoundsInTime`. The score is that of the lease read in the last round; the
  invariant (`SinceHalf`) is that what a renewed lease has lost since its half is no
  more than the time since that round. `LeaseIsCurrent` proves the action property
  `CurrentLease`. *Targets:* `ResultsNameTheirServers` proves `ResultsAreTheServers`;
  the invariant says at which step of a round which of the server detected, shown
  and asked agree, and that replies under way with the ping's own number and address
  are its own unless numbers collided. *Path-MTU probe:* the invariant is the types, the
  shape of the bounds in each phase and `Bracket`; `Measured` follows at the step that
  concludes, where the bounds have met. `ProbeCosts` proves `ProbeIsBounded` for every
  range below 1024 sizes (and a bound `MaxPackets` of the counter above what it may
  reach), with a potential: the packets sent for sizes that are decided are at most the
  tries times the halvings done, and `Halvings` bounds those still to come by 10.
  *Kernel counters:* `ReportedOnce` is inductive with one addition: nothing has been
  reported before the first reading. `RowsShowErrors` needs that changes are never
  negative, so that the row of a failed reading takes nothing away. *LAN diagnosis:* the
  invariant relates the lost probes of each group to the tests of that group that are
  done, that have failed and that are dead; the verdicts compare averages of groups, so
  each theorem is an estimate of how far the tests of other hosts can dilute a failure.
  The bounds on the hosts, 97 for `VerdictsHaveCauses`, 17 for `PassedMeansAnswered` and
  37 for `BlackoutIsNamed`, are those at which the estimates hold with equality: one host
  more and the property fails. The code tests five.
* **`GraphProofs`.** *The store* (invariant `SInv`): `BackupsInOrder` and
  `OldestRowsGoFirst` prove `InOrder` and `OldestGoFirst` of every number of backups and
  every file of former daemons. Neither is inductive: they need that the row to be
  written is newer than all that are stored (`NewSample`), and that the place above the
  backup to be moved is free (`RoomAbove`), since a rename overwrites what is there.
  *The reader* (invariant `GInv`, which adds three parts): as long as no write has stopped
  half-way every line is whole (`WholeLines`), so no record ends the reading, and only
  one, which is taken for the header, can be hidden: `OneRowHidden` proves
  `AtMostFirstHidden`. The rows ascend (`RowsAscend`), so those loaded are in the order of
  the samples; each has its time and value (`HasPoints`). *The sampling:* `Bounds` is the arithmetic of the buckets, however
  floating point rounds: bounds ascend, none by more than a bucket and one. A bucket with
  rows has one of the largest area, so one is kept (`KeptIs`), and `SamplesAreFair` proves
  `SamplingIsFair`. `SpikesOfForwardClock` proves `SpikesAreDrawn` where the clock was
  never put back: take the last bucket with a row that is not zero; if nothing drawn so
  far is, the rows of this bucket that are not have larger areas than those that are
  (`SpikeWins`), so one is drawn. *The breaks:* `BreaksAreOfSilences` proves
  `BreaksAreSilences` of every interval and every distance of the rows. If one interval is
  more than half of the distances forward it is their median (`MedianOfMost`: the entries
  below the median, and those above, are at most half), and the breaks are the distances
  over four of it. Of rows at least an interval apart the median, one of the
  distances of the points drawn, is at least an interval, and a break more than four; two
  points drawn are at most four rows apart while there are two rows a point, so if all
  these rows are on time there is no break.
* **`FoldLemmas`.** The library's induction theorems cannot be used (see below), but the
  induction can be: a statement that fails for some number fails for a least one
  (`LeastNatural`, from the well-foundedness of the naturals, which takes no operator).
  In this way a loop written as a recursive function exists and is what its equations say
  (`IsLoop`), and so are the folds of the community modules (`IsFold`); sums over sets
  grow by the element added, and finite sets of naturals have a greatest and a least.

Type invariants are conjuncts of the inductive invariants; the runs do not list them
beside the properties that need them.

Every invariant and every action property of the runs has its theorem. Model-checked
only:

* liveness (`AlarmRaised`, `AlarmClears`, `ProbeEnds`, `StopTakesEffect`,
  `FollowsTheLaptop`, `LeftGatewayFails`), which the prover cannot do;
* `SpikesAreDrawn` after a clock was put back. In the files of the run whose clock was,
  every second value is above zero, and it holds; of a lone one it need not, for the reason
  in the table above.

The library's theorems of induction take an operator as a parameter, which none of the
provers at hand can instantiate; `FoldLemmas` goes round it.

## 5. What is not modelled, and why

* Rendering, logging, help, the graph's page: layout of text. Of the graph the rows
  and breaks of a line are modelled, not its axes.
* Parsing of `/proc`, `nmcli` and lease files: text; the models start from what
  the files say. The quotient of retransmissions and the latency averages of the
  LAN round are plain arithmetic.
* Rotation of the log: three renames, as those of `CSVStore`; nobody reads the
  backups.
* Other platforms: each replaces a system call by another.
* The signal handler's summary reads the snapshot while the loop writes it: a data
  race over the fields it prints to the log, which nothing reads back.
* Two daemons at once (`SingleDaemon` says when): both write the same temporary file
  and the same CSV files. `PublishedIsWhole` and the properties of the store are of one
  daemon.
* What changes only a printed figure: latency averages and percentiles of the LAN
  diagnosis, the retransmission percentage.

## 6. What is left

1. `Round`: a whole LAN round composed with `Monitor`. Its parts share the snapshot
   that is written at the end of the iteration, and the round delays the next ping.
2. `FullLossIsSeen` and `TimeoutsReachOverall` for the composed round.
3. A sampling whose largest triangle survives a clock put back: what of `SpikesAreDrawn`
   holds then for every number of points.
