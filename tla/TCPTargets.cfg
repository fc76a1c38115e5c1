\* Two targets, windows of two attempts: every window wraps during a session.
CONSTANTS
  Count = 2
  Size = 2
  Latencies = {20, 150}
  MinSamples = 3
  SessionChecks = 6
SPECIFICATION Spec
INVARIANTS TotalsAddUp TrackersAgree TimeoutsReachOverall
PROPERTY LossIsRecentTimeouts
