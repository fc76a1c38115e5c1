\* As TCPTargets.cfg, for what the help says of the overall score.
CONSTANTS
  Count = 2
  Size = 2
  Latencies = {20, 150}
  MinSamples = 3
  SessionChecks = 6
SPECIFICATION Spec
INVARIANT OverallIsWorst
