\* Commands that overlap, against daemons that may be late or die at any step.
CONSTANTS
  Starts = {s1, s2, s3}
  Stops = {t1}
  NoPid = noPid
  NoDaemon = noDaemon
  Reuse = TRUE
SPECIFICATION FairSpec
INVARIANTS SingleDaemon RunningIsNamed
PROPERTY StopTakesEffect
CHECK_DEADLOCK FALSE
