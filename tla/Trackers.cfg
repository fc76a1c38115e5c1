\* A window of as many pings as a score takes; readings that fail now and then.
CONSTANTS
  Size = 3
  MinSamples = 3
  RTTs = {10, 65, 250}
  Counters = {"InErrs", "EstabResets"}
  AtStart = {0, 1}
  Limit = 2
  Faults = 2
SPECIFICATION TSpec
INVARIANTS AnsweredPingsHaveRTTs CritHasACause FullLossIsSeen ReportedOnce RowsShowErrors
PROPERTY WindowIsRecentPings
