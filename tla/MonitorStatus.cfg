\* The window of three is full, and has enough samples, within one outage.
CONSTANTS
  LossThreshold = 2
  Window = 3
  Keep = 1
  Hour = 1
  Rotates = TRUE
  SessionPings = 6
  MinSamples = 3
SPECIFICATION SSpec
INVARIANTS SessionFigures PublishedIsWhole OutageIsNotGood
PROPERTY ImplementsDetector
