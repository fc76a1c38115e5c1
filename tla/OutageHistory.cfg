\* Rotations, restarts and failed writes.
CONSTANTS
  LossThreshold = 3
  Keep = 3
  Hour = 2
  Rotates = TRUE
  Restarts = TRUE
  WriteFaults = TRUE
  Remembered = 4
SPECIFICATION HFairSpec
INVARIANTS AlarmMatchesRun LastHourScored
PROPERTIES NoFalseAlarm AlarmClears AlarmRaised
