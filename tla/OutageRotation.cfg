\* Rotations only.
CONSTANTS
  LossThreshold = 3
  Keep = 3
  Hour = 2
  Rotates = TRUE
  Restarts = FALSE
  WriteFaults = FALSE
  Remembered = 1
SPECIFICATION HFairSpec
PROPERTY RecoveryIsShown
