\* Rotations, crashes, failed writes, writes that stop half-way, for a file of this daemon;
\* files of 6 to 11 rows of former ones, drawn with 6 points.  Rows are an interval apart,
\* four, more than four, or less than one.
CONSTANTS
  Backups = 3
  Samples = 5
  MaxPts = 6
  Interval = 2
  Apart = {1, 2, 8, 9}
  Back = {3}
  Long = {10, 11}
  Uneven = {6, 7}
  Hours = {0, 16}
SPECIFICATION GSpec
INVARIANTS AtMostFirstHidden InOrder SamplingIsFair SpikesAreDrawn BreaksAreSilences
PROPERTY OldestGoFirst
CHECK_DEADLOCK FALSE
