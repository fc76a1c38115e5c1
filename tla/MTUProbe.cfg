\* A range of 16 sizes, two probes in a row.
CONSTANTS
  Floor = 5
  Ceiling = 20
  Usable = 14
  Tries = 3
  Paths = {0, 4, 5, 11, 13, 20, 30}
  MaxPackets = 15
  Rounds = 2
SPECIFICATION FairProbeSpec
INVARIANTS Bracket ProbeIsBounded
PROPERTIES Measured ProbeEnds
CHECK_DEADLOCK FALSE
