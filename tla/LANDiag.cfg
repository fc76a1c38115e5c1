\* Tests without a loss, with one lost probe, with none answered.
CONSTANTS
  Samples = 50
  Fails = {0, 1, 50}
  Hosts = 2
SPECIFICATION Spec
INVARIANTS VerdictsHaveCauses BlackoutIsNamed PassedMeansAnswered
CHECK_DEADLOCK FALSE
