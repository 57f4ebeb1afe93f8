SPECIFICATION Spec
CONSTANTS
  Never = Never
  Policies <- EveryKind
  Jitters = {0, 10}
  Gaps = {900, 4000}
  Refusals = {3600, 18000}
  MaxStreak = 7
  Horizon = 3600
  Past = 60
INVARIANTS WakesInTime AgreesWithWakes
PROPERTIES NoOtherHotLoop BackoffGrows
