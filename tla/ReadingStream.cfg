SPECIFICATION FairSpec
CONSTANTS
  Workers = {w1, w2}
  MaxLen = 2
  Batch = 2
  MaxReadings = 4
  MaxFailures = 1
  MaxCrashes = 1
  MaxDrops = 2
INVARIANTS
  Accounted
  EvaluatedAtMostOnce
PROPERTIES
  EventuallySettled
  ListensAgain
