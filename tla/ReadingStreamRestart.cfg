SPECIFICATION FairSpec
CONSTANTS
  Workers = {w1}
  MaxLen = 2
  Batch = 2
  MaxReadings = 2
  MaxFailures = 0
  MaxCrashes = 1
  MaxDrops = 0
PROPERTY EventuallyProcessed
