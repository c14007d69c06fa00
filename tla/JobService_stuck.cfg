CONSTANTS
  Jobs = {j1, j2}
  NoJob = NoJob
  MaxCrashes = 1
  MaxFaults = 0
  MaxStops = 0
SPECIFICATION FairSpec
PROPERTIES EveryJobEnds
