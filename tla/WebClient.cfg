CONSTANTS
  Jobs = {j1, j2}
  NoJob = NoJob
  MaxCrashes = 0
  MaxFaults = 0
  MaxStops = 1
  MaxPolls = 2
SPECIFICATION ClientSpec
INVARIANTS ClientTypeOK LinkAnswers PageOfLastUpload
PROPERTIES PageResolves
CHECK_DEADLOCK FALSE
