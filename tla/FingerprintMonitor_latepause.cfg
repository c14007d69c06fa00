CONSTANTS
  Window = 2
  Interval = 10
  Threshold = 2
  Percents = {10, 15, 20}
  NoBucket = NoBucket
  MaxChecks = 3
  MaxPrints = 2
  MaxEvents = 1
SPECIFICATION FairSpec
PROPERTIES PausedPrintWasChecked
CHECK_DEADLOCK FALSE
