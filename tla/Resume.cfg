CONSTANTS
  MaxLayers = 3
  MaxExtras = 3
  ZLookahead = 8
SPECIFICATION Spec
INVARIANTS TypeOK NextLayerResumed NeverLoweredIntoPrint RestPrintedAsBefore
CHECK_DEADLOCK FALSE
