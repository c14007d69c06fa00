CONSTANTS
  MaxLayers = 3
  MaxExtras = 0
  ZLookahead = 8
SPECIFICATION Spec
INVARIANTS SecondResumeAsFirst
CHECK_DEADLOCK FALSE
