CONSTANTS
  c1 = c1
  c2 = c2
  c3 = c3
  c4 = c4
  c5 = c5
  Contents = {c1, c2, c3, c4, c5}
  NoContent = NoContent
  Encoders = {p1, p2}
  NoOne = NoOne
  NumIds = 3
  Home <- MCHome
  LayerSeq <- MCLayerSeq
  MaxRuns = 2
  MaxCrashes = 1
SPECIFICATION Spec
INVARIANTS ReencodeAccepted
CHECK_DEADLOCK FALSE
