CONSTANTS
  H = 2
  IdxBits = 7
  FileIds <- MCFileIds
  LayerIdxs <- MCLayerIdxs
  Margins = {0, 17}
  MaxRows = 2
  MaxMisreads = 1
SPECIFICATION Spec
INVARIANTS TypeOK FingerprintsDistinct CleanReadFound MisreadNeverMisleads AdjacentLayersFar
