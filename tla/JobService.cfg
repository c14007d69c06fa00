CONSTANTS
  Jobs = {j1, j2}
  NoJob = NoJob
  MaxCrashes = 2
  MaxFaults = 1
  MaxStops = 1
SPECIFICATION FairSpec
INVARIANTS TypeOK DoneRowHasArtifacts ArtifactHasRow DownloadHasBody CacheMatchesRow StopCutsNoJob QueuedOnce
PROPERTIES DurableLifecycle ObservedLifecycle AcceptedJobEnds ShutdownReturns
