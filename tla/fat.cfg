SPECIFICATION Spec
CONSTANTS
  E = 4
  LastCluster = 8
  DirLimit = 4
  Hint = 2
  Volumes <- SmallVolumes
  Procs = {"p", "q"}
  Workload <- SmallWorkload
  Paths <- SmallPaths
  LongNames = {"long name"}
  Sizes = {1, 5}
  MaxCalls = 3
  MaxCrashes = 1
INVARIANTS ChainsSound  NoLeak
