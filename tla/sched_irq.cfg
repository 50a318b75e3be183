SPECIFICATION Spec
CONSTANTS
  NCpus = 1
  MaxTid = 3
  MaxPid = 3
  Workload = {"fork", "console", "signal", "sigaction", "fault"}
  Parents = {2}
  MaxOutstanding = 1
  MaxSignals = 1
  MaxResults = 2
INVARIANTS LockHolderRuns SchedInv
