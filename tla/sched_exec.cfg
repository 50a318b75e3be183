SPECIFICATION Spec
CONSTANTS
  NCpus = 2
  MaxTid = 5
  MaxPid = 3
  Workload = {"fork", "exit", "execve", "waitpid"}
  Parents = {2}
  MaxOutstanding = 1
  MaxSignals = 0
  MaxResults = 2
INVARIANTS QueueWellLinked   FreedUnreferenced OnlyExecFails
PROPERTY ServesInOrder
