SPECIFICATION FairSpec
CONSTANTS
  NCpus = 1
  MaxTid = 4
  MaxPid = 4
  Workload = {"fork", "exit", "thread_exit", "wait"}
  Parents = {2}
  MaxOutstanding = 1
  MaxSignals = 0
  MaxResults = 2
INVARIANTS  ReportedOnce
PROPERTIES WaitReturns ReadyRuns
