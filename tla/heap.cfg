SPECIFICATION FairSpec
CONSTANTS
  HDR = 2
  PAGE = 8
  Top = 64
  Sizes = {1, 4}
  Threads = {t1, t2}
  Interrupted = {t1}
  MaxCalls = 3
INVARIANTS SegmentsSound BlocksIntact Coalesced
PROPERTIES Allocates CallsReturn
