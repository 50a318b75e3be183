SPECIFICATION FairSpec
CONSTANTS
  N = 3
  Threads = {t, u}
  Interrupted = {t}
  IRQ = IRQ
  MaxArrive = 5
  MaxSends = 4
  t = t
  u = u
INVARIANT OnceInOrder
PROPERTIES PacketsGoUp SendCompletes
