SPECIFICATION Spec
CONSTANTS
  KEY_BUFFER_SIZE = 2
  Threads = {r, s}
  Report = 2
  NULL = NULL
  MaxCalls = 2
  Events = {"ctrl_down", "ctrl_up", "c", "newline"}
  MaxEvents = 3
INVARIANTS Delivery OneReader
PROPERTY ReadReturns
