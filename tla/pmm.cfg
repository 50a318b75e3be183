SPECIFICATION Spec
CONSTANTS
  MemMap <- SmallMap
  ReservedEnd = 1
  BitmapPages = 1
  Workload = {"page", "pages", "free"}
  Counts = {2}
  
PROPERTY Allocates
