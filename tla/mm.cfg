SPECIFICATION Spec
CONSTANTS
  PAGE = 2
  Pages = 4
  MaxSize = 3
  Procs = {p1, p2}
  First = p1
  MaxWild = 1
  p1 = p1
  p2 = p2
INVARIANTS Tiled   
