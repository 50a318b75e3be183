SPECIFICATION Spec
CONSTANTS
  MAX_DESCRIPTORS = 3
  Procs = {p1, p2}
  First = p1
  Objs = {o1, o2, o3, o4}
  NULL = NULL
  p1 = p1
  p2 = p2
  o1 = o1
  o2 = o2
  o3 = o3
  o4 = o4
SYMMETRY Perms
INVARIANTS NoDangling SoleHolder Kept
