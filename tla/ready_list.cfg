SPECIFICATION Spec
CONSTANT Thread = {1, 2, 3, 4, 5}
INVARIANTS ListInv
