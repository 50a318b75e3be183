------------------------------- MODULE MCPmm -------------------------------
(* A memory map in small: low memory, an entry that takes the bitmap, a hole, two   *)
(* adjacent usable entries, a hole and a last usable entry.                          *)
EXTENDS Pmm

Entry(base, n, usable) == [base |-> base, n |-> n, usable |-> usable]
SmallMap == << Entry(0, 1, TRUE), Entry(1, 3, TRUE), Entry(4, 1, FALSE), Entry(5, 2, TRUE),
               Entry(7, 1, TRUE), Entry(8, 1, FALSE), Entry(9, 1, TRUE) >>
=============================================================================
