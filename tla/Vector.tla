------------------------------- MODULE Vector -------------------------------
(***************************************************************************)
(* lib/vector.c: the growable array of pointers that the kernel and its     *)
(* modules keep their lists in.  A vector is the sequence of its items;     *)
(* indices are the sequence's (from 1), one more than the C's.              *)
(***************************************************************************)
EXTENDS Naturals, Sequences

vector_push(v, x) == Append(v, x)

\* Two copies into a fresh array of Len(v) - 1 items: the items before i, then,
\* again to the START of that array, Len(v) - i items read from items + index * 8.
\* items is a void**, so that is item 8 * index, not byte 8 * index: for the first
\* item (index 0) the second copy is the leading items of v, for the last one it is
\* empty, and otherwise it reads past the end.  Slots no copy wrote, and what was
\* read past the end, are wild.
vector_remove(v, i, wild) ==
  LET n == Len(v)
      beyond(j) == 8 * (i - 1) + j
      item(j) ==
        IF j <= n - i THEN IF beyond(j) <= n THEN v[beyond(j)] ELSE wild
        ELSE IF j < i THEN v[j] ELSE wild
  IN  IF i \notin 1..n THEN v
      ELSE IF n = 1 THEN << >>
      ELSE [j \in 1..(n - 1) |-> item(j)]
=============================================================================
