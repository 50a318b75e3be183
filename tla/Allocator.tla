------------------------------ MODULE Allocator ------------------------------
(***************************************************************************)
(* What a memory allocator of the kernel promises its callers: a block it  *)
(* hands out is inside the memory it manages and overlaps no block that is *)
(* still in use; only the owner's free ends a block's life.                *)
(***************************************************************************)
EXTENDS Naturals

CONSTANTS
  Memory,   \* the units of memory that may be handed out
  Sizes     \* the sizes callers ask for

VARIABLE live   \* the blocks in use

Block == [at : Memory, n : Sizes]
Units(b) == b.at..(b.at + b.n - 1)

Init == live = {}

Allocate(b) ==
  /\ Units(b) \subseteq Memory
  /\ \A c \in live : Units(b) \cap Units(c) = {}
  /\ live' = live \cup {b}

Free(b) == b \in live /\ live' = live \ {b}

Next == \E b \in Block : Allocate(b) \/ Free(b)

Spec == Init /\ [][Next]_live
=============================================================================
