-------------------------------- MODULE Heap --------------------------------
(***************************************************************************)
(* The kernel heap, global/heap.c (the build without DEBUG_HEAP).  The heap *)
(* grows downwards from heap_address_high in whole pages.  Segments, each a *)
(* header followed by its length, form a doubly linked list from the        *)
(* highest address (main_segment, never free) to the lowest (last_segment). *)
(*                                                                         *)
(* Addresses and lengths count units of 0x10 bytes, to which malloc rounds  *)
(* every request.  seg maps the address of each header to its fields; a     *)
(* header that is merged away leaves the map.  Callers are threads, each on *)
(* a CPU of its own, and a device interrupt that comes over the thread      *)
(* Interrupted.  A free caller hands back a block it owns, once.            *)
(***************************************************************************)
EXTENDS Integers, FiniteSets

CONSTANTS
  HDR,          \* sizeof(struct heap_segment_header), in units
  PAGE,         \* PAGE_SIZE, in units
  Top,          \* heap_address_high
  Sizes,        \* the sizes callers ask for
  Threads,
  Interrupted,  \* the threads a device interrupt whose handler allocates may come over
  MaxCalls      \* bound: calls of malloc and realloc

ASSUME HeapAssumption ==
  /\ HDR \in Nat \ {0} /\ PAGE \in Nat /\ PAGE > 2 * HDR
  /\ Top \in Nat /\ Top > PAGE /\ Sizes \subseteq Nat \ {0} /\ "free" \notin Threads
  /\ Interrupted \subseteq Threads /\ Cardinality(Interrupted) <= 1
  /\ MaxCalls \in Nat

NULL == 0
Irq == "irq"
Callers == Threads \cup {Irq}
main_segment == Top - HDR

VARIABLES
  lock,          \* the caller that holds the heap's spinlock, or "free"
  seg,           \* header address -> its fields
  heap_end, last_segment,
  used_size,     \* used_size of the C (free_size and total_size are never read)
  pc,            \* caller -> "idle", "acquire" (spinning) or "section" (lock held)
  op,            \* caller -> its current call
  live,          \* the blocks handed out and not yet freed
  calls,         \* malloc and realloc calls made
  failed         \* an assert(!spinlock_acquire(&lock)) failed

vars == <<lock, seg, heap_end, last_segment, used_size, pc, op, live, calls, failed>>
heap == <<seg, heap_end, last_segment, used_size>>

Header(is_free, length, next, last) ==
  [is_free |-> is_free, length |-> length, next |-> next, last |-> last]

NoCall == [what |-> "none", n |-> 0, at |-> NULL]
FreeOf(p) == [what |-> "free", n |-> 0, at |-> p]

\* heap_init: one page, with main_segment's header at its end and a free segment below.
Init ==
  /\ lock = "free"
  /\ seg = [a \in {main_segment, Top - PAGE} |->
              IF a = main_segment THEN Header(FALSE, 0, Top - PAGE, NULL)
              ELSE Header(TRUE, PAGE - 2 * HDR, NULL, main_segment)]
  /\ heap_end = Top - PAGE /\ last_segment = Top - PAGE /\ used_size = 0
  /\ pc = [x \in Callers |-> "idle"] /\ op = [x \in Callers |-> NoCall]
  /\ live = {} /\ calls = 0 /\ failed = FALSE

-----------------------------------------------------------------------------
(* The helpers, on the map of headers f. *)

Erase(f, a) == [x \in DOMAIN f \ {a} |-> f[x]]
Place(f, a, header) == [x \in DOMAIN f \cup {a} |-> IF x = a THEN header ELSE f[x]]

merge_this_to_next_Wide(f, a) ==     \* the header's room is counted twice
  LET n == f[a].next
  IN  Erase([f EXCEPT ![n].length = @ + f[a].length + 2 * HDR, ![n].last = f[a].last,
                      ![f[a].last].next = n], a)
merge_this_to_next(f, a) ==
  LET n == f[a].next
  IN  Erase([f EXCEPT ![n].length = @ + f[a].length + HDR, ![n].last = f[a].last,
                      ![f[a].last].next = n], a)

merge_last_to_this(f, a) ==
  LET l == f[a].last
  IN  Erase([f EXCEPT ![a].length = @ + f[l].length + HDR, ![a].last = f[l].last,
                      ![f[l].last].next = a], l)

\* The new segment takes the upper end of segment a.
SplitAt(f, a, size) == a + f[a].length - size
split_segment(f, a, size) ==
  LET b == SplitAt(f, a, size)
  IN  Place([f EXCEPT ![f[a].last].next = b, ![a].last = b, ![a].length = @ - (size + HDR)],
            b, Header(TRUE, size, a, f[a].last))

Splits(f, a, size) == f[a].length > size + HDR
Fits_Mutant(f, a, size) == Splits(f, a, size) \/ f[a].length = size  \* also one in use
Fits(f, a, size) == f[a].is_free /\ (Splits(f, a, size) \/ f[a].length = size)

\* The first segment of the list that malloc can use, or NULL.
FirstFit(f, size) ==
  LET from[a \in DOMAIN f \cup {NULL}] ==
        IF a = NULL \/ Fits(f, a, size) THEN a ELSE from[f[a].next]
  IN  from[main_segment]

-----------------------------------------------------------------------------
(* The calls.  A call waits for the lock, works on the list, and releases. *)

\* The thread under a running interrupt handler does not move.
Runs(x) == ~ failed /\ (x \in Interrupted => pc[Irq] = "idle")

Begin(x, call) ==
  /\ pc' = [pc EXCEPT ![x] = "acquire"]
  /\ op' = [op EXCEPT ![x] = call]
  /\ UNCHANGED <<lock, heap, live, failed>>

\* No call of anybody works on block b (it is freed or reallocated once).
Unclaimed(b) == \A x \in Callers : op[x].at # b.at

malloc(x, n) ==
  /\ Runs(x) /\ pc[x] = "idle" /\ calls < MaxCalls
  /\ x = Irq => Interrupted # {}
  /\ Begin(x, [what |-> "malloc", n |-> n, at |-> NULL])
  /\ calls' = calls + 1

realloc(x, b, n) ==
  /\ Runs(x) /\ x \in Threads /\ pc[x] = "idle" /\ calls < MaxCalls /\ Unclaimed(b)
  /\ Begin(x, [what |-> "realloc", n |-> n, at |-> b.at])
  /\ calls' = calls + 1

free(x, b) ==
  /\ Runs(x) /\ pc[x] = "idle" /\ Unclaimed(b)
  /\ x = Irq => Interrupted # {}
  /\ Begin(x, FreeOf(b.at))
  /\ UNCHANGED calls

CanAcquire == lock = "free"
Acquire(x) ==
  /\ Runs(x) /\ pc[x] = "acquire" /\ CanAcquire
  /\ lock' = x /\ pc' = [pc EXCEPT ![x] = "section"]
  /\ UNCHANGED <<heap, op, live, calls, failed>>

\* spinlock_acquire gives up: the holder is the thread under this handler.
SpinOut ==
  /\ ~ failed /\ pc[Irq] = "acquire" /\ lock \in Interrupted
  /\ failed' = TRUE
  /\ UNCHANGED <<lock, heap, pc, op, live, calls>>

Leave(x, call) ==
  /\ lock' = "free"
  /\ pc' = [pc EXCEPT ![x] = IF call = NoCall THEN "idle" ELSE "acquire"]
  /\ op' = [op EXCEPT ![x] = call]
  /\ UNCHANGED <<calls, failed>>

\* malloc found segment a: it returns the block behind the header.  realloc copies
\* into the new block and goes on to free the old one.
Found(x, a, f) ==
  /\ seg' = [f EXCEPT ![a].is_free = FALSE]
  /\ used_size' = used_size + f[a].length + HDR
  /\ live' = live \cup {[at |-> a + HDR, n |-> f[a].length]}
  /\ Leave(x, IF op[x].what = "malloc" THEN NoCall ELSE FreeOf(op[x].at))
  /\ UNCHANGED heap_end

InMalloc(x) == Runs(x) /\ pc[x] = "section" /\ op[x].what \in {"malloc", "realloc"}

MallocSplit(x) ==
  LET a == FirstFit(seg, op[x].n)
  IN  /\ InMalloc(x) /\ a # NULL /\ Splits(seg, a, op[x].n)
      /\ Found(x, SplitAt(seg, a, op[x].n), split_segment(seg, a, op[x].n))
      /\ last_segment' = IF seg[a].next = NULL THEN a ELSE last_segment

MallocWhole(x) ==
  LET a == FirstFit(seg, op[x].n)
  IN  /\ InMalloc(x) /\ a # NULL /\ ~ Splits(seg, a, op[x].n)
      /\ Found(x, a, seg)
      /\ UNCHANGED last_segment

\* expand_heap, after which malloc starts over.  A free last segment is absorbed by
\* the new one, which gets its length but not the room of its header.  (heap_low is never
\* looked at; the model ends where the addresses do.)
RoundUp(n) == n + ((PAGE - (n % PAGE)) % PAGE)
expand_heap(f, end, last, length) ==
  IF f[last].is_free /\ f[last].last # NULL
  THEN Place([Erase(f, last) EXCEPT ![f[last].last].next = end],
             end, Header(TRUE, f[last].length + length - HDR, NULL, f[last].last))
  ELSE Place([f EXCEPT ![last].next = end], end, Header(TRUE, length - HDR, NULL, last))

MallocExpand_Mutant(x) ==   \* nothing is mapped, and malloc tries again
  /\ InMalloc(x) /\ FirstFit(seg, op[x].n) = NULL
  /\ Leave(x, op[x])
  /\ UNCHANGED <<heap, live>>
MallocExpand(x) ==
  LET length == RoundUp(op[x].n + HDR)
      end == heap_end - length
  IN  /\ InMalloc(x) /\ FirstFit(seg, op[x].n) = NULL /\ length < heap_end
      /\ seg' = expand_heap(seg, end, last_segment, length)
      /\ heap_end' = end /\ last_segment' = end
      /\ Leave(x, op[x])
      /\ UNCHANGED <<used_size, live>>

\* free joins the segment with its free neighbours.
FreeSection_Mutant(x) ==    \* only the first free neighbour is joined
  LET a == op[x].at - HDR
      f == [seg EXCEPT ![a].is_free = TRUE]
  IN  /\ Runs(x) /\ pc[x] = "section" /\ op[x].what = "free"
      /\ seg' = IF f[f[a].last].is_free THEN merge_last_to_this(f, a)
                ELSE IF f[a].next # NULL /\ f[f[a].next].is_free THEN merge_this_to_next(f, a)
                ELSE f
      /\ used_size' = used_size - (f[a].length + HDR)
      /\ live' = {b \in live : b.at # op[x].at}
      /\ Leave(x, NoCall)
      /\ UNCHANGED <<heap_end, last_segment>>
FreeSection(x) ==
  LET a == op[x].at - HDR
      f == [seg EXCEPT ![a].is_free = TRUE]
      next_free == f[a].next # NULL /\ f[f[a].next].is_free
      last_free == f[a].last # NULL /\ f[f[a].last].is_free
  IN  /\ Runs(x) /\ pc[x] = "section" /\ op[x].what = "free"
      /\ seg' = IF last_free /\ next_free THEN merge_this_to_next(merge_last_to_this(f, a), a)
                ELSE IF last_free THEN merge_last_to_this(f, a)
                ELSE IF next_free THEN merge_this_to_next(f, a)
                ELSE f
      /\ used_size' = used_size - (f[a].length + HDR)
      /\ live' = {b \in live : b.at # op[x].at}
      /\ Leave(x, NoCall)
      /\ UNCHANGED <<heap_end, last_segment>>

Section(x) == MallocSplit(x) \/ MallocWhole(x) \/ MallocExpand(x) \/ FreeSection(x)

Finished == failed \/ (calls = MaxCalls /\ live = {} /\ \A x \in Callers : pc[x] = "idle")

Next ==
  \/ \E x \in Callers, n \in Sizes : malloc(x, n)
  \/ \E x \in Callers, b \in live : free(x, b) \/ \E n \in Sizes : realloc(x, b, n)
  \/ \E x \in Callers : Acquire(x) \/ Section(x)
  \/ SpinOut
  \/ Finished /\ UNCHANGED vars

Spec == Init /\ [][Next]_vars

\* A CPU in a critical section goes on, and a spinning CPU gets a lock that is released
\* again and again (spinlock_acquire gives up, and panics, after a bounded number of tries,
\* as the handler does that came over the holder of the lock).
FairSpec ==
  /\ Spec /\ WF_vars(SpinOut)
  /\ \A x \in Callers : WF_vars(Section(x)) /\ SF_vars(Acquire(x))

-----------------------------------------------------------------------------
(* Properties *)

Room(a) == a..(a + HDR + seg[a].length - 1)

\* The list leads from main_segment down to last_segment, which is at the heap's end;
\* next and last are inverse; the segments are disjoint and lie in the heap.
SegmentsSound ==
  /\ last_segment = heap_end /\ seg[last_segment].next = NULL
  /\ \A a \in DOMAIN seg :
       /\ a + HDR + seg[a].length <= Top
       /\ (seg[a].next = NULL) = (a = last_segment)
       /\ seg[a].next # NULL => /\ seg[seg[a].next].last = a
                                /\ seg[a].next + HDR + seg[seg[a].next].length <= a
                                /\ \A b \in DOMAIN seg : ~ (seg[a].next < b /\ b < a)

\* A block in use is exactly the data of an allocated segment: no free, split, merge or
\* expansion by another caller takes part of it.
BlocksIntact ==
  \A b \in live : LET a == b.at - HDR
                  IN  a \in DOMAIN seg /\ ~ seg[a].is_free /\ seg[a].length = b.n

\* free leaves no two neighbours of the list free: fragmentation is what the callers
\* cause, never what the merges missed.
Coalesced ==
  \A a \in DOMAIN seg : seg[a].is_free /\ seg[a].next # NULL => ~ seg[seg[a].next].is_free

\* Every call returns, unless the kernel panics: at most two expansions give malloc a
\* segment it can use, however the other callers' requests fall in between.
CallsReturn == \A x \in Callers : pc[x] = "acquire" ~> (pc[x] = "idle" \/ failed)

Promise == INSTANCE Allocator WITH Memory <- 0..(Top - 1)
\* The heap implements the allocator its callers count on.
Allocates == Promise!Spec
=============================================================================
