--------------------------------- MODULE Pmm ---------------------------------
(***************************************************************************)
(* The physical page allocator, global/pmm.c, set up from the boot          *)
(* loader's memory map by boot/limine/pmm.c.  A bitmap says which pages are *)
(* in use; the free pages themselves hold a doubly linked list of the free  *)
(* runs ("segments"): a free_list_info_t in the first page of each run and  *)
(* a free_list_info_end_t in its last.                                      *)
(*                                                                         *)
(* Pages are numbered; page 0 is never free, so 0 stands for NULL.  Every   *)
(* operation runs under pmm_lock.  A page handed out belongs to its new     *)
(* owner, and following a link to a page that no longer starts a segment    *)
(* reads or overwrites that owner's data: the model stops there.            *)
(***************************************************************************)
EXTENDS Integers, Sequences, FiniteSets

CONSTANTS
  MemMap,        \* the memory map: a sequence of [base, n, usable], in pages
  ReservedEnd,   \* PHYSICAL_ADDRESS_RESERVED_END
  BitmapPages,   \* the pages the bitmap takes
  Workload,      \* what callers do: "page", "pages", "free"
  Counts         \* the page counts pmm_allocate_pages is asked for

ASSUME PmmAssumption ==
  /\ Len(MemMap) > 0 /\ ReservedEnd \in Nat \ {0} /\ BitmapPages \in Nat \ {0}
  /\ \A i \in 1..Len(MemMap) : MemMap[i].base \in Nat /\ MemMap[i].n \in Nat \ {0}
  /\ Workload \subseteq {"page", "pages", "free"} /\ Counts \subseteq Nat \ {0}

NULL == 0

Pages(base, n) == base..(base + n - 1)
\* total_page_count, from pmm_get_memory_end; the bitmap has a bit more than that.
highest_page_index ==
  CHOOSE e \in {MemMap[i].base + MemMap[i].n : i \in 1..Len(MemMap)} :
    \A i \in 1..Len(MemMap) : MemMap[i].base + MemMap[i].n <= e

VARIABLES
  booted,          \* entries of the memory map pmm_init has been through
  free,            \* the pages whose bit of pmm_bitmap is clear
  mem,             \* page -> what the list's structures in it hold
  entry,           \* pmm_last_free_entry_free_list
  first,           \* pmm_first_free_page_index
  available_pages, reserved_pages,
  live,            \* the blocks handed out and not freed
  failed           \* "none", "panic" (no memory left) or "stale" (see above)

vars == <<booted, free, mem, entry, first, available_pages, reserved_pages, live, failed>>

Blank == [page_count |-> 0, index_start |-> 0, index_end |-> 0,
          end |-> NULL, start |-> NULL, last |-> NULL, next |-> NULL]

\* Everything is reserved until pmm_init has read the map.
Init ==
  /\ booted = 0 /\ free = {} /\ mem = [p \in 0..highest_page_index |-> Blank]
  /\ entry = NULL /\ first = 0
  /\ available_pages = 0 /\ reserved_pages = highest_page_index
  /\ live = {} /\ failed = "none"

-----------------------------------------------------------------------------
(* The list.  An operation returns the memory, the entry, and the links it followed. *)

Relink(m, p, field, v) == IF p = NULL THEN m ELSE [m EXCEPT ![p][field] = v]

RemoveWhole(i) ==
  LET f == mem[i]
      m == Relink(mem, f.last, "next", f.next)
  IN  [mem |-> Relink(m, f.next, "last", m[i].last),
       entry |-> IF i = entry THEN f.last ELSE entry,
       followed |-> {f.last, f.next} \ {NULL}]

\* The header moves up; the neighbours' links to it stay.
MoveHeader_Mutant(i, n) ==    \* the end of the segment is not told
  LET f == mem[i]
      new == i + n
  IN  [mem |-> [mem EXCEPT ![new] = [f EXCEPT !.page_count = @ - n, !.index_start = @ + n,
                                              !.start = mem[new].start]],
       entry |-> IF i = entry THEN new ELSE entry,
       followed |-> {}]
MoveHeader(i, n) ==
  LET f == mem[i]
      new == i + n
      m == [mem EXCEPT ![new] = [f EXCEPT !.page_count = @ - n, !.index_start = @ + n,
                                          !.start = mem[new].start]]
  IN  [mem |-> [m EXCEPT ![f.end].start = new],
       entry |-> IF i = entry THEN new ELSE entry,
       followed |-> {}]

pmm_remove_pages_to_free_list(i, n) ==
  IF mem[i].page_count = n THEN RemoveWhole(i) ELSE MoveHeader(i, n)

\* The freed pages join the run before them and the run after them.
JoinBoth(i, n) ==
  LET next == i + n
      f == mem[next]
      last == mem[i - 1].start
      m1 == [mem EXCEPT ![last].end = f.end, ![last].index_end = f.index_end,
                        ![last].page_count = @ + n + f.page_count]
      m2 == Relink([m1 EXCEPT ![f.end].start = last], f.last, "next", f.next)
  IN  [mem |-> Relink(m2, f.next, "last", f.last),
       entry |-> IF next = entry THEN f.last ELSE entry,
       followed |-> {f.last, f.next} \ {NULL}]

\* They become the start of the run after them.
JoinNext(i, n) ==
  LET f == mem[i + n]
      m == [mem EXCEPT ![i] = [f EXCEPT !.index_start = i, !.page_count = @ + n,
                                        !.start = mem[i].start]]
  IN  [mem |-> [m EXCEPT ![f.end].start = i],
       entry |-> IF i + n = entry THEN i ELSE entry,
       followed |-> {}]

\* They become the end of the run before them.
JoinLast(i, n) ==
  LET last == mem[i - 1].start
      e == i + n - 1
  IN  [mem |-> [mem EXCEPT ![last].page_count = @ + n, ![last].index_end = e,
                           ![last].end = e, ![e].start = last],
       entry |-> entry, followed |-> {}]

\* They are a segment of their own, the new entry of the list.
NewSegment(i, n) ==
  LET e == i + n - 1
      m1 == [mem EXCEPT ![i].index_start = i, ![i].index_end = e, ![i].page_count = n,
                        ![i].end = e, ![i].last = entry, ![i].next = NULL]
      m2 == [m1 EXCEPT ![e].start = i]
  IN  [mem |-> Relink(m2, entry, "next", i), entry |-> i, followed |-> {entry} \ {NULL}]

pmm_add_page_to_free_list(i, n) ==
  LET is_next_free == i + n \in free
      is_last_free == i - 1 \in free
  IN  IF is_next_free /\ is_last_free THEN JoinBoth(i, n)
      ELSE IF is_next_free THEN JoinNext(i, n)
      ELSE IF is_last_free THEN JoinLast(i, n)
      ELSE NewSegment(i, n)

\* The pages at which a free run starts.
Starts == {p \in free : p - 1 \notin free}

\* Take over the list, unless a link it followed led out of the list.  The structures
\* live at the ends of the free runs; what other pages hold is of no account.
Adopt(list) ==
  /\ mem' = [p \in DOMAIN mem |->
                IF p \in free' /\ ~ {p - 1, p + 1} \subseteq free' THEN list.mem[p] ELSE Blank]
  /\ entry' = list.entry
  /\ failed' = IF list.followed \subseteq Starts THEN "none" ELSE "stale"

-----------------------------------------------------------------------------
(* The operations *)

pmm_free_pages_index(i, n) ==
  /\ free' = free \cup Pages(i, n)
  /\ Adopt(pmm_add_page_to_free_list(i, n))
  /\ available_pages' = available_pages + n
  /\ first' = IF first > i THEN i ELSE first

\* What pmm_init makes of the usable entry e: the pages it unreserves, none if n <= 0.
\* The bitmap goes to the first entry that has room for it (pmm_find_free_entry).
HasRoom(e) ==
  /\ e.usable /\ e.n >= BitmapPages
  /\ e.base < ReservedEnd => e.n - (ReservedEnd - e.base) >= BitmapPages
BitmapEntry ==
  CHOOSE i \in 1..Len(MemMap) :
    HasRoom(MemMap[i]) /\ \A j \in 1..(i - 1) : ~ HasRoom(MemMap[j])

Unreserved_Bitmap(i) ==   \* the bitmap's own pages too
  [base |-> IF MemMap[i].base < ReservedEnd THEN ReservedEnd ELSE MemMap[i].base,
   n |-> IF MemMap[i].base < ReservedEnd THEN 0 ELSE MemMap[i].n]
Unreserved(i) ==
  LET e == MemMap[i]
      low == e.base <= ReservedEnd
      base == IF low THEN ReservedEnd ELSE e.base
      size == IF low THEN e.n - (ReservedEnd - e.base) ELSE e.n
  IN  IF i = BitmapEntry /\ size > 0
      THEN [base |-> base + BitmapPages, n |-> e.n - BitmapPages]
      ELSE [base |-> base, n |-> size]

\* The model covers memory maps in which the entry that takes the bitmap does not start
\* below ReservedEnd (there pmm_init would use the entry's length where it needs the
\* clipped size).
ASSUME BitmapAbove == MemMap[BitmapEntry].base >= ReservedEnd

pmm_init(i) ==
  LET u == Unreserved(i)
  IN  /\ booted = i - 1 /\ booted' = i
      /\ IF MemMap[i].usable /\ u.n > 0
         THEN /\ pmm_free_pages_index(u.base, u.n)
              /\ reserved_pages' = reserved_pages - u.n
         ELSE UNCHANGED <<free, mem, entry, first, available_pages, reserved_pages, failed>>
      /\ UNCHANGED live

Ready == booted = Len(MemMap) /\ failed = "none"

Panic ==
  /\ failed' = "panic"
  /\ UNCHANGED <<booted, free, mem, entry, first, available_pages, reserved_pages, live>>

HandOut_One(i, n) ==      \* only the first page is marked in the bitmap
  /\ free' = free \ {i}
  /\ available_pages' = available_pages - n
  /\ live' = live \cup {[at |-> i, n |-> n]}
  /\ UNCHANGED <<booted, reserved_pages>>
HandOut(i, n) ==
  /\ free' = free \ Pages(i, n)
  /\ available_pages' = available_pages - n
  /\ live' = live \cup {[at |-> i, n |-> n]}
  /\ UNCHANGED <<booted, reserved_pages>>

\* The scan starts at first and stops before highest_page_index.
Scanned == {p \in free : first <= p /\ p < highest_page_index}
pmm_allocate_page ==
  /\ Ready /\ "page" \in Workload
  /\ \/ Scanned = {} /\ Panic
     \/ \E p \in Scanned :
          /\ \A q \in Scanned : p <= q
          /\ HandOut(p, 1)
          /\ Adopt(pmm_remove_pages_to_free_list(p, 1))
          /\ first' = p

\* pmm_allocate_pages walks the list from its entry by the last links: the segments it
\* may pass, and the page it stops at (Lost: links that lead out of the list or round).
Lost == highest_page_index + 1
Walk(n) ==
  LET from[k \in 0..Cardinality(Starts), p \in 0..highest_page_index] ==
        IF p = NULL THEN NULL
        ELSE IF p \notin Starts \/ k = 0 THEN Lost
        ELSE IF mem[p].page_count >= n THEN p
        ELSE from[k - 1, mem[p].last]
  IN  from[Cardinality(Starts), entry]

pmm_allocate_pages(n) ==
  LET p == Walk(n)
  IN  /\ Ready /\ "pages" \in Workload
      /\ \/ p = NULL /\ Panic
         \/ /\ p = Lost
            /\ failed' = "stale"
            /\ UNCHANGED <<booted, free, mem, entry, first, available_pages, reserved_pages, live>>
         \/ /\ p \in Starts
            /\ HandOut(mem[p].index_start, n)
            /\ Adopt(pmm_remove_pages_to_free_list(p, n))
            /\ UNCHANGED first

pmm_free_pages(b) ==
  /\ Ready /\ "free" \in Workload
  /\ pmm_free_pages_index(b.at, b.n)
  /\ live' = live \ {b}
  /\ UNCHANGED <<booted, reserved_pages>>

Next ==
  \/ \E i \in 1..Len(MemMap) : pmm_init(i)
  \/ pmm_allocate_page
  \/ \E n \in Counts : pmm_allocate_pages(n)
  \/ \E b \in live : pmm_free_pages(b)
  \/ failed # "none" /\ UNCHANGED vars

Spec == Init /\ [][Next]_vars

-----------------------------------------------------------------------------
(* Properties *)

\* The four records of what is free agree, whatever sequence of splits and merges led here:
\* every maximal run of pages free in the bitmap is described by the structures in its first
\* and last page, no free page lies outside the scan of pmm_allocate_page, and the counters
\* are the pages the bitmap and the memory map say.
RunsDescribed ==
  /\ \A a \in Starts :
       LET b == CHOOSE q \in free : /\ a <= q /\ q + 1 \notin free
                                    /\ \A r \in a..q : r \in free
       IN  /\ mem[a].page_count = b - a + 1
           /\ mem[a].index_start = a /\ mem[a].index_end = b
           /\ mem[a].end = b /\ mem[b].start = a
  /\ \A p \in free : first <= p /\ p < highest_page_index
  /\ available_pages = Cardinality(free)
  /\ booted = Len(MemMap) =>
       reserved_pages = highest_page_index - Cardinality(free)
                          - Cardinality(UNION {Pages(b.at, b.n) : b \in live})

\* No page is handed out or put in the list that the memory map does not call usable,
\* that is reserved, or that holds the bitmap.
OnlyUsable ==
  LET entries == {MemMap[i] : i \in 1..Len(MemMap)}
      usable == UNION {Pages(m.base, m.n) : m \in {x \in entries : x.usable}}
      e == MemMap[BitmapEntry]
  IN  free \cup UNION {Pages(b.at, b.n) : b \in live}
        \subseteq {p \in usable : p >= ReservedEnd} \ Pages(e.base, BitmapPages)

Promise == INSTANCE Allocator WITH Memory <- 1..highest_page_index, Sizes <- Counts \cup {1}
\* The page allocator implements the allocator its callers count on.
Allocates == Promise!Spec
=============================================================================
