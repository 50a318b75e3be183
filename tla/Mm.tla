--------------------------------- MODULE Mm ---------------------------------
(***************************************************************************)
(* User address spaces: global/mm.c, with the mapping half of              *)
(* arch/amd64/vmm.c and the callers that reach it (the mmap system call,   *)
(* the ELF loader, process creation, execve and fork).                     *)
(*                                                                         *)
(* A memory handler keeps its address space as a list of regions, each     *)
(* free or used, and never takes a used page back: munmap is a stub and    *)
(* mm_free_region has no caller.  The list is a sequence here; a region is *)
(* named by its index, and last_free_region is such an index.  Addresses   *)
(* are counted in units smaller than a page, so that an unaligned request  *)
(* exists.                                                                 *)
(***************************************************************************)
EXTENDS Integers, Sequences, FiniteSets

CONSTANTS
  PAGE,          \* units in a page
  Pages,         \* pages of user space: it is [PAGE, PAGE + Pages * PAGE)
  MaxSize,       \* longest request, in units
  Procs,         \* process slots
  First,         \* the process the kernel starts
  MaxWild        \* bound: fixed requests across regions or pages in one address space

VARIABLES
  mm,       \* mm[p]: p's memory handler
  mapped,   \* mapped[p]: the present pages of p's page table
  phase,    \* "none"; "load": the ELF loader is filling p; "run"
  granted,  \* the pages p was given (history, for the properties)
  wild,     \* wild[p]: the fixed requests across regions or pages p made (history)
  failed    \* the assertion or fault that stopped the kernel, or "no"

vars == <<mm, mapped, phase, granted, wild, failed>>

ASSUME MmAssumption ==
  /\ PAGE \in Nat \ {0} /\ Pages \in Nat \ {0} /\ MaxSize \in Nat \ {0}
  /\ First \in Procs /\ MaxWild \in Nat

NULL == 0
Base == PAGE
Size == Pages * PAGE
RoundUp(n) == ((n + PAGE - 1) \div PAGE) * PAGE
PageOf(a) == a \div PAGE

-----------------------------------------------------------------------------
(***************************************************************************)
(* The region list.  h is a handler: [regions, last_free_region].          *)
(***************************************************************************)
mm_create_handler ==
  [regions |-> <<[base |-> Base, size |-> Size,
                  block_count |-> RoundUp(Size) \div PAGE, is_free |-> TRUE]>>,
   last_free_region |-> 1]

remove_region(h, k) ==
  [regions |-> SubSeq(h.regions, 1, k - 1) \o SubSeq(h.regions, k + 1, Len(h.regions)),
   last_free_region |->
     IF h.last_free_region > k \/ (h.last_free_region = k /\ k > 1)
     THEN h.last_free_region - 1 ELSE h.last_free_region]

\* Splitting leaves the region alone when there is nothing to cut.
Cuts(h, i, size) == size # 0 /\ h.regions[i].size > size

split_region_Mutant(h, i, size) ==   \* block_count of the first part is kept
  IF ~Cuts(h, i, size) THEN h ELSE
  LET r == h.regions[i]
      rest == [r EXCEPT !.base = r.base + size, !.size = r.size - size,
                        !.block_count = RoundUp(r.size - size) \div PAGE]
  IN  [h EXCEPT !.regions = SubSeq(@, 1, i - 1) \o <<[r EXCEPT !.size = size], rest>>
                              \o SubSeq(@, i + 1, Len(@))]
split_region(h, i, size) ==
  IF ~Cuts(h, i, size) THEN h ELSE
  LET r == h.regions[i]
      head == [r EXCEPT !.size = size, !.block_count = RoundUp(size) \div PAGE]
      rest == [r EXCEPT !.base = r.base + size, !.size = r.size - size,
                        !.block_count = RoundUp(r.size - size) \div PAGE]
  IN  [regions |-> SubSeq(h.regions, 1, i - 1) \o <<head, rest>>
                     \o SubSeq(h.regions, i + 1, Len(h.regions)),
       last_free_region |-> h.last_free_region
                            + IF h.last_free_region > i THEN 1 ELSE 0]

\* The region split_region returns: the second part, if it cut.
SplitResult(h, i, size) == IF Cuts(h, i, size) THEN i + 1 ELSE i

merge_region(h, i) ==
  IF i = Len(h.regions) THEN h ELSE
  LET from == h.regions[i + 1]
  IN  remove_region([h EXCEPT !.regions[i].size = @ + from.size,
                              !.regions[i].block_count = @ + from.block_count], i + 1)

mm_get_region(h, base) ==
  LET has == {i \in 1..Len(h.regions) : /\ h.regions[i].base <= base
                                        /\ h.regions[i].base + h.regions[i].size > base}
  IN  IF base > Base + Size \/ has = {} THEN NULL
      ELSE CHOOSE i \in has : \A j \in has : i <= j

\* The loop of the fixed path: region i takes in its successors until it is large
\* enough or is the last one.
Absorb(h, i, need) ==
  LET after[n \in 0..(Len(h.regions) - i)] ==
        IF n = 0 THEN h ELSE merge_region(after[n - 1], i)
      done == {n \in DOMAIN after : \/ after[n].regions[i].size >= need
                                    \/ i = Len(after[n].regions)}
  IN  after[CHOOSE n \in done : \A k \in done : n <= k]

\* Where a fixed request goes, [h, at]: the list after the merges and the two splits.
Fixed_Mutant(h, base, size) ==   \* the part before the request is not split off
  LET i == mm_get_region(h, base)
      m == Absorb(h, i, base - h.regions[i].base + size)
  IN  [h |-> IF m.regions[i].is_free THEN split_region(m, i, size) ELSE m, at |-> i]
Fixed(h, base, size) ==
  LET i == mm_get_region(h, base)
      unusable == base - h.regions[i].base
      m == Absorb(h, i, unusable + size)
      at == SplitResult(m, i, unusable)
  IN  IF m.regions[i].is_free
      THEN [h |-> split_region(split_region(m, i, unusable), at, size), at |-> at]
      ELSE [h |-> m, at |-> i]

\* First fit, from last_free_region.
Candidates_Mutant(h, size) ==   \* a region of the exact size is passed over
  {i \in h.last_free_region..Len(h.regions) :
     h.regions[i].is_free /\ h.regions[i].size > size}
Candidates(h, size) ==
  {i \in h.last_free_region..Len(h.regions) :
     h.regions[i].is_free /\ h.regions[i].size >= size}

FirstFit(h, size) ==
  LET i == CHOOSE k \in Candidates(h, size) : \A j \in Candidates(h, size) : k <= j
  IN  [h |-> split_region(h, i, size), at |-> i]

\* The end of mm_allocate_region_vm: mark the region used and join it to its used
\* neighbours.
MarkUsed(h, i) ==
  LET n == IF i < Len(h.regions) /\ ~h.regions[i + 1].is_free THEN merge_region(h, i) ELSE h
      u == [n EXCEPT !.regions[i].is_free = FALSE]
  IN  IF i > 1 /\ ~u.regions[i - 1].is_free THEN merge_region(u, i - 1) ELSE u

\* mm_allocate_region_vm: [h, err, base], err = "" for success.
mm_allocate_region_vm(h, hint, len, is_fixed) ==
  LET base == hint - (hint % PAGE)
      size == RoundUp(len + (hint % PAGE))
      from == IF is_fixed THEN Fixed(h, base, size) ELSE FirstFit(h, size)
  IN  CASE is_fixed /\ mm_get_region(h, base) = NULL ->
             [h |-> h, base |-> base,
              err |-> IF base + size > Base + Size THEN "EINVAL" ELSE ""]
        [] ~is_fixed /\ Candidates(h, size) = {} -> [h |-> h, base |-> base, err |-> "ENOMEM"]
        [] OTHER -> [h |-> MarkUsed(from.h, from.at), err |-> "",
                     base |-> IF is_fixed THEN base ELSE from.h.regions[from.at].base]

\* vmm_map_allocate steps from the address by pages while it is below the length, so
\* an unaligned address makes it cover one page less than the bytes touch.
vmm_map_allocate_Mutant(address, len) ==   \* the length is rounded down
  {PageOf(address) + k : k \in 0..(len \div PAGE - 1)}
vmm_map_allocate(address, len) ==
  {PageOf(address) + k : k \in 0..(RoundUp(len) \div PAGE - 1)}

\* The pages the bytes [address, address + len) lie in.
Spanned(address, len) == PageOf(address)..PageOf(address + len - 1)

UsedPages(h) ==
  UNION {PageOf(h.regions[i].base)..(PageOf(h.regions[i].base) + h.regions[i].block_count - 1) :
           i \in {j \in 1..Len(h.regions) : ~h.regions[j].is_free}}

-----------------------------------------------------------------------------
Init ==
  /\ mm = [p \in Procs |-> mm_create_handler]
  /\ mapped = [p \in Procs |-> {}]
  /\ phase = [p \in Procs |-> IF p = First THEN "load" ELSE "none"]
  /\ granted = [p \in Procs |-> {}]
  /\ wild = [p \in Procs |-> 0] /\ failed = "no"

\* A fixed request that stays in one region and is mapped whole.
Contained(h, base, len) ==
  LET i == mm_get_region(h, base)
  IN  /\ base >= Base
      /\ Spanned(base, len) = vmm_map_allocate(base, len)
      /\ i # NULL => Spanned(base, len) \subseteq Spanned(h.regions[i].base, h.regions[i].size)

\* Reserve a region, then map it from `address`.
Grant(p, r, address, len) ==
  /\ mm' = [mm EXCEPT ![p] = r.h]
  /\ mapped' = [mapped EXCEPT ![p] = @ \cup vmm_map_allocate(address, len)]
  /\ granted' = [granted EXCEPT ![p] = @ \cup Spanned(address, len)]

Count(p, base, len) ==
  IF Contained(mm[p], base, len) THEN UNCHANGED wild
  ELSE wild[p] < MaxWild /\ wild' = [wild EXCEPT ![p] = @ + 1]

\* The mmap system call: an error leaves everything as it was.
syscall_handler_mmap(p, hint, len, is_fixed) ==
  LET r == mm_allocate_region_vm(mm[p], hint, len, is_fixed)
  IN  /\ phase[p] = "run" /\ (is_fixed \/ hint = 0)
      /\ IF r.err = ""
         THEN /\ Grant(p, r, r.base, len)
              /\ IF is_fixed THEN Count(p, hint, len) ELSE UNCHANGED wild
              /\ UNCHANGED <<phase, failed>>
         ELSE UNCHANGED vars

\* One PT_LOAD segment, at its own address; the loader asserts success.
load_elf_exec_segments(p, address, len) ==
  LET r == mm_allocate_region_vm(mm[p], address, len, TRUE)
  IN  /\ phase[p] = "load"
      /\ IF r.err = ""
         THEN Grant(p, r, address, len) /\ Count(p, address, len) /\ UNCHANGED <<phase, failed>>
         ELSE failed' = "assert" /\ UNCHANGED <<mm, mapped, phase, granted, wild>>

\* The stack closes the load: the process may now run.
load_elf_exec_with_file(p, len) ==
  LET r == mm_allocate_region_vm(mm[p], 0, len, FALSE)
  IN  /\ phase[p] = "load" /\ len \in 1..MaxSize
      /\ IF r.err = ""
         THEN /\ Grant(p, r, r.base, len)
              /\ phase' = [phase EXCEPT ![p] = "run"]
              /\ UNCHANGED <<wild, failed>>
         ELSE failed' = "assert" /\ UNCHANGED <<mm, mapped, phase, granted, wild>>

\* scheduler_execve: a new handler and a new page table, filled by the loader.  (When
\* the loader returns an error the old handler is put back: no step here.)
scheduler_execve(p) ==
  /\ phase[p] = "run"
  /\ mm' = [mm EXCEPT ![p] = mm_create_handler]
  /\ mapped' = [mapped EXCEPT ![p] = {}]
  /\ granted' = [granted EXCEPT ![p] = {}]
  /\ phase' = [phase EXCEPT ![p] = "load"]
  /\ wild' = [wild EXCEPT ![p] = 0]
  /\ UNCHANGED failed

\* mm_fork copies the list and every page of every used region, reading the pages at
\* their own addresses: one that is not mapped faults in the kernel.
mm_fork(p, q) ==
  /\ phase[p] = "run" /\ phase[q] = "none"
  /\ IF UsedPages(mm[p]) \subseteq mapped[p]
     THEN /\ mm' = [mm EXCEPT ![q] = mm[p]]
          /\ mapped' = [mapped EXCEPT ![q] = UsedPages(mm[p])]
          /\ granted' = [granted EXCEPT ![q] = granted[p]]
          /\ phase' = [phase EXCEPT ![q] = "run"]
          /\ wild' = [wild EXCEPT ![q] = wild[p]]
          /\ UNCHANGED failed
     ELSE failed' = "fault" /\ UNCHANGED <<mm, mapped, phase, granted, wild>>

Next ==
  \/ /\ failed = "no"
     /\ \E p \in Procs :
          \/ \E hint \in 0..(Base + Size), len \in 1..MaxSize, fixed \in BOOLEAN :
               syscall_handler_mmap(p, hint, len, fixed)
          \/ \E address \in 0..(Base + Size), len \in 1..MaxSize :
               load_elf_exec_segments(p, address, len)
          \/ \E len \in 1..MaxSize : load_elf_exec_with_file(p, len)
          \/ scheduler_execve(p)
          \/ \E q \in Procs : mm_fork(p, q)
  \/ failed # "no" /\ UNCHANGED vars

Spec == Init /\ [][Next]_vars

-----------------------------------------------------------------------------

\* Whatever is asked for, the regions tile the address space: in order, without gap or
\* overlap, each as many whole pages as its block_count says (mm_fork trusts the
\* count), and the first-fit search starts at the first of them, so that region_count
\* steps along next never run off the list (mm.c:198-206).
Tiled ==
  \A p \in Procs :
    LET r == mm[p].regions
    IN  /\ r[1].base = Base /\ r[Len(r)].base + r[Len(r)].size = Base + Size
        /\ \A i \in 1..(Len(r) - 1) : r[i + 1].base = r[i].base + r[i].size
        /\ \A i \in 1..Len(r) : r[i].size = r[i].block_count * PAGE /\ r[i].size > 0
        /\ mm[p].last_free_region = 1

Tame == {p \in Procs : wild[p] = 0}

\* For callers that keep a fixed request inside one region: the used regions cover
\* exactly the pages the process was given, through any sequence of mmap, load, execve
\* and fork.  No granted page is ever offered again and no page is lost.
UsedExact == \A p \in Tame : UsedPages(mm[p]) = granted[p]

\* For the same callers, every page of a used region is present in the page table: the
\* copy loop of mm_fork, which reads all of them, does not fault, in a process and in
\* the child that fork made of it.
Backed == \A p \in Tame : UsedPages(mm[p]) \subseteq mapped[p]

\* For the same callers, an address space with a run of pages of the requested length
\* that was never given to the process has a region that first fit takes: mmap returns
\* no error and the loader's assertions hold.
RoomIsFound ==
  \A p \in Tame, n \in 1..(RoundUp(MaxSize) \div PAGE) :
    (\E a \in 1..(Pages - n + 1) : a..(a + n - 1) \cap granted[p] = {})
      => Candidates(mm[p], n * PAGE) # {}
=============================================================================
