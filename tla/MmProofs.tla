------------------------------ MODULE MmProofs ------------------------------
(***************************************************************************)
(* Address spaces stay sound for any page size, any size of user space and *)
(* any number of processes: MmInv is inductive.                            *)
(*                                                                         *)
(* Two parts.  Whatever a process asks for, its regions tile user space    *)
(* (Tiling).  For a process whose fixed requests stay in one region more is *)
(* kept: free and used regions alternate, and the used ones hold exactly   *)
(* the pages that were granted, which are mapped (Exact).                  *)
(***************************************************************************)
EXTENDS Mm, WellFoundedInduction, TLAPS

Aligned(x) == \E b \in Nat : x = b * PAGE
Blocks(size) == RoundUp(size) \div PAGE

Regions == [base : Nat, size : Nat, block_count : Nat, is_free : BOOLEAN]

\* A region is whole pages, as many as it says.
Whole(r) ==
  /\ r \in Regions /\ Aligned(r.base) /\ Aligned(r.size) /\ r.size > 0
  /\ r.block_count = Blocks(r.size)

\* The regions r follow one another from Base to Base + Size.
Row(r) ==
  /\ Len(r) > 0 /\ \A i \in 1..Len(r) : Whole(r[i])
  /\ r[1].base = Base /\ r[Len(r)].base + r[Len(r)].size = Base + Size
  /\ \A i \in 1..(Len(r) - 1) : r[i + 1].base = r[i].base + r[i].size

Handlers == [regions : Seq(Regions), last_free_region : {1}]
Tiling(h) == h \in Handlers /\ Row(h.regions)

\* Neighbours i and i + 1 differ.
Differs(r, i) == r[i].is_free <=> ~r[i + 1].is_free
Alternating(r) == \A i \in 1..(Len(r) - 1) : Differs(r, i)

\* Address x is in region r, and in a used region of the list r.
In(r, x) == r.base <= x /\ x < r.base + r.size
Used(r, x) == \E i \in 1..Len(r) : ~r[i].is_free /\ In(r[i], x)

\* The process's used regions are what it was granted, and are mapped.
Exact(h, given, present) ==
  /\ Alternating(h.regions) /\ UsedPages(h) = given /\ given \subseteq present

MmInv ==
  /\ mm \in [Procs -> Handlers] /\ \A p \in Procs : Tiling(mm[p])
  /\ mapped \in [Procs -> SUBSET Int] /\ granted \in [Procs -> SUBSET Int]
  /\ phase \in [Procs -> {"none", "load", "run"}] /\ wild \in [Procs -> Nat]
  /\ \A p \in Procs : wild[p] = 0 => Exact(mm[p], granted[p], mapped[p])

-----------------------------------------------------------------------------
(* Pages.                                                                  *)

\* The numbers of a page.
LEMMA PageSize == PAGE \in Nat /\ PAGE > 0 /\ Pages \in Nat /\ Pages > 0 /\ MaxSize \in Nat
BY MmAssumption

\* Multiplying by the page size keeps the order.
LEMMA Order ==
  ASSUME NEW a \in Int, NEW b \in Int
  PROVE  (a < b <=> a * PAGE < b * PAGE) /\ (a * PAGE = b * PAGE => a = b)
<1>1. PAGE \in Int /\ PAGE > 0
  BY PageSize
<1>2. ASSUME NEW c \in Int, NEW d \in Int, c < d PROVE c * PAGE < d * PAGE
  <2>1. (d - c) >= 1 /\ (d - c) \in Int
    BY <1>2
  <2>2. (d - c) * PAGE >= PAGE
    BY <1>1, <2>1
  <2>3. d * PAGE = c * PAGE + (d - c) * PAGE
    BY <1>1
  <2> QED BY <1>1, <1>2, <2>2, <2>3
<1>3. a * PAGE \in Int /\ b * PAGE \in Int
  BY <1>1
<1>4. a < b => a * PAGE < b * PAGE
  BY <1>2
<1>5. b < a => b * PAGE < a * PAGE
  BY <1>2
<1> QED BY <1>3, <1>4, <1>5

\* Division by the page size.
LEMMA Divides ==
  ASSUME NEW n \in Int
  PROVE  /\ n \div PAGE \in Int /\ n % PAGE \in Int /\ 0 <= n % PAGE /\ n % PAGE < PAGE
         /\ n = (n \div PAGE) * PAGE + (n % PAGE)
BY PageSize

\* The quotient is determined by its bounds.
LEMMA Quotient ==
  ASSUME NEW a \in Int, NEW n \in Int, a * PAGE <= n, n < (a + 1) * PAGE
  PROVE  n \div PAGE = a
<1> DEFINE d == n \div PAGE
<1>1. d \in Int /\ d * PAGE <= n /\ n < (d + 1) * PAGE
  BY Divides, PageSize
<1> HIDE DEF d
<1>2. a * PAGE \in Int /\ d * PAGE \in Int /\ (a + 1) * PAGE \in Int /\ (d + 1) * PAGE \in Int
  BY <1>1, PageSize
<1>3. a * PAGE < (d + 1) * PAGE /\ d * PAGE < (a + 1) * PAGE
  BY <1>1, <1>2
<1>4. a < d + 1 /\ d < a + 1
  BY <1>1, <1>3, Order
<1> QED BY <1>1, <1>4 DEF d

\* A whole number of pages is its own rounding.
LEMMA WholePages ==
  ASSUME NEW b \in Nat
  PROVE  /\ b * PAGE \in Nat /\ (b * PAGE) \div PAGE = b
         /\ RoundUp(b * PAGE) = b * PAGE /\ Blocks(b * PAGE) = b
<1>1. b * PAGE \in Nat /\ (b + 1) * PAGE = b * PAGE + PAGE
  BY PageSize
<1>2. (b * PAGE) \div PAGE = b
  BY <1>1, Quotient, PageSize
<1>3. (b * PAGE + PAGE - 1) \div PAGE = b
  <2>1. b * PAGE + PAGE - 1 \in Int /\ b * PAGE <= b * PAGE + PAGE - 1
        /\ b * PAGE + PAGE - 1 < (b + 1) * PAGE
    BY <1>1, PageSize
  <2> QED BY <2>1, Quotient
<1> QED BY <1>1, <1>2, <1>3 DEF RoundUp, Blocks

\* The rounding of a length is the next whole number of pages.
LEMMA Rounds ==
  ASSUME NEW n \in Nat, n > 0
  PROVE  /\ Aligned(RoundUp(n)) /\ RoundUp(n) \in Nat /\ n <= RoundUp(n) /\ RoundUp(n) < n + PAGE
         /\ RoundUp(n) > 0
<1> DEFINE m == n + PAGE - 1
           d == m \div PAGE
<1>1. m \in Int /\ m >= 0 /\ m >= PAGE
  BY PageSize
<1>2. d \in Int /\ d * PAGE <= m /\ m < d * PAGE + PAGE /\ d * PAGE \in Int
  BY <1>1, Divides, PageSize
<1>3. d >= 1
  <2>1. 1 * PAGE = PAGE /\ (d + 1) * PAGE = d * PAGE + PAGE
    BY <1>2, PageSize
  <2>2. PAGE < (d + 1) * PAGE
    BY <1>1, <1>2, <2>1, PageSize
  <2> HIDE DEF d
  <2> QED BY <1>2, <2>1, <2>2, Order
<1>4. RoundUp(n) = d * PAGE
  BY DEF RoundUp
<1> HIDE DEF d
<1> QED BY <1>1, <1>2, <1>3, <1>4, PageSize DEF Aligned, m

\* Sums and differences of whole pages.
LEMMA Sums ==
  ASSUME NEW x \in Nat, NEW y \in Nat, Aligned(x), Aligned(y)
  PROVE  /\ Aligned(x + y) /\ Blocks(x + y) = Blocks(x) + Blocks(y)
         /\ y <= x => Aligned(x - y)
         /\ Blocks(x) \in Nat /\ x = Blocks(x) * PAGE
<1>1. PICK b \in Nat : x = b * PAGE
  BY DEF Aligned
<1>2. PICK c \in Nat : y = c * PAGE
  BY DEF Aligned
<1>3. x + y = (b + c) * PAGE /\ b + c \in Nat
  BY <1>1, <1>2, PageSize
<1>4. Blocks(x) = b /\ Blocks(y) = c /\ Blocks(x + y) = b + c
  BY Zenon, <1>1, <1>2, <1>3, WholePages
<1>5. Aligned(x + y)
  BY <1>3 DEF Aligned
<1>6. ASSUME y <= x PROVE Aligned(x - y)
  <2>1. ~ (b < c)
    BY <1>1, <1>2, <1>6, Order
  <2>2. b - c \in Nat /\ x - y = (b - c) * PAGE
    BY <1>1, <1>2, <2>1, PageSize
  <2> QED BY <2>2 DEF Aligned
<1> QED BY <1>1, <1>4, <1>5, <1>6

\* Whole pages that are not none are at least one.
LEMMA AtLeastOne ==
  ASSUME NEW x \in Nat, Aligned(x), x > 0
  PROVE  x >= PAGE
<1>1. PICK b \in Nat : x = b * PAGE
  BY DEF Aligned
<1>2. b >= 1
  BY <1>1, PageSize
<1>3. b * PAGE = PAGE + (b - 1) * PAGE /\ (b - 1) * PAGE >= 0
  BY <1>2, PageSize
<1> QED BY <1>1, <1>3, PageSize

-----------------------------------------------------------------------------
(* The list of regions.                                                    *)

\* The elements of a concatenation.
LEMMA Joins ==
  ASSUME NEW S, NEW a \in Seq(S), NEW b \in Seq(S)
  PROVE  /\ a \o b \in Seq(S) /\ Len(a \o b) = Len(a) + Len(b)
         /\ \A j \in 1..(Len(a) + Len(b)) : (a \o b)[j] = IF j <= Len(a) THEN a[j] ELSE b[j - Len(a)]
<1>1. a \o b \in Seq(S)
  OBVIOUS
<1>2. Len(a \o b) = Len(a) + Len(b)
  OBVIOUS
<1>3. \A j \in 1..(Len(a) + Len(b)) : (a \o b)[j] = IF j <= Len(a) THEN a[j] ELSE b[j - Len(a)]
  OBVIOUS
<1> QED BY <1>1, <1>2, <1>3

\* Taking element k out of a sequence, and putting two elements in its place.
Without(r, k) == SubSeq(r, 1, k - 1) \o SubSeq(r, k + 1, Len(r))
Instead(r, k, x, y) == SubSeq(r, 1, k - 1) \o <<x, y>> \o SubSeq(r, k + 1, Len(r))

\* The elements before and after k.
LEMMA Sides ==
  ASSUME NEW S, NEW r \in Seq(S), NEW k \in 1..Len(r)
  PROVE  /\ SubSeq(r, 1, k - 1) \in Seq(S) /\ Len(SubSeq(r, 1, k - 1)) = k - 1
         /\ \A j \in 1..(k - 1) : SubSeq(r, 1, k - 1)[j] = r[j]
         /\ SubSeq(r, k + 1, Len(r)) \in Seq(S) /\ Len(SubSeq(r, k + 1, Len(r))) = Len(r) - k
         /\ \A j \in 1..(Len(r) - k) : SubSeq(r, k + 1, Len(r))[j] = r[k + j]
<1>1. /\ SubSeq(r, 1, k - 1) \in Seq(S) /\ Len(SubSeq(r, 1, k - 1)) = k - 1
      /\ \A j \in 1..(k - 1) : SubSeq(r, 1, k - 1)[j] = r[j]
  OBVIOUS
<1>2. /\ SubSeq(r, k + 1, Len(r)) \in Seq(S) /\ Len(SubSeq(r, k + 1, Len(r))) = Len(r) - k
      /\ \A j \in 1..(Len(r) - k) : SubSeq(r, k + 1, Len(r))[j] = r[k + j]
  OBVIOUS
<1> QED BY <1>1, <1>2

\* What is left when remove_region takes element k out.
LEMMA Removes ==
  ASSUME NEW S, NEW r \in Seq(S), NEW k \in 1..Len(r)
  PROVE  /\ Without(r, k) \in Seq(S) /\ Len(Without(r, k)) = Len(r) - 1
         /\ \A j \in 1..(Len(r) - 1) : Without(r, k)[j] = IF j < k THEN r[j] ELSE r[j + 1]
<1> DEFINE a == SubSeq(r, 1, k - 1)
           b == SubSeq(r, k + 1, Len(r))
           w == Without(r, k)
<1>1. a \in Seq(S) /\ Len(a) = k - 1 /\ \A j \in 1..(k - 1) : a[j] = r[j]
  BY ZenonT(30), Sides
<1>2. b \in Seq(S) /\ Len(b) = Len(r) - k /\ \A j \in 1..(Len(r) - k) : b[j] = r[k + j]
  BY ZenonT(30), Sides
<1>3. w = a \o b
  BY Zenon DEF Without
<1> HIDE DEF a, b, w
<1>4. /\ w \in Seq(S) /\ Len(w) = Len(a) + Len(b)
      /\ \A j \in 1..(Len(a) + Len(b)) : w[j] = IF j <= Len(a) THEN a[j] ELSE b[j - Len(a)]
  BY ZenonT(30), <1>1, <1>2, <1>3, Joins
<1>5. Len(w) = Len(r) - 1
  BY <1>1, <1>2, <1>4
<1>6. \A j \in 1..(Len(r) - 1) : w[j] = IF j < k THEN r[j] ELSE r[j + 1]
  <2> TAKE j \in 1..(Len(r) - 1)
  <2>1. j \in 1..(Len(a) + Len(b)) /\ (j <= Len(a) <=> j < k) /\ j - Len(a) = j - k + 1
    BY <1>1, <1>2
  <2>2. CASE j < k
    <3>1. j \in 1..(k - 1) /\ j <= Len(a)
      BY <2>1, <2>2
    <3>2. w[j] = a[j] /\ a[j] = r[j]
      BY Zenon, <1>1, <1>4, <2>1, <3>1
    <3> QED BY Zenon, <2>2, <3>2
  <2>3. CASE ~(j < k)
    <3>1. w[j] = b[j - k + 1] /\ j - k + 1 \in 1..(Len(r) - k) /\ k + (j - k + 1) = j + 1
      BY SMTT(30), <1>4, <2>1, <2>3
    <3> QED BY <1>2, <2>3, <3>1
  <2> QED BY <2>2, <2>3
<1> QED BY <1>4, <1>5, <1>6 DEF w

\* w is r with x and y in the place of its element k.
Replaced(w, r, k, x, y) ==
  /\ w \in Seq(Regions) /\ Len(w) = Len(r) + 1 /\ w[k] = x /\ w[k + 1] = y
  /\ \A j \in 1..(k - 1) : w[j] = r[j]
  /\ \A j \in (k + 1)..Len(r) : w[j + 1] = r[j]

\* What split_region makes of the list.
LEMMA Splits ==
  ASSUME NEW r \in Seq(Regions), NEW k \in 1..Len(r), NEW x \in Regions, NEW y \in Regions
  PROVE  Replaced(Instead(r, k, x, y), r, k, x, y)
<1> DEFINE a == SubSeq(r, 1, k - 1)
           b == SubSeq(r, k + 1, Len(r))
           m == <<x, y>>
           c == a \o m
           w == Instead(r, k, x, y)
<1>1. a \in Seq(Regions) /\ Len(a) = k - 1 /\ \A j \in 1..(k - 1) : a[j] = r[j]
  BY ZenonT(30), Sides
<1>2. b \in Seq(Regions) /\ Len(b) = Len(r) - k /\ \A j \in 1..(Len(r) - k) : b[j] = r[k + j]
  BY ZenonT(30), Sides
<1>3. m \in Seq(Regions) /\ Len(m) = 2 /\ m[1] = x /\ m[2] = y
  OBVIOUS
<1>4. w = c \o b
  BY Zenon DEF Instead
<1> HIDE DEF a, b, m, w
<1>5. /\ c \in Seq(Regions) /\ Len(c) = k + 1 /\ c[k] = x /\ c[k + 1] = y
      /\ \A j \in 1..(k - 1) : c[j] = r[j]
  <2>1. /\ c \in Seq(Regions) /\ Len(c) = Len(a) + Len(m)
        /\ \A j \in 1..(Len(a) + Len(m)) : c[j] = IF j <= Len(a) THEN a[j] ELSE m[j - Len(a)]
    BY Zenon, <1>1, <1>3, Joins
  <2> HIDE DEF c
  <2> QED BY SMTT(30), <1>1, <1>3, <2>1
<1> HIDE DEF c
<1>6. /\ w \in Seq(Regions) /\ Len(w) = Len(c) + Len(b)
      /\ \A j \in 1..(Len(c) + Len(b)) : w[j] = IF j <= Len(c) THEN c[j] ELSE b[j - Len(c)]
  BY ZenonT(30), <1>2, <1>4, <1>5, Joins
<1>7. w[k] = x /\ w[k + 1] = y /\ \A j \in 1..(k - 1) : w[j] = r[j]
  <2>1. k \in 1..(Len(c) + Len(b)) /\ k + 1 \in 1..(Len(c) + Len(b)) /\ k <= Len(c) /\ k + 1 <= Len(c)
    BY <1>2, <1>5
  <2>2. \A j \in 1..(k - 1) : j \in 1..(Len(c) + Len(b)) /\ j <= Len(c)
    BY <1>2, <1>5
  <2> QED BY <1>5, <1>6, <2>1, <2>2
<1>8. \A j \in (k + 1)..Len(r) : w[j + 1] = r[j]
  <2> TAKE j \in (k + 1)..Len(r)
  <2>1. j + 1 \in 1..(Len(c) + Len(b)) /\ ~(j + 1 <= Len(c)) /\ j + 1 - Len(c) = j - k
    BY <1>2, <1>5
  <2>2. w[j + 1] = b[j - k] /\ j - k \in 1..(Len(r) - k) /\ k + (j - k) = j
    BY <1>2, <1>5, <1>6, <2>1
  <2> QED BY <1>2, <2>2
<1> QED BY SMTT(30), <1>2, <1>5, <1>6, <1>7, <1>8 DEF w, Replaced

\* Region a with region b joined to it, and the two parts of region a cut after size.
Joint(a, b) == [base |-> a.base, size |-> a.size + b.size,
                block_count |-> a.block_count + b.block_count, is_free |-> a.is_free]
Front(a, size) == [base |-> a.base, size |-> size, block_count |-> Blocks(size), is_free |-> a.is_free]
Rest(a, size) == [base |-> a.base + size, size |-> a.size - size,
                  block_count |-> Blocks(a.size - size), is_free |-> a.is_free]

\* The fields of a region.
LEMMA Types ==
  \A a \in Regions : a.base \in Nat /\ a.size \in Nat /\ a.block_count \in Nat /\ a.is_free \in BOOLEAN
BY DEF Regions

\* A region with one field assigned.
LEMMA Assigned ==
  ASSUME NEW a \in Regions, NEW z
  PROVE  /\ [a EXCEPT !.base = z]
              = [base |-> z, size |-> a.size, block_count |-> a.block_count, is_free |-> a.is_free]
         /\ [a EXCEPT !.size = z]
              = [base |-> a.base, size |-> z, block_count |-> a.block_count, is_free |-> a.is_free]
         /\ [a EXCEPT !.block_count = z]
              = [base |-> a.base, size |-> a.size, block_count |-> z, is_free |-> a.is_free]
         /\ [a EXCEPT !.is_free = z]
              = [base |-> a.base, size |-> a.size, block_count |-> a.block_count, is_free |-> z]
BY DEF Regions

\* The assignments of merge_region to the region it grows.
LEMMA Fields ==
  ASSUME NEW a \in Regions, NEW b \in Regions
  PROVE  /\ Joint(a, b) \in Regions
         /\ Joint(a, b) = [[a EXCEPT !.size = a.size + b.size]
                              EXCEPT !.block_count = a.block_count + b.block_count]
<1>1. a.size + b.size \in Nat /\ a.block_count + b.block_count \in Nat
  BY DEF Regions
<1> DEFINE c == [a EXCEPT !.size = a.size + b.size]
<1>2. c = [base |-> a.base, size |-> a.size + b.size, block_count |-> a.block_count, is_free |-> a.is_free]
  BY Zenon, Assigned
<1>3. c \in Regions
  BY <1>1, <1>2 DEF Regions
<1>4. /\ c.base = a.base /\ c.size = a.size + b.size /\ c.block_count = a.block_count
      /\ c.is_free = a.is_free
  BY <1>2
<1> HIDE DEF c
<1>5. [c EXCEPT !.block_count = a.block_count + b.block_count] = Joint(a, b)
  <2>1. [c EXCEPT !.block_count = a.block_count + b.block_count]
          = [base |-> c.base, size |-> c.size, block_count |-> a.block_count + b.block_count,
             is_free |-> c.is_free]
    BY Zenon, <1>3, Assigned
  <2> QED BY <1>4, <2>1 DEF Joint
<1>6. Joint(a, b) \in Regions
  BY <1>1 DEF Regions, Joint
<1> QED BY Zenon, <1>5, <1>6 DEF c

\* The assignments of split_region to the two parts.
LEMMA Parts ==
  ASSUME NEW a \in Regions, NEW size \in Nat, Aligned(size), Aligned(a.size), a.size > size
  PROVE  /\ Front(a, size) \in Regions /\ Rest(a, size) \in Regions
         /\ Front(a, size) = [a EXCEPT !.size = size, !.block_count = RoundUp(size) \div PAGE]
         /\ Rest(a, size) = [a EXCEPT !.base = a.base + size, !.size = a.size - size,
                                      !.block_count = RoundUp(a.size - size) \div PAGE]
<1>1. a.size \in Nat /\ size <= a.size /\ a.size - size \in Nat /\ a.base + size \in Nat
  BY DEF Regions
<1>2. Aligned(a.size - size)
  BY Zenon, <1>1, Sums
<1>3. Blocks(size) \in Nat /\ Blocks(a.size - size) \in Nat
  BY Zenon, <1>1, <1>2, Sums
<1>4. Front(a, size) \in Regions /\ Rest(a, size) \in Regions
  BY <1>1, <1>3 DEF Regions, Front, Rest
<1>5. Front(a, size) = [a EXCEPT !.size = size, !.block_count = RoundUp(size) \div PAGE]
  <2> DEFINE c == [a EXCEPT !.size = size]
  <2>1. c = [base |-> a.base, size |-> size, block_count |-> a.block_count, is_free |-> a.is_free]
    BY Zenon, Assigned
  <2>2. c \in Regions
    BY <2>1 DEF Regions
  <2>3. c.base = a.base /\ c.size = size /\ c.is_free = a.is_free
    BY <2>1
  <2> HIDE DEF c
  <2>4. [c EXCEPT !.block_count = RoundUp(size) \div PAGE] = Front(a, size)
    <3>1. [c EXCEPT !.block_count = Blocks(size)]
            = [base |-> c.base, size |-> c.size, block_count |-> Blocks(size), is_free |-> c.is_free]
      BY Zenon, <2>2, Assigned
    <3>2. [c EXCEPT !.block_count = Blocks(size)] = Front(a, size)
      BY <2>3, <3>1 DEF Front
    <3> QED BY Zenon, <3>2 DEF Blocks
  <2> QED BY Zenon, <2>4 DEF c
<1>6. Rest(a, size) = [a EXCEPT !.base = a.base + size, !.size = a.size - size,
                                !.block_count = RoundUp(a.size - size) \div PAGE]
  <2> DEFINE c == [a EXCEPT !.base = a.base + size]
             d == [c EXCEPT !.size = a.size - size]
  <2>1. c = [base |-> a.base + size, size |-> a.size, block_count |-> a.block_count, is_free |-> a.is_free]
    BY Zenon, Assigned
  <2>2. c \in Regions
    BY <1>1, <2>1 DEF Regions
  <2>3. c.base = a.base + size /\ c.block_count = a.block_count /\ c.is_free = a.is_free
    BY <2>1
  <2> HIDE DEF c
  <2>4. d = [base |-> a.base + size, size |-> a.size - size, block_count |-> a.block_count,
             is_free |-> a.is_free]
    <3>1. d = [base |-> c.base, size |-> a.size - size, block_count |-> c.block_count,
               is_free |-> c.is_free]
      BY Zenon, <2>2, Assigned
    <3> QED BY <2>3, <3>1
  <2>5. d \in Regions
    BY <1>1, <2>4 DEF Regions
  <2>6. d.base = a.base + size /\ d.size = a.size - size /\ d.is_free = a.is_free
    BY <2>4
  <2> HIDE DEF d
  <2>7. [d EXCEPT !.block_count = RoundUp(a.size - size) \div PAGE] = Rest(a, size)
    <3>1. [d EXCEPT !.block_count = Blocks(a.size - size)]
            = [base |-> d.base, size |-> d.size, block_count |-> Blocks(a.size - size),
               is_free |-> d.is_free]
      BY Zenon, <2>5, Assigned
    <3>2. [d EXCEPT !.block_count = Blocks(a.size - size)] = Rest(a, size)
      BY <2>6, <3>1 DEF Rest
    <3> QED BY Zenon, <3>2 DEF Blocks
  <2> QED BY Zenon, <2>7 DEF c, d
<1> QED BY <1>4, <1>5, <1>6

\* m is r with region i + 1 joined to region i.
MergeOf(m, r, i) ==
  /\ m \in Seq(Regions) /\ Len(m) = Len(r) - 1
  /\ \A j \in 1..(i - 1) : m[j] = r[j]
  /\ m[i] = Joint(r[i], r[i + 1])
  /\ \A j \in (i + 1)..(Len(r) - 1) : m[j] = r[j + 1]

\* m is r with region i cut after size.
SplitOf(m, r, i, size) ==
  /\ m \in Seq(Regions) /\ Len(m) = Len(r) + 1
  /\ \A j \in 1..(i - 1) : m[j] = r[j]
  /\ m[i] = Front(r[i], size) /\ m[i + 1] = Rest(r[i], size)
  /\ \A j \in (i + 1)..Len(r) : m[j + 1] = r[j]

\* merge_region, when there is a next region.
LEMMA MergeDoes ==
  ASSUME NEW h \in Handlers, NEW i \in 1..(Len(h.regions) - 1)
  PROVE  merge_region(h, i) \in Handlers /\ MergeOf(merge_region(h, i).regions, h.regions, i)
<1> DEFINE r == h.regions
           b == r[i + 1]
           x == Joint(r[i], b)
           y == [r EXCEPT ![i] = x]
           w == Without(y, i + 1)
<1>1. r \in Seq(Regions) /\ i \in 1..Len(r) /\ i + 1 \in 1..Len(r) /\ r[i] \in Regions
      /\ b \in Regions /\ Len(r) \in Nat
  BY DEF Handlers
<1>2. h = [regions |-> r, last_free_region |-> 1]
  BY DEF Handlers
<1> DEFINE size == r[i].size + b.size
           blocks == r[i].block_count + b.block_count
<1>3. merge_region(h, i) =
        remove_region([h EXCEPT !.regions[i].size = size, !.regions[i].block_count = blocks], i + 1)
  BY <1>1 DEF merge_region
<1> HIDE DEF r
<1>4. x \in Regions /\ x = [[r[i] EXCEPT !.size = size] EXCEPT !.block_count = blocks]
  BY Zenon, <1>1, Fields
<1> HIDE DEF b, x, size, blocks
<1>5. y \in Seq(Regions) /\ Len(y) = Len(r) /\ y[i] = x /\ \A j \in 1..Len(r) : j # i => y[j] = r[j]
  <2>1. \A z \in Regions : [r EXCEPT ![i] = z] \in Seq(Regions) /\ Len([r EXCEPT ![i] = z]) = Len(r)
    BY <1>1
  <2>2. x \in Regions
    BY Zenon, <1>4
  <2> QED BY <1>1, <2>1, <2>2
<1>6. [[r EXCEPT ![i].size = size] EXCEPT ![i].block_count = blocks] = y
  <2>1. \A z : [[r EXCEPT ![i] = z] EXCEPT ![i].block_count = blocks]
              = [r EXCEPT ![i] = [z EXCEPT !.block_count = blocks]]
    BY Zenon, <1>1
  <2> QED BY Zenon, <1>4, <2>1
<1> HIDE DEF y
<1>7. [h EXCEPT !.regions[i].size = size, !.regions[i].block_count = blocks]
        = [regions |-> y, last_free_region |-> 1]
  <2> DEFINE s1 == [r EXCEPT ![i].size = size]
             h1 == [h EXCEPT !.regions[i].size = size]
  <2>1. h1 = [regions |-> s1, last_free_region |-> 1]
    BY <1>2
  <2>2. [s1 EXCEPT ![i].block_count = blocks] = y
    BY Zenon, <1>6
  <2> HIDE DEF s1, h1
  <2>3. [h1 EXCEPT !.regions[i].block_count = blocks]
          = [regions |-> [s1 EXCEPT ![i].block_count = blocks], last_free_region |-> 1]
    BY <2>1
  <2>4. [h1 EXCEPT !.regions[i].block_count = blocks] = [regions |-> y, last_free_region |-> 1]
    BY Zenon, <2>2, <2>3
  <2> QED BY <2>4 DEF h1
<1>8. merge_region(h, i) = [regions |-> w, last_free_region |-> 1]
  <2>1. remove_region([regions |-> y, last_free_region |-> 1], i + 1)
          = [regions |-> w, last_free_region |-> 1]
    <3> DEFINE g == [regions |-> y, last_free_region |-> 1]
    <3>1. g.regions = y /\ g.last_free_region = 1
      OBVIOUS
    <3>2. ~(1 > i + 1) /\ 1 # i + 1
      BY <1>1
    <3> HIDE DEF g
    <3>3. remove_region(g, i + 1) = [regions |-> w, last_free_region |-> 1]
      BY Zenon, <3>1, <3>2 DEF remove_region, Without
    <3> QED BY Zenon, <3>3 DEF g
  <2> QED BY Zenon, <1>3, <1>7, <2>1
<1>9. /\ w \in Seq(Regions) /\ Len(w) = Len(y) - 1
      /\ \A j \in 1..(Len(y) - 1) : w[j] = IF j < i + 1 THEN y[j] ELSE y[j + 1]
  <2>1. i + 1 \in 1..Len(y)
    BY <1>1, <1>5
  <2> QED BY Zenon, <1>5, <2>1, Removes
<1> HIDE DEF w
<1>10. MergeOf(w, r, i)
  <2>1. Len(w) = Len(r) - 1
    BY <1>5, <1>9
  <2>2. \A j \in 1..(i - 1) : w[j] = r[j]
    BY SMTT(30), <1>1, <1>5, <1>9
  <2>3. w[i] = x
    BY <1>1, <1>5, <1>9
  <2>4. \A j \in (i + 1)..(Len(r) - 1) : w[j] = r[j + 1]
    <3> TAKE j \in (i + 1)..(Len(r) - 1)
    <3>1. j \in 1..(Len(y) - 1) /\ ~(j < i + 1) /\ j + 1 \in 1..Len(r) /\ j + 1 # i
      BY <1>1, <1>5
    <3> QED BY <1>5, <1>9, <3>1
  <2> QED BY Zenon, <1>9, <2>1, <2>2, <2>3, <2>4 DEF MergeOf, x, b
<1> QED BY <1>8, <1>9, <1>10 DEF Handlers, r

\* split_region, when it cuts.
LEMMA SplitDoes ==
  ASSUME NEW h \in Handlers, NEW i \in 1..Len(h.regions), NEW size \in Nat, Aligned(size),
         Aligned(h.regions[i].size), Cuts(h, i, size)
  PROVE  split_region(h, i, size) \in Handlers
         /\ SplitOf(split_region(h, i, size).regions, h.regions, i, size)
<1> DEFINE r == h.regions
           x == Front(r[i], size)
           y == Rest(r[i], size)
           w == Instead(r, i, x, y)
<1>1. r \in Seq(Regions) /\ i \in 1..Len(r) /\ r[i] \in Regions /\ r[i].size > size
  BY DEF Handlers, Cuts
<1>2. h.last_free_region + (IF h.last_free_region > i THEN 1 ELSE 0) = 1
  BY DEF Handlers
<1>3. /\ x \in Regions /\ y \in Regions
      /\ x = [r[i] EXCEPT !.size = size, !.block_count = RoundUp(size) \div PAGE]
      /\ y = [r[i] EXCEPT !.base = r[i].base + size, !.size = r[i].size - size,
                          !.block_count = RoundUp(r[i].size - size) \div PAGE]
  BY Zenon, <1>1, Parts
<1> HIDE DEF x, y
<1>4. split_region(h, i, size) = [regions |-> w, last_free_region |-> 1]
  BY Zenon, <1>2, <1>3 DEF split_region, Instead
<1> HIDE DEF r
<1>5. /\ w \in Seq(Regions) /\ Len(w) = Len(r) + 1 /\ w[i] = x /\ w[i + 1] = y
      /\ \A j \in 1..(i - 1) : w[j] = r[j]
      /\ \A j \in (i + 1)..Len(r) : w[j + 1] = r[j]
  <2>1. x \in Regions /\ y \in Regions
    BY Zenon, <1>3
  <2>2. Replaced(w, r, i, x, y)
    BY Zenon, <1>1, <2>1, Splits
  <2> HIDE DEF w
  <2> QED BY Zenon, <2>2 DEF Replaced
<1> HIDE DEF w
<1>6. SplitOf(w, r, i, size)
  BY Zenon, <1>5 DEF SplitOf, x, y
<1> QED BY <1>4, <1>5, <1>6 DEF Handlers, r

\* Both parts of a region that is cut at a page are whole, and so is the union of two
\* neighbours: merge_region may add their block counts.
LEMMA WholeParts ==
  /\ \A a, b \in Regions : Whole(a) /\ Whole(b) => Whole(Joint(a, b))
  /\ \A a \in Regions, size \in Nat :
       Whole(a) /\ Aligned(size) /\ 0 < size /\ size < a.size
         => Whole(Front(a, size)) /\ Whole(Rest(a, size))
<1>1. ASSUME NEW a \in Regions, NEW b \in Regions, Whole(a), Whole(b)
      PROVE  Whole(Joint(a, b))
  <2>1. /\ a.base \in Nat /\ a.size \in Nat /\ b.size \in Nat /\ Aligned(a.base) /\ Aligned(a.size)
        /\ Aligned(b.size) /\ a.size > 0 /\ b.size > 0
        /\ a.block_count = Blocks(a.size) /\ b.block_count = Blocks(b.size)
    BY <1>1 DEF Whole, Regions
  <2>2. Aligned(a.size + b.size) /\ Blocks(a.size + b.size) = Blocks(a.size) + Blocks(b.size)
    BY Zenon, <2>1, Sums
  <2>3. Joint(a, b) \in Regions
    BY Zenon, Fields
  <2> QED BY <2>1, <2>2, <2>3 DEF Whole, Joint
<1>2. ASSUME NEW a \in Regions, NEW size \in Nat, Whole(a), Aligned(size), 0 < size, size < a.size
      PROVE  Whole(Front(a, size)) /\ Whole(Rest(a, size))
  <2>1. /\ a.base \in Nat /\ a.size \in Nat /\ Aligned(a.base) /\ Aligned(a.size) /\ size <= a.size
        /\ a.size > size /\ a.size - size > 0
    BY <1>2 DEF Whole, Regions
  <2>2. Aligned(a.size - size) /\ Aligned(a.base + size)
    BY Zenon, <1>2, <2>1, Sums
  <2>3. Front(a, size) \in Regions /\ Rest(a, size) \in Regions
    BY Zenon, <1>2, <2>1, Parts
  <2>4. Whole(Front(a, size))
    BY <1>2, <2>1, <2>3 DEF Whole, Front
  <2>5. Whole(Rest(a, size))
    BY <2>1, <2>2, <2>3 DEF Whole, Rest
  <2> QED BY <2>4, <2>5
<1> QED BY Zenon, <1>1, <1>2

\* Merging two neighbours keeps the row.
LEMMA MergeRow ==
  ASSUME NEW r \in Seq(Regions), NEW i \in 1..(Len(r) - 1), NEW m, MergeOf(m, r, i), Row(r)
  PROVE  Row(m)
<1> DEFINE x == Joint(r[i], r[i + 1])
<1>1. /\ Len(r) \in Nat /\ m \in Seq(Regions) /\ Len(m) = Len(r) - 1 /\ Len(m) > 0
      /\ \A j \in 1..(i - 1) : m[j] = r[j]
      /\ m[i] = x
      /\ \A j \in (i + 1)..(Len(r) - 1) : m[j] = r[j + 1]
  BY DEF MergeOf
<1>2. /\ \A j \in 1..Len(r) : Whole(r[j]) /\ r[j] \in Regions /\ r[j].base \in Nat /\ r[j].size \in Nat
      /\ r[1].base = Base /\ r[Len(r)].base + r[Len(r)].size = Base + Size
      /\ \A j \in 1..(Len(r) - 1) : r[j + 1].base = r[j].base + r[j].size
  BY Zenon DEF Row, Whole, Regions
<1>3. i \in 1..Len(r) /\ i + 1 \in 1..Len(r)
  BY <1>1
<1>4. Whole(x) /\ x.base = r[i].base /\ x.base + x.size = r[i + 1].base + r[i + 1].size
  <2>1. Whole(x)
    BY Zenon, <1>2, <1>3, WholeParts
  <2>2. x.base = r[i].base /\ x.size = r[i].size + r[i + 1].size
    BY DEF Joint
  <2> HIDE DEF x
  <2> QED BY <1>2, <1>3, <2>1, <2>2
<1> HIDE DEF x
<1>5. \A j \in 1..Len(m) : Whole(m[j])
  <2> TAKE j \in 1..Len(m)
  <2>1. CASE j < i
    <3>1. j \in 1..(i - 1) /\ j \in 1..Len(r)
      BY <1>1, <2>1
    <3> QED BY Zenon, <1>1, <1>2, <3>1
  <2>2. CASE j = i
    BY Zenon, <1>1, <1>4, <2>2
  <2>3. CASE j > i
    <3>1. j \in (i + 1)..(Len(r) - 1) /\ j + 1 \in 1..Len(r)
      BY <1>1, <2>3
    <3> QED BY Zenon, <1>1, <1>2, <3>1
  <2> QED BY <2>1, <2>2, <2>3
<1>6. m[1].base = Base
  BY SMTT(30), <1>1, <1>2, <1>4
<1>7. m[Len(m)].base + m[Len(m)].size = Base + Size
  <2>1. CASE i = Len(r) - 1
    <3>1. Len(m) = i /\ i + 1 = Len(r)
      BY <1>1, <2>1
    <3>2. x.base + x.size = r[Len(r)].base + r[Len(r)].size
      BY Zenon, <1>4, <3>1
    <3> QED BY Zenon, <1>1, <1>2, <3>1, <3>2
  <2>2. CASE i # Len(r) - 1
    <3>1. Len(r) - 1 \in (i + 1)..(Len(r) - 1) /\ Len(r) - 1 + 1 = Len(r)
      BY <1>1, <2>2
    <3>2. m[Len(m)] = r[Len(r)]
      BY Zenon, <1>1, <3>1
    <3> QED BY Zenon, <1>2, <3>2
  <2> QED BY <2>1, <2>2
<1>8. \A j \in 1..(Len(m) - 1) : m[j + 1].base = m[j].base + m[j].size
  <2> TAKE j \in 1..(Len(m) - 1)
  <2>1. CASE j + 1 < i
    <3>1. j \in 1..(i - 1) /\ j + 1 \in 1..(i - 1) /\ j \in 1..(Len(r) - 1)
      BY <1>1, <2>1
    <3> QED BY Zenon, <1>1, <1>2, <3>1
  <2>2. CASE j + 1 = i
    <3>1. j \in 1..(i - 1) /\ j \in 1..(Len(r) - 1)
      BY <1>1, <2>2
    <3>2. m[j] = r[j] /\ m[j + 1] = x /\ r[j + 1].base = r[j].base + r[j].size /\ x.base = r[j + 1].base
      BY Zenon, <1>1, <1>2, <1>4, <2>2, <3>1
    <3> QED BY Zenon, <3>2
  <2>3. CASE j = i
    <3>1. i + 1 \in (i + 1)..(Len(r) - 1) /\ i + 1 \in 1..(Len(r) - 1)
      BY <1>1, <2>3
    <3>2. m[j] = x /\ m[j + 1] = r[i + 1 + 1] /\ r[i + 1 + 1].base = r[i + 1].base + r[i + 1].size
      BY Zenon, <1>1, <1>2, <2>3, <3>1
    <3> QED BY Zenon, <1>4, <3>2
  <2>4. CASE j > i
    <3>1. j \in (i + 1)..(Len(r) - 1) /\ j + 1 \in (i + 1)..(Len(r) - 1) /\ j + 1 \in 1..(Len(r) - 1)
      BY <1>1, <2>4
    <3> QED BY Zenon, <1>1, <1>2, <3>1
  <2> QED BY <2>1, <2>2, <2>3, <2>4
<1> QED BY <1>1, <1>5, <1>6, <1>7, <1>8 DEF Row

\* Cutting a region at a page keeps the row.
LEMMA SplitRow ==
  ASSUME NEW r \in Seq(Regions), NEW i \in 1..Len(r), NEW size \in Nat, NEW m,
         SplitOf(m, r, i, size), Row(r), Aligned(size), 0 < size, size < r[i].size
  PROVE  Row(m)
<1> DEFINE x == Front(r[i], size)
           y == Rest(r[i], size)
<1>1. /\ Len(r) \in Nat /\ m \in Seq(Regions) /\ Len(m) = Len(r) + 1
      /\ \A j \in 1..(i - 1) : m[j] = r[j]
      /\ m[i] = x /\ m[i + 1] = y
      /\ \A j \in (i + 1)..Len(r) : m[j + 1] = r[j]
  BY DEF SplitOf
<1>2. /\ \A j \in 1..Len(r) : Whole(r[j]) /\ r[j] \in Regions /\ r[j].base \in Nat /\ r[j].size \in Nat
      /\ r[1].base = Base /\ r[Len(r)].base + r[Len(r)].size = Base + Size
      /\ \A j \in 1..(Len(r) - 1) : r[j + 1].base = r[j].base + r[j].size
  BY Zenon DEF Row, Whole, Regions
<1>4. /\ Whole(x) /\ Whole(y) /\ x.base = r[i].base /\ y.base = x.base + x.size
      /\ y.base + y.size = r[i].base + r[i].size
  <2>1. Whole(x) /\ Whole(y)
    BY Zenon, <1>2, WholeParts
  <2>2. x.base = r[i].base /\ x.size = size /\ y.base = r[i].base + size /\ y.size = r[i].size - size
    BY DEF Front, Rest
  <2>3. r[i].base \in Nat /\ r[i].size \in Nat
    BY Zenon, <1>2
  <2> HIDE DEF x, y
  <2> QED BY <2>1, <2>2, <2>3
<1> HIDE DEF x, y
<1>5. \A j \in 1..Len(m) : Whole(m[j])
  <2> TAKE j \in 1..Len(m)
  <2>1. CASE j > i + 1
    <3>1. j - 1 \in (i + 1)..Len(r) /\ (j - 1) + 1 = j /\ j - 1 \in 1..Len(r)
      BY <1>1, <2>1
    <3> QED BY ZenonT(30), <1>1, <1>2, <3>1
  <2>2. CASE ~(j > i + 1)
    BY SMTT(30), <1>1, <1>2, <1>4, <2>2
  <2> QED BY <2>1, <2>2
<1>6. m[1].base = Base
  BY SMTT(30), <1>1, <1>2, <1>4
<1>7. m[Len(m)].base + m[Len(m)].size = Base + Size
  <2>1. CASE i = Len(r)
    BY <1>1, <1>2, <1>4, <2>1
  <2>2. CASE i # Len(r)
    <3>1. Len(r) \in (i + 1)..Len(r)
      BY <1>1, <2>2
    <3> QED BY SMTT(30), <1>1, <1>2, <3>1
  <2> QED BY <2>1, <2>2
<1>8. \A j \in 1..(Len(m) - 1) : m[j + 1].base = m[j].base + m[j].size
  <2> TAKE j \in 1..(Len(m) - 1)
  <2>1. CASE j + 1 < i
    <3>1. j \in 1..(i - 1) /\ j + 1 \in 1..(i - 1) /\ j \in 1..(Len(r) - 1)
      BY <1>1, <2>1
    <3> QED BY Zenon, <1>1, <1>2, <3>1
  <2>2. CASE j + 1 = i
    <3>1. j \in 1..(i - 1) /\ j \in 1..(Len(r) - 1)
      BY <1>1, <2>2
    <3>2. m[j] = r[j] /\ m[j + 1] = x /\ r[j + 1].base = r[j].base + r[j].size /\ x.base = r[j + 1].base
      BY Zenon, <1>1, <1>2, <1>4, <2>2, <3>1
    <3> QED BY Zenon, <3>2
  <2>3. CASE j = i
    BY <1>1, <1>4, <2>3
  <2>4. CASE j = i + 1
    BY SMTT(30), <1>1, <1>2, <1>4, <2>4
  <2>5. CASE j > i + 1
    <3>1. j \in (i + 1)..Len(r) /\ j - 1 \in (i + 1)..Len(r) /\ (j - 1) + 1 = j /\ j - 1 \in 1..(Len(r) - 1)
      BY SMTT(30), <1>1, <2>5
    <3>2. m[j + 1] = r[j] /\ m[j] = r[j - 1]
      BY SMTT(30), <1>1, <3>1
    <3> QED BY <1>2, <3>1, <3>2
  <2> QED BY <2>1, <2>2, <2>3, <2>4, <2>5
<1> QED BY <1>1, <1>5, <1>6, <1>7, <1>8 DEF Row

\* merge_region keeps the tiling, and changes nothing at the end of the list.
LEMMA Merges ==
  ASSUME NEW h, Tiling(h), NEW i \in 1..Len(h.regions)
  PROVE  /\ Tiling(merge_region(h, i))
         /\ i # Len(h.regions) => MergeOf(merge_region(h, i).regions, h.regions, i)
<1>1. h \in Handlers /\ h.regions \in Seq(Regions) /\ Row(h.regions) /\ Len(h.regions) \in Nat
  BY DEF Tiling, Handlers
<1>2. CASE i = Len(h.regions)
  BY <1>2 DEF merge_region
<1>3. CASE i # Len(h.regions)
  <2>1. i \in 1..(Len(h.regions) - 1)
    BY <1>1, <1>3
  <2> DEFINE g == merge_region(h, i)
  <2>2. g \in Handlers /\ MergeOf(g.regions, h.regions, i)
    BY Zenon, <1>1, <2>1, MergeDoes
  <2> HIDE DEF g
  <2>3. Row(g.regions)
    BY Zenon, <1>1, <2>1, <2>2, MergeRow
  <2> QED BY Zenon, <2>2, <2>3 DEF Tiling, g
<1> QED BY <1>2, <1>3

\* split_region keeps the tiling when it is given whole pages.
LEMMA Cutting ==
  ASSUME NEW h, Tiling(h), NEW i \in 1..Len(h.regions), NEW size \in Nat, Aligned(size)
  PROVE  /\ Tiling(split_region(h, i, size))
         /\ Cuts(h, i, size) => SplitOf(split_region(h, i, size).regions, h.regions, i, size)
         /\ ~Cuts(h, i, size) => split_region(h, i, size) = h
<1>1. h \in Handlers /\ h.regions \in Seq(Regions) /\ Row(h.regions) /\ Len(h.regions) \in Nat
  BY DEF Tiling, Handlers
<1>2. CASE ~Cuts(h, i, size)
  BY <1>2 DEF split_region
<1>3. CASE Cuts(h, i, size)
  <2>0. h.regions[i] \in Regions
    BY <1>1
  <2>1. 0 < size /\ size < h.regions[i].size /\ h.regions[i].size \in Nat
    BY <1>3, <2>0, Types DEF Cuts
  <2>2. Aligned(h.regions[i].size)
    BY Zenon, <1>1 DEF Row, Whole
  <2> DEFINE g == split_region(h, i, size)
  <2>3. g \in Handlers /\ SplitOf(g.regions, h.regions, i, size)
    BY Zenon, <1>1, <1>3, <2>2, SplitDoes
  <2> HIDE DEF g
  <2>4. Row(g.regions)
    BY Zenon, <1>1, <2>1, <2>3, SplitRow
  <2> QED BY Zenon, <1>3, <2>3, <2>4 DEF Tiling, g
<1> QED BY <1>2, <1>3

\* v is r with region i used.
MarkOf(v, r, i) ==
  /\ v \in Seq(Regions) /\ Len(v) = Len(r)
  /\ v[i].base = r[i].base /\ v[i].size = r[i].size /\ v[i].block_count = r[i].block_count
  /\ ~v[i].is_free
  /\ \A j \in 1..Len(r) : j # i => v[j] = r[j]

\* Setting a region's flag keeps the tiling.
LEMMA Marks ==
  ASSUME NEW h, Tiling(h), NEW i \in 1..Len(h.regions)
  PROVE  /\ Tiling([h EXCEPT !.regions[i].is_free = FALSE])
         /\ MarkOf([h EXCEPT !.regions[i].is_free = FALSE].regions, h.regions, i)
<1> DEFINE r == h.regions
           x == [base |-> r[i].base, size |-> r[i].size, block_count |-> r[i].block_count,
                 is_free |-> FALSE]
           v == [r EXCEPT ![i] = x]
<1>1. h \in Handlers /\ r \in Seq(Regions) /\ Row(r) /\ Len(r) \in Nat /\ r[i] \in Regions
  BY DEF Tiling, Handlers
<1>2. h = [regions |-> r, last_free_region |-> 1]
  BY <1>1 DEF Handlers
<1> HIDE DEF r
<1>3. x = [r[i] EXCEPT !.is_free = FALSE]
  BY Zenon, <1>1, Assigned
<1>4. x \in Regions
  BY SMTT(30), <1>1 DEF Regions
<1>5. x.base = r[i].base /\ x.size = r[i].size /\ x.block_count = r[i].block_count /\ x.is_free = FALSE
  OBVIOUS
<1> HIDE DEF x
<1>6. [h EXCEPT !.regions[i].is_free = FALSE] = [regions |-> v, last_free_region |-> 1]
  <2>1. \A z : [h EXCEPT !.regions = z] = [regions |-> z, last_free_region |-> 1]
    BY <1>2
  <2>2. [h EXCEPT !.regions = v] = [regions |-> v, last_free_region |-> 1]
    BY Zenon, <2>1
  <2> QED BY <1>3, <2>2 DEF r
<1>7. i \in 1..Len(r)
  BY DEF r
<1>8. v \in Seq(Regions) /\ Len(v) = Len(r) /\ v[i] = x /\ \A j \in 1..Len(r) : j # i => v[j] = r[j]
  BY <1>1, <1>4, <1>7
<1> HIDE DEF v
<1>9. MarkOf(v, r, i)
  BY <1>5, <1>8 DEF MarkOf
<1>10. Row(v)
  <2>1. /\ Len(r) > 0 /\ \A j \in 1..Len(r) : Whole(r[j])
        /\ r[1].base = Base /\ r[Len(r)].base + r[Len(r)].size = Base + Size
        /\ \A j \in 1..(Len(r) - 1) : r[j + 1].base = r[j].base + r[j].size
    BY Zenon, <1>1 DEF Row
  <2>2. \A j \in 1..Len(r) : v[j].base = r[j].base /\ v[j].size = r[j].size
    BY Zenon, <1>5, <1>8
  <2>3. Whole(x)
    BY <1>4, <1>5, <1>7, <2>1 DEF Whole
  <2>4. \A j \in 1..Len(r) : Whole(v[j])
    BY Zenon, <1>8, <2>1, <2>3
  <2>5. 1 \in 1..Len(r) /\ Len(r) \in 1..Len(r)
        /\ \A j \in 1..(Len(r) - 1) : j \in 1..Len(r) /\ j + 1 \in 1..Len(r)
    BY <1>1, <2>1
  <2>6. v[1].base = Base /\ v[Len(r)].base + v[Len(r)].size = Base + Size
    BY Zenon, <2>1, <2>2, <2>5
  <2>7. \A j \in 1..(Len(r) - 1) : v[j + 1].base = v[j].base + v[j].size
    BY Zenon, <2>1, <2>2, <2>5
  <2> QED BY Zenon, <1>8, <2>1, <2>4, <2>6, <2>7 DEF Row
<1> QED BY Zenon, <1>6, <1>8, <1>9, <1>10 DEF Tiling, Handlers, r

-----------------------------------------------------------------------------
(* The used addresses.                                                     *)

\* Cutting a region uses and frees nothing.
LEMMA SplitUsed ==
  ASSUME NEW r \in Seq(Regions), NEW i \in 1..Len(r), NEW size \in Nat, NEW m,
         SplitOf(m, r, i, size), size < r[i].size, NEW x \in Int
  PROVE  Used(m, x) <=> Used(r, x)
<1> DEFINE a == Front(r[i], size)
           b == Rest(r[i], size)
<1>1. /\ Len(r) \in Nat /\ m \in Seq(Regions) /\ Len(m) = Len(r) + 1
      /\ \A j \in 1..(i - 1) : m[j] = r[j]
      /\ m[i] = a /\ m[i + 1] = b
      /\ \A j \in (i + 1)..Len(r) : m[j + 1] = r[j]
  BY DEF SplitOf
<1>2. a.is_free = r[i].is_free /\ b.is_free = r[i].is_free /\ (In(r[i], x) <=> In(a, x) \/ In(b, x))
  <2>1. r[i] \in Regions
    OBVIOUS
  <2>2. r[i].base \in Nat /\ r[i].size \in Nat
    BY Zenon, <2>1, Types
  <2>3. /\ a.base = r[i].base /\ a.size = size /\ a.is_free = r[i].is_free
        /\ b.base = r[i].base + size /\ b.size = r[i].size - size /\ b.is_free = r[i].is_free
    BY DEF Front, Rest
  <2> HIDE DEF a, b
  <2>4. \A p, n \in Nat : size < n =>
          ((p <= x /\ x < p + n) <=> (p <= x /\ x < p + size) \/ (p + size <= x /\ x < p + size + (n - size)))
    OBVIOUS
  <2>5. In(r[i], x) <=> In(a, x) \/ In(b, x)
    <3> DEFINE p == r[i].base
               n == r[i].size
    <3>1. (p <= x /\ x < p + n) <=> (p <= x /\ x < p + size) \/ (p + size <= x /\ x < p + size + (n - size))
      BY Zenon, <2>2, <2>4
    <3>2. /\ In(r[i], x) <=> (p <= x /\ x < p + n)
          /\ In(a, x) <=> (p <= x /\ x < p + size)
          /\ In(b, x) <=> (p + size <= x /\ x < p + size + (n - size))
      BY <2>3 DEF In
    <3> HIDE DEF p, n
    <3> QED BY Zenon, <3>1, <3>2
  <2> QED BY Zenon, <2>3, <2>5
<1> HIDE DEF a, b
<1>3. ASSUME NEW j \in 1..Len(m), ~m[j].is_free, In(m[j], x)
      PROVE  Used(r, x)
  <2>1. CASE j < i
    <3>1. j \in 1..(i - 1) /\ j \in 1..Len(r)
      BY <1>1, <2>1
    <3> QED BY Zenon, <1>1, <1>3, <3>1 DEF Used
  <2>2. CASE j = i \/ j = i + 1
    BY Zenon, <1>1, <1>2, <1>3, <2>2 DEF Used
  <2>3. CASE j > i + 1
    <3>1. j - 1 \in (i + 1)..Len(r) /\ (j - 1) + 1 = j /\ j - 1 \in 1..Len(r)
      BY <1>1, <2>3
    <3>2. m[j] = r[j - 1]
      BY SMTT(30), <1>1, <3>1
    <3> QED BY Zenon, <1>3, <3>1, <3>2 DEF Used
  <2> QED BY <2>1, <2>2, <2>3
<1>4. ASSUME NEW j \in 1..Len(r), ~r[j].is_free, In(r[j], x)
      PROVE  Used(m, x)
  <2>1. j \in 1..Len(m) /\ j + 1 \in 1..Len(m) /\ i \in 1..Len(m) /\ i + 1 \in 1..Len(m)
    BY <1>1
  <2>2. CASE j < i
    <3>1. j \in 1..(i - 1)
      BY <2>2
    <3> QED BY Zenon, <1>1, <1>4, <2>1, <3>1 DEF Used
  <2>3. CASE j = i
    BY Zenon, <1>1, <1>2, <1>4, <2>1, <2>3 DEF Used
  <2>4. CASE j > i
    <3>1. j \in (i + 1)..Len(r)
      BY <2>4
    <3> QED BY Zenon, <1>1, <1>4, <2>1, <3>1 DEF Used
  <2> QED BY <2>2, <2>3, <2>4
<1> QED BY Zenon, <1>3, <1>4 DEF Used

\* Setting a region's flag uses its addresses.
LEMMA MarkedUsed ==
  ASSUME NEW r \in Seq(Regions), NEW i \in 1..Len(r), NEW v, MarkOf(v, r, i), NEW x
  PROVE  Used(v, x) <=> Used(r, x) \/ In(r[i], x)
<1>1. /\ Len(v) = Len(r) /\ v[i].base = r[i].base /\ v[i].size = r[i].size /\ ~v[i].is_free
      /\ \A j \in 1..Len(r) : j # i => v[j] = r[j]
  BY Zenon DEF MarkOf
<1>2. In(v[i], x) <=> In(r[i], x)
  BY Zenon, <1>1 DEF In
<1>3. ASSUME NEW j \in 1..Len(r), ~v[j].is_free, In(v[j], x)
      PROVE  Used(r, x) \/ In(r[i], x)
  BY Zenon, <1>1, <1>2, <1>3 DEF Used
<1>4. ASSUME NEW j \in 1..Len(r), ~r[j].is_free, In(r[j], x)
      PROVE  Used(v, x)
  BY Zenon, <1>1, <1>2, <1>4 DEF Used
<1> QED BY Zenon, <1>1, <1>2, <1>3, <1>4 DEF Used

\* Joining a used region to region i and setting the flag uses the addresses of region i,
\* and nothing else.
LEMMA MergedUsed ==
  ASSUME NEW r \in Seq(Regions), NEW i \in 1..(Len(r) - 1), NEW m, MergeOf(m, r, i), Row(r),
         ~r[i + 1].is_free, NEW v, MarkOf(v, m, i), NEW x \in Int
  PROVE  Used(v, x) <=> Used(r, x) \/ In(r[i], x)
<1>1. /\ Len(r) \in Nat /\ m \in Seq(Regions) /\ Len(m) = Len(r) - 1 /\ Len(v) = Len(m)
      /\ i \in 1..Len(m) /\ i \in 1..Len(r) /\ i + 1 \in 1..Len(r)
  BY DEF MergeOf, MarkOf
<1>2. /\ \A j \in 1..(i - 1) : m[j] = r[j]
      /\ m[i] = Joint(r[i], r[i + 1])
      /\ \A j \in (i + 1)..(Len(r) - 1) : m[j] = r[j + 1]
  BY Zenon DEF MergeOf
<1>3. ~v[i].is_free /\ v[i].base = m[i].base /\ v[i].size = m[i].size
      /\ \A j \in 1..Len(m) : j # i => v[j] = m[j]
  BY Zenon DEF MarkOf
<1>4. In(v[i], x) <=> In(r[i], x) \/ In(r[i + 1], x)
  <2> DEFINE p == r[i].base
             s == r[i].size
             q == r[i + 1].size
  <2>1. r[i] \in Regions /\ r[i + 1] \in Regions
    BY <1>1
  <2>2. p \in Nat /\ s \in Nat /\ q \in Nat
    BY Zenon, <2>1, Types
  <2>3. r[i + 1].base = p + s
    BY Zenon DEF Row
  <2>4. v[i].base = p /\ v[i].size = s + q
    BY <1>2, <1>3 DEF Joint
  <2> HIDE DEF p, s, q
  <2>5. (p <= x /\ x < p + (s + q)) <=> (p <= x /\ x < p + s) \/ (p + s <= x /\ x < (p + s) + q)
    BY <2>2
  <2>6. /\ In(v[i], x) <=> (p <= x /\ x < p + (s + q))
        /\ In(r[i], x) <=> (p <= x /\ x < p + s)
        /\ In(r[i + 1], x) <=> (p + s <= x /\ x < (p + s) + q)
    BY <2>3, <2>4 DEF In, p, s, q
  <2> QED BY Zenon, <2>5, <2>6
<1>5. ASSUME NEW j \in 1..Len(v), ~v[j].is_free, In(v[j], x)
      PROVE  Used(r, x) \/ In(r[i], x)
  <2>1. CASE j < i
    <3>1. j \in 1..(i - 1) /\ j \in 1..Len(r) /\ j \in 1..Len(m) /\ j # i
      BY <1>1, <2>1
    <3> QED BY Zenon, <1>2, <1>3, <1>5, <3>1 DEF Used
  <2>2. CASE j = i
    BY Zenon, <1>1, <1>4, <1>5, <2>2 DEF Used
  <2>3. CASE j > i
    <3>1. j \in (i + 1)..(Len(r) - 1) /\ j + 1 \in 1..Len(r) /\ j \in 1..Len(m) /\ j # i
      BY <1>1, <2>3
    <3> QED BY Zenon, <1>2, <1>3, <1>5, <3>1 DEF Used
  <2> QED BY <1>1, <2>1, <2>2, <2>3
<1>6. ASSUME NEW j \in 1..Len(r), ~r[j].is_free, In(r[j], x)
      PROVE  Used(v, x)
  <2>1. CASE j < i
    <3>1. j \in 1..(i - 1) /\ j \in 1..Len(v) /\ j \in 1..Len(m) /\ j # i
      BY <1>1, <2>1
    <3> QED BY Zenon, <1>2, <1>3, <1>6, <3>1 DEF Used
  <2>2. CASE j = i \/ j = i + 1
    BY Zenon, <1>1, <1>3, <1>4, <1>6, <2>2 DEF Used
  <2>3. CASE j > i + 1
    <3>1. j - 1 \in (i + 1)..(Len(r) - 1) /\ (j - 1) + 1 = j /\ j - 1 \in 1..Len(v) /\ j - 1 \in 1..Len(m)
          /\ j - 1 # i
      BY <1>1, <2>3
    <3>2. v[j - 1] = r[j]
      BY <1>2, <1>3, <3>1
    <3> QED BY Zenon, <1>6, <3>1, <3>2 DEF Used
  <2> QED BY <1>1, <2>1, <2>2, <2>3
<1>7. ASSUME In(r[i], x) PROVE Used(v, x)
  BY Zenon, <1>1, <1>3, <1>4, <1>7 DEF Used
<1> QED BY Zenon, <1>5, <1>6, <1>7 DEF Used

-----------------------------------------------------------------------------
(* Neighbours.                                                             *)

\* All neighbours differ, but perhaps k and k + 1; and, but perhaps the two of region i.
Except(r, k) == \A j \in 1..(Len(r) - 1) : j # k => Differs(r, j)
Near(r, i) == \A j \in 1..(Len(r) - 1) : j # i - 1 /\ j # i => Differs(r, j)

\* Cutting region i of an alternating list leaves only the cut between equals.
LEMMA SplitDiffers ==
  ASSUME NEW r \in Seq(Regions), NEW i \in 1..Len(r), NEW size, NEW m, SplitOf(m, r, i, size)
  PROVE  /\ Alternating(r) => Except(m, i)
         /\ Except(r, i - 1) => Near(m, i)
<1>1. Len(r) \in Nat /\ m \in Seq(Regions) /\ Len(m) = Len(r) + 1
  BY DEF SplitOf
<1>2. /\ \A j \in 1..(i - 1) : m[j] = r[j]
      /\ m[i].is_free = r[i].is_free /\ m[i + 1].is_free = r[i].is_free
      /\ \A j \in (i + 1)..Len(r) : m[j + 1] = r[j]
  BY DEF SplitOf, Front, Rest
<1>3. ASSUME NEW j \in 1..(Len(m) - 1), j < i - 1, \A k \in 1..(Len(r) - 1) : k # i - 1 => Differs(r, k)
      PROVE  Differs(m, j)
  <2>1. j \in 1..(i - 1) /\ j + 1 \in 1..(i - 1) /\ j \in 1..(Len(r) - 1) /\ j # i - 1
    BY <1>1, <1>3
  <2> QED BY Zenon, <1>2, <1>3, <2>1 DEF Differs
<1>4. ASSUME NEW j \in 1..(Len(m) - 1), j = i + 1, \A k \in 1..(Len(r) - 1) : k # i - 1 => Differs(r, k)
      PROVE  Differs(m, j)
  <2>1. i \in 1..(Len(r) - 1) /\ i # i - 1 /\ i + 1 \in (i + 1)..Len(r)
    BY <1>1, <1>4
  <2> QED BY Zenon, <1>2, <1>4, <2>1 DEF Differs
<1>5. ASSUME NEW j \in 1..(Len(m) - 1), j > i + 1, \A k \in 1..(Len(r) - 1) : k # i - 1 => Differs(r, k)
      PROVE  Differs(m, j)
  <2>1. /\ j - 1 \in (i + 1)..Len(r) /\ (j - 1) + 1 = j /\ j \in (i + 1)..Len(r)
        /\ j - 1 \in 1..(Len(r) - 1) /\ j - 1 # i - 1
    BY <1>1, <1>5
  <2>2. m[j] = r[j - 1] /\ m[j + 1] = r[j] /\ Differs(r, j - 1)
    BY SMTT(30), <1>2, <1>5, <2>1
  <2> QED BY Zenon, <2>1, <2>2 DEF Differs
<1>6. ASSUME Except(r, i - 1) PROVE Near(m, i)
  <2>1. \A j \in 1..(Len(m) - 1) : j # i - 1 /\ j # i => j < i - 1 \/ j = i + 1 \/ j > i + 1
    BY <1>1
  <2> QED BY Zenon, <1>3, <1>4, <1>5, <1>6, <2>1 DEF Near, Except
<1>7. ASSUME Alternating(r) PROVE Except(m, i)
  <2>1. \A j \in 1..(Len(m) - 1) : j # i => j < i - 1 \/ j = i + 1 \/ j > i + 1 \/ j = i - 1
    BY <1>1
  <2>2. \A k \in 1..(Len(r) - 1) : k # i - 1 => Differs(r, k)
    BY Zenon, <1>7 DEF Alternating
  <2>3. ASSUME NEW j \in 1..(Len(m) - 1), j = i - 1 PROVE Differs(m, j)
    <3>1. j \in 1..(i - 1) /\ j \in 1..(Len(r) - 1) /\ j + 1 = i
      BY <1>1, <2>3
    <3> QED BY Zenon, <1>2, <1>7, <3>1 DEF Differs, Alternating
  <2> QED BY Zenon, <1>3, <1>4, <1>5, <2>1, <2>2, <2>3 DEF Except
<1> QED BY Zenon, <1>6, <1>7

\* Using region i, after a used successor was joined to it: only the pair before it may be
\* equal.
LEMMA MergedDiffers ==
  ASSUME NEW r \in Seq(Regions), NEW i \in 1..(Len(r) - 1), NEW m, MergeOf(m, r, i),
         ~r[i + 1].is_free, Near(r, i), NEW v, MarkOf(v, m, i)
  PROVE  Except(v, i - 1)
<1>1. Len(r) \in Nat /\ m \in Seq(Regions) /\ Len(m) = Len(r) - 1 /\ Len(v) = Len(m)
  BY DEF MergeOf, MarkOf
<1>2. /\ \A j \in 1..(i - 1) : m[j] = r[j]
      /\ \A j \in (i + 1)..(Len(r) - 1) : m[j] = r[j + 1]
  BY Zenon DEF MergeOf
<1>3. ~v[i].is_free /\ \A j \in 1..Len(m) : j # i => v[j] = m[j]
  BY Zenon DEF MarkOf
<1> SUFFICES ASSUME NEW j \in 1..(Len(v) - 1), j # i - 1 PROVE Differs(v, j)
  BY Zenon DEF Except
<1>4. CASE j < i - 1
  <2>1. /\ j \in 1..(i - 1) /\ j + 1 \in 1..(i - 1) /\ j \in 1..(Len(r) - 1) /\ j # i - 1 /\ j # i
        /\ j \in 1..Len(m) /\ j + 1 \in 1..Len(m) /\ j + 1 # i
    BY <1>1, <1>4
  <2> QED BY ZenonT(30), <1>2, <1>3, <2>1 DEF Differs, Near
<1>5. CASE j = i
  <2>1. /\ i + 1 \in (i + 1)..(Len(r) - 1) /\ i + 1 \in 1..Len(m) /\ i + 1 # i
        /\ i + 1 \in 1..(Len(r) - 1) /\ i + 1 # i - 1
    BY <1>1, <1>5
  <2>2. v[i + 1] = r[i + 1 + 1] /\ Differs(r, i + 1)
    BY Zenon, <1>2, <1>3, <2>1 DEF Near
  <2> QED BY Zenon, <1>3, <1>5, <2>2 DEF Differs
<1>6. CASE j > i
  <2>1. /\ j \in (i + 1)..(Len(r) - 1) /\ j + 1 \in (i + 1)..(Len(r) - 1) /\ j # i /\ j + 1 # i
        /\ j \in 1..Len(m) /\ j + 1 \in 1..Len(m)
        /\ j + 1 \in 1..(Len(r) - 1) /\ j + 1 # i - 1
    BY <1>1, <1>6
  <2> QED BY ZenonT(30), <1>2, <1>3, <2>1 DEF Differs, Near
<1> QED BY <1>1, <1>4, <1>5, <1>6

\* The same when the successor, if there is one, is free.
LEMMA MarkedDiffers ==
  ASSUME NEW r \in Seq(Regions), NEW i \in 1..Len(r), i # Len(r) => r[i + 1].is_free,
         Near(r, i), NEW v, MarkOf(v, r, i)
  PROVE  Except(v, i - 1)
<1>1. Len(r) \in Nat /\ Len(v) = Len(r) /\ ~v[i].is_free /\ \A j \in 1..Len(r) : j # i => v[j] = r[j]
  BY DEF MarkOf
<1> SUFFICES ASSUME NEW j \in 1..(Len(v) - 1), j # i - 1 PROVE Differs(v, j)
  BY Zenon DEF Except
<1>2. CASE j = i
  <2>1. i + 1 \in 1..Len(r) /\ i + 1 # i /\ i # Len(r)
    BY <1>1, <1>2
  <2> QED BY Zenon, <1>1, <1>2, <2>1 DEF Differs
<1>3. CASE j # i
  <2>1. j \in 1..(Len(r) - 1) /\ j \in 1..Len(r) /\ j + 1 \in 1..Len(r) /\ j + 1 # i
    BY <1>1, <1>3
  <2> QED BY Zenon, <1>1, <1>3, <2>1 DEF Differs, Near
<1> QED BY <1>2, <1>3

\* Joining a used region i to its used predecessor makes the list alternate.
LEMMA JoinedDiffers ==
  ASSUME NEW r \in Seq(Regions), NEW i \in 1..Len(r), i > 1, ~r[i].is_free, ~r[i - 1].is_free,
         Except(r, i - 1), NEW m, MergeOf(m, r, i - 1)
  PROVE  Alternating(m)
<1> DEFINE k == i - 1
<1>1. /\ Len(r) \in Nat /\ m \in Seq(Regions) /\ Len(m) = Len(r) - 1 /\ k + 1 = i
      /\ k \in 1..(Len(r) - 1)
  BY DEF MergeOf
<1>2. /\ \A j \in 1..(k - 1) : m[j] = r[j]
      /\ m[k].is_free = r[k].is_free
      /\ \A j \in (k + 1)..(Len(r) - 1) : m[j] = r[j + 1]
  BY DEF MergeOf, Joint
<1>3. ~r[k].is_free /\ ~r[k + 1].is_free /\ \A j \in 1..(Len(r) - 1) : j # k => Differs(r, j)
  BY <1>1 DEF Except
<1> HIDE DEF k
<1> SUFFICES ASSUME NEW j \in 1..(Len(m) - 1) PROVE Differs(m, j)
  BY Zenon DEF Alternating
<1>4. CASE j < k - 1
  <2>1. j \in 1..(k - 1) /\ j + 1 \in 1..(k - 1) /\ j \in 1..(Len(r) - 1) /\ j # k
    BY <1>1, <1>4
  <2> QED BY Zenon, <1>2, <1>3, <2>1 DEF Differs
<1>5. CASE j = k - 1
  <2>1. j \in 1..(k - 1) /\ j + 1 = k /\ j \in 1..(Len(r) - 1) /\ j # k
    BY <1>1, <1>5
  <2> QED BY Zenon, <1>2, <1>3, <2>1 DEF Differs
<1>6. CASE j = k
  <2>1. k + 1 \in (k + 1)..(Len(r) - 1) /\ k + 1 \in 1..(Len(r) - 1) /\ k + 1 # k
    BY <1>1, <1>6
  <2>2. m[k + 1] = r[k + 1 + 1] /\ Differs(r, k + 1)
    BY Zenon, <1>2, <1>3, <2>1
  <2> QED BY Zenon, <1>2, <1>3, <1>6, <2>2 DEF Differs
<1>7. CASE j > k
  <2>1. /\ j \in (k + 1)..(Len(r) - 1) /\ j + 1 \in (k + 1)..(Len(r) - 1)
        /\ j + 1 \in 1..(Len(r) - 1) /\ j + 1 # k
    BY <1>1, <1>7
  <2> QED BY Zenon, <1>2, <1>3, <2>1 DEF Differs
<1> QED BY <1>1, <1>4, <1>5, <1>6, <1>7

\* A list whose only equal pair would be before region i alternates when they differ.
LEMMA AllDiffer ==
  ASSUME NEW r \in Seq(Regions), NEW i \in 1..Len(r), Except(r, i - 1),
         i > 1 => Differs(r, i - 1)
  PROVE  Alternating(r)
<1> SUFFICES ASSUME NEW j \in 1..(Len(r) - 1) PROVE Differs(r, j)
  BY Zenon DEF Alternating
<1>1. j = i - 1 => i > 1
  OBVIOUS
<1> QED BY Zenon, <1>1 DEF Except

\* The end of mm_allocate_region_vm: the tiling is kept, exactly region i becomes used, and
\* if all other neighbours differed then all neighbours differ again.
LEMMA MarkUsedDoes ==
  ASSUME NEW h, Tiling(h), NEW i \in 1..Len(h.regions)
  PROVE  /\ Tiling(MarkUsed(h, i))
         /\ \A x \in Int : Used(MarkUsed(h, i).regions, x) <=> Used(h.regions, x) \/ In(h.regions[i], x)
         /\ Near(h.regions, i) => Alternating(MarkUsed(h, i).regions)
<1> DEFINE joins == i < Len(h.regions) /\ ~h.regions[i + 1].is_free
           n == IF joins THEN merge_region(h, i) ELSE h
           u == [n EXCEPT !.regions[i].is_free = FALSE]
           w == MarkUsed(h, i)
<1>1. w = IF i > 1 /\ ~u.regions[i - 1].is_free THEN merge_region(u, i - 1) ELSE u
  BY Zenon DEF MarkUsed
<1>2. h.regions \in Seq(Regions) /\ Row(h.regions) /\ Len(h.regions) \in Nat
  BY DEF Tiling, Handlers
<1>3. /\ Tiling(n) /\ i \in 1..Len(n.regions)
      /\ joins => i \in 1..(Len(h.regions) - 1) /\ MergeOf(n.regions, h.regions, i)
  <2>1. CASE joins
    <3>1. i # Len(h.regions) /\ i \in 1..(Len(h.regions) - 1) /\ ~h.regions[i + 1].is_free
      BY <1>2, <2>1
    <3>2. n = merge_region(h, i)
      BY Zenon, <2>1
    <3> HIDE DEF n, joins
    <3>3. Tiling(n) /\ MergeOf(n.regions, h.regions, i)
      BY Zenon, <3>1, <3>2, Merges
    <3>4. i \in 1..Len(n.regions)
      BY <1>2, <3>1, <3>3 DEF MergeOf
    <3> QED BY Zenon, <3>1, <3>3, <3>4
  <2>2. CASE ~joins
    BY Zenon, <2>2
  <2> QED BY <2>1, <2>2
<1> HIDE DEF n, w
<1>4. Tiling(u) /\ MarkOf(u.regions, n.regions, i)
  BY Zenon, <1>3, Marks
<1> HIDE DEF u
<1>5. /\ n.regions \in Seq(Regions) /\ u.regions \in Seq(Regions) /\ Row(u.regions)
      /\ i \in 1..Len(u.regions) /\ Len(u.regions) \in Nat /\ ~u.regions[i].is_free
  <2>1. n.regions \in Seq(Regions) /\ u.regions \in Seq(Regions) /\ Row(u.regions)
    BY <1>3, <1>4 DEF Tiling, Handlers
  <2> QED BY <1>3, <1>4, <2>1 DEF MarkOf
<1>6. \A x \in Int : Used(u.regions, x) <=> Used(h.regions, x) \/ In(h.regions[i], x)
  <2>1. CASE joins
    BY Zenon, <1>2, <1>3, <1>4, <2>1, MergedUsed
  <2>2. CASE ~joins
    <3>1. n = h
      BY Zenon, <2>2 DEF n
    <3> QED BY Zenon, <1>2, <1>4, <3>1, MarkedUsed
  <2> QED BY <2>1, <2>2
<1>7. Near(h.regions, i) => Except(u.regions, i - 1)
  <2>1. CASE joins
    BY Zenon, <1>2, <1>3, <1>4, <2>1, MergedDiffers
  <2>2. CASE ~joins
    <3>1. n = h
      BY Zenon, <2>2 DEF n
    <3>2. i # Len(h.regions) => h.regions[i + 1].is_free
      BY <1>2, <2>2
    <3> QED BY Zenon, <1>2, <1>4, <3>1, <3>2, MarkedDiffers
  <2> QED BY <2>1, <2>2
<1>8. CASE i > 1 /\ ~u.regions[i - 1].is_free
  <2> DEFINE k == i - 1
  <2>1. k \in 1..(Len(u.regions) - 1) /\ k \in 1..Len(u.regions) /\ k # Len(u.regions) /\ k + 1 = i
        /\ k + 1 \in 1..Len(u.regions)
    BY <1>5, <1>8
  <2>2. w = merge_region(u, k)
    BY Zenon, <1>1, <1>8
  <2>3. Tiling(w) /\ MergeOf(w.regions, u.regions, k)
    BY Zenon, <1>4, <2>1, <2>2, Merges
  <2>4. w.regions \in Seq(Regions) /\ ~w.regions[k].is_free
    BY <1>8, <2>3 DEF MergeOf, Joint
  <2>5. MarkOf(w.regions, w.regions, k)
    BY Zenon, <2>4 DEF MarkOf
  <2>6. ~u.regions[k].is_free /\ ~u.regions[k + 1].is_free
    BY <1>5, <1>8, <2>1
  <2>7. \A x \in Int : Used(w.regions, x) <=> Used(u.regions, x) \/ In(u.regions[k], x)
    <3> HIDE DEF k
    <3> QED BY Zenon, <1>5, <2>1, <2>3, <2>5, <2>6, MergedUsed
  <2>8. \A x \in Int : In(u.regions[k], x) => Used(u.regions, x)
    BY Zenon, <2>1, <2>6 DEF Used
  <2>9. Except(u.regions, i - 1) => Alternating(w.regions)
    BY Zenon, <1>5, <1>8, <2>3, JoinedDiffers
  <2> QED BY Zenon, <1>6, <1>7, <2>3, <2>7, <2>8, <2>9 DEF w
<1>9. CASE ~(i > 1 /\ ~u.regions[i - 1].is_free)
  <2>1. w = u
    BY Zenon, <1>1, <1>9
  <2>2. i > 1 => Differs(u.regions, i - 1)
    <3>1. i - 1 + 1 = i
      OBVIOUS
    <3> QED BY Zenon, <1>5, <1>9, <3>1 DEF Differs
  <2>3. Except(u.regions, i - 1) => Alternating(u.regions)
    BY Zenon, <1>5, <2>2, AllDiffer
  <2> QED BY Zenon, <1>4, <1>6, <1>7, <2>1, <2>3 DEF w
<1> QED BY <1>8, <1>9

-----------------------------------------------------------------------------
(* Finding a region, and making it large enough.                           *)

\* A non-empty set of naturals has a least element: where a search stops.
LEMMA LeastIndex ==
  ASSUME NEW T \in SUBSET Nat, T # {}
  PROVE  \E x \in T : \A y \in T : x <= y
<1> DEFINE R == {ss \in Nat \X Nat : ss[1] < ss[2]}
<1>1. IsWellFoundedOn(R, Nat)
  BY NatLessThanWellFounded DEF OpToRel
<1>2. PICK x \in T : \A y \in T : ~ (<<y, x>> \in R)
  <2> HIDE DEF R
  <2> QED BY Zenon, <1>1, WFMin
<1>3. \A y \in T : x <= y
  <2> TAKE y \in T
  <2>1. <<y, x>> \in Nat \X Nat /\ ~ (<<y, x>> \in R)
    BY <1>2
  <2> QED BY <2>1
<1> QED BY <1>3

\* f[n] is h after region i took in its successor n times, for n up to last.
Merged(f, h, i, last) == f = [n \in 0..last |-> IF n = 0 THEN h ELSE merge_region(f[n - 1], i)]

\* There is such a function.
LEMMA MergedExists ==
  ASSUME NEW h, NEW i, NEW last \in Nat
  PROVE  \E f : Merged(f, h, i, last)
<1> DEFINE Bad == {k \in Nat : ~\E f : Merged(f, h, i, k)}
<1> SUFFICES ASSUME Bad # {} PROVE FALSE
  BY Zenon
<1>1. Bad \in SUBSET Nat
  BY Zenon
<1>2. PICK k \in Bad : \A z \in Bad : k <= z
  <2> HIDE DEF Bad
  <2> QED BY Zenon, <1>1, LeastIndex
<1>3. k \in Nat /\ ~\E f : Merged(f, h, i, k)
  BY Zenon
<1>4. CASE k = 0
  <2> DEFINE f == [n \in 0..k |-> h]
  <2>1. Merged(f, h, i, k)
    BY <1>4 DEF Merged
  <2> QED BY Zenon, <1>3, <2>1
<1>5. CASE k # 0
  <2>1. k - 1 \in Nat /\ ~ (k <= k - 1)
    BY <1>3, <1>5
  <2>2. k - 1 \notin Bad
    <3> HIDE DEF Bad
    <3> QED BY Zenon, <1>2, <2>1
  <2>3. PICK f : Merged(f, h, i, k - 1)
    BY Zenon, <2>1, <2>2
  <2>4. \A n \in 0..(k - 1) : f[n] = IF n = 0 THEN h ELSE merge_region(f[n - 1], i)
    BY <2>3 DEF Merged
  <2> DEFINE g == [n \in 0..k |-> IF n < k THEN f[n] ELSE merge_region(f[k - 1], i)]
  <2>5. ASSUME NEW n \in 0..k
        PROVE  g[n] = IF n = 0 THEN h ELSE merge_region(g[n - 1], i)
    <3>1. CASE n = k
      <4>1. n - 1 \in 0..k /\ n - 1 < k /\ ~(n < k) /\ n # 0
        BY <1>3, <1>5, <3>1
      <4> QED BY <3>1, <4>1
    <3>2. CASE n # k
      <4>1. n < k /\ n \in 0..(k - 1) /\ (n # 0 => n - 1 \in 0..k /\ n - 1 < k)
        BY <1>3, <1>5, <3>2
      <4>2. g[n] = f[n] /\ (n # 0 => g[n - 1] = f[n - 1])
        BY <4>1
      <4> QED BY Zenon, <2>4, <4>1, <4>2
    <3> QED BY <3>1, <3>2
  <2>6. g = [n \in 0..k |-> g[n]]
    OBVIOUS
  <2> HIDE DEF g
  <2>7. Merged(g, h, i, k)
    BY SMTT(30), <2>5, <2>6 DEF Merged
  <2> QED BY Zenon, <1>3, <2>7
<1> QED BY <1>4, <1>5

\* Region i of g is region i of h, perhaps grown.
Grown(g, h, i) ==
  /\ Tiling(g) /\ i \in 1..Len(g.regions)
  /\ g.regions[i].base = h.regions[i].base /\ g.regions[i].is_free = h.regions[i].is_free

\* One more merge.
LEMMA GrowsOn ==
  ASSUME NEW h, NEW g, NEW i, Grown(g, h, i), i # Len(g.regions)
  PROVE  Grown(merge_region(g, i), h, i) /\ Len(merge_region(g, i).regions) = Len(g.regions) - 1
<1> DEFINE w == merge_region(g, i)
<1>1. Tiling(g) /\ i \in 1..Len(g.regions)
  BY Zenon DEF Grown
<1>2. Tiling(w) /\ MergeOf(w.regions, g.regions, i)
  BY Zenon, <1>1, Merges
<1> HIDE DEF w
<1>3. Len(w.regions) = Len(g.regions) - 1 /\ w.regions[i] = Joint(g.regions[i], g.regions[i + 1])
  BY Zenon, <1>2 DEF MergeOf
<1>4. w.regions[i].base = g.regions[i].base /\ w.regions[i].is_free = g.regions[i].is_free
  BY <1>3 DEF Joint
<1>5. i \in 1..Len(w.regions)
  <2>1. Len(g.regions) \in Nat
    BY <1>1 DEF Tiling, Handlers
  <2> QED BY <1>1, <1>3, <2>1
<1>6. Grown(w, h, i)
  BY Zenon, <1>2, <1>4, <1>5 DEF Grown
<1> QED BY Zenon, <1>3, <1>6 DEF w

\* The loop of the fixed path keeps the tiling, keeps where region i starts and whether it
\* is free, and does nothing when the region is already large enough.
LEMMA AbsorbDoes ==
  ASSUME NEW h, Tiling(h), NEW i \in 1..Len(h.regions), NEW need
  PROVE  /\ Grown(Absorb(h, i, need), h, i)
         /\ h.regions[i].size >= need => Absorb(h, i, need) = h
<1> DEFINE last == Len(h.regions) - i
           after == CHOOSE f : Merged(f, h, i, last)
           done == {n \in DOMAIN after : \/ after[n].regions[i].size >= need
                                         \/ i = Len(after[n].regions)}
           stop == CHOOSE n \in done : \A k \in done : n <= k
<1>1. Absorb(h, i, need) = after[stop]
  BY DEF Absorb, Merged
<1>2. Len(h.regions) \in Nat /\ last \in Nat
  <2>1. Len(h.regions) \in Nat
    BY DEF Tiling, Handlers
  <2> QED BY <2>1
<1>3. Merged(after, h, i, last)
  <2> HIDE DEF last
  <2> QED BY Zenon, <1>2, MergedExists
<1> HIDE DEF after
<1>4. /\ DOMAIN after = 0..last /\ after[0] = h
      /\ \A n \in 0..last : n # 0 => after[n] = merge_region(after[n - 1], i)
  <2> HIDE DEF last
  <2> QED BY <1>2, <1>3 DEF Merged
<1> DEFINE Good(n) == Grown(after[n], h, i) /\ Len(after[n].regions) = Len(h.regions) - n
<1>5. \A n \in 0..last : Good(n)
  <2> DEFINE Bad == {n \in 0..last : ~Good(n)}
  <2> SUFFICES ASSUME Bad # {} PROVE FALSE
    BY Zenon
  <2>1. Bad \in SUBSET Nat
    <3> HIDE DEF last, Good
    <3> QED BY <1>2
  <2>2. PICK n \in Bad : \A z \in Bad : n <= z
    <3> HIDE DEF Bad
    <3> QED BY Zenon, <2>1, LeastIndex
  <2>3. n \in 0..last /\ ~Good(n)
    BY Zenon
  <2>4. CASE n = 0
    <3>1. Grown(h, h, i)
      BY Zenon DEF Grown
    <3>2. Len(h.regions) = Len(h.regions) - 0
      BY <1>2
    <3> QED BY Zenon, <1>4, <2>3, <2>4, <3>1, <3>2
  <2>5. CASE n # 0
    <3>1. n - 1 \in 0..last /\ ~(n <= n - 1) /\ n - 1 < last /\ n \in Nat
      <4> HIDE DEF last
      <4> QED BY <1>2, <2>3, <2>5
    <3>2. Good(n - 1)
      <4> HIDE DEF Good, last
      <4> QED BY Zenon, <2>2, <3>1
    <3>3. i # Len(after[n - 1].regions)
      BY <1>2, <3>1, <3>2
    <3>4. after[n] = merge_region(after[n - 1], i)
      BY Zenon, <1>4, <2>3, <2>5
    <3>5. Grown(after[n], h, i) /\ Len(after[n].regions) = Len(after[n - 1].regions) - 1
      BY ZenonT(30), <3>2, <3>3, <3>4, GrowsOn
    <3>6. Len(after[n].regions) = Len(h.regions) - n
      BY <1>2, <3>1, <3>2, <3>5
    <3> QED BY Zenon, <2>3, <3>5, <3>6
  <2> QED BY <2>4, <2>5
<1>6. \A n \in done : n \in 0..last /\ n \in Nat
  <2> HIDE DEF last
  <2> QED BY <1>2, <1>4
<1>7. last \in done
  <2>1. last \in 0..last
    <3> HIDE DEF last
    <3> QED BY <1>2
  <2>2. Len(after[last].regions) = i
    <3>1. Len(after[last].regions) = Len(h.regions) - last
      BY Zenon, <1>5, <2>1
    <3> QED BY <1>2, <3>1
  <2> HIDE DEF last
  <2> QED BY Zenon, <1>4, <2>1, <2>2
<1>8. stop \in done /\ \A k \in done : stop <= k
  <2>1. done \in SUBSET Nat /\ done # {}
    <3> HIDE DEF done
    <3> QED BY <1>6, <1>7
  <2> HIDE DEF done
  <2>2. \E n \in done : \A k \in done : n <= k
    BY Zenon, <2>1, LeastIndex
  <2> QED BY Zenon, <2>2
<1>9. ASSUME h.regions[i].size >= need PROVE stop = 0
  <2>1. 0 \in done
    <3>1. 0 \in 0..last
      BY <1>2
    <3> HIDE DEF last
    <3> QED BY Zenon, <1>4, <1>9, <3>1
  <2> HIDE DEF done, stop
  <2> QED BY <1>6, <1>8, <2>1
<1>10. Grown(after[stop], h, i)
  <2> HIDE DEF done, stop
  <2> QED BY Zenon, <1>5, <1>6, <1>8
<1> HIDE DEF stop
<1> QED BY Zenon, <1>1, <1>4, <1>9, <1>10

\* Every address of user space is in a region.
LEMMA Covers ==
  ASSUME NEW r \in Seq(Regions), Row(r), NEW x \in Int, Base <= x, x < Base + Size
  PROVE  \E i \in 1..Len(r) : In(r[i], x)
<1> DEFINE T == {i \in 1..Len(r) : x < r[i].base + r[i].size}
<1>1. /\ Len(r) \in Nat /\ Len(r) > 0 /\ r[1].base = Base
      /\ r[Len(r)].base + r[Len(r)].size = Base + Size
      /\ \A i \in 1..(Len(r) - 1) : r[i + 1].base = r[i].base + r[i].size
  BY DEF Row
<1>2. Len(r) \in T
  <2>1. Len(r) \in 1..Len(r)
    BY <1>1
  <2> QED BY Zenon, <1>1, <2>1
<1>3. T \in SUBSET Nat
  BY <1>1
<1>4. PICK i \in T : \A j \in T : i <= j
  <2> HIDE DEF T
  <2> QED BY Zenon, <1>2, <1>3, LeastIndex
<1>5. i \in 1..Len(r) /\ x < r[i].base + r[i].size
  BY Zenon
<1>6. r[i].base <= x
  <2>1. CASE i = 1
    BY Zenon, <1>1, <2>1
  <2>2. CASE i # 1
    <3>1. i - 1 \in 1..Len(r) /\ i - 1 \in 1..(Len(r) - 1) /\ ~(i <= i - 1) /\ (i - 1) + 1 = i
      BY <1>1, <1>5, <2>2
    <3>2. i - 1 \notin T
      <4> HIDE DEF T
      <4> QED BY Zenon, <1>4, <3>1
    <3>3. ~(x < r[i - 1].base + r[i - 1].size) /\ r[i].base = r[i - 1].base + r[i - 1].size
      BY Zenon, <1>1, <3>1, <3>2
    <3>4. r[i] \in Regions
      BY <1>5
    <3>5. r[i].base \in Nat
      BY Zenon, <3>4, Types
    <3> QED BY <3>3, <3>5
  <2> QED BY <2>1, <2>2
<1> QED BY Zenon, <1>5, <1>6 DEF In

\* mm_get_region answers a region that has the address, or NULL for an address outside
\* user space.
LEMMA RegionFound ==
  ASSUME NEW h, Tiling(h), NEW x \in Int
  PROVE  /\ mm_get_region(h, x) # NULL
              => mm_get_region(h, x) \in 1..Len(h.regions) /\ In(h.regions[mm_get_region(h, x)], x)
         /\ mm_get_region(h, x) = NULL => ~(Base <= x /\ x < Base + Size)
<1> DEFINE r == h.regions
           has == {i \in 1..Len(r) : r[i].base <= x /\ r[i].base + r[i].size > x}
           least == CHOOSE i \in has : \A j \in has : i <= j
<1>1. r \in Seq(Regions) /\ Row(r) /\ Len(r) \in Nat
  BY DEF Tiling, Handlers
<1>2. mm_get_region(h, x) = IF x > Base + Size \/ has = {} THEN NULL ELSE least
  BY Zenon DEF mm_get_region
<1> HIDE DEF r
<1>3. \A i \in 1..Len(r) : i \in has <=> In(r[i], x)
  <2> TAKE i \in 1..Len(r)
  <2>1. r[i] \in Regions
    BY <1>1
  <2>2. r[i].base \in Nat /\ r[i].size \in Nat
    BY Zenon, <2>1, Types
  <2> QED BY <2>2 DEF In
<1>4. has \in SUBSET Nat /\ \A i \in has : i \in 1..Len(r)
  BY <1>1
<1> HIDE DEF has
<1>5. ASSUME has # {} PROVE least \in has
  <2>1. \E i \in has : \A j \in has : i <= j
    BY Zenon, <1>4, <1>5, LeastIndex
  <2> QED BY Zenon, <2>1
<1> HIDE DEF least
<1>6. ASSUME Base <= x, x < Base + Size PROVE has # {}
  <2>1. \E i \in 1..Len(r) : In(r[i], x)
    BY Zenon, <1>1, <1>6, Covers
  <2> QED BY Zenon, <1>3, <2>1
<1>7. \A i \in 1..Len(r) : i # NULL
  BY <1>1 DEF NULL
<1>8. x > Base + Size => ~(x < Base + Size)
  <2>1. Base \in Int /\ Size \in Int
    BY PageSize DEF Base, Size
  <2> QED BY <2>1
<1>9. CASE x > Base + Size \/ has = {}
  BY Zenon, <1>2, <1>6, <1>8, <1>9
<1>10. CASE ~(x > Base + Size \/ has = {})
  <2>1. mm_get_region(h, x) = least /\ least \in has /\ least \in 1..Len(r)
    BY Zenon, <1>2, <1>4, <1>5, <1>10
  <2> QED BY Zenon, <1>3, <1>7, <2>1 DEF r
<1> QED BY <1>9, <1>10

\* Cutting region i down to size, at most its own.
LEMMA CutDown ==
  ASSUME NEW h, Tiling(h), NEW i \in 1..Len(h.regions), NEW size \in Nat, Aligned(size),
         0 < size, size <= h.regions[i].size
  PROVE  /\ Tiling(split_region(h, i, size)) /\ i \in 1..Len(split_region(h, i, size).regions)
         /\ split_region(h, i, size).regions[i].base = h.regions[i].base
         /\ split_region(h, i, size).regions[i].size = size
         /\ \A x \in Int : Used(split_region(h, i, size).regions, x) <=> Used(h.regions, x)
         /\ Except(h.regions, i - 1) => Near(split_region(h, i, size).regions, i)
<1> DEFINE g == split_region(h, i, size)
<1>1. h.regions \in Seq(Regions) /\ Len(h.regions) \in Nat /\ h.regions[i] \in Regions
  BY DEF Tiling, Handlers
<1>2. h.regions[i].size \in Nat
  BY Zenon, <1>1, Types
<1>3. /\ Tiling(g)
      /\ Cuts(h, i, size) => SplitOf(g.regions, h.regions, i, size)
      /\ ~Cuts(h, i, size) => g = h
  BY Zenon, Cutting
<1> HIDE DEF g
<1>4. CASE ~Cuts(h, i, size)
  <2>1. h.regions[i].size = size
    BY <1>2, <1>4 DEF Cuts
  <2> QED BY Zenon, <1>3, <1>4, <2>1 DEF g, Except, Near
<1>5. CASE Cuts(h, i, size)
  <2>1. size < h.regions[i].size
    BY <1>2, <1>5 DEF Cuts
  <2>2. SplitOf(g.regions, h.regions, i, size)
    BY Zenon, <1>3, <1>5
  <2>3. g.regions[i].base = h.regions[i].base /\ g.regions[i].size = size
    BY <2>2 DEF SplitOf, Front
  <2>4. i \in 1..Len(g.regions)
    BY <1>1, <2>2 DEF SplitOf
  <2>5. \A x \in Int : Used(g.regions, x) <=> Used(h.regions, x)
    BY Zenon, <1>1, <2>1, <2>2, SplitUsed
  <2>6. Except(h.regions, i - 1) => Near(g.regions, i)
    BY Zenon, <1>1, <2>2, SplitDiffers
  <2> QED BY Zenon, <1>3, <2>3, <2>4, <2>5, <2>6 DEF g
<1> QED BY <1>4, <1>5

\* A region ready for its flag: the list f.h tiles, uses what h uses, and its region f.at
\* is the one that the request for [base, base + size) is given.
Placed(f, h, base, size) ==
  /\ Tiling(f.h) /\ f.at \in 1..Len(f.h.regions)
  /\ f.h.regions[f.at].base = base /\ f.h.regions[f.at].size = size
  /\ \A x \in Int : Used(f.h.regions, x) <=> Used(h.regions, x)
  /\ Alternating(h.regions) => Near(f.h.regions, f.at)

\* First fit.
LEMMA FirstFitDoes ==
  ASSUME NEW h, Tiling(h), NEW size \in Nat, Aligned(size), 0 < size, Candidates(h, size) # {}
  PROVE  Placed(FirstFit(h, size), h, FirstFit(h, size).h.regions[FirstFit(h, size).at].base, size)
<1> DEFINE C == Candidates(h, size)
           i == CHOOSE k \in C : \A j \in C : k <= j
           f == FirstFit(h, size)
<1>1. Len(h.regions) \in Nat /\ h.last_free_region = 1
  BY DEF Tiling, Handlers
<1>2. C \in SUBSET Nat /\ \A k \in C : k \in 1..Len(h.regions) /\ h.regions[k].size >= size
  BY <1>1 DEF Candidates
<1>3. f = [h |-> split_region(h, i, size), at |-> i]
  BY Zenon DEF FirstFit
<1> HIDE DEF C
<1>4. i \in C
  <2>1. \E k \in C : \A j \in C : k <= j
    BY Zenon, <1>2, LeastIndex DEF C
  <2> QED BY Zenon, <2>1
<1> HIDE DEF i
<1>5. i \in 1..Len(h.regions) /\ h.regions[i].size >= size
  BY Zenon, <1>2, <1>4
<1>6. size <= h.regions[i].size
  <2>1. h.regions[i] \in Regions
    BY <1>5 DEF Tiling, Handlers
  <2>2. h.regions[i].size \in Nat
    BY Zenon, <2>1, Types
  <2> QED BY <1>5, <2>2
<1> DEFINE g == split_region(h, i, size)
<1>7. /\ Tiling(g) /\ i \in 1..Len(g.regions) /\ g.regions[i].size = size
      /\ \A x \in Int : Used(g.regions, x) <=> Used(h.regions, x)
      /\ Except(h.regions, i - 1) => Near(g.regions, i)
  BY ZenonT(30), <1>5, <1>6, CutDown
<1> HIDE DEF g
<1>8. f.h = g /\ f.at = i
  BY <1>3 DEF g
<1> HIDE DEF f
<1>9. Placed(f, h, f.h.regions[f.at].base, size)
  BY Zenon, <1>7, <1>8 DEF Placed, Alternating, Except
<1> QED BY Zenon, <1>9 DEF f

\* The fixed path, for any request that starts in user space: the regions still tile it.
LEMMA FixedTiles ==
  ASSUME NEW h, Tiling(h), NEW base \in Nat, NEW size \in Nat, Aligned(base), Aligned(size),
         mm_get_region(h, base) # NULL
  PROVE  Tiling(Fixed(h, base, size).h) /\ Fixed(h, base, size).at \in 1..Len(Fixed(h, base, size).h.regions)
<1> DEFINE i == mm_get_region(h, base)
           unusable == base - h.regions[i].base
           m == Absorb(h, i, unusable + size)
           at == SplitResult(m, i, unusable)
           f == Fixed(h, base, size)
           g == split_region(m, i, unusable)
<1>1. f = IF m.regions[i].is_free THEN [h |-> split_region(g, at, size), at |-> at]
          ELSE [h |-> m, at |-> i]
  BY Zenon DEF Fixed
<1>2. i \in 1..Len(h.regions) /\ In(h.regions[i], base)
  <2>1. base \in Int
    OBVIOUS
  <2> QED BY Zenon, <2>1, RegionFound
<1> HIDE DEF i
<1>3. unusable \in Nat /\ Aligned(unusable)
  <2>1. h.regions[i] \in Regions /\ Aligned(h.regions[i].base)
    BY <1>2 DEF Tiling, Handlers, Row, Whole
  <2>2. h.regions[i].base \in Nat
    BY Zenon, <2>1, Types
  <2>3. h.regions[i].base <= base
    BY Zenon, <1>2 DEF In
  <2>4. Aligned(unusable)
    BY Zenon, <2>1, <2>2, <2>3, Sums
  <2> QED BY <2>2, <2>3, <2>4
<1>4. Tiling(m) /\ i \in 1..Len(m.regions)
  <2> HIDE DEF unusable
  <2> QED BY Zenon, <1>2, AbsorbDoes DEF Grown
<1> HIDE DEF unusable, m
<1>5. /\ Tiling(g)
      /\ Cuts(m, i, unusable) => SplitOf(g.regions, m.regions, i, unusable)
      /\ ~Cuts(m, i, unusable) => g = m
  BY Zenon, <1>3, <1>4, Cutting
<1> HIDE DEF g
<1>6. at \in 1..Len(g.regions)
  <2>1. Len(m.regions) \in Nat
    BY <1>4 DEF Tiling, Handlers
  <2>2. CASE Cuts(m, i, unusable)
    <3>1. Len(g.regions) = Len(m.regions) + 1 /\ at = i + 1
      BY Zenon, <1>5, <2>2 DEF SplitOf, SplitResult
    <3> QED BY <1>4, <2>1, <3>1
  <2>3. CASE ~Cuts(m, i, unusable)
    BY Zenon, <1>4, <1>5, <2>3 DEF SplitResult
  <2> QED BY <2>2, <2>3
<1> HIDE DEF at
<1> DEFINE c == split_region(g, at, size)
<1>7. Tiling(c) /\ at \in 1..Len(c.regions)
  <2>1. /\ Tiling(c)
        /\ Cuts(g, at, size) => SplitOf(c.regions, g.regions, at, size)
        /\ ~Cuts(g, at, size) => c = g
    BY Zenon, <1>5, <1>6, Cutting
  <2> HIDE DEF c
  <2>2. CASE Cuts(g, at, size)
    <3>1. Len(c.regions) = Len(g.regions) + 1 /\ Len(g.regions) \in Nat
      BY <1>5, <2>1, <2>2 DEF SplitOf, Tiling, Handlers
    <3> QED BY <1>6, <2>1, <3>1
  <2>3. CASE ~Cuts(g, at, size)
    BY Zenon, <1>6, <2>1, <2>3
  <2> QED BY <2>2, <2>3
<1> HIDE DEF c, f
<1>8. CASE m.regions[i].is_free
  <2>1. f.h = c /\ f.at = at
    BY <1>1, <1>8 DEF c
  <2> QED BY Zenon, <1>7, <2>1 DEF f
<1>9. CASE ~m.regions[i].is_free
  <2>1. f.h = m /\ f.at = i
    BY <1>1, <1>9
  <2> QED BY Zenon, <1>4, <2>1 DEF f
<1> QED BY <1>8, <1>9

\* The request for [base, base + size) was for region i of h.
Answered(f, h, i, base, size) ==
  /\ h.regions[i].is_free => Placed(f, h, base, size)
  /\ ~h.regions[i].is_free => f.h = h /\ f.at = i

\* The fixed path, for a request inside one region: a free region is cut around it, a used
\* one is left as it is.
LEMMA FixedDoes ==
  ASSUME NEW h, Tiling(h), NEW base \in Nat, NEW size \in Nat, Aligned(base), Aligned(size), 0 < size,
         NEW i, i = mm_get_region(h, base), i # NULL, Alternating(h.regions),
         base + size <= h.regions[i].base + h.regions[i].size
  PROVE  Answered(Fixed(h, base, size), h, i, base, size)
<1> DEFINE unusable == base - h.regions[i].base
           m == Absorb(h, i, unusable + size)
           at == SplitResult(m, i, unusable)
           f == Fixed(h, base, size)
<1>1. f = IF m.regions[i].is_free
          THEN [h |-> split_region(split_region(m, i, unusable), at, size), at |-> at]
          ELSE [h |-> m, at |-> i]
  BY Zenon DEF Fixed
<1>2. i \in 1..Len(h.regions) /\ In(h.regions[i], base)
  <2>1. base \in Int
    OBVIOUS
  <2> QED BY Zenon, <2>1, RegionFound
<1>3. h.regions[i] \in Regions /\ Aligned(h.regions[i].base) /\ h.regions \in Seq(Regions)
      /\ Len(h.regions) \in Nat
  BY <1>2 DEF Tiling, Handlers, Row, Whole
<1>4. h.regions[i].base \in Nat /\ h.regions[i].size \in Nat
  BY Zenon, <1>3, Types
<1>5. h.regions[i].base <= base /\ base < h.regions[i].base + h.regions[i].size
  BY Zenon, <1>2 DEF In
<1>6. unusable \in Nat /\ Aligned(unusable) /\ unusable < h.regions[i].size
      /\ h.regions[i].size >= unusable + size
  <2>1. Aligned(unusable)
    BY Zenon, <1>3, <1>4, <1>5, Sums
  <2> QED BY <1>4, <1>5, <2>1
<1>7. m = h
  <2> HIDE DEF unusable
  <2> QED BY ZenonT(30), <1>2, <1>6, AbsorbDoes
<1> HIDE DEF m
<1> DEFINE g == split_region(h, i, unusable)
<1>8. /\ Tiling(g) /\ at \in 1..Len(g.regions) /\ g.regions[at].base = base
      /\ size <= g.regions[at].size
      /\ \A x \in Int : Used(g.regions, x) <=> Used(h.regions, x)
      /\ Except(g.regions, at - 1)
  <2>1. /\ Tiling(g)
        /\ Cuts(h, i, unusable) => SplitOf(g.regions, h.regions, i, unusable)
        /\ ~Cuts(h, i, unusable) => g = h
    <3> HIDE DEF unusable
    <3> QED BY Zenon, <1>2, <1>6, Cutting
  <2> HIDE DEF g
  <2>2. CASE Cuts(h, i, unusable)
    <3>1. at = i + 1 /\ SplitOf(g.regions, h.regions, i, unusable)
      BY Zenon, <1>7, <2>1, <2>2 DEF SplitResult
    <3>2. Len(g.regions) = Len(h.regions) + 1 /\ g.regions[at] = Rest(h.regions[i], unusable)
      BY Zenon, <3>1 DEF SplitOf
    <3>3. g.regions[at].base = h.regions[i].base + unusable
          /\ g.regions[at].size = h.regions[i].size - unusable
      BY <3>2 DEF Rest
    <3>4. g.regions[at].base = base /\ size <= g.regions[at].size
      <4>1. h.regions[i].base + unusable = base
        BY <1>4
      <4>2. size <= h.regions[i].size - unusable
        <5> HIDE DEF unusable
        <5> QED BY <1>4, <1>6
      <4> QED BY Zenon, <3>3, <4>1, <4>2
    <3>5. at \in 1..Len(g.regions) /\ at - 1 = i
      BY SMTT(30), <1>2, <1>3, <3>1, <3>2
    <3> HIDE DEF unusable
    <3>6. \A x \in Int : Used(g.regions, x) <=> Used(h.regions, x)
      BY Zenon, <1>2, <1>3, <1>6, <3>1, SplitUsed
    <3>7. Except(g.regions, i)
      BY Zenon, <1>2, <1>3, <3>1, SplitDiffers
    <3> QED BY Zenon, <2>1, <3>4, <3>5, <3>6, <3>7
  <2>3. CASE ~Cuts(h, i, unusable)
    <3>1. unusable = 0
      <4> HIDE DEF unusable
      <4> QED BY <1>4, <1>6, <2>3 DEF Cuts
    <3>2. base = h.regions[i].base /\ size <= h.regions[i].size
      BY <1>4, <1>6, <3>1
    <3>3. g = h /\ at = i
      BY Zenon, <1>7, <2>1, <2>3 DEF SplitResult
    <3> QED BY Zenon, <1>2, <2>1, <3>2, <3>3 DEF Alternating, Except
  <2> QED BY Zenon, <2>2, <2>3
<1> HIDE DEF unusable, at, g
<1>9. CASE h.regions[i].is_free
  <2> DEFINE c == split_region(g, at, size)
  <2>1. f.h = c /\ f.at = at
    BY <1>1, <1>7, <1>9 DEF g
  <2>2. /\ Tiling(c) /\ at \in 1..Len(c.regions)
        /\ c.regions[at].base = g.regions[at].base /\ c.regions[at].size = size
        /\ \A x \in Int : Used(c.regions, x) <=> Used(g.regions, x)
        /\ Except(g.regions, at - 1) => Near(c.regions, at)
    BY ZenonT(30), <1>8, CutDown
  <2> HIDE DEF c, f
  <2>3. Placed(f, h, base, size)
    BY Zenon, <1>8, <2>1, <2>2 DEF Placed
  <2> QED BY Zenon, <1>9, <2>3 DEF f, Answered
<1>10. CASE ~h.regions[i].is_free
  <2>1. f.h = h /\ f.at = i
    BY <1>1, <1>7, <1>10
  <2> QED BY Zenon, <1>10, <2>1 DEF f, Answered
<1> QED BY <1>9, <1>10

-----------------------------------------------------------------------------
(* The pages of a request.                                                 *)

\* The start of the page of x, and the pages that start in [a, b).
Floor(x) == x - (x % PAGE)
Within(a, b) == {k \in Int : a <= k * PAGE /\ k * PAGE < b}

\* An interval of pages.
LEMMA Interval ==
  ASSUME NEW p \in Int, NEW q \in Int
  PROVE  p..q = Within(p * PAGE, (q + 1) * PAGE)
<1>1. p * PAGE \in Int /\ (q + 1) * PAGE \in Int /\ q + 1 \in Int
  BY PageSize
<1>2. ASSUME NEW k \in Int
      PROVE  k \in p..q <=> p * PAGE <= k * PAGE /\ k * PAGE < (q + 1) * PAGE
  <2>1. k * PAGE \in Int
    BY PageSize
  <2>2. (k < p <=> k * PAGE < p * PAGE) /\ (k < q + 1 <=> k * PAGE < (q + 1) * PAGE)
    BY Zenon, <1>1, Order
  <2> QED BY <1>1, <2>1, <2>2
<1>3. \A k \in p..q : k \in Int
  OBVIOUS
<1> QED BY <1>2, <1>3 DEF Within

\* The pages the bytes of a request lie in, and the pages vmm_map_allocate maps for it.
LEMMA RequestPages ==
  ASSUME NEW x \in Nat, NEW n \in Nat, n > 0
  PROVE  /\ Floor(x) \in Nat /\ Aligned(Floor(x)) /\ Floor(x) <= x /\ x < Floor(x) + PAGE
         /\ Spanned(x, n) = Within(Floor(x), Floor(x) + RoundUp(n + (x % PAGE)))
         /\ vmm_map_allocate(x, n) = Within(Floor(x), Floor(x) + RoundUp(n))
<1> DEFINE p == PageOf(x)
           o == x % PAGE
           d == (n + o + PAGE - 1) \div PAGE
           e == (n + PAGE - 1) \div PAGE
<1>1. p \in Int /\ o \in Int /\ 0 <= o /\ o < PAGE /\ x = p * PAGE + o /\ p * PAGE \in Int
  BY Divides, PageSize DEF PageOf
<1>2. RoundUp(n + o) = d * PAGE /\ RoundUp(n) = e * PAGE
  BY DEF RoundUp
<1>3. Floor(x) = p * PAGE
  <2> HIDE DEF p
  <2> QED BY <1>1 DEF Floor
<1>4. d \in Int /\ d * PAGE <= n + o + PAGE - 1 /\ n + o + PAGE - 1 < d * PAGE + PAGE /\ d * PAGE \in Int
  <2>1. n + o + PAGE - 1 \in Int
    BY <1>1, PageSize
  <2> HIDE DEF o
  <2> QED BY <2>1, Divides, PageSize
<1>5. e \in Int /\ e * PAGE \in Int
  <2>1. n + PAGE - 1 \in Int
    BY PageSize
  <2> QED BY <2>1, Divides, PageSize
<1>6. p \in Nat
  <2>1. CASE p < 0
    <3> HIDE DEF p, o
    <3>1. p + 1 <= 0 /\ (p + 1) * PAGE = p * PAGE + PAGE /\ 0 * PAGE = 0
      BY <1>1, <2>1, PageSize
    <3>2. (p + 1) * PAGE <= 0
      BY <1>1, <3>1, Order, PageSize
    <3> QED BY <1>1, <3>1, <3>2, PageSize
  <2> QED BY <1>1, <2>1
<1>7. PageOf(x + n - 1) = p + d - 1
  <2> HIDE DEF p, o, d, e
  <2>1. (p + d - 1) * PAGE = p * PAGE + d * PAGE - PAGE
        /\ (p + d - 1 + 1) * PAGE = p * PAGE + d * PAGE
    BY <1>1, <1>4, PageSize
  <2>2. /\ p + d - 1 \in Int /\ x + n - 1 \in Int /\ (p + d - 1) * PAGE <= x + n - 1
        /\ x + n - 1 < (p + d - 1 + 1) * PAGE
    BY <1>1, <1>4, <2>1, PageSize
  <2> QED BY <2>2, Quotient DEF PageOf
<1> HIDE DEF p, o, d, e
<1>8. (p + d - 1 + 1) * PAGE = p * PAGE + d * PAGE /\ (p + e - 1 + 1) * PAGE = p * PAGE + e * PAGE
  BY <1>1, <1>4, <1>5, PageSize
<1>9. Spanned(x, n) = Within(Floor(x), Floor(x) + RoundUp(n + o))
  <2>1. p + d - 1 \in Int
    BY <1>1, <1>4
  <2>2. p..(p + d - 1) = Within(p * PAGE, (p + d - 1 + 1) * PAGE)
    BY Zenon, <1>1, <2>1, Interval
  <2> QED BY <1>2, <1>3, <1>7, <1>8, <2>2 DEF Spanned, p
<1>10. vmm_map_allocate(x, n) = Within(Floor(x), Floor(x) + RoundUp(n))
  <2>1. p + e - 1 \in Int
    BY <1>1, <1>5
  <2>2. p..(p + e - 1) = Within(p * PAGE, (p + e - 1 + 1) * PAGE)
    BY Zenon, <1>1, <2>1, Interval
  <2>3. RoundUp(n) \div PAGE = e
    <3>1. e * PAGE <= e * PAGE /\ e * PAGE < (e + 1) * PAGE
      BY <1>5, PageSize
    <3> QED BY <1>2, <1>5, <3>1, Quotient
  <2>4. {p + k : k \in 0..(e - 1)} = p..(p + e - 1)
    <3>1. ASSUME NEW y \in p..(p + e - 1) PROVE y \in {p + k : k \in 0..(e - 1)}
      <4>1. y - p \in 0..(e - 1) /\ y = p + (y - p)
        BY <1>1, <1>5
      <4> QED BY Zenon, <4>1
    <3>2. ASSUME NEW k \in 0..(e - 1) PROVE p + k \in p..(p + e - 1)
      BY <1>1, <1>5
    <3> QED BY <3>1, <3>2
  <2>5. vmm_map_allocate(x, n) = p..(p + e - 1)
    BY <2>3, <2>4 DEF vmm_map_allocate, p
  <2> QED BY <1>2, <1>3, <1>8, <2>2, <2>5
<1>11. Floor(x) \in Nat /\ Aligned(Floor(x)) /\ Floor(x) <= x /\ x < Floor(x) + PAGE
  BY <1>1, <1>3, <1>6, PageSize DEF Aligned
<1> QED BY Zenon, <1>9, <1>10, <1>11 DEF o

\* A request that starts at a page.
LEMMA AlignedPages ==
  ASSUME NEW x \in Nat, Aligned(x), NEW n \in Nat, n > 0
  PROVE  /\ Floor(x) = x /\ x % PAGE = 0
         /\ Spanned(x, n) = Within(x, x + RoundUp(n))
         /\ vmm_map_allocate(x, n) = Within(x, x + RoundUp(n))
<1>1. PICK b \in Nat : x = b * PAGE
  BY DEF Aligned
<1>2. x \div PAGE = b
  BY Zenon, <1>1, WholePages
<1>3. x % PAGE = 0
  <2>1. x = (x \div PAGE) * PAGE + (x % PAGE) /\ x % PAGE \in Int
    BY Divides
  <2>2. b * PAGE = b * PAGE + (x % PAGE) /\ b * PAGE \in Int
    BY <1>1, <1>2, <2>1, PageSize
  <2> QED BY <2>1, <2>2
<1>4. Floor(x) = x /\ n + (x % PAGE) = n
  BY <1>3 DEF Floor
<1>5. /\ Spanned(x, n) = Within(Floor(x), Floor(x) + RoundUp(n + (x % PAGE)))
      /\ vmm_map_allocate(x, n) = Within(Floor(x), Floor(x) + RoundUp(n))
  BY Zenon, RequestPages
<1> QED BY <1>3, <1>4, <1>5

\* The pages of a whole region.
LEMMA RegionPages ==
  ASSUME NEW a, Whole(a)
  PROVE  /\ PageOf(a.base)..(PageOf(a.base) + a.block_count - 1) = Within(a.base, a.base + a.size)
         /\ Spanned(a.base, a.size) = Within(a.base, a.base + a.size)
<1>1. a \in Regions /\ Aligned(a.base) /\ Aligned(a.size) /\ a.size > 0 /\ a.block_count = Blocks(a.size)
  BY Zenon DEF Whole
<1>2. a.base \in Nat /\ a.size \in Nat
  BY Zenon, <1>1, Types
<1>3. PICK p \in Nat : a.base = p * PAGE
  BY <1>1 DEF Aligned
<1>4. PICK q \in Nat : a.size = q * PAGE
  BY <1>1 DEF Aligned
<1>5. PageOf(a.base) = p /\ Blocks(a.size) = q /\ RoundUp(a.size) = a.size
  BY Zenon, <1>3, <1>4, WholePages DEF PageOf
<1>6. p..(p + q - 1) = Within(p * PAGE, (p + q - 1 + 1) * PAGE)
  BY Interval
<1>7. (p + q - 1 + 1) * PAGE = p * PAGE + q * PAGE
  BY PageSize
<1>8. Spanned(a.base, a.size) = Within(a.base, a.base + RoundUp(a.size))
  BY Zenon, <1>1, <1>2, AlignedPages
<1> QED BY <1>1, <1>3, <1>4, <1>5, <1>6, <1>7, <1>8

\* The pages of the used regions are the pages whose first address is used.
LEMMA UsedPagesAre ==
  ASSUME NEW h, Tiling(h)
  PROVE  UsedPages(h) = {k \in Int : Used(h.regions, k * PAGE)}
<1> DEFINE r == h.regions
           P(i) == PageOf(r[i].base)..(PageOf(r[i].base) + r[i].block_count - 1)
           J == {j \in 1..Len(r) : ~r[j].is_free}
<1>1. \A i \in 1..Len(r) : Whole(r[i])
  BY DEF Tiling, Row
<1>2. \A i \in 1..Len(r) : P(i) = Within(r[i].base, r[i].base + r[i].size)
  BY Zenon, <1>1, RegionPages
<1>3. UsedPages(h) = UNION {P(i) : i \in J}
  BY Zenon DEF UsedPages
<1> HIDE DEF r, P
<1>4. ASSUME NEW k, k \in UNION {P(i) : i \in J} PROVE k \in Int /\ Used(r, k * PAGE)
  <2>1. PICK i \in J : k \in P(i)
    BY Zenon, <1>4
  <2>2. i \in 1..Len(r) /\ ~r[i].is_free /\ k \in Within(r[i].base, r[i].base + r[i].size)
    BY Zenon, <1>2, <2>1
  <2>3. k \in Int /\ In(r[i], k * PAGE)
    BY Zenon, <2>2 DEF Within, In
  <2> QED BY Zenon, <2>2, <2>3 DEF Used
<1>5. ASSUME NEW k \in Int, Used(r, k * PAGE) PROVE k \in UNION {P(i) : i \in J}
  <2>1. PICK i \in 1..Len(r) : ~r[i].is_free /\ In(r[i], k * PAGE)
    BY Zenon, <1>5 DEF Used
  <2>2. k \in P(i) /\ i \in J
    BY Zenon, <1>2, <2>1 DEF Within, In
  <2> QED BY Zenon, <2>2
<1>6. UNION {P(i) : i \in J} = {k \in Int : Used(r, k * PAGE)}
  <2> HIDE DEF J
  <2> QED BY Zenon, <1>4, <1>5
<1> QED BY Zenon, <1>3, <1>6 DEF r

\* Pages that start in a region of whole pages stay in it as a whole.
LEMMA WholeFit ==
  ASSUME NEW b \in Nat, NEW n \in Nat, NEW c \in Nat, NEW s \in Nat, Aligned(b), Aligned(n), n > 0,
         Aligned(c), Aligned(s), Within(b, b + n) \subseteq Within(c, c + s)
  PROVE  b + n <= c + s
<1>1. PICK p \in Nat : b + n = p * PAGE
  BY ZenonT(30), Sums DEF Aligned
<1>2. PICK q \in Nat : c + s = q * PAGE
  BY ZenonT(30), Sums DEF Aligned
<1>3. n >= PAGE /\ (p - 1) * PAGE = b + n - PAGE
  BY <1>1, AtLeastOne, PageSize
<1>4. p - 1 \in Int /\ b <= (p - 1) * PAGE /\ (p - 1) * PAGE < b + n
  BY <1>3, PageSize
<1>5. (p - 1) * PAGE < c + s
  BY Zenon, <1>4 DEF Within
<1>6. p - 1 < q
  <2>1. q \in Int /\ (p - 1) * PAGE < q * PAGE
    BY <1>2, <1>5
  <2> QED BY Zenon, <1>4, <2>1, Order
<1>7. ~(q < p)
  BY <1>6
<1>8. ~(q * PAGE < p * PAGE)
  <2>1. p \in Int /\ q \in Int
    OBVIOUS
  <2> QED BY Zenon, <1>7, <2>1, Order
<1> QED BY <1>1, <1>2, <1>8

\* An aligned address is at most x exactly when it is at most the start of the page of x.
LEMMA FloorBelow ==
  ASSUME NEW x \in Nat, NEW y \in Nat, Aligned(y)
  PROVE  y <= x <=> y <= Floor(x)
<1>1. Floor(x) \in Nat /\ Aligned(Floor(x)) /\ Floor(x) <= x /\ x < Floor(x) + PAGE
  <2>1. 1 \in Nat /\ 1 > 0
    OBVIOUS
  <2> QED BY Zenon, <2>1, RequestPages
<1>2. ASSUME y <= x, Floor(x) < y PROVE FALSE
  <2>1. Floor(x) <= y /\ y - Floor(x) \in Nat /\ y - Floor(x) > 0
    BY <1>1, <1>2
  <2>2. Aligned(y - Floor(x))
    BY Zenon, <1>1, <2>1, Sums
  <2>3. y - Floor(x) >= PAGE
    BY Zenon, <2>1, <2>2, AtLeastOne
  <2> QED BY <1>1, <1>2, <2>3, PageSize
<1> QED BY <1>1, <1>2

\* base and hint, in the same page, are in the same region.
LEMMA SameRegion ==
  ASSUME NEW h, Tiling(h), NEW x \in Nat
  PROVE  mm_get_region(h, Floor(x)) = mm_get_region(h, x) \/ x > Base + Size
<1> DEFINE r == h.regions
           has(y) == {i \in 1..Len(r) : r[i].base <= y /\ r[i].base + r[i].size > y}
<1>1. Floor(x) \in Nat /\ Aligned(Floor(x)) /\ Floor(x) <= x /\ x < Floor(x) + PAGE
  <2>1. 1 \in Nat /\ 1 > 0
    OBVIOUS
  <2> QED BY Zenon, <2>1, RequestPages
<1>2. \A i \in 1..Len(r) : Whole(r[i])
  BY DEF Tiling, Row
<1>3. ASSUME NEW i \in 1..Len(r)
      PROVE  (r[i].base <= x /\ r[i].base + r[i].size > x)
               <=> (r[i].base <= Floor(x) /\ r[i].base + r[i].size > Floor(x))
  <2>1. r[i] \in Regions /\ Aligned(r[i].base) /\ Aligned(r[i].size)
    BY Zenon, <1>2 DEF Whole
  <2>2. r[i].base \in Nat /\ r[i].size \in Nat
    BY Zenon, <2>1, Types
  <2>3. Aligned(r[i].base + r[i].size)
    BY Zenon, <2>1, <2>2, Sums
  <2>4. \A y \in Nat : Aligned(y) => (y <= x <=> y <= Floor(x))
    BY Zenon, FloorBelow
  <2>5. r[i].base + r[i].size \in Nat
    <3>1. \A a, b \in Nat : a + b \in Nat
      OBVIOUS
    <3> QED BY Zenon, <2>2, <3>1
  <2>6. /\ r[i].base <= x <=> r[i].base <= Floor(x)
        /\ r[i].base + r[i].size <= x <=> r[i].base + r[i].size <= Floor(x)
    BY Zenon, <2>1, <2>2, <2>3, <2>4, <2>5
  <2> QED BY <1>1, <2>5, <2>6
<1>4. has(x) = has(Floor(x))
  BY Zenon, <1>3
<1>5. Base + Size \in Nat
  BY PageSize DEF Base, Size
<1>6. x <= Base + Size => ~(x > Base + Size) /\ ~(Floor(x) > Base + Size)
  BY <1>1, <1>5
<1>7. ASSUME x <= Base + Size PROVE mm_get_region(h, Floor(x)) = mm_get_region(h, x)
  <2>1. \A y : mm_get_region(h, y) = IF y > Base + Size \/ has(y) = {} THEN NULL
                                     ELSE CHOOSE i \in has(y) : \A j \in has(y) : i <= j
    BY Zenon DEF mm_get_region
  <2> HIDE DEF has
  <2> QED BY Zenon, <1>4, <1>6, <1>7, <2>1
<1> QED BY <1>5, <1>7

-----------------------------------------------------------------------------
(* mm_allocate_region_vm.                                                  *)

\* What it is asked for, in whole pages.
LEMMA Request ==
  ASSUME NEW hint \in Nat, NEW len \in Nat, len > 0
  PROVE  /\ Floor(hint) \in Nat /\ Aligned(Floor(hint)) /\ len + (hint % PAGE) \in Nat
         /\ RoundUp(len + (hint % PAGE)) \in Nat /\ Aligned(RoundUp(len + (hint % PAGE)))
         /\ 0 < RoundUp(len + (hint % PAGE))
<1>1. Floor(hint) \in Nat /\ Aligned(Floor(hint))
  BY Zenon, RequestPages
<1>2. hint % PAGE \in Nat
  BY Divides
<1>3. len + (hint % PAGE) \in Nat /\ len + (hint % PAGE) > 0
  BY <1>2
<1>4. Aligned(RoundUp(len + (hint % PAGE))) /\ RoundUp(len + (hint % PAGE)) \in Nat
      /\ RoundUp(len + (hint % PAGE)) > 0
  BY Zenon, <1>3, Rounds
<1> QED BY <1>1, <1>3, <1>4

\* Whatever is asked for, the regions still tile user space, and the answer is an address.
LEMMA AllocateTiles ==
  ASSUME NEW h, Tiling(h), NEW hint \in Nat, NEW len \in Nat, len > 0, NEW is_fixed \in BOOLEAN
  PROVE  /\ Tiling(mm_allocate_region_vm(h, hint, len, is_fixed).h)
         /\ mm_allocate_region_vm(h, hint, len, is_fixed).base \in Nat
<1> DEFINE base == Floor(hint)
           size == RoundUp(len + (hint % PAGE))
           from == IF is_fixed THEN Fixed(h, base, size) ELSE FirstFit(h, size)
           v == mm_allocate_region_vm(h, hint, len, is_fixed)
<1>1. v = CASE is_fixed /\ mm_get_region(h, base) = NULL ->
                 [h |-> h, base |-> base,
                  err |-> IF base + size > Base + Size THEN "EINVAL" ELSE ""]
            [] ~is_fixed /\ Candidates(h, size) = {} -> [h |-> h, base |-> base, err |-> "ENOMEM"]
            [] OTHER -> [h |-> MarkUsed(from.h, from.at), err |-> "",
                         base |-> IF is_fixed THEN base ELSE from.h.regions[from.at].base]
  BY Zenon DEF mm_allocate_region_vm, Floor
<1>2. base \in Nat /\ Aligned(base) /\ size \in Nat /\ Aligned(size) /\ 0 < size
  BY Zenon, Request
<1> HIDE DEF base, size, v
<1>3. CASE is_fixed /\ mm_get_region(h, base) = NULL
  <2> HIDE DEF from
  <2>1. v = [h |-> h, base |-> base, err |-> IF base + size > Base + Size THEN "EINVAL" ELSE ""]
    BY Zenon, <1>1, <1>3
  <2>2. v.h = h /\ v.base = base
    BY Zenon, <2>1
  <2> QED BY Zenon, <1>2, <2>2 DEF v
<1>4. CASE ~is_fixed /\ Candidates(h, size) = {}
  <2> HIDE DEF from
  <2>1. v = [h |-> h, base |-> base, err |-> "ENOMEM"]
    BY <1>1, <1>4
  <2>2. v.h = h /\ v.base = base
    BY <2>1
  <2> QED BY Zenon, <1>2, <2>2 DEF v
<1>5. CASE ~(is_fixed /\ mm_get_region(h, base) = NULL) /\ ~(~is_fixed /\ Candidates(h, size) = {})
  <2>1. Tiling(from.h) /\ from.at \in 1..Len(from.h.regions)
    <3>1. CASE is_fixed
      BY Zenon, <1>2, <1>5, <3>1, FixedTiles
    <3>2. CASE ~is_fixed
      BY Zenon, <1>2, <1>5, <3>2, FirstFitDoes DEF Placed
    <3> QED BY <3>1, <3>2
  <2> HIDE DEF from
  <2>2. Tiling(MarkUsed(from.h, from.at))
    BY Zenon, <2>1, MarkUsedDoes
  <2>3. v.h = MarkUsed(from.h, from.at)
        /\ v.base = IF is_fixed THEN base ELSE from.h.regions[from.at].base
    BY Zenon, <1>1, <1>5
  <2>4. from.h.regions[from.at] \in Regions
    BY Zenon, <2>1 DEF Tiling, Row, Whole
  <2>5. v.base \in Nat
    BY Zenon, <1>2, <2>3, <2>4, Types
  <2> QED BY Zenon, <2>2, <2>3, <2>5 DEF v
<1> QED BY <1>3, <1>4, <1>5

\* w uses the pages that h uses, and those that start in [a, b).
Extended(w, h, a, b) == Alternating(w.regions) /\ UsedPages(w) = UsedPages(h) \cup Within(a, b)

\* Marking the region that was made for [base, base + size): its pages are added.
LEMMA PlacedExact ==
  ASSUME NEW h, Tiling(h), NEW f, NEW base, NEW size, Placed(f, h, base, size), Alternating(h.regions)
  PROVE  Extended(MarkUsed(f.h, f.at), h, base, base + size)
<1> DEFINE w == MarkUsed(f.h, f.at)
           a == f.h.regions[f.at]
<1>1. /\ Tiling(f.h) /\ f.at \in 1..Len(f.h.regions) /\ a.base = base /\ a.size = size
      /\ \A x \in Int : Used(f.h.regions, x) <=> Used(h.regions, x)
      /\ Near(f.h.regions, f.at)
  BY Zenon DEF Placed
<1>2. /\ Tiling(w) /\ Alternating(w.regions)
      /\ \A x \in Int : Used(w.regions, x) <=> Used(f.h.regions, x) \/ In(a, x)
  BY Zenon, <1>1, MarkUsedDoes
<1> HIDE DEF w, a
<1>3. UsedPages(w) = {k \in Int : Used(w.regions, k * PAGE)}
      /\ UsedPages(h) = {k \in Int : Used(h.regions, k * PAGE)}
  BY Zenon, <1>2, UsedPagesAre
<1>4. ASSUME NEW k \in Int
      PROVE  Used(w.regions, k * PAGE) <=> Used(h.regions, k * PAGE) \/ k \in Within(base, base + size)
  <2>1. k * PAGE \in Int
    BY PageSize
  <2>2. In(a, k * PAGE) <=> k \in Within(base, base + size)
    BY Zenon, <1>1 DEF In, Within
  <2> QED BY Zenon, <1>1, <1>2, <2>1, <2>2
<1>5. \A k \in Within(base, base + size) : k \in Int
  BY Zenon DEF Within
<1>6. UsedPages(w) = UsedPages(h) \cup Within(base, base + size)
  <2>1. {k \in Int : Used(w.regions, k * PAGE)}
          = {k \in Int : Used(h.regions, k * PAGE)} \cup Within(base, base + size)
    BY Zenon, <1>4, <1>5
  <2> QED BY Zenon, <1>3, <2>1
<1> QED BY Zenon, <1>2, <1>6 DEF w, Extended

\* The two ways it is called.
AtAddress(h, hint, len) == mm_allocate_region_vm(h, hint, len, TRUE)
Anywhere(h, len) == mm_allocate_region_vm(h, 0, len, FALSE)
Succeeds(v) == v.err = ""

\* The answer v adds the pages of the request to those of h.
Adds(v, h, address, len) ==
  /\ Alternating(v.h.regions) /\ UsedPages(v.h) = UsedPages(h) \cup Spanned(address, len)
  /\ Spanned(address, len) = vmm_map_allocate(address, len)

\* A request that the caller keeps inside one region and that gets a page: its pages are
\* added to the used ones, from the address the caller named as from the one it is told.
LEMMA FixedExact ==
  ASSUME NEW h, Tiling(h), Alternating(h.regions), NEW hint \in 0..(Base + Size), NEW len \in Nat, len > 0,
         Contained(h, hint, len), Succeeds(AtAddress(h, hint, len))
  PROVE  /\ Adds(AtAddress(h, hint, len), h, hint, len)
         /\ Adds(AtAddress(h, hint, len), h, AtAddress(h, hint, len).base, len)
<1> DEFINE base == Floor(hint)
           size == RoundUp(len + (hint % PAGE))
           i == mm_get_region(h, base)
           from == Fixed(h, base, size)
           v == AtAddress(h, hint, len)
<1>0. hint \in Nat /\ ~(hint > Base + Size) /\ Base + Size \in Nat
  BY PageSize DEF Base, Size
<1>1. v = CASE i = NULL ->
                 [h |-> h, base |-> base,
                  err |-> IF base + size > Base + Size THEN "EINVAL" ELSE ""]
            [] OTHER -> [h |-> MarkUsed(from.h, from.at), err |-> "", base |-> base]
  <2> DEFINE start == IF TRUE THEN Fixed(h, base, size) ELSE FirstFit(h, size)
  <2>1. v = CASE TRUE /\ mm_get_region(h, base) = NULL ->
                   [h |-> h, base |-> base,
                    err |-> IF base + size > Base + Size THEN "EINVAL" ELSE ""]
              [] ~TRUE /\ Candidates(h, size) = {} -> [h |-> h, base |-> base, err |-> "ENOMEM"]
              [] OTHER -> [h |-> MarkUsed(start.h, start.at), err |-> "",
                           base |-> IF TRUE THEN base ELSE start.h.regions[start.at].base]
    BY Zenon DEF AtAddress, mm_allocate_region_vm, Floor
  <2> HIDE DEF base, size, v
  <2> QED BY Zenon, <2>1
<1>2. base \in Nat /\ Aligned(base) /\ size \in Nat /\ Aligned(size) /\ 0 < size
  BY Zenon, <1>0, Request
<1>3. /\ base <= hint /\ hint < base + PAGE
      /\ Spanned(hint, len) = Within(base, base + size)
      /\ vmm_map_allocate(hint, len) = Within(base, base + RoundUp(len))
  BY Zenon, <1>0, RequestPages
<1>4. /\ Spanned(base, len) = Within(base, base + RoundUp(len))
      /\ vmm_map_allocate(base, len) = Within(base, base + RoundUp(len))
  BY Zenon, <1>2, AlignedPages
<1>5. i = mm_get_region(h, hint)
  BY Zenon, <1>0, SameRegion
<1>6. /\ hint >= Base /\ Spanned(hint, len) = vmm_map_allocate(hint, len)
      /\ i # NULL => Spanned(hint, len) \subseteq Spanned(h.regions[i].base, h.regions[i].size)
  BY Zenon, <1>5 DEF Contained
<1> HIDE DEF base, size, i, v, from
<1>7. i # NULL
  <2> SUFFICES ASSUME i = NULL PROVE FALSE
    OBVIOUS
  <2>1. ~(Base <= hint /\ hint < Base + Size)
    <3>1. hint \in Int
      BY <1>0
    <3> QED BY Zenon, <1>5, <3>1, RegionFound
  <2>2. hint = Base + Size
    <3>1. Base \in Nat
      BY PageSize DEF Base
    <3> QED BY <1>0, <1>6, <2>1, <3>1
  <2>3. Aligned(hint)
    <3>1. Base + Size = (1 + Pages) * PAGE /\ 1 + Pages \in Nat
      BY PageSize DEF Base, Size
    <3> QED BY Zenon, <2>2, <3>1 DEF Aligned
  <2>4. base = hint
    BY Zenon, <1>0, <2>3, AlignedPages DEF base
  <2>5. base + size > Base + Size
    BY <1>0, <1>2, <2>2, <2>4
  <2>6. v = [h |-> h, base |-> base, err |-> "EINVAL"]
    BY <1>1, <2>5
  <2>7. v.err = "EINVAL"
    BY <2>6
  <2> QED BY Zenon, <2>7 DEF v, Succeeds
<1>8. v = [h |-> MarkUsed(from.h, from.at), err |-> "", base |-> base]
  BY Zenon, <1>1, <1>7
<1>9. v.h = MarkUsed(from.h, from.at) /\ v.base = base
  BY Zenon, <1>8
<1>10. i \in 1..Len(h.regions) /\ Whole(h.regions[i])
  <2>1. i \in 1..Len(h.regions)
    <3>1. hint \in Int
      BY <1>0
    <3> QED BY Zenon, <1>5, <1>7, <3>1, RegionFound
  <2> QED BY Zenon, <2>1 DEF Tiling, Row
<1>11. h.regions[i] \in Regions /\ Aligned(h.regions[i].base) /\ Aligned(h.regions[i].size)
       /\ Spanned(h.regions[i].base, h.regions[i].size)
            = Within(h.regions[i].base, h.regions[i].base + h.regions[i].size)
  BY Zenon, <1>10, RegionPages DEF Whole
<1>12. h.regions[i].base \in Nat /\ h.regions[i].size \in Nat
  BY Zenon, <1>11, Types
<1>13. base + size <= h.regions[i].base + h.regions[i].size
  <2>1. Within(base, base + size) \subseteq Within(h.regions[i].base, h.regions[i].base + h.regions[i].size)
    BY Zenon, <1>3, <1>6, <1>7, <1>11
  <2> QED BY Zenon, <1>2, <1>11, <1>12, <2>1, WholeFit
<1>14. /\ h.regions[i].is_free => Placed(from, h, base, size)
       /\ ~h.regions[i].is_free => from.h = h /\ from.at = i
  <2>1. i = mm_get_region(h, base) /\ from = Fixed(h, base, size)
    BY Zenon DEF i, from
  <2>2. Answered(Fixed(h, base, size), h, i, base, size)
    BY Zenon, <1>2, <1>7, <1>13, <2>1, FixedDoes
  <2> QED BY Zenon, <2>1, <2>2 DEF Answered
<1>15. Alternating(v.h.regions) /\ UsedPages(v.h) = UsedPages(h) \cup Within(base, base + size)
  <2>1. CASE h.regions[i].is_free
    <3>1. Placed(from, h, base, size)
      BY Zenon, <1>14, <2>1
    <3>2. Extended(MarkUsed(from.h, from.at), h, base, base + size)
      BY Zenon, <3>1, PlacedExact
    <3> QED BY Zenon, <1>9, <3>2 DEF Extended
  <2>2. CASE ~h.regions[i].is_free
    <3> DEFINE w == MarkUsed(h, i)
    <3>1. /\ Tiling(w)
          /\ \A x \in Int : Used(w.regions, x) <=> Used(h.regions, x) \/ In(h.regions[i], x)
          /\ Near(h.regions, i) => Alternating(w.regions)
      BY Zenon, <1>10, MarkUsedDoes
    <3>2. v.h = w
      BY Zenon, <1>9, <1>14, <2>2
    <3> HIDE DEF w
    <3>3. Alternating(w.regions)
      BY Zenon, <3>1 DEF Alternating, Near
    <3>4. \A x \in Int : Used(w.regions, x) <=> Used(h.regions, x)
      BY Zenon, <1>10, <2>2, <3>1 DEF Used
    <3>5. \A k \in Int : k * PAGE \in Int
      BY PageSize
    <3>6. {k \in Int : Used(w.regions, k * PAGE)} = {k \in Int : Used(h.regions, k * PAGE)}
      BY Zenon, <3>4, <3>5
    <3>7. UsedPages(w) = UsedPages(h) /\ UsedPages(h) = {k \in Int : Used(h.regions, k * PAGE)}
      BY Zenon, <3>1, <3>6, UsedPagesAre
    <3>8. Within(base, base + size) \subseteq UsedPages(h)
      <4> SUFFICES ASSUME NEW k \in Within(base, base + size) PROVE k \in UsedPages(h)
        BY Zenon
      <4>1. k \in Within(h.regions[i].base, h.regions[i].base + h.regions[i].size)
        BY Zenon, <1>3, <1>6, <1>7, <1>11
      <4>2. k \in Int /\ In(h.regions[i], k * PAGE)
        BY Zenon, <4>1 DEF Within, In
      <4> QED BY Zenon, <1>10, <2>2, <3>7, <4>2 DEF Used
    <3>9. UsedPages(h) = UsedPages(h) \cup Within(base, base + size)
      BY Zenon, <3>8
    <3> QED BY Zenon, <3>2, <3>3, <3>7, <3>9
  <2> QED BY <2>1, <2>2
<1>16. Spanned(base, len) = Spanned(hint, len) /\ vmm_map_allocate(base, len) = Spanned(hint, len)
  BY Zenon, <1>3, <1>4, <1>6
<1>17. Adds(v, h, hint, len) /\ Adds(v, h, v.base, len)
  BY Zenon, <1>3, <1>6, <1>9, <1>15, <1>16 DEF Adds
<1> QED BY Zenon, <1>17 DEF v

\* A request that first fit answers.
LEMMA FirstFitExact ==
  ASSUME NEW h, Tiling(h), Alternating(h.regions), NEW len \in Nat, len > 0,
         Succeeds(Anywhere(h, len))
  PROVE  Adds(Anywhere(h, len), h, Anywhere(h, len).base, len)
<1> DEFINE size == RoundUp(len)
           f == FirstFit(h, size)
           v == Anywhere(h, len)
           base == f.h.regions[f.at].base
<1>1. 0 % PAGE = 0 /\ len + (0 % PAGE) = len
  <2>1. 0 \in Nat /\ Aligned(0)
    BY PageSize DEF Aligned
  <2>2. 0 % PAGE = 0
    BY Zenon, <2>1, AlignedPages
  <2> QED BY <2>2
<1>2. size \in Nat /\ Aligned(size) /\ 0 < size
  BY Rounds
<1>3. v = CASE Candidates(h, size) = {} -> [h |-> h, base |-> 0 - (0 % PAGE), err |-> "ENOMEM"]
            [] OTHER -> [h |-> MarkUsed(f.h, f.at), err |-> "", base |-> base]
  <2> DEFINE start == IF FALSE THEN Fixed(h, 0 - (0 % PAGE), RoundUp(len + (0 % PAGE)))
                      ELSE FirstFit(h, RoundUp(len + (0 % PAGE)))
             z == 0 - (0 % PAGE)
             n == RoundUp(len + (0 % PAGE))
  <2>1. v = CASE FALSE /\ mm_get_region(h, z) = NULL ->
                   [h |-> h, base |-> z, err |-> IF z + n > Base + Size THEN "EINVAL" ELSE ""]
              [] ~FALSE /\ Candidates(h, n) = {} -> [h |-> h, base |-> z, err |-> "ENOMEM"]
              [] OTHER -> [h |-> MarkUsed(start.h, start.at), err |-> "",
                           base |-> IF FALSE THEN z ELSE start.h.regions[start.at].base]
    BY Zenon DEF Anywhere, mm_allocate_region_vm
  <2>2. n = size /\ start = FirstFit(h, n)
    BY Zenon, <1>1
  <2> HIDE DEF z, n, v, size, start
  <2> QED BY Zenon, <2>1, <2>2 DEF z
<1> HIDE DEF size, f, v
<1>4. Candidates(h, size) # {}
  <2> SUFFICES ASSUME Candidates(h, size) = {} PROVE FALSE
    OBVIOUS
  <2>1. v = [h |-> h, base |-> 0 - (0 % PAGE), err |-> "ENOMEM"]
    BY <1>3
  <2>2. v.err = "ENOMEM"
    BY <2>1
  <2> QED BY Zenon, <2>2 DEF v, Succeeds
<1>5. Placed(f, h, base, size)
  BY Zenon, <1>2, <1>4, FirstFitDoes DEF f
<1>6. v = [h |-> MarkUsed(f.h, f.at), err |-> "", base |-> base]
  BY Zenon, <1>3, <1>4
<1>7. v.h = MarkUsed(f.h, f.at) /\ v.base = base
  BY Zenon, <1>6
<1>8. Tiling(f.h) /\ f.at \in 1..Len(f.h.regions)
  BY Zenon, <1>5 DEF Placed
<1>9. Whole(f.h.regions[f.at])
  BY Zenon, <1>8 DEF Tiling, Row
<1>10. base \in Nat /\ Aligned(base)
  BY Zenon, <1>9, Types DEF Whole
<1> HIDE DEF base
<1>11. /\ Alternating(v.h.regions)
       /\ UsedPages(v.h) = UsedPages(h) \cup Within(base, base + size)
  <2>1. Extended(MarkUsed(f.h, f.at), h, base, base + size)
    BY Zenon, <1>5, PlacedExact
  <2> QED BY Zenon, <1>7, <2>1 DEF Extended
<1>12. Spanned(base, len) = Within(base, base + size) /\ vmm_map_allocate(base, len) = Within(base, base + size)
  BY Zenon, <1>10, AlignedPages DEF size
<1>13. Adds(v, h, v.base, len)
  BY Zenon, <1>7, <1>11, <1>12 DEF Adds
<1> QED BY Zenon, <1>13 DEF v

-----------------------------------------------------------------------------
(* Room.                                                                   *)

\* In an alternating list a run of unused pages lies in one free region, and first fit
\* takes a region for it.
LEMMA Roomy ==
  ASSUME NEW h, Tiling(h), Alternating(h.regions), NEW n \in Nat, n > 0, NEW a \in 1..(Pages - n + 1),
         a..(a + n - 1) \cap UsedPages(h) = {}
  PROVE  Candidates(h, n * PAGE) # {}
<1> DEFINE r == h.regions
           x == a * PAGE
<1>1. /\ r \in Seq(Regions) /\ Row(r) /\ Len(r) \in Nat /\ h.last_free_region = 1
  BY DEF Tiling, Handlers
<1>2. a \in Int /\ Pages \in Int /\ 1 <= a /\ a + n <= Pages + 1
  BY PageSize
<1>3. Base + Size = (Pages + 1) * PAGE /\ Base = 1 * PAGE /\ x \in Int
  BY PageSize DEF Base, Size
<1>4. Base <= x /\ x < Base + Size
  <2>1. ~(a < 1) /\ a < Pages + 1 /\ 1 \in Int /\ Pages + 1 \in Int
    BY <1>2
  <2>2. ~(x < 1 * PAGE) /\ x < (Pages + 1) * PAGE
    BY Zenon, <1>2, <2>1, Order
  <2>3. 1 * PAGE \in Int
    BY PageSize
  <2> QED BY <1>3, <2>2, <2>3
<1>5. PICK i \in 1..Len(r) : In(r[i], x)
  BY Zenon, <1>1, <1>3, <1>4, Covers
<1>6. UsedPages(h) = {k \in Int : Used(r, k * PAGE)}
  BY Zenon, UsedPagesAre
<1>7. \A j \in 1..Len(r) : Whole(r[j])
  BY Zenon, <1>1 DEF Row
<1>8. r[i] \in Regions /\ Aligned(r[i].base) /\ Aligned(r[i].size)
  BY Zenon, <1>5, <1>7 DEF Whole
<1>9. r[i].base \in Nat /\ r[i].size \in Nat
  BY Zenon, <1>8, Types
<1>10. PICK c \in Nat : r[i].base + r[i].size = c * PAGE
  BY ZenonT(30), <1>8, <1>9, Sums DEF Aligned
<1>11. r[i].is_free
  <2>1. a \in a..(a + n - 1)
    BY <1>2
  <2>2. ~Used(r, a * PAGE)
    BY Zenon, <1>2, <1>6, <2>1
  <2> QED BY Zenon, <1>5, <2>2 DEF Used
<1>12. a < c
  <2>1. a * PAGE < c * PAGE /\ c \in Int
    BY <1>5, <1>10 DEF In
  <2> QED BY Zenon, <1>2, <2>1, Order
<1>13. a + n <= c
  <2> SUFFICES ASSUME c < a + n PROVE FALSE
    BY <1>2
  <2>1. CASE i = Len(r)
    <3>1. c * PAGE = (Pages + 1) * PAGE
      BY Zenon, <1>1, <1>3, <1>10, <2>1 DEF Row
    <3>2. c \in Int /\ Pages + 1 \in Int
      BY <1>2
    <3>3. c = Pages + 1
      BY Zenon, <3>1, <3>2, Order
    <3> QED BY <1>2, <3>3
  <2>2. CASE i # Len(r)
    <3>1. i \in 1..(Len(r) - 1) /\ i + 1 \in 1..Len(r)
      BY <1>1, <1>5, <2>2
    <3>2. r[i + 1].base = c * PAGE /\ ~r[i + 1].is_free
      BY Zenon, <1>1, <1>10, <1>11, <3>1 DEF Row, Alternating, Differs
    <3>3. r[i + 1] \in Regions /\ r[i + 1].size > 0
      BY Zenon, <1>7, <3>1 DEF Whole
    <3>4. r[i + 1].size \in Nat /\ c * PAGE \in Int
      BY SMTT(30), <3>3, Types, PageSize
    <3>5. In(r[i + 1], c * PAGE)
      BY SMTT(30), <3>2, <3>3, <3>4 DEF In
    <3>6. c \in Int /\ c \in a..(a + n - 1)
      BY <1>2, <1>12
    <3>7. Used(r, c * PAGE)
      BY Zenon, <3>1, <3>2, <3>5 DEF Used
    <3> QED BY Zenon, <1>6, <3>6, <3>7
  <2> QED BY <2>1, <2>2
<1>14. r[i].size >= n * PAGE
  <2>1. r[i].base <= a * PAGE /\ n * PAGE \in Int /\ a * PAGE \in Int /\ c * PAGE \in Int
    BY <1>2, <1>5, PageSize DEF In
  <2>2. (a + n) * PAGE = a * PAGE + n * PAGE
    BY <1>2, PageSize
  <2>3. ~(c < a + n) /\ c \in Int /\ a + n \in Int
    BY <1>2, <1>13
  <2>4. ~(c * PAGE < (a + n) * PAGE)
    BY Zenon, <2>3, Order
  <2> QED BY SMTT(30), <1>9, <1>10, <2>1, <2>2, <2>4
<1>15. i \in Candidates(h, n * PAGE)
  BY Zenon, <1>1, <1>5, <1>11, <1>14 DEF Candidates
<1> QED BY Zenon, <1>15

-----------------------------------------------------------------------------
(* The steps.                                                              *)

Phases == {"none", "load", "run"}

\* Reserving and mapping keep the invariant.
LEMMA GrantKeeps ==
  ASSUME MmInv, NEW p \in Procs, NEW v, Tiling(v.h), NEW address \in Nat, NEW len \in Nat, len > 0,
         Grant(p, v, address, len), phase' \in [Procs -> Phases], wild' \in [Procs -> Nat],
         \A q \in Procs : wild'[q] = 0 => wild[q] = 0,
         wild'[p] = 0 => Adds(v, mm[p], address, len)
  PROVE  MmInv'
<1> DEFINE S == Spanned(address, len)
           M == vmm_map_allocate(address, len)
<1>1. /\ mm \in [Procs -> Handlers] /\ mapped \in [Procs -> SUBSET Int] /\ granted \in [Procs -> SUBSET Int]
      /\ \A q \in Procs : Tiling(mm[q])
      /\ \A q \in Procs : wild[q] = 0 => Exact(mm[q], granted[q], mapped[q])
  BY Zenon DEF MmInv
<1>2. v.h \in Handlers
  BY Zenon DEF Tiling
<1>3. S \in SUBSET Int /\ M \in SUBSET Int
  <2>1. \A a, b : Within(a, b) \in SUBSET Int
    BY Zenon DEF Within
  <2>2. /\ S = Within(Floor(address), Floor(address) + RoundUp(len + (address % PAGE)))
        /\ M = Within(Floor(address), Floor(address) + RoundUp(len))
    BY Zenon, RequestPages
  <2> HIDE DEF S, M
  <2> QED BY Zenon, <2>1, <2>2
<1>4. /\ mm' = [mm EXCEPT ![p] = v.h]
      /\ mapped' = [mapped EXCEPT ![p] = mapped[p] \cup M]
      /\ granted' = [granted EXCEPT ![p] = granted[p] \cup S]
  BY DEF Grant
<1> HIDE DEF S, M
<1>5. /\ mm' \in [Procs -> Handlers] /\ mm'[p] = v.h
      /\ \A q \in Procs : q # p => mm'[q] = mm[q]
  BY <1>1, <1>2, <1>4
<1>6. /\ mapped' \in [Procs -> SUBSET Int] /\ mapped'[p] = mapped[p] \cup M
      /\ \A q \in Procs : q # p => mapped'[q] = mapped[q]
  BY Zenon, <1>1, <1>3, <1>4
<1>7. /\ granted' \in [Procs -> SUBSET Int] /\ granted'[p] = granted[p] \cup S
      /\ \A q \in Procs : q # p => granted'[q] = granted[q]
  BY Zenon, <1>1, <1>3, <1>4
<1>8. \A q \in Procs : Tiling(mm'[q])
  BY Zenon, <1>1, <1>5
<1>9. ASSUME NEW q \in Procs, wild'[q] = 0 PROVE Exact(mm'[q], granted'[q], mapped'[q])
  <2>1. Exact(mm[q], granted[q], mapped[q])
    BY Zenon, <1>1, <1>9
  <2>2. CASE q # p
    BY Zenon, <1>5, <1>6, <1>7, <2>1, <2>2
  <2>3. CASE q = p
    <3>1. Alternating(v.h.regions) /\ UsedPages(v.h) = UsedPages(mm[p]) \cup S /\ S = M
      BY Zenon, <1>9, <2>3 DEF Adds, S, M
    <3>2. UsedPages(mm[p]) = granted[p] /\ granted[p] \subseteq mapped[p]
      BY Zenon, <2>1, <2>3 DEF Exact
    <3>3. granted[p] \cup S \subseteq mapped[p] \cup M
      BY Zenon, <3>1, <3>2
    <3> QED BY Zenon, <1>5, <1>6, <1>7, <2>3, <3>1, <3>2, <3>3 DEF Exact
  <2> QED BY <2>2, <2>3
<1> QED BY Zenon, <1>5, <1>6, <1>7, <1>8, <1>9 DEF MmInv, Phases

\* What counts a request that is not contained.
LEMMA CountKeeps ==
  ASSUME MmInv, NEW p \in Procs, NEW base, NEW len, Count(p, base, len)
  PROVE  /\ wild' \in [Procs -> Nat] /\ \A q \in Procs : wild'[q] = 0 => wild[q] = 0
         /\ wild'[p] = 0 => Contained(mm[p], base, len)
<1>1. wild \in [Procs -> Nat]
  BY Zenon DEF MmInv
<1>2. CASE Contained(mm[p], base, len)
  BY Zenon, <1>1, <1>2 DEF Count
<1>3. CASE ~Contained(mm[p], base, len)
  <2>1. wild' = [wild EXCEPT ![p] = wild[p] + 1]
    BY <1>3 DEF Count
  <2>2. wild[p] \in Nat
    BY <1>1
  <2>3. wild[p] + 1 \in Nat /\ wild[p] + 1 # 0
    BY <2>2
  <2> QED BY <1>1, <2>1, <2>3
<1> QED BY <1>2, <1>3

\* The addresses and lengths a request may have.
LEMMA Numbers ==
  \A x \in 0..(Base + Size), n \in 1..MaxSize : x \in Nat /\ n \in Nat /\ n > 0
<1>1. Base + Size \in Nat
  BY PageSize DEF Base, Size
<1> QED BY <1>1, PageSize

\* The mmap system call.
LEMMA MmapSteps ==
  ASSUME MmInv, NEW p \in Procs, NEW hint \in 0..(Base + Size), NEW len \in 1..MaxSize,
         NEW is_fixed \in BOOLEAN, syscall_handler_mmap(p, hint, len, is_fixed)
  PROVE  MmInv' \/ UNCHANGED vars
<1> DEFINE v == mm_allocate_region_vm(mm[p], hint, len, is_fixed)
<1>1. hint \in Nat /\ len \in Nat /\ len > 0
  BY Zenon, Numbers
<1>2. Tiling(mm[p]) /\ phase \in [Procs -> Phases] /\ wild \in [Procs -> Nat]
      /\ (wild[p] = 0 => Alternating(mm[p].regions))
  BY Zenon DEF MmInv, Exact, Phases
<1>3. Tiling(v.h) /\ v.base \in Nat
  BY Zenon, <1>1, <1>2, AllocateTiles
<1>4. \/ UNCHANGED vars
      \/ /\ Succeeds(v) /\ Grant(p, v, v.base, len) /\ phase' = phase
         /\ is_fixed => Count(p, hint, len)
         /\ ~is_fixed => wild' = wild /\ hint = 0
  BY Zenon DEF syscall_handler_mmap, Succeeds
<1>5. CASE /\ Succeeds(v) /\ Grant(p, v, v.base, len) /\ phase' = phase
           /\ is_fixed => Count(p, hint, len)
           /\ ~is_fixed => wild' = wild /\ hint = 0
  <2>1. CASE is_fixed = TRUE
    <3>1. v = AtAddress(mm[p], hint, len)
      BY Zenon, <2>1 DEF AtAddress
    <3>2. /\ wild' \in [Procs -> Nat] /\ \A q \in Procs : wild'[q] = 0 => wild[q] = 0
          /\ wild'[p] = 0 => Contained(mm[p], hint, len)
      BY Zenon, <1>5, <2>1, CountKeeps
    <3> HIDE DEF v
    <3>3. wild'[p] = 0 => Adds(v, mm[p], v.base, len)
      BY Zenon, <1>1, <1>2, <1>5, <3>1, <3>2, FixedExact
    <3>4. phase' \in [Procs -> Phases]
      BY Zenon, <1>2, <1>5
    <3> QED BY Zenon, <1>1, <1>3, <1>5, <3>2, <3>3, <3>4, GrantKeeps
  <2>2. CASE is_fixed = FALSE
    <3>1. v = Anywhere(mm[p], len) /\ wild' = wild
      BY Zenon, <1>5, <2>2 DEF Anywhere
    <3> HIDE DEF v
    <3>2. wild'[p] = 0 => Adds(v, mm[p], v.base, len)
      BY Zenon, <1>1, <1>2, <1>5, <3>1, FirstFitExact
    <3>3. phase' \in [Procs -> Phases] /\ wild' \in [Procs -> Nat]
      BY Zenon, <1>2, <1>5, <3>1
    <3> QED BY Zenon, <1>1, <1>3, <1>5, <3>1, <3>2, <3>3, GrantKeeps
  <2> QED BY Zenon, <2>1, <2>2
<1> QED BY Zenon, <1>4, <1>5

\* One segment of the loader.
LEMMA SegmentSteps ==
  ASSUME MmInv, NEW p \in Procs, NEW address \in 0..(Base + Size), NEW len \in 1..MaxSize,
         load_elf_exec_segments(p, address, len)
  PROVE  MmInv' \/ UNCHANGED <<mm, mapped, phase, granted, wild>>
<1> DEFINE v == AtAddress(mm[p], address, len)
<1>1. address \in Nat /\ len \in Nat /\ len > 0
  BY Zenon, Numbers
<1>2. Tiling(mm[p]) /\ phase \in [Procs -> Phases] /\ (wild[p] = 0 => Alternating(mm[p].regions))
  BY Zenon DEF MmInv, Exact, Phases
<1>3. Tiling(v.h)
  <2>1. TRUE \in BOOLEAN
    OBVIOUS
  <2> QED BY Zenon, <1>1, <1>2, <2>1, AllocateTiles DEF AtAddress
<1>4. \/ UNCHANGED <<mm, mapped, phase, granted, wild>>
      \/ Succeeds(v) /\ Grant(p, v, address, len) /\ Count(p, address, len) /\ phase' = phase
  BY Zenon DEF load_elf_exec_segments, Succeeds, AtAddress
<1> HIDE DEF v
<1>5. CASE Succeeds(v) /\ Grant(p, v, address, len) /\ Count(p, address, len) /\ phase' = phase
  <2>1. /\ wild' \in [Procs -> Nat] /\ \A q \in Procs : wild'[q] = 0 => wild[q] = 0
        /\ wild'[p] = 0 => Contained(mm[p], address, len)
    BY Zenon, <1>5, CountKeeps
  <2>2. wild'[p] = 0 => Adds(v, mm[p], address, len)
    BY Zenon, <1>1, <1>2, <1>5, <2>1, FixedExact DEF v
  <2>3. phase' \in [Procs -> Phases]
    BY Zenon, <1>2, <1>5
  <2> QED BY Zenon, <1>1, <1>3, <1>5, <2>1, <2>2, <2>3, GrantKeeps
<1> QED BY Zenon, <1>4, <1>5

\* The stack, and the end of the load.
LEMMA StackSteps ==
  ASSUME MmInv, NEW p \in Procs, NEW len \in 1..MaxSize, load_elf_exec_with_file(p, len)
  PROVE  MmInv' \/ UNCHANGED <<mm, mapped, phase, granted, wild>>
<1> DEFINE v == Anywhere(mm[p], len)
<1>1. len \in Nat /\ len > 0 /\ 0 \in Nat
  BY PageSize
<1>2. Tiling(mm[p]) /\ phase \in [Procs -> Phases] /\ wild \in [Procs -> Nat]
      /\ (wild[p] = 0 => Alternating(mm[p].regions))
  BY Zenon DEF MmInv, Exact, Phases
<1>3. Tiling(v.h) /\ v.base \in Nat
  <2>1. FALSE \in BOOLEAN
    OBVIOUS
  <2> QED BY Zenon, <1>1, <1>2, <2>1, AllocateTiles DEF Anywhere
<1>4. \/ UNCHANGED <<mm, mapped, phase, granted, wild>>
      \/ /\ Succeeds(v) /\ Grant(p, v, v.base, len)
         /\ phase' = [phase EXCEPT ![p] = "run"] /\ wild' = wild
  BY Zenon DEF load_elf_exec_with_file, Succeeds, Anywhere
<1> HIDE DEF v
<1>5. CASE /\ Succeeds(v) /\ Grant(p, v, v.base, len)
           /\ phase' = [phase EXCEPT ![p] = "run"] /\ wild' = wild
  <2>1. wild' \in [Procs -> Nat] /\ \A q \in Procs : wild'[q] = 0 => wild[q] = 0
    BY Zenon, <1>2, <1>5
  <2>2. wild'[p] = 0 => Adds(v, mm[p], v.base, len)
    BY Zenon, <1>1, <1>2, <1>5, FirstFitExact DEF v
  <2>3. phase' \in [Procs -> Phases]
    <3>1. phase' = [phase EXCEPT ![p] = "run"]
      BY Zenon, <1>5
    <3> QED BY <1>2, <3>1 DEF Phases
  <2> QED BY Zenon, <1>1, <1>3, <1>5, <2>1, <2>2, <2>3, GrantKeeps
<1> QED BY Zenon, <1>4, <1>5

\* A new address space: one free region.
LEMMA FreshSpace ==
  /\ Tiling(mm_create_handler) /\ Alternating(mm_create_handler.regions)
  /\ UsedPages(mm_create_handler) = {}
<1> DEFINE x == [base |-> Base, size |-> Size, block_count |-> RoundUp(Size) \div PAGE, is_free |-> TRUE]
           h == mm_create_handler
           r == <<x>>
<1>1. h = [regions |-> r, last_free_region |-> 1]
  BY Zenon DEF mm_create_handler
<1>2. /\ Base \in Nat /\ Size \in Nat /\ Size > 0 /\ Aligned(Base) /\ Aligned(Size)
  <2>1. Base = 1 * PAGE /\ Size = Pages * PAGE /\ Pages >= 1
    BY PageSize DEF Base, Size
  <2>2. Base \in Nat /\ Size \in Nat /\ Size > 0
    BY <2>1, PageSize
  <2> QED BY <2>1, <2>2, PageSize DEF Aligned
<1>3. Blocks(Size) \in Nat
  BY Zenon, <1>2, Sums
<1>4. /\ x.base = Base /\ x.size = Size /\ x.block_count = Blocks(Size) /\ x.is_free = TRUE
  BY DEF Blocks
<1>5. x \in Regions
  BY <1>2, <1>3 DEF Regions, Blocks
<1> HIDE DEF x
<1>6. r \in Seq(Regions) /\ Len(r) = 1 /\ r[1] = x
  BY <1>5
<1> HIDE DEF r, h
<1>7. h.regions = r /\ h \in Handlers
  BY <1>1, <1>6 DEF Handlers
<1>8. Whole(x)
  BY Zenon, <1>2, <1>4, <1>5 DEF Whole
<1>9. Row(r)
  <2>1. \A i \in 1..Len(r) : i = 1
    BY <1>6
  <2>2. 1..(Len(r) - 1) = {}
    BY <1>6
  <2>3. Len(r) > 0
    BY <1>6
  <2> QED BY Zenon, <1>4, <1>6, <1>8, <2>1, <2>2, <2>3 DEF Row
<1>10. Alternating(r)
  BY <1>6 DEF Alternating
<1>11. UsedPages(h) = {}
  <2>1. {j \in 1..Len(h.regions) : ~h.regions[j].is_free} = {}
    <3>1. \A j \in 1..Len(r) : j = 1
      BY <1>6
    <3> QED BY Zenon, <1>4, <1>6, <1>7, <3>1
  <2> QED BY Zenon, <2>1 DEF UsedPages
<1> QED BY Zenon, <1>7, <1>9, <1>10, <1>11 DEF Tiling, h

\* scheduler_execve.
LEMMA ExecveSteps ==
  ASSUME MmInv, NEW p \in Procs, scheduler_execve(p)
  PROVE  MmInv'
<1>1. /\ mm \in [Procs -> Handlers] /\ mapped \in [Procs -> SUBSET Int] /\ granted \in [Procs -> SUBSET Int]
      /\ phase \in [Procs -> Phases] /\ wild \in [Procs -> Nat]
      /\ \A q \in Procs : Tiling(mm[q])
      /\ \A q \in Procs : wild[q] = 0 => Exact(mm[q], granted[q], mapped[q])
  BY Zenon DEF MmInv, Phases
<1> DEFINE h == mm_create_handler
<1>2. h \in Handlers /\ Tiling(h) /\ Exact(h, {}, {})
  BY Zenon, FreshSpace DEF Tiling, Exact
<1>3. /\ mm' = [mm EXCEPT ![p] = h] /\ mapped' = [mapped EXCEPT ![p] = {}]
      /\ granted' = [granted EXCEPT ![p] = {}] /\ phase' = [phase EXCEPT ![p] = "load"]
      /\ wild' = [wild EXCEPT ![p] = 0]
  BY Zenon DEF scheduler_execve
<1> HIDE DEF h
<1>4. mm' \in [Procs -> Handlers] /\ mm'[p] = h /\ \A q \in Procs : q # p => mm'[q] = mm[q]
  BY <1>1, <1>2, <1>3
<1>5. mapped' \in [Procs -> SUBSET Int] /\ mapped'[p] = {} /\ \A q \in Procs : q # p => mapped'[q] = mapped[q]
  BY <1>1, <1>3
<1>6. granted' \in [Procs -> SUBSET Int] /\ granted'[p] = {}
      /\ \A q \in Procs : q # p => granted'[q] = granted[q]
  BY <1>1, <1>3
<1>7. phase' \in [Procs -> Phases]
  BY <1>1, <1>3 DEF Phases
<1>8. wild' \in [Procs -> Nat] /\ \A q \in Procs : q # p => wild'[q] = wild[q]
  BY <1>1, <1>3
<1>9. \A q \in Procs : Tiling(mm'[q])
  BY Zenon, <1>1, <1>2, <1>4
<1>10. \A q \in Procs : wild'[q] = 0 => Exact(mm'[q], granted'[q], mapped'[q])
  BY Zenon, <1>1, <1>2, <1>4, <1>5, <1>6, <1>8
<1> QED BY Zenon, <1>4, <1>5, <1>6, <1>7, <1>8, <1>9, <1>10 DEF MmInv, Phases

\* mm_fork.
LEMMA ForkSteps ==
  ASSUME MmInv, NEW p \in Procs, NEW q \in Procs, mm_fork(p, q)
  PROVE  MmInv' \/ UNCHANGED <<mm, mapped, phase, granted, wild>>
<1>1. /\ mm \in [Procs -> Handlers] /\ mapped \in [Procs -> SUBSET Int] /\ granted \in [Procs -> SUBSET Int]
      /\ phase \in [Procs -> Phases] /\ wild \in [Procs -> Nat]
      /\ \A z \in Procs : Tiling(mm[z])
      /\ \A z \in Procs : wild[z] = 0 => Exact(mm[z], granted[z], mapped[z])
  BY Zenon DEF MmInv, Phases
<1> DEFINE used == UsedPages(mm[p])
<1>2. CASE used \subseteq mapped[p]
  <2>1. /\ mm' = [mm EXCEPT ![q] = mm[p]] /\ mapped' = [mapped EXCEPT ![q] = used]
        /\ granted' = [granted EXCEPT ![q] = granted[p]] /\ phase' = [phase EXCEPT ![q] = "run"]
        /\ wild' = [wild EXCEPT ![q] = wild[p]]
    BY Zenon, <1>2 DEF mm_fork
  <2>2. used \in SUBSET Int
    BY Zenon, <1>1, UsedPagesAre
  <2>3. wild[p] = 0 => Exact(mm[p], granted[p], used)
    BY Zenon, <1>1 DEF Exact
  <2> HIDE DEF used
  <2>4. mm' \in [Procs -> Handlers] /\ mm'[q] = mm[p] /\ \A z \in Procs : z # q => mm'[z] = mm[z]
    BY <1>1, <2>1
  <2>5. mapped' \in [Procs -> SUBSET Int] /\ mapped'[q] = used
        /\ \A z \in Procs : z # q => mapped'[z] = mapped[z]
    BY <1>1, <2>1, <2>2
  <2>6. granted' \in [Procs -> SUBSET Int] /\ granted'[q] = granted[p]
        /\ \A z \in Procs : z # q => granted'[z] = granted[z]
    BY <1>1, <2>1
  <2>7. phase' \in [Procs -> Phases]
    BY <1>1, <2>1 DEF Phases
  <2>8. wild' \in [Procs -> Nat] /\ wild'[q] = wild[p] /\ \A z \in Procs : z # q => wild'[z] = wild[z]
    BY <1>1, <2>1
  <2>9. \A z \in Procs : Tiling(mm'[z])
    BY Zenon, <1>1, <2>4
  <2>10. \A z \in Procs : wild'[z] = 0 => Exact(mm'[z], granted'[z], mapped'[z])
    BY Zenon, <1>1, <2>3, <2>4, <2>5, <2>6, <2>8
  <2> QED BY Zenon, <2>4, <2>5, <2>6, <2>7, <2>8, <2>9, <2>10 DEF MmInv, Phases
<1>3. CASE ~(used \subseteq mapped[p])
  BY Zenon, <1>3 DEF mm_fork
<1> QED BY <1>2, <1>3

\* The address spaces at boot.
LEMMA MmInitially == Init => MmInv
<1> SUFFICES ASSUME Init PROVE MmInv
  OBVIOUS
<1>1. mm_create_handler \in Handlers /\ Tiling(mm_create_handler) /\ Exact(mm_create_handler, {}, {})
  BY Zenon, FreshSpace DEF Tiling, Exact
<1> DEFINE h == mm_create_handler
<1> HIDE DEF h
<1>2. mm = [p \in Procs |-> h] /\ mapped = [p \in Procs |-> {}] /\ granted = [p \in Procs |-> {}]
      /\ wild = [p \in Procs |-> 0] /\ phase = [p \in Procs |-> IF p = First THEN "load" ELSE "none"]
  BY Zenon DEF Init, h
<1>3. mm \in [Procs -> Handlers] /\ \A p \in Procs : mm[p] = h
  BY <1>1, <1>2 DEF h
<1>4. /\ mapped \in [Procs -> SUBSET Int] /\ granted \in [Procs -> SUBSET Int] /\ wild \in [Procs -> Nat]
      /\ phase \in [Procs -> {"none", "load", "run"}]
      /\ \A p \in Procs : mapped[p] = {} /\ granted[p] = {}
  BY <1>2
<1> QED BY Zenon, <1>1, <1>3, <1>4 DEF MmInv, h

\* Every step keeps the invariant.
LEMMA MmStep == MmInv /\ [Next]_vars => MmInv'
<1> SUFFICES ASSUME MmInv, [Next]_vars PROVE MmInv'
  OBVIOUS
<1>1. ASSUME UNCHANGED <<mm, mapped, phase, granted, wild>> PROVE MmInv'
  <2>1. mm' = mm /\ mapped' = mapped /\ phase' = phase /\ granted' = granted /\ wild' = wild
    BY Zenon, <1>1
  <2> QED BY Zenon, <2>1 DEF MmInv
<1>2. UNCHANGED vars => UNCHANGED <<mm, mapped, phase, granted, wild>>
  BY DEF vars
<1>3. ASSUME NEW p \in Procs, NEW hint \in 0..(Base + Size), NEW len \in 1..MaxSize,
             NEW fixed \in BOOLEAN, syscall_handler_mmap(p, hint, len, fixed)
      PROVE  MmInv'
  BY Zenon, <1>1, <1>2, <1>3, MmapSteps
<1>4. ASSUME NEW p \in Procs, NEW address \in 0..(Base + Size), NEW len \in 1..MaxSize,
             load_elf_exec_segments(p, address, len)
      PROVE  MmInv'
  BY Zenon, <1>1, <1>4, SegmentSteps
<1>5. ASSUME NEW p \in Procs, NEW len \in 1..MaxSize, load_elf_exec_with_file(p, len)
      PROVE  MmInv'
  BY Zenon, <1>1, <1>5, StackSteps
<1>6. ASSUME NEW p \in Procs, scheduler_execve(p) PROVE MmInv'
  BY Zenon, <1>6, ExecveSteps
<1>7. ASSUME NEW p \in Procs, NEW q \in Procs, mm_fork(p, q) PROVE MmInv'
  BY Zenon, <1>1, <1>7, ForkSteps
<1> QED BY Zenon, <1>1, <1>2, <1>3, <1>4, <1>5, <1>6, <1>7 DEF Next

-----------------------------------------------------------------------------
\* Address spaces stay sound through mmap, the loader, execve and fork: MmInv always holds.
THEOREM MmSound == Spec => []MmInv
<1> QED BY MmInitially, MmStep, PTL DEF Spec

\* Whatever a process asks for, its regions tile user space (mm.c: split_region,
\* merge_region and mm_allocate_region_vm).
THEOREM MmTiled == Spec => []Tiled
<1>1. MmInv => Tiled
  <2> SUFFICES ASSUME MmInv, NEW p \in Procs
               PROVE  LET r == mm[p].regions
                      IN  /\ r[1].base = Base /\ r[Len(r)].base + r[Len(r)].size = Base + Size
                          /\ \A i \in 1..(Len(r) - 1) : r[i + 1].base = r[i].base + r[i].size
                          /\ \A i \in 1..Len(r) : r[i].size = r[i].block_count * PAGE /\ r[i].size > 0
                          /\ mm[p].last_free_region = 1
    BY Zenon DEF Tiled
  <2> DEFINE h == mm[p]
  <2>1. Tiling(h)
    BY Zenon DEF MmInv
  <2> HIDE DEF h
  <2>2. Row(h.regions) /\ h.last_free_region = 1
    BY <2>1 DEF Tiling, Handlers
  <2>3. ASSUME NEW i \in 1..Len(h.regions)
        PROVE  h.regions[i].size = h.regions[i].block_count * PAGE /\ h.regions[i].size > 0
    <3>1. /\ h.regions[i] \in Regions /\ Aligned(h.regions[i].size) /\ h.regions[i].size > 0
          /\ h.regions[i].block_count = Blocks(h.regions[i].size)
      BY Zenon, <2>2 DEF Row, Whole
    <3>2. h.regions[i].size \in Nat
      BY Zenon, <3>1, Types
    <3>3. h.regions[i].size = Blocks(h.regions[i].size) * PAGE
      BY Zenon, <3>1, <3>2, Sums
    <3> QED BY Zenon, <3>1, <3>3
  <2> QED BY Zenon, <2>2, <2>3 DEF Row, h
<1> QED BY <1>1, MmSound, PTL

\* For callers that keep fixed requests inside one region, the used regions are exactly
\* the pages granted (mm_allocate_region_vm).
THEOREM MmExact == Spec => []UsedExact
<1>1. MmInv => UsedExact
  BY Zenon DEF MmInv, UsedExact, Tame, Exact
<1> QED BY <1>1, MmSound, PTL

\* For the same callers every used page is mapped: the copy loop of mm_fork does not fault.
THEOREM MmBacked == Spec => []Backed
<1>1. MmInv => Backed
  BY Zenon DEF MmInv, Backed, Tame, Exact
<1> QED BY <1>1, MmSound, PTL

\* For the same callers, where a run of pages was never given out, first fit finds room.
THEOREM MmRoom == Spec => []RoomIsFound
<1>1. MmInv => RoomIsFound
  <2> SUFFICES ASSUME MmInv, NEW p \in Tame, NEW n \in 1..(RoundUp(MaxSize) \div PAGE),
                      NEW a \in 1..(Pages - n + 1), a..(a + n - 1) \cap granted[p] = {}
               PROVE  Candidates(mm[p], n * PAGE) # {}
    BY Zenon DEF RoomIsFound
  <2>1. Tiling(mm[p]) /\ Alternating(mm[p].regions) /\ UsedPages(mm[p]) = granted[p]
    BY Zenon DEF MmInv, Tame, Exact
  <2>2. n \in Nat /\ n > 0
    <3>1. RoundUp(MaxSize) \div PAGE \in Int
      <4>1. MaxSize + PAGE - 1 \in Int
        BY PageSize
      <4>2. (MaxSize + PAGE - 1) \div PAGE \in Int
        BY <4>1, Divides
      <4>3. RoundUp(MaxSize) \in Int
        BY <4>2, PageSize DEF RoundUp
      <4> QED BY <4>3, Divides
    <3> QED BY <3>1
  <2>3. a..(a + n - 1) \cap UsedPages(mm[p]) = {}
    BY Zenon, <2>1
  <2> QED BY Zenon, <2>1, <2>2, <2>3, Roomy
<1> QED BY <1>1, MmSound, PTL
=============================================================================
