------------------------------ MODULE HeapProofs ------------------------------
(***************************************************************************)
(* The kernel heap keeps its segment list and its callers' blocks sound,   *)
(* and implements Allocator, for every page and header size and every      *)
(* number of callers and calls: HeapInv is inductive.                      *)
(*                                                                         *)
(* Chain says of a map of headers f that following last from the heap's    *)
(* end upwards visits the segments in the order of their addresses, each   *)
(* ending before the next starts.  split_segment, the merges and           *)
(* expand_heap each take one such map to another (one lemma each); the     *)
(* actions choose among them.                                              *)
(***************************************************************************)
EXTENDS Heap, WellFoundedInduction, TLAPS

Headers == [is_free : BOOLEAN, length : Nat, next : Nat, last : Nat]

\* The neighbours of segment a, each pointing back at it; a ends at or before the one
\* above it, and no other header is in between.
Above(f, a) ==
  /\ f[a].last \in DOMAIN f /\ f[f[a].last].next = a
  /\ a + HDR + f[a].length <= f[a].last
  /\ \A b \in DOMAIN f : b <= a \/ f[a].last <= b
Below(f, a) == f[a].next \in DOMAIN f /\ f[f[a].next].last = a

Chain(f, end) ==
  /\ \A a \in DOMAIN f : /\ a \in Nat /\ a > 0 /\ f[a] \in Headers
                         /\ end <= a /\ a + HDR + f[a].length <= Top
  /\ main_segment \in DOMAIN f /\ end \in DOMAIN f
  /\ f[main_segment].last = NULL /\ ~f[main_segment].is_free
  /\ f[end].next = NULL
  /\ \A a \in DOMAIN f : a # main_segment => Above(f, a)
  /\ \A a \in DOMAIN f : a # end => Below(f, a)

\* No two neighbours are free.
Joined(f) ==
  \A a \in DOMAIN f : f[a].is_free /\ f[a].next # NULL => ~f[f[a].next].is_free

\* Every block is the whole data of a used segment, of a size that was asked for.
Holds(f, blocks) ==
  \A b \in blocks :
    /\ b \in [at : Nat, n : Sizes] /\ b.at - HDR \in DOMAIN f
    /\ ~f[b.at - HDR].is_free /\ f[b.at - HDR].length = b.n

\* A call that frees or reallocates works on a block in use, and no other call on it.
Claims ==
  /\ \A x \in Callers : op[x].at # NULL => \E b \in live : b.at = op[x].at
  /\ \A x, y \in Callers : x # y /\ op[x].at # NULL => op[x].at # op[y].at

CallsOK ==
  /\ pc \in [Callers -> {"idle", "acquire", "section"}]
  /\ op \in [Callers -> [what : {"none", "malloc", "realloc", "free"}, n : Nat, at : Nat]]
  /\ \A x \in Callers : /\ op[x].what \in {"malloc", "realloc"} => op[x].n \in Sizes
                        /\ op[x].what \in {"free", "realloc"} <=> op[x].at # NULL
                        /\ pc[x] = "idle" <=> op[x].what = "none"

\* The spinlock: the caller in its section, and nobody else, holds it.
Exclusive == \A x \in Callers : pc[x] = "section" <=> lock = x

HeapInv ==
  /\ Chain(seg, heap_end) /\ last_segment = heap_end
  /\ Joined(seg) /\ Holds(seg, live)
  /\ CallsOK /\ Claims /\ Exclusive

-----------------------------------------------------------------------------
(* The segment list.                                                       *)

\* The numbers of the heap.
LEMMA Numbers ==
  /\ HDR \in Nat /\ HDR > 0 /\ PAGE \in Nat /\ PAGE > 2 * HDR /\ Top \in Nat /\ Top > PAGE
  /\ main_segment \in Nat /\ main_segment + HDR = Top /\ main_segment > 0
  /\ \A n \in Sizes : n \in Nat /\ n > 0
BY HeapAssumption DEF main_segment

\* Where the neighbours of a segment are.
LEMMA Neighbours ==
  ASSUME NEW f, NEW end, Chain(f, end), NEW a \in DOMAIN f
  PROVE  /\ a \in Nat /\ a <= main_segment /\ f[a] \in Headers
         /\ a # main_segment => f[a].last \in DOMAIN f /\ a < f[a].last
         /\ a # end => f[a].next \in DOMAIN f /\ f[a].next < a /\ f[a].next # main_segment
                       /\ Above(f, f[a].next)
<1>1. a \in Nat /\ f[a] \in Headers /\ f[a].length \in Nat /\ a + HDR + f[a].length <= Top
  BY DEF Chain, Headers
<1>2. a <= main_segment
  BY <1>1, Numbers
<1>3. a # main_segment => f[a].last \in DOMAIN f /\ a < f[a].last
  BY <1>1, Numbers DEF Chain, Above
<1>4. a # end => f[a].next \in DOMAIN f /\ f[f[a].next].last = a
  BY DEF Chain, Below
<1>5. a # NULL
  BY DEF Chain, NULL
<1>6. ASSUME a # end
      PROVE  /\ f[a].next \in DOMAIN f /\ f[a].next < a /\ f[a].next # main_segment
             /\ Above(f, f[a].next)
  <2> DEFINE n == f[a].next
  <2>1. n \in DOMAIN f /\ f[n].last = a
    BY <1>4, <1>6
  <2> HIDE DEF n
  <2>2. n # main_segment
    BY <1>5, <2>1 DEF Chain
  <2>3. Above(f, n) /\ n \in Nat /\ f[n].length \in Nat
    BY <2>1, <2>2 DEF Chain, Headers
  <2>4. n < a
    BY <2>1, <2>3, <1>1, Numbers DEF Above
  <2> QED BY <2>1, <2>2, <2>3, <2>4 DEF n
<1> QED BY <1>1, <1>2, <1>3, <1>6

\* Headers are not at address 0, and a segment is not its own neighbour.
LEMMA Around ==
  ASSUME NEW f, NEW end, Chain(f, end), NEW a \in DOMAIN f
  PROVE  /\ a # NULL
         /\ a # main_segment => f[a].last \in DOMAIN f /\ f[a].last # a /\ f[a].last # NULL
         /\ a # end => f[a].next \in DOMAIN f /\ f[a].next # a /\ f[a].next # NULL
<1>1. \A b \in DOMAIN f : b \in Nat /\ b > 0
  BY Zenon DEF Chain
<1>2. /\ a # main_segment => f[a].last \in DOMAIN f /\ a < f[a].last
      /\ a # end => f[a].next \in DOMAIN f /\ f[a].next < a
  BY SMTT(30), Neighbours
<1> QED BY SMTT(30), <1>1, <1>2 DEF NULL

\* Segments do not overlap.
LEMMA Apart ==
  ASSUME NEW f, NEW end, Chain(f, end), NEW a \in DOMAIN f, NEW b \in DOMAIN f, a < b
  PROVE  a + HDR + f[a].length <= b
<1>1. a # main_segment /\ a \in Nat /\ b \in Nat /\ f[a].length \in Nat
  BY Neighbours, Numbers DEF Headers
<1>2. Above(f, a) /\ f[a].last \in Nat
  BY <1>1, Neighbours DEF Chain
<1> QED BY <1>1, <1>2, Numbers DEF Above

\* g is f with the use of segment a changed to v.
Flags(f, g, end, a, v) ==
  /\ Chain(g, end) /\ DOMAIN g = DOMAIN f /\ g[a].is_free = v
  /\ \A x \in DOMAIN f : /\ g[x].length = f[x].length /\ g[x].next = f[x].next
                         /\ g[x].last = f[x].last /\ (x # a => g[x] = f[x])

\* A flag changed: the list is as it was.
LEMMA Flagged ==
  ASSUME NEW f, NEW end, Chain(f, end), NEW a \in DOMAIN f, NEW v \in BOOLEAN,
         a = main_segment => ~v
  PROVE  Flags(f, [f EXCEPT ![a].is_free = v], end, a, v)
<1> DEFINE g == [f EXCEPT ![a].is_free = v]
<1>1. f[a] \in Headers
  BY DEF Chain
<1>2. /\ DOMAIN g = DOMAIN f /\ g[a] = [f[a] EXCEPT !.is_free = v]
      /\ \A x \in DOMAIN f : x # a => g[x] = f[x]
  OBVIOUS
<1>3. /\ g[a] \in Headers /\ g[a].is_free = v /\ g[a].length = f[a].length
      /\ g[a].next = f[a].next /\ g[a].last = f[a].last
  BY <1>1, <1>2 DEF Headers
<1> HIDE DEF g
<1>4. \A x \in DOMAIN f : /\ g[x].length = f[x].length /\ g[x].next = f[x].next
                          /\ g[x].last = f[x].last
  BY Zenon, <1>2, <1>3
<1>5. Chain(g, end)
  <2>1. \A x \in DOMAIN g : /\ x \in Nat /\ x > 0 /\ g[x] \in Headers
                            /\ end <= x /\ x + HDR + g[x].length <= Top
    BY <1>2, <1>3, <1>4 DEF Chain
  <2>2. ASSUME NEW x \in DOMAIN g, x # main_segment PROVE Above(g, x)
    <3>1. Above(f, x)
      BY <1>2, <2>2 DEF Chain
    <3> QED BY <1>2, <1>4, <2>2, <3>1 DEF Above
  <2>3. ASSUME NEW x \in DOMAIN g, x # end PROVE Below(g, x)
    <3>1. Below(f, x)
      BY <1>2, <2>3 DEF Chain
    <3> QED BY <1>2, <1>4, <2>3, <3>1 DEF Below
  <2>4. /\ main_segment \in DOMAIN g /\ end \in DOMAIN g /\ g[main_segment].last = NULL
        /\ ~g[main_segment].is_free /\ g[end].next = NULL
    BY Zenon, <1>2, <1>3, <1>4 DEF Chain
  <2> QED BY <2>1, <2>2, <2>3, <2>4 DEF Chain
<1> QED BY <1>2, <1>3, <1>4, <1>5 DEF Flags, g

\* g is f with the segment `gone' taken into the one below it.
Takes(f, g, end, gone, into) ==
  /\ Chain(g, end) /\ DOMAIN g = DOMAIN f \ {gone} /\ into \in DOMAIN g
  /\ \A x \in DOMAIN g : /\ g[x].is_free = f[x].is_free
                         /\ x # into => g[x].length = f[x].length
                         /\ g[x].next = IF x = f[gone].last THEN into ELSE f[x].next

\* merge_this_to_next: segment a becomes the upper part of the one below it.
LEMMA MergedNext ==
  ASSUME NEW f, NEW end, Chain(f, end), NEW a \in DOMAIN f, a # main_segment, a # end
  PROVE  Takes(f, merge_this_to_next(f, a), end, a, f[a].next)
<1> DEFINE n == f[a].next
           l == f[a].last
           g == merge_this_to_next(f, a)
<1>1. /\ n \in DOMAIN f /\ l \in DOMAIN f /\ a \in Nat /\ n \in Nat /\ l \in Nat
      /\ n < a /\ a < l /\ n # main_segment /\ f[n].last = a /\ f[l].next = a
      /\ Above(f, n) /\ Above(f, a)
  BY SMTT(30), Neighbours DEF Chain, Above, Below
<1>2. f[a] \in Headers /\ f[n] \in Headers /\ f[l] \in Headers
  BY <1>1 DEF Chain
<1>3. /\ DOMAIN g = DOMAIN f \ {a}
      /\ g[n] = [[f[n] EXCEPT !.length = @ + f[a].length + HDR] EXCEPT !.last = l]
      /\ g[l] = [f[l] EXCEPT !.next = n]
      /\ \A x \in DOMAIN g : x # n /\ x # l => g[x] = f[x]
  BY <1>1 DEF merge_this_to_next, Erase
<1>4. /\ g[n] \in Headers /\ g[n].is_free = f[n].is_free /\ g[n].next = f[n].next
      /\ g[n].last = l /\ g[n].length = f[n].length + f[a].length + HDR
      /\ g[l] \in Headers /\ g[l].is_free = f[l].is_free /\ g[l].next = n
      /\ g[l].last = f[l].last /\ g[l].length = f[l].length
  <2> HIDE DEF g, n, l
  <2>1. f[n].length + f[a].length + HDR \in Nat
    BY <1>2, Numbers DEF Headers
  <2>2. g[n] = [[f[n] EXCEPT !.length = f[n].length + f[a].length + HDR] EXCEPT !.last = l]
    BY <1>3
  <2>3. /\ g[n] \in Headers /\ g[n].is_free = f[n].is_free /\ g[n].next = f[n].next
        /\ g[n].last = l /\ g[n].length = f[n].length + f[a].length + HDR
    BY Zenon, <1>1, <1>2, <2>1, <2>2 DEF Headers
  <2>4. /\ g[l] \in Headers /\ g[l].is_free = f[l].is_free /\ g[l].next = n
        /\ g[l].last = f[l].last /\ g[l].length = f[l].length
    BY <1>1, <1>2, <1>3 DEF Headers
  <2> QED BY <2>3, <2>4
<1> HIDE DEF g, n, l
<1>5. \A x \in DOMAIN g : /\ g[x].is_free = f[x].is_free
                          /\ x # n => g[x].length = f[x].length /\ g[x].last = f[x].last
                          /\ g[x].next = IF x = l THEN n ELSE f[x].next
  BY Zenon, <1>1, <1>3, <1>4
<1>6. \A x \in DOMAIN g : /\ x \in Nat /\ x > 0 /\ g[x] \in Headers
                          /\ end <= x /\ x + HDR + g[x].length <= Top
  <2> TAKE x \in DOMAIN g
  <2>1. x \in DOMAIN f
    BY <1>3
  <2>2. CASE x = n
    <3>1. f[n].length \in Nat /\ f[a].length \in Nat
      BY <1>2 DEF Headers
    <3>2. n + HDR + f[n].length <= a /\ a + HDR + f[a].length <= Top /\ end <= n /\ n > 0
      BY <1>1 DEF Chain, Above, n
    <3> QED BY <1>1, <1>4, <2>2, <3>1, <3>2, Numbers
  <2>3. CASE x # n
    BY <1>3, <1>4, <1>5, <2>1, <2>3 DEF Chain
  <2> QED BY <2>2, <2>3
<1>7. ASSUME NEW x \in DOMAIN g, x # main_segment PROVE Above(g, x)
  <2>1. x \in DOMAIN f /\ x # a /\ Above(f, x)
    BY <1>3, <1>7 DEF Chain
  <2>2. CASE x = n
    <3>1. f[n].length \in Nat /\ f[a].length \in Nat
      BY <1>2 DEF Headers
    <3>2. n + HDR + f[n].length <= a /\ a + HDR + f[a].length <= l
      BY <1>1 DEF Above, l
    <3>3. n + HDR + g[n].length <= l
      BY <1>1, <1>4, <3>1, <3>2, Numbers
    <3>4. \A b \in DOMAIN g : b <= n \/ l <= b
      <4> TAKE b \in DOMAIN g
      <4>1. b \in DOMAIN f /\ b # a /\ b \in Nat
        BY <1>3, <1>6
      <4>2. (b <= n \/ a <= b) /\ (b <= a \/ l <= b)
        BY <1>1, <4>1 DEF Above, l
      <4> QED BY <1>1, <4>1, <4>2
    <3>5. g[n].last = l /\ l \in DOMAIN g /\ g[l].next = n
      <4>1. a # l
        BY <1>1
      <4> QED BY <1>1, <1>3, <1>4, <4>1
    <3> QED BY Zenon, <2>2, <3>3, <3>4, <3>5 DEF Above
  <2>3. CASE x # n
    <3>1. g[x].last = f[x].last /\ g[x].length = f[x].length
      BY <1>5, <2>3
    <3>2. f[x].last # a
      BY <1>1, <2>1, <2>3 DEF Above, n
    <3>3. g[f[x].last].next = x
      BY <1>1, <1>3, <1>5, <2>1, <3>2 DEF Above, l
    <3> QED BY <1>3, <2>1, <3>1, <3>2, <3>3 DEF Above
  <2> QED BY <2>2, <2>3
<1>8. ASSUME NEW x \in DOMAIN g, x # end PROVE Below(g, x)
  <2>1. x \in DOMAIN f /\ x # a /\ Below(f, x)
    BY <1>3, <1>8 DEF Chain
  <2>2. CASE x = l
    <3>1. n \in DOMAIN g /\ g[l].next = n /\ g[n].last = l
      BY <1>1, <1>3, <1>4
    <3> QED BY <2>2, <3>1 DEF Below
  <2>3. CASE x # l
    <3>1. f[x].next # a /\ f[x].next # n
      BY <1>1, <2>1, <2>3 DEF Below, l
    <3> QED BY <1>3, <1>5, <2>1, <2>3, <3>1 DEF Below
  <2> QED BY <2>2, <2>3
<1>9. /\ main_segment \in DOMAIN g /\ end \in DOMAIN g /\ g[main_segment].last = NULL
      /\ ~g[main_segment].is_free /\ g[end].next = NULL
  <2>1. end # l
    BY <1>1 DEF Chain
  <2> QED BY <1>1, <1>3, <1>5, <2>1 DEF Chain
<1>10. Chain(g, end)
  BY <1>6, <1>7, <1>8, <1>9 DEF Chain
<1>11. n \in DOMAIN g
  BY <1>1, <1>3
<1> QED BY <1>3, <1>5, <1>10, <1>11 DEF Takes, g, n, l

\* merge_last_to_this is the same merge, seen from the segment below.
LEMMA MergedLast ==
  ASSUME NEW f, NEW end, Chain(f, end), NEW a \in DOMAIN f, a # main_segment,
         f[a].last # main_segment
  PROVE  Takes(f, merge_last_to_this(f, a), end, f[a].last, a)
<1> DEFINE l == f[a].last
<1>1. l \in DOMAIN f /\ l # a /\ f[l].next = a
  BY Neighbours DEF Chain, Above
<1>2. l # end
  BY <1>1, Neighbours DEF Chain
<1>3. merge_last_to_this(f, a) = merge_this_to_next(f, l)
  BY <1>1 DEF merge_last_to_this, merge_this_to_next
<1> HIDE DEF l
<1>4. Takes(f, merge_this_to_next(f, l), end, l, f[l].next)
  <2>1. l # main_segment
    BY DEF l
  <2> QED BY <1>1, <1>2, <2>1, MergedNext
<1> QED BY <1>1, <1>3, <1>4 DEF l

\* g is f with a segment b of the given size cut off the upper end of segment a.
Cuts(f, g, end, a, b, size) ==
  /\ Chain(g, end) /\ DOMAIN g = DOMAIN f \cup {b} /\ b \notin DOMAIN f
  /\ b \in Nat /\ b # main_segment
  /\ g[b].length = size /\ g[b].next = a
  /\ \A x \in DOMAIN f : /\ g[x].is_free = f[x].is_free
                         /\ x # a => g[x].length = f[x].length
                         /\ g[x].next = IF x = f[a].last THEN b ELSE f[x].next

\* split_segment: the new segment is the upper end of a, which keeps the rest.
LEMMA Split ==
  ASSUME NEW f, NEW end, Chain(f, end), NEW a \in DOMAIN f, a # main_segment,
         NEW size \in Nat, Splits(f, a, size)
  PROVE  Cuts(f, split_segment(f, a, size), end, a, SplitAt(f, a, size), size)
<1> DEFINE b == SplitAt(f, a, size)
           l == f[a].last
           g == split_segment(f, a, size)
           new == Header(TRUE, size, a, l)
<1>1. /\ l \in DOMAIN f /\ a \in Nat /\ l \in Nat /\ a < l /\ f[l].next = a
      /\ Above(f, a) /\ f[a] \in Headers /\ f[l] \in Headers /\ f[a].length \in Nat
      /\ f[a].length > size + HDR
  BY Neighbours DEF Chain, Above, Splits, Headers
<1>2. b = a + f[a].length - size /\ b \in Nat /\ a < b /\ b + HDR + size <= l /\ b < l
  BY <1>1, Numbers DEF SplitAt, Above
<1>3. b \notin DOMAIN f
  <2>1. \A x \in DOMAIN f : x \in Nat /\ (x <= a \/ l <= x)
    BY <1>1 DEF Above, Chain
  <2> QED BY <1>1, <1>2, <2>1
<1>4. new \in Headers /\ new.is_free = TRUE /\ new.length = size /\ new.next = a /\ new.last = l
  BY <1>1 DEF Header, Headers
<1> DEFINE rest == f[a].length - (size + HDR)
<1>5. rest \in Nat
  BY <1>1, Numbers
<1>6. /\ DOMAIN g = DOMAIN f \cup {b} /\ g[b] = new
      /\ g[a] = [[f[a] EXCEPT !.last = b] EXCEPT !.length = rest]
      /\ g[l] = [f[l] EXCEPT !.next = b]
      /\ \A x \in DOMAIN f : x # a /\ x # l => g[x] = f[x]
  <2> HIDE DEF b, new
  <2> DEFINE h == [f EXCEPT ![l].next = b, ![a].last = b, ![a].length = @ - (size + HDR)]
  <2>1. g = Place(h, b, new)
    BY DEF split_segment, b, new
  <2>2. /\ DOMAIN h = DOMAIN f /\ h[l] = [f[l] EXCEPT !.next = b]
        /\ \A x \in DOMAIN f : x # a /\ x # l => h[x] = f[x]
    BY <1>1
  <2>3. h[a] = [[f[a] EXCEPT !.last = b] EXCEPT !.length = rest]
    <3> DEFINE h1 == [f EXCEPT ![l].next = b]
               h2 == [h1 EXCEPT ![a].last = b]
    <3>0. l \in DOMAIN f /\ a # l
      BY <1>1
    <3>1. DOMAIN h1 = DOMAIN f /\ h1[a] = f[a]
      BY <3>0
    <3>2. h = [h2 EXCEPT ![a].length = rest]
      OBVIOUS
    <3> HIDE DEF h, h1, rest
    <3>3. DOMAIN h2 = DOMAIN f /\ h2[a] = [f[a] EXCEPT !.last = b]
      BY <3>1
    <3> HIDE DEF h2
    <3> QED BY <3>2, <3>3
  <2> HIDE DEF h
  <2> QED BY <1>1, <1>3, <2>1, <2>2, <2>3 DEF Place
<1> HIDE DEF b, g, new, rest
<1>7. /\ g[a] \in Headers /\ g[a].is_free = f[a].is_free /\ g[a].next = f[a].next
      /\ g[a].last = b /\ g[a].length = rest
  BY ZenonT(30), <1>1, <1>2, <1>5, <1>6 DEF Headers
<1>8. /\ g[l] \in Headers /\ g[l].is_free = f[l].is_free /\ g[l].next = b
      /\ g[l].last = f[l].last /\ g[l].length = f[l].length
  BY <1>1, <1>2, <1>6 DEF Headers
<1> HIDE DEF l
<1>9. \A x \in DOMAIN f : /\ g[x].is_free = f[x].is_free /\ g[x] \in Headers
                          /\ x # a => g[x].length = f[x].length /\ g[x].last = f[x].last
                          /\ g[x].next = IF x = l THEN b ELSE f[x].next
  BY ZenonT(30), <1>1, <1>6, <1>7, <1>8 DEF Chain
<1>10. \A x \in DOMAIN g : /\ x \in Nat /\ x > 0 /\ g[x] \in Headers
                           /\ end <= x /\ x + HDR + g[x].length <= Top
  <2> TAKE x \in DOMAIN g
  <2>1. CASE x = b
    <3>1. l <= Top /\ end <= a /\ a > 0 /\ end \in Nat
      BY <1>1, Numbers DEF Chain, Headers
    <3> QED BY <1>1, <1>2, <1>4, <1>6, <2>1, <3>1, Numbers
  <2>2. CASE x = a
    <3>1. a + HDR + f[a].length <= Top /\ end <= a /\ a > 0
      BY DEF Chain
    <3> QED BY <1>1, <1>5, <1>7, <2>2, <3>1, Numbers DEF rest
  <2>3. CASE x \in DOMAIN f /\ x # a
    BY <1>9, <2>3 DEF Chain
  <2> QED BY <1>6, <2>1, <2>2, <2>3
<1>11. ASSUME NEW x \in DOMAIN g, x # main_segment PROVE Above(g, x)
  <2>1. CASE x = b
    <3>1. \A y \in DOMAIN g : y <= b \/ l <= y
      <4>1. \A y \in DOMAIN f : y \in Nat /\ (y <= a \/ l <= y)
        BY <1>1 DEF Above, Chain, l
      <4> QED BY <1>1, <1>2, <1>6, <4>1
    <3> QED BY Zenon, <1>1, <1>2, <1>4, <1>6, <1>8, <2>1, <3>1 DEF Above
  <2>2. CASE x = a
    <3>1. a + HDR + rest <= b
      BY <1>1, <1>2, Numbers DEF rest
    <3>2. \A y \in DOMAIN g : y <= a \/ b <= y
      <4>1. \A y \in DOMAIN f : y \in Nat /\ (y <= a \/ l <= y)
        BY <1>1 DEF Above, Chain, l
      <4> QED BY <1>1, <1>2, <1>6, <4>1
    <3> QED BY ZenonT(30), <1>4, <1>6, <1>7, <2>2, <3>1, <3>2 DEF Above
  <2>3. CASE x \in DOMAIN f /\ x # a
    <3>1. Above(f, x) /\ x \in Nat
      BY <1>11, <2>3 DEF Chain
    <3>2. g[x].last = f[x].last /\ g[x].length = f[x].length /\ f[x].last # l
      BY <1>1, <1>9, <2>3, <3>1 DEF Above
    <3>3. g[f[x].last].next = x
      BY <1>9, <3>1, <3>2 DEF Above
    <3>4. f[x].last \in Nat /\ (a <= x \/ f[x].last <= a)
      BY <3>1 DEF Above, Chain
    <3>5. b <= x \/ f[x].last <= b
      <4>1. a < x => l <= x
        BY <1>1, <2>3, <3>1 DEF Above, l
      <4> QED BY <1>1, <1>2, <2>3, <3>1, <3>4, <4>1
    <3> QED BY <1>6, <3>1, <3>2, <3>3, <3>5 DEF Above
  <2> QED BY <1>6, <2>1, <2>2, <2>3
<1>12. ASSUME NEW x \in DOMAIN g, x # end PROVE Below(g, x)
  <2>1. CASE x = b
    BY Zenon, <1>4, <1>6, <1>7, <2>1 DEF Below
  <2>2. CASE x = l
    BY Zenon, <1>4, <1>6, <1>8, <2>2 DEF Below
  <2>3. CASE x \in DOMAIN f /\ x # l
    <3>1. Below(f, x) /\ f[x].next # a
      BY <1>12, <2>3 DEF Chain, Below, l
    <3> QED BY <1>6, <1>9, <2>3, <3>1 DEF Below
  <2> QED BY <1>6, <2>1, <2>2, <2>3
<1>13. /\ main_segment \in DOMAIN g /\ end \in DOMAIN g /\ g[main_segment].last = NULL
       /\ ~g[main_segment].is_free /\ g[end].next = NULL
  <2>1. end # l
    BY <1>1 DEF Chain
  <2> QED BY <1>6, <1>9, <2>1 DEF Chain
<1>14. Chain(g, end)
  BY <1>10, <1>11, <1>12, <1>13 DEF Chain
<1>15. b # main_segment
  BY <1>3 DEF Chain
<1> QED BY <1>2, <1>3, <1>4, <1>6, <1>9, <1>14, <1>15 DEF Cuts, g, b, l

\* g is the chain f, without its end if that is taken over, and below its lowest segment k
\* a new free one of length len at e.
Grows(f, g, k, e, len, kept) ==
  /\ DOMAIN g = kept \cup {e} /\ g[e] = Header(TRUE, len, NULL, k)
  /\ g[k] = [f[k] EXCEPT !.next = e]
  /\ \A x \in kept : x # k => g[x] = f[x]

\* A new lowest segment extends the chain.
LEMMA Grown ==
  ASSUME NEW f, NEW end, Chain(f, end), NEW e \in Nat, e > 0, e < end, NEW len \in Nat,
         NEW kept, kept \subseteq DOMAIN f, main_segment \in kept,
         NEW k \in kept, e + HDR + len <= k, \A x \in kept : k <= x,
         \A x \in kept : x # main_segment => f[x].last \in kept,
         \A x \in kept : x # k => x # end /\ f[x].next \in kept,
         NEW g, Grows(f, g, k, e, len, kept)
  PROVE  Chain(g, e)
<1>1. /\ k \in Nat /\ end \in Nat /\ e \notin DOMAIN f /\ k + HDR <= Top /\ e # k
      /\ f[k] \in Headers /\ main_segment # e
  <2>1. \A x \in DOMAIN f : x \in Nat /\ end <= x
    BY DEF Chain
  <2>2. k \in Nat /\ f[k] \in Headers /\ f[k].length \in Nat /\ k + HDR + f[k].length <= Top
    BY DEF Chain, Headers
  <2>3. end \in Nat
    BY DEF Chain
  <2>4. e \notin DOMAIN f
    BY <2>1, <2>3
  <2> QED BY <2>2, <2>3, <2>4, Numbers DEF Chain
<1>2. /\ g[e] \in Headers /\ g[e].is_free = TRUE /\ g[e].length = len
      /\ g[e].next = NULL /\ g[e].last = k
  BY <1>1 DEF Grows, Header, Headers, NULL
<1>3. /\ g[k] \in Headers /\ g[k].is_free = f[k].is_free /\ g[k].length = f[k].length
      /\ g[k].next = e /\ g[k].last = f[k].last
  BY <1>1 DEF Grows, Headers
<1>4. \A x \in kept : /\ g[x] \in Headers /\ g[x].is_free = f[x].is_free
                      /\ g[x].length = f[x].length /\ g[x].last = f[x].last
                      /\ g[x].next = IF x = k THEN e ELSE f[x].next
  <2> TAKE x \in kept
  <2>1. CASE x = k
    BY <1>3, <2>1
  <2>2. CASE x # k
    BY <2>2 DEF Grows, Chain
  <2> QED BY <2>1, <2>2
<1>5. DOMAIN g = kept \cup {e}
  BY DEF Grows
<1>6. \A x \in DOMAIN g : /\ x \in Nat /\ x > 0 /\ g[x] \in Headers
                          /\ e <= x /\ x + HDR + g[x].length <= Top
  <2> TAKE x \in DOMAIN g
  <2>1. CASE x = e
    BY <1>1, <1>2, <2>1, Numbers
  <2>2. CASE x \in kept
    <3>1. x \in Nat /\ x > 0 /\ end <= x /\ x + HDR + f[x].length <= Top
      BY <2>2 DEF Chain
    <3> QED BY <1>1, <1>4, <2>2, <3>1
  <2> QED BY <1>5, <2>1, <2>2
<1>7. ASSUME NEW x \in DOMAIN g, x # main_segment PROVE Above(g, x)
  <2>1. CASE x = e
    <3>1. \A y \in DOMAIN g : y <= e \/ k <= y
      BY <1>1, <1>5
    <3> QED BY <1>2, <1>3, <1>5, <2>1, <3>1 DEF Above
  <2>2. CASE x \in kept
    <3>1. Above(f, x) /\ x \in Nat /\ end <= x /\ f[x].last \in kept /\ f[x].last # k
      <4>1. Above(f, x) /\ x \in Nat /\ end <= x /\ f[x].last \in kept
        BY <1>7, <2>2 DEF Chain
      <4>2. f[x].last \in Nat /\ x < f[x].last
        BY <1>7, <2>2, Neighbours
      <4> QED BY <1>1, <2>2, <4>1, <4>2
    <3>2. g[f[x].last].next = x /\ g[x].last = f[x].last /\ g[x].length = f[x].length
      BY <1>4, <2>2, <3>1 DEF Above
    <3>3. \A y \in DOMAIN g : y <= x \/ f[x].last <= y
      <4>1. e <= x
        BY <1>1, <3>1
      <4> QED BY <1>5, <3>1, <4>1 DEF Above
    <3> QED BY <1>5, <3>1, <3>2, <3>3 DEF Above
  <2> QED BY <1>5, <2>1, <2>2
<1>8. ASSUME NEW x \in DOMAIN g, x # e PROVE Below(g, x)
  <2>1. CASE x = k
    BY <1>2, <1>3, <1>5, <2>1 DEF Below
  <2>2. CASE x \in kept /\ x # k
    <3>1. Below(f, x) /\ f[x].next \in kept
      BY <2>2 DEF Chain
    <3> QED BY <1>4, <1>5, <2>2, <3>1 DEF Below
  <2> QED BY <1>5, <1>8, <2>1, <2>2
<1>9. /\ main_segment \in DOMAIN g /\ e \in DOMAIN g /\ g[main_segment].last = NULL
      /\ ~g[main_segment].is_free /\ g[e].next = NULL
  BY <1>2, <1>4, <1>5 DEF Chain
<1> QED BY <1>6, <1>7, <1>8, <1>9 DEF Chain

\* No used segment changes its place, its length or its use.
Spares(f, g) ==
  \A x \in DOMAIN f : ~f[x].is_free =>
    x \in DOMAIN g /\ ~g[x].is_free /\ g[x].length = f[x].length

\* expand_heap: the heap grows by a free segment, which takes over a free lowest one.
LEMMA Expanded ==
  ASSUME NEW f, NEW end, Chain(f, end), Joined(f), NEW length \in Nat, length > HDR, length < end
  PROVE  LET g == expand_heap(f, end - length, end, length)
         IN  Chain(g, end - length) /\ Joined(g) /\ Spares(f, g)
<1> DEFINE e == end - length
           g == expand_heap(f, e, end, length)
           l == f[end].last
<1>1. end \in DOMAIN f /\ end \in Nat /\ e \in Nat /\ e > 0 /\ e < end /\ f[end].next = NULL
  BY Numbers DEF Chain
<1>2. \A x \in DOMAIN f : x \in Nat /\ end <= x /\ x # NULL
  BY DEF Chain, NULL
<1>3. e \notin DOMAIN f
  BY <1>1, <1>2
<1> HIDE DEF e
<1>4. CASE f[end].is_free /\ l # NULL
  <2> DEFINE kept == DOMAIN f \ {end}
             len == f[end].length + length - HDR
             h == [Erase(f, end) EXCEPT ![l].next = e]
  <2>1. end # main_segment
    BY <1>4 DEF Chain
  <2>2. /\ l \in DOMAIN f /\ l \in Nat /\ end < l /\ f[l].next = end /\ Above(f, end)
        /\ f[end].length \in Nat
    BY <1>1, <1>2, <2>1, Neighbours DEF Chain, Above, Headers
  <2>3. len \in Nat /\ e + HDR + len <= l
    BY <1>1, <2>2, Numbers DEF Above, e
  <2>4. g = Place(h, e, Header(TRUE, len, NULL, l))
    BY <1>4 DEF expand_heap
  <2> HIDE DEF len, g
  <2>5. DOMAIN h = kept /\ h[l] = [f[l] EXCEPT !.next = e] /\ \A x \in kept : x # l => h[x] = f[x]
    BY <2>2 DEF Erase
  <2> HIDE DEF h, l
  <2>6. Grows(f, g, l, e, len, kept)
    <3>1. e \notin kept /\ l \in kept
      BY <1>1, <1>3, <2>2
    <3> HIDE DEF kept
    <3> QED BY Zenon, <2>4, <2>5, <3>1 DEF Grows, Place
  <2>7. \A x \in kept : l <= x
    BY <1>1, <1>2, <2>2 DEF Above, l
  <2>8. \A x \in kept : x # main_segment => f[x].last \in kept
    <3> TAKE x \in kept
    <3> HAVE x # main_segment
    <3>1. f[x].last \in DOMAIN f /\ x < f[x].last
      BY Neighbours
    <3> QED BY <1>1, <1>2, <3>1
  <2>9. \A x \in kept : x # l => x # end /\ f[x].next \in kept
    BY DEF Chain, Below, l
  <2>10. kept \subseteq DOMAIN f /\ main_segment \in kept /\ l \in kept
    BY <2>1, <2>2 DEF Chain
  <2> HIDE DEF kept
  <2>11. Chain(g, e)
    BY <1>1, <2>3, <2>6, <2>7, <2>8, <2>9, <2>10, Grown
  <2>12. \A x \in kept : g[x].is_free = f[x].is_free /\ g[x].length = f[x].length
                         /\ g[x].next = IF x = l THEN e ELSE f[x].next
    <3>1. f[l] \in Headers
      BY <2>2 DEF Chain
    <3> QED BY <2>6, <3>1 DEF Grows, Headers
  <2>13. DOMAIN g = kept \cup {e} /\ g[e].next = NULL
    BY <2>6 DEF Grows, Header
  <2>14. Spares(f, g)
    BY <1>4, <2>12, <2>13 DEF Spares, kept
  <2>15. Joined(g)
    <3>1. ~f[l].is_free
      BY <1>1, <1>2, <1>4, <2>2 DEF Joined
    <3> SUFFICES ASSUME NEW x \in DOMAIN g, g[x].is_free, g[x].next # NULL
                 PROVE  ~g[g[x].next].is_free
      BY DEF Joined
    <3>2. x \in kept /\ x # l
      BY <2>10, <2>12, <2>13, <3>1
    <3>3. f[x].is_free /\ g[x].next = f[x].next /\ f[x].next \in kept
      BY <2>9, <2>12, <3>2
    <3> QED BY <2>10, <2>12, <3>2, <3>3 DEF Joined
  <2> QED BY <2>11, <2>14, <2>15 DEF g, e
<1>5. CASE ~(f[end].is_free /\ l # NULL)
  <2> DEFINE len == length - HDR
             h == [f EXCEPT ![end].next = e]
  <2>1. ~f[end].is_free
    <3>1. CASE end = main_segment
      BY <3>1 DEF Chain
    <3>2. CASE end # main_segment
      BY <1>1, <1>2, <1>5, <3>2, Neighbours
    <3> QED BY <3>1, <3>2
  <2>2. len \in Nat /\ e + HDR + len <= end
    BY <1>1, Numbers DEF e
  <2>3. g = Place(h, e, Header(TRUE, len, NULL, end))
    BY Zenon, <1>5 DEF expand_heap
  <2> HIDE DEF len, g
  <2>4. DOMAIN h = DOMAIN f /\ h[end] = [f[end] EXCEPT !.next = e]
        /\ \A x \in DOMAIN f : x # end => h[x] = f[x]
    BY <1>1
  <2> HIDE DEF h
  <2>5. Grows(f, g, end, e, len, DOMAIN f)
    BY Zenon, <1>1, <1>3, <2>3, <2>4 DEF Grows, Place
  <2>6. \A x \in DOMAIN f : x # main_segment => f[x].last \in DOMAIN f
    BY Neighbours
  <2>7. \A x \in DOMAIN f : x # end => f[x].next \in DOMAIN f
    BY DEF Chain, Below
  <2>8. main_segment \in DOMAIN f
    BY DEF Chain
  <2>9. Chain(g, e)
    BY <1>1, <1>2, <2>2, <2>5, <2>6, <2>7, <2>8, Grown
  <2>10. \A x \in DOMAIN f : g[x].is_free = f[x].is_free /\ g[x].length = f[x].length
                             /\ g[x].next = IF x = end THEN e ELSE f[x].next
    <3>1. f[end] \in Headers
      BY <1>1 DEF Chain
    <3> QED BY <2>5, <3>1 DEF Grows, Headers
  <2>11. DOMAIN g = DOMAIN f \cup {e} /\ g[e].next = NULL
    BY <2>5 DEF Grows, Header
  <2>12. Spares(f, g)
    BY <2>10, <2>11 DEF Spares
  <2>13. Joined(g)
    <3> SUFFICES ASSUME NEW x \in DOMAIN g, g[x].is_free, g[x].next # NULL
                 PROVE  ~g[g[x].next].is_free
      BY DEF Joined
    <3>1. x \in DOMAIN f /\ x # end
      BY <1>1, <2>1, <2>10, <2>11
    <3>2. f[x].is_free /\ g[x].next = f[x].next /\ f[x].next \in DOMAIN f
      BY <2>7, <2>10, <3>1
    <3> QED BY <2>10, <3>1, <3>2 DEF Joined
  <2> QED BY <2>9, <2>12, <2>13 DEF g, e
<1> QED BY <1>4, <1>5

\* A set of addresses has a least one, so that a walk down the list can be followed.
LEMMA LeastExists ==
  ASSUME NEW T \in SUBSET Nat, T # {}
  PROVE  \E x \in T : \A y \in T : x <= y
<1> DEFINE R == {ss \in Nat \X Nat : ss[1] < ss[2]}
<1>1. IsWellFoundedOn(R, Nat)
  BY NatLessThanWellFounded DEF OpToRel
<1>2. PICK x \in T : \A y \in T : ~ (<<y, x>> \in R)
  <2> HIDE DEF R
  <2> QED BY Zenon, <1>1, WFMin
<1>3. \A y \in T : x <= y
  <2> TAKE y \in T
  <2>1. <<y, x>> \in Nat \X Nat /\ ~ (<<y, x>> \in R)
    BY <1>2
  <2> QED BY <2>1
<1> QED BY <1>3

\* Where a search that ends is defined: the greatest fitting address up to a.
Fitting(f, size, a) == {y \in DOMAIN f : y <= a /\ Fits(f, y, size)}
Greatest(S) == IF S = {} THEN NULL ELSE CHOOSE y \in S : \A z \in S : z <= y

\* malloc's walk of the list ends, at NULL or at a segment that fits.
LEMMA FirstFitFits ==
  ASSUME NEW f, NEW end, Chain(f, end), NEW size
  PROVE  LET a == FirstFit(f, size)
         IN  a # NULL => a \in DOMAIN f /\ a # main_segment /\ Fits(f, a, size)
<1> DEFINE D == DOMAIN f \cup {NULL}
           Walk(w) == w = [a \in D |-> IF a = NULL \/ Fits(f, a, size) THEN a ELSE w[f[a].next]]
           from == CHOOSE w : Walk(w)
<1>1. FirstFit(f, size) = from[main_segment]
  BY DEF FirstFit
<1>2. \A a \in DOMAIN f : a \in Nat /\ a > 0
  BY DEF Chain
<1>3. \A a \in DOMAIN f : f[a].next \in D /\ f[a].next < a
  <2> TAKE a \in DOMAIN f
  <2>1. CASE a = end
    BY <1>2, <2>1 DEF Chain, NULL
  <2>2. CASE a # end
    BY <2>2, Neighbours
  <2> QED BY <2>1, <2>2
<1>4. \E w : Walk(w)
  <2> DEFINE w == [a \in D |-> Greatest(Fitting(f, size, a))]
  <2>1. w[NULL] = NULL
    BY <1>2 DEF Greatest, Fitting, NULL
  <2>2. ASSUME NEW a \in DOMAIN f, Fits(f, a, size)
        PROVE  w[a] = a
    <3>1. a \in Fitting(f, size, a) /\ \A z \in Fitting(f, size, a) : z \in Nat /\ z <= a
      BY <1>2, <2>2 DEF Fitting
    <3>2. \A y \in Fitting(f, size, a) : (\A z \in Fitting(f, size, a) : z <= y) => y = a
      BY <1>2, <3>1
    <3> QED BY <3>1, <3>2 DEF Greatest
  <2>3. ASSUME NEW a \in DOMAIN f, ~Fits(f, a, size)
        PROVE  w[a] = w[f[a].next]
    <3>1. \A y \in DOMAIN f : y <= a <=> y = a \/ y <= f[a].next
      <4>1. CASE a = end
        BY <1>2, <1>3, <4>1 DEF Chain, NULL
      <4>2. CASE a # end
        <5> DEFINE n == f[a].next
        <5>1. n \in DOMAIN f /\ n < a /\ Above(f, n) /\ f[n].last = a
          BY <4>2, Neighbours DEF Chain, Below
        <5>2. \A y \in DOMAIN f : y \in Nat /\ (y <= n \/ a <= y)
          BY <1>2, <5>1 DEF Above
        <5> HIDE DEF n
        <5>3. n \in Nat /\ a \in Nat
          BY <1>2, <5>1
        <5> QED BY <5>1, <5>2, <5>3 DEF n
      <4> QED BY <4>1, <4>2
    <3>2. Fitting(f, size, a) = Fitting(f, size, f[a].next)
      BY <2>3, <3>1 DEF Fitting
    <3> QED BY <1>3, <3>2
  <2> HIDE DEF w
  <2>4. \A a \in D : w[a] = IF a = NULL \/ Fits(f, a, size) THEN a ELSE w[f[a].next]
    BY <2>1, <2>2, <2>3
  <2>5. w = [a \in D |-> IF a = NULL \/ Fits(f, a, size) THEN a ELSE w[f[a].next]]
    BY <2>4 DEF w
  <2> QED BY <2>5
<1>5. Walk(from)
  <2> HIDE DEF Walk
  <2> QED BY <1>4
<1> HIDE DEF from
<1>6. \A a \in D : from[a] # NULL => from[a] \in DOMAIN f /\ Fits(f, from[a], size)
  <2> DEFINE Bad == {a \in D : ~(from[a] # NULL => from[a] \in DOMAIN f /\ Fits(f, from[a], size))}
  <2> SUFFICES ASSUME Bad # {} PROVE FALSE
    OBVIOUS
  <2>1. Bad \subseteq Nat
    BY <1>2 DEF NULL
  <2>2. PICK m \in Bad : \A z \in Bad : m <= z
    BY Zenon, <2>1, LeastExists
  <2>3. m # NULL /\ ~Fits(f, m, size) /\ m \in DOMAIN f
    BY Zenon, <1>5
  <2>4. from[m] = from[f[m].next]
    BY Zenon, <1>5, <2>3
  <2>5. f[m].next \in Bad
    BY <1>3, <2>3, <2>4
  <2> QED BY <1>2, <1>3, <2>1, <2>2, <2>3, <2>5
<1>7. main_segment \in D /\ ~f[main_segment].is_free
  BY DEF Chain
<1> QED BY <1>1, <1>6, <1>7 DEF Fits

-----------------------------------------------------------------------------
(* The calls.                                                              *)

Call == [what : {"none", "malloc", "realloc", "free"}, n : Nat, at : Nat]

\* A call record says what it is about: a size that may be asked for, a block to free.
Sound(call) ==
  /\ call \in Call
  /\ call.what \in {"malloc", "realloc"} => call.n \in Sizes
  /\ call.what \in {"free", "realloc"} <=> call.at # NULL

\* No caller is the mark of a free lock.
LEMMA CallersNamed == \A x \in Callers : x # "free"
BY HeapAssumption DEF Callers, Irq

\* heap_init.
LEMMA InitInv == Init => HeapInv
<1> SUFFICES ASSUME Init PROVE HeapInv
  OBVIOUS
<1> DEFINE low == Top - PAGE
<1>1. low \in Nat /\ low > 0 /\ low < main_segment /\ low + PAGE = Top
  BY Numbers
<1> DEFINE main == Header(FALSE, 0, low, NULL)
           only == Header(TRUE, PAGE - 2 * HDR, NULL, main_segment)
<1>2. DOMAIN seg = {main_segment, low} /\ seg[main_segment] = main /\ seg[low] = only
      /\ heap_end = low /\ last_segment = low
  <2>1. /\ seg = [a \in {main_segment, low} |-> IF a = main_segment THEN main ELSE only]
        /\ heap_end = low /\ last_segment = low
    BY DEF Init
  <2>2. main_segment # low
    BY <1>1, Numbers
  <2> HIDE DEF low, main, only
  <2> QED BY <2>1, <2>2
<1> HIDE DEF low
<1>3. main \in Headers /\ main.length = 0 /\ ~main.is_free /\ main.next = low /\ main.last = NULL
  BY <1>1 DEF Header, Headers, NULL
<1>4. /\ only \in Headers /\ only.length + 2 * HDR = PAGE /\ only.is_free = TRUE
      /\ only.next = NULL /\ only.last = main_segment /\ only.length \in Nat
  <2>1. PAGE - 2 * HDR \in Nat /\ (PAGE - 2 * HDR) + 2 * HDR = PAGE
    BY Numbers
  <2> QED BY <2>1, Numbers DEF Header, Headers, NULL
<1> HIDE DEF main, only
<1>5. Chain(seg, heap_end)
  <2>1. \A a \in DOMAIN seg : /\ a \in Nat /\ a > 0 /\ seg[a] \in Headers
                              /\ heap_end <= a /\ a + HDR + seg[a].length <= Top
    BY <1>1, <1>2, <1>3, <1>4, Numbers
  <2>2. Above(seg, low)
    BY <1>1, <1>2, <1>3, <1>4, Numbers DEF Above
  <2>3. Below(seg, main_segment)
    BY <1>1, <1>2, <1>3, <1>4 DEF Below
  <2> QED BY <1>1, <1>2, <1>3, <1>4, <2>1, <2>2, <2>3 DEF Chain
<1>6. Joined(seg)
  BY <1>1, <1>2, <1>3, <1>4 DEF Joined
<1>7. CallsOK /\ Claims
  BY DEF Init, CallsOK, Claims, NoCall, NULL
<1>8. Exclusive
  BY CallersNamed DEF Init, Exclusive
<1>9. Holds(seg, live)
  BY DEF Init, Holds
<1> QED BY <1>2, <1>5, <1>6, <1>7, <1>8, <1>9 DEF HeapInv

\* A call begins: it asks for a size, or works on a block in use that no other call works on.
LEMMA Begun ==
  ASSUME HeapInv, NEW x \in Callers, pc[x] = "idle", NEW call, Sound(call), call.what # "none",
         call.at # NULL => /\ \E b \in live : b.at = call.at
                           /\ \A y \in Callers : op[y].at # call.at,
         Begin(x, call)
  PROVE  HeapInv'
<1>1. /\ pc' = [pc EXCEPT ![x] = "acquire"] /\ op' = [op EXCEPT ![x] = call]
      /\ UNCHANGED <<lock, seg, heap_end, last_segment, live>>
  BY DEF Begin, heap
<1>2. /\ pc \in [Callers -> {"idle", "acquire", "section"}] /\ op \in [Callers -> Call]
      /\ pc'[x] = "acquire" /\ op'[x] = call
      /\ \A y \in Callers : y # x => pc'[y] = pc[y] /\ op'[y] = op[y]
  BY <1>1 DEF HeapInv, CallsOK, Call
<1>3. CallsOK'
  <2>1. pc' \in [Callers -> {"idle", "acquire", "section"}] /\ op' \in [Callers -> Call]
    BY <1>1, <1>2 DEF Sound
  <2> QED BY <1>2, <2>1 DEF HeapInv, CallsOK, Call, Sound
<1>4. Claims'
  BY <1>1, <1>2 DEF HeapInv, Claims
<1>5. Exclusive'
  BY Zenon, <1>1, <1>2 DEF HeapInv, Exclusive
<1> QED BY <1>1, <1>3, <1>4, <1>5 DEF HeapInv, Holds

\* malloc, free and realloc enter.
LEMMA CallInv ==
  ASSUME HeapInv, NEW x \in Callers,
         \/ \E n \in Sizes : malloc(x, n)
         \/ \E b \in live : free(x, b) \/ \E n \in Sizes : realloc(x, b, n)
  PROVE  HeapInv'
<1>1. ASSUME NEW n \in Sizes, malloc(x, n) PROVE HeapInv'
  <2> DEFINE call == [what |-> "malloc", n |-> n, at |-> NULL]
  <2>1. Sound(call) /\ call.what # "none" /\ call.at = NULL
    BY Numbers DEF Sound, Call, NULL
  <2>2. Begin(x, call) /\ pc[x] = "idle"
    BY <1>1 DEF malloc
  <2> HIDE DEF call
  <2> QED BY <2>1, <2>2, Begun
<1>2. ASSUME NEW b \in live PROVE b.at \in Nat /\ b.at # NULL
  BY Numbers DEF HeapInv, Holds, Chain, NULL
<1>3. ASSUME NEW b \in live, free(x, b) PROVE HeapInv'
  <2> DEFINE call == FreeOf(b.at)
  <2>1. Sound(call) /\ call.what # "none" /\ call.at = b.at
    BY <1>2 DEF FreeOf, Sound, Call
  <2>2. Begin(x, call) /\ pc[x] = "idle" /\ Unclaimed(b)
    BY <1>3 DEF free
  <2> HIDE DEF call
  <2> QED BY Zenon, <2>1, <2>2, Begun DEF Unclaimed
<1>4. ASSUME NEW b \in live, NEW n \in Sizes, realloc(x, b, n) PROVE HeapInv'
  <2> DEFINE call == [what |-> "realloc", n |-> n, at |-> b.at]
  <2>1. Sound(call) /\ call.what # "none" /\ call.at = b.at
    BY <1>2, Numbers DEF Sound, Call
  <2>2. Begin(x, call) /\ pc[x] = "idle" /\ Unclaimed(b)
    BY <1>4 DEF realloc
  <2> HIDE DEF call
  <2> QED BY <2>1, <2>2, Begun DEF Unclaimed
<1> QED BY <1>1, <1>3, <1>4

\* The lock is taken when it is free.
LEMMA AcquireInv ==
  ASSUME HeapInv, NEW x \in Callers, Acquire(x)
  PROVE  HeapInv'
<1>1. /\ lock = "free" /\ lock' = x /\ pc' = [pc EXCEPT ![x] = "section"] /\ pc[x] = "acquire"
      /\ UNCHANGED <<seg, heap_end, last_segment, op, live>>
  BY DEF Acquire, CanAcquire, heap
<1>2. CallsOK' /\ Exclusive'
  BY <1>1, CallersNamed DEF HeapInv, CallsOK, Exclusive
<1> QED BY Zenon, <1>1, <1>2 DEF HeapInv, Claims, Holds

\* A call leaves its section, finished or with more to do.
LEMMA Left ==
  ASSUME HeapInv, NEW x \in Callers, pc[x] = "section", NEW call, Sound(call),
         call = NoCall \/ call.what # "none", Leave(x, call)
  PROVE  /\ CallsOK' /\ Exclusive' /\ op'[x] = call
         /\ \A y \in Callers : y # x => op'[y] = op[y]
<1> DEFINE at == IF call = NoCall THEN "idle" ELSE "acquire"
<1>1. lock' = "free" /\ pc' = [pc EXCEPT ![x] = at] /\ op' = [op EXCEPT ![x] = call]
  BY DEF Leave
<1>2. at \in {"idle", "acquire"} /\ (at = "idle" <=> call.what = "none")
  BY DEF NoCall
<1> HIDE DEF at
<1>3. /\ pc \in [Callers -> {"idle", "acquire", "section"}] /\ op \in [Callers -> Call]
      /\ pc'[x] = at /\ op'[x] = call
      /\ \A y \in Callers : y # x => pc'[y] = pc[y] /\ op'[y] = op[y]
  BY <1>1 DEF HeapInv, CallsOK, Call
<1>4. CallsOK'
  <2>1. pc' \in [Callers -> {"idle", "acquire", "section"}] /\ op' \in [Callers -> Call]
    BY <1>1, <1>2, <1>3 DEF Sound
  <2> QED BY <1>2, <1>3, <2>1 DEF HeapInv, CallsOK, Call, Sound
<1>5. Exclusive'
  <2>1. lock = x
    BY DEF HeapInv, Exclusive
  <2>2. \A y \in Callers : pc'[y] # "section"
    BY <1>2, <1>3, <2>1 DEF HeapInv, Exclusive
  <2> QED BY <1>1, <2>2, CallersNamed DEF Exclusive
<1> QED BY <1>3, <1>4, <1>5

\* A call in its section has an owner, a size and, when it frees, a used segment.
LEMMA InSection ==
  ASSUME HeapInv, NEW x \in Callers, pc[x] = "section"
  PROVE  /\ Sound(op[x]) /\ op[x].what # "none"
         /\ op[x].what \in {"malloc", "realloc"} => op[x].n \in Sizes
BY DEF HeapInv, CallsOK, Sound, Call

\* malloc hands out segment a of the list f, the old one or the one it has just split.
LEMMA FoundInv ==
  ASSUME HeapInv, NEW x \in Callers, InMalloc(x), NEW f, Chain(f, heap_end),
         NEW a \in DOMAIN f, f[a].length = op[x].n, Spares(seg, f),
         a \in DOMAIN seg => seg[a].is_free,
         Joined([f EXCEPT ![a].is_free = FALSE]), last_segment' = heap_end,
         Found(x, a, f)
  PROVE  HeapInv'
<1> DEFINE g == [f EXCEPT ![a].is_free = FALSE]
           call == IF op[x].what = "malloc" THEN NoCall ELSE FreeOf(op[x].at)
           new == [at |-> a + HDR, n |-> op[x].n]
<1>1. /\ seg' = g /\ live' = live \cup {new} /\ heap_end' = heap_end /\ Leave(x, call)
      /\ pc[x] = "section" /\ op[x].what \in {"malloc", "realloc"}
  BY DEF Found, InMalloc
<1>2. Flags(f, g, heap_end, a, FALSE)
  BY Zenon, Flagged
<1>3. Sound(op[x]) /\ op[x].n \in Sizes
  BY <1>1, InSection
<1>4. Sound(call) /\ (call = NoCall \/ call.what # "none") /\ call.at = op[x].at
  BY <1>1, <1>3 DEF Sound, Call, NoCall, FreeOf, NULL
<1> HIDE DEF call, g
<1>5. CallsOK' /\ Exclusive' /\ op'[x] = call /\ \A y \in Callers : y # x => op'[y] = op[y]
  BY <1>1, <1>4, Left
<1>6. Claims'
  BY <1>1, <1>4, <1>5 DEF HeapInv, Claims
<1>7. Holds(g, live')
  <2>1. a \in Nat /\ a + HDR \in Nat /\ (a + HDR) - HDR = a
    BY Numbers DEF Chain
  <2>2. new \in [at : Nat, n : Sizes] /\ new.at - HDR = a /\ new.n = f[a].length
    BY <1>3, <2>1
  <2> HIDE DEF new
  <2> SUFFICES ASSUME NEW b \in live'
               PROVE  /\ b \in [at : Nat, n : Sizes] /\ b.at - HDR \in DOMAIN g
                      /\ ~g[b.at - HDR].is_free /\ g[b.at - HDR].length = b.n
    BY DEF Holds
  <2>3. CASE b = new
    BY <1>2, <2>2, <2>3 DEF Flags
  <2>4. CASE b \in live
    <3> DEFINE s == b.at - HDR
    <3>1. /\ b \in [at : Nat, n : Sizes] /\ s \in DOMAIN seg
          /\ ~seg[s].is_free /\ seg[s].length = b.n
      BY <2>4 DEF HeapInv, Holds
    <3> HIDE DEF s
    <3>2. s \in DOMAIN f /\ ~f[s].is_free /\ f[s].length = b.n /\ s # a
      BY <3>1 DEF Spares
    <3>3. s \in DOMAIN g /\ ~g[s].is_free /\ g[s].length = b.n
      BY <1>2, <3>2 DEF Flags
    <3> QED BY <3>1, <3>3 DEF s
  <2> QED BY <1>1, <2>3, <2>4
<1>8. Chain(g, heap_end) /\ Joined(g)
  BY <1>2 DEF Flags, g
<1> QED BY <1>1, <1>5, <1>6, <1>7, <1>8 DEF HeapInv

\* malloc cuts the block off a larger free segment.
LEMMA MallocSplitInv ==
  ASSUME HeapInv, NEW x \in Callers, MallocSplit(x)
  PROVE  HeapInv'
<1> DEFINE size == op[x].n
           a == FirstFit(seg, size)
           b == SplitAt(seg, a, size)
           f == split_segment(seg, a, size)
           g == [f EXCEPT ![b].is_free = FALSE]
<1>1. /\ InMalloc(x) /\ a # NULL /\ Splits(seg, a, size) /\ Found(x, b, f)
      /\ last_segment' = IF seg[a].next = NULL THEN a ELSE last_segment
  BY Zenon DEF MallocSplit
<1>2. Chain(seg, heap_end) /\ Joined(seg) /\ last_segment = heap_end
  BY DEF HeapInv
<1>3. size \in Nat
  BY Zenon, <1>1, InSection, Numbers DEF InMalloc
<1> HIDE DEF a, size
<1>4. a \in DOMAIN seg /\ a # main_segment /\ Fits(seg, a, size)
  BY Zenon, <1>1, <1>2, FirstFitFits DEF a
<1>5. Cuts(seg, f, heap_end, a, b, size)
  BY Zenon, <1>1, <1>2, <1>3, <1>4, Split
<1> HIDE DEF b, f
<1>6. last_segment' = heap_end
  <2>1. a # heap_end => seg[a].next # NULL
    BY <1>2, <1>4 DEF Chain, Below, NULL
  <2> QED BY <1>1, <1>2, <2>1
<1>7. Flags(f, g, heap_end, b, FALSE)
  BY Zenon, <1>5, Flagged DEF Cuts
<1> HIDE DEF g
<1>8. Joined(g)
  <2> SUFFICES ASSUME NEW y \in DOMAIN g, g[y].is_free, g[y].next # NULL
               PROVE  ~g[g[y].next].is_free
    BY DEF Joined
  <2>1. y # b /\ y \in DOMAIN seg /\ seg[y].is_free /\ g[y].next = f[y].next
    BY <1>5, <1>7 DEF Flags, Cuts
  <2>2. CASE y = seg[a].last
    BY ZenonT(30), <1>5, <1>7, <2>1, <2>2 DEF Flags, Cuts
  <2>3. CASE y # seg[a].last
    <3>1. g[y].next = seg[y].next
      BY <1>5, <2>1, <2>3 DEF Cuts
    <3>2. seg[y].next \in DOMAIN seg /\ ~seg[seg[y].next].is_free
      BY <1>2, <2>1, <3>1 DEF Joined, Chain, Below
    <3> QED BY <1>5, <1>7, <3>1, <3>2 DEF Flags, Cuts
  <2> QED BY Zenon, <2>2, <2>3
<1>9. Spares(seg, f)
  BY Zenon, <1>4, <1>5 DEF Spares, Cuts, Fits
<1>10. Chain(f, heap_end) /\ b \in DOMAIN f /\ b \notin DOMAIN seg /\ f[b].length = op[x].n
  BY <1>5 DEF Cuts, size
<1> QED BY <1>1, <1>6, <1>8, <1>9, <1>10, FoundInv DEF g

\* malloc takes a free segment of the right length.
LEMMA MallocWholeInv ==
  ASSUME HeapInv, NEW x \in Callers, MallocWhole(x)
  PROVE  HeapInv'
<1> DEFINE a == FirstFit(seg, op[x].n)
           g == [seg EXCEPT ![a].is_free = FALSE]
<1>1. /\ InMalloc(x) /\ a # NULL /\ ~Splits(seg, a, op[x].n) /\ Found(x, a, seg)
      /\ last_segment' = last_segment
  BY DEF MallocWhole
<1>2. Chain(seg, heap_end) /\ Joined(seg) /\ last_segment = heap_end
  BY DEF HeapInv
<1> HIDE DEF a
<1>3. a \in DOMAIN seg /\ Fits(seg, a, op[x].n)
  BY <1>1, <1>2, FirstFitFits DEF a
<1>4. Flags(seg, g, heap_end, a, FALSE)
  BY Zenon, <1>2, <1>3, Flagged
<1> HIDE DEF g
<1>5. Joined(g)
  <2> SUFFICES ASSUME NEW y \in DOMAIN g, g[y].is_free, g[y].next # NULL
               PROVE  ~g[g[y].next].is_free
    BY DEF Joined
  <2>1. y \in DOMAIN seg /\ seg[y].is_free /\ g[y].next = seg[y].next
    BY <1>4 DEF Flags
  <2>2. seg[y].next \in DOMAIN seg /\ ~seg[seg[y].next].is_free
    BY <1>2, <2>1 DEF Joined, Chain, Below
  <2> QED BY <1>4, <2>1, <2>2 DEF Flags
<1>6. Spares(seg, seg)
  BY DEF Spares
<1>7. seg[a].length = op[x].n /\ seg[a].is_free
  BY Zenon, <1>1, <1>3 DEF Fits
<1> QED BY <1>1, <1>2, <1>3, <1>5, <1>6, <1>7, FoundInv DEF g

\* A list that spares the used segments holds the same blocks.
LEMMA StillHeld ==
  ASSUME NEW f, NEW g, NEW blocks, Holds(f, blocks), Spares(f, g)
  PROVE  Holds(g, blocks)
<1> SUFFICES ASSUME NEW b \in blocks
             PROVE  /\ b \in [at : Nat, n : Sizes] /\ b.at - HDR \in DOMAIN g
                    /\ ~g[b.at - HDR].is_free /\ g[b.at - HDR].length = b.n
  BY DEF Holds
<1> DEFINE s == b.at - HDR
<1>1. b \in [at : Nat, n : Sizes] /\ s \in DOMAIN f /\ ~f[s].is_free /\ f[s].length = b.n
  BY DEF Holds
<1> HIDE DEF s
<1>2. s \in DOMAIN g /\ ~g[s].is_free /\ g[s].length = b.n
  BY <1>1 DEF Spares
<1> QED BY <1>1, <1>2 DEF s

\* malloc finds nothing, expands the heap and starts over.
LEMMA MallocExpandInv ==
  ASSUME HeapInv, NEW x \in Callers, MallocExpand(x)
  PROVE  HeapInv'
<1> DEFINE length == RoundUp(op[x].n + HDR)
<1>1. /\ InMalloc(x) /\ length < heap_end
      /\ seg' = expand_heap(seg, heap_end - length, last_segment, length)
      /\ heap_end' = heap_end - length /\ last_segment' = heap_end - length
      /\ Leave(x, op[x]) /\ live' = live
  BY Zenon DEF MallocExpand
<1>2. Chain(seg, heap_end) /\ Joined(seg) /\ last_segment = heap_end /\ Holds(seg, live)
  BY DEF HeapInv
<1>3. Sound(op[x]) /\ op[x].what # "none" /\ op[x].n \in Sizes /\ pc[x] = "section"
  BY Zenon, <1>1, InSection DEF InMalloc
<1>4. length \in Nat /\ length > HDR
  <2> DEFINE n == op[x].n + HDR
  <2>1. n \in Nat /\ n > HDR
    BY <1>3, Numbers
  <2> HIDE DEF n
  <2>2. n % PAGE \in 0..(PAGE - 1)
    BY <2>1, Numbers
  <2>3. \A m \in Nat : m % PAGE \in Nat
    BY Numbers
  <2>4. PICK m \in Nat : m = PAGE - (n % PAGE)
    <3>1. \A k \in 0..(PAGE - 1) : PAGE - k \in Nat
      BY Numbers
    <3> QED BY <2>2, <3>1
  <2>5. RoundUp(n) = n + (m % PAGE)
    BY <2>4 DEF RoundUp
  <2>6. PICK r \in Nat : r = m % PAGE
    BY <2>3
  <2>7. RoundUp(n) = n + r
    BY <2>5, <2>6
  <2> QED BY <2>1, <2>7, Numbers DEF n
<1> HIDE DEF length
<1>5. Chain(seg', heap_end') /\ Joined(seg') /\ Spares(seg, seg')
  BY <1>1, <1>2, <1>4, Expanded
<1>6. CallsOK' /\ Exclusive' /\ op'[x] = op[x] /\ \A y \in Callers : y # x => op'[y] = op[y]
  BY Zenon, <1>1, <1>3, Left
<1>7. Claims'
  <2>1. Claims /\ live' = live /\ \A y \in Callers : op'[y] = op[y]
    BY Zenon, <1>1, <1>6 DEF HeapInv
  <2> QED BY ZenonT(30), <2>1 DEF Claims
<1>8. Holds(seg', live')
  BY <1>1, <1>2, <1>5, StillHeld
<1> QED BY <1>1, <1>5, <1>6, <1>7, <1>8 DEF HeapInv

\* Two neighbours are free only where segment a is one of them.
JoinedBut(f, a) ==
  \A y \in DOMAIN f : f[y].is_free /\ f[y].next # NULL /\ y # a /\ f[y].next # a
                      => ~f[f[y].next].is_free

\* A merge of two free segments spares the used ones.
LEMMA TakesSpares ==
  ASSUME NEW f, NEW g, NEW end, NEW gone, NEW into, Takes(f, g, end, gone, into),
         f[gone].is_free, f[into].is_free
  PROVE  Spares(f, g)
BY DEF Takes, Spares

\* Once a segment has taken in the free one above it, what is above it is in use.
LEMMA JoinsLast ==
  ASSUME NEW f, NEW end, Chain(f, end), NEW a \in DOMAIN f, a # main_segment, JoinedBut(f, a),
         f[f[a].last].is_free
  PROVE  LET g == merge_last_to_this(f, a)
         IN  /\ Takes(f, g, end, f[a].last, a) /\ g[a].next = f[a].next
             /\ g[a].last \in DOMAIN g /\ ~g[g[a].last].is_free
             /\ \A y \in DOMAIN g : g[y].is_free /\ g[y].next # NULL /\ y # a
                                    => ~g[g[y].next].is_free
<1> DEFINE g == merge_last_to_this(f, a)
           l == f[a].last
           ll == f[l].last
<1>1. /\ l \in DOMAIN f /\ a < l /\ f[l].next = a /\ l # main_segment
      /\ a \in Nat /\ l \in Nat
  BY ZenonT(30), Neighbours DEF Chain, Above
<1> HIDE DEF g, l
<1>2. ll \in DOMAIN f /\ l < ll /\ f[ll].next = l /\ ll \in Nat
  <2>1. Above(f, l)
    BY Zenon, <1>1 DEF Chain
  <2>2. ll \in DOMAIN f /\ f[ll].next = l
    BY <2>1 DEF Above
  <2>3. l < ll
    BY Zenon, <1>1, Neighbours
  <2>4. ll \in Nat
    BY Zenon, <2>2 DEF Chain
  <2> QED BY <2>2, <2>3, <2>4, Zenon
<1> USE DEF g, l
<1>3. Takes(f, g, end, l, a)
  BY Zenon, <1>1, MergedLast
<1>4. ~f[ll].is_free
  <2>1. l # NULL /\ l # a /\ ll # a
    BY <1>1, <1>2 DEF Chain, NULL
  <2> QED BY Zenon, <1>2, <2>1 DEF JoinedBut
<1> HIDE DEF g, l
<1>5. a # ll /\ ll # l /\ a # l
  BY <1>1, <1>2
<1> HIDE DEF ll
<1>6. ll \in DOMAIN g /\ ~g[ll].is_free /\ g[ll].next = a /\ g[a].next = f[a].next
  BY Zenon, <1>2, <1>3, <1>4, <1>5 DEF Takes, ll
<1>7. g[a].last = ll
  <2>1. ll # end
    BY <1>2, <1>1 DEF Chain, NULL
  <2> QED BY Zenon, <1>3, <1>6, <2>1 DEF Takes, Chain, Below
<1>8. ASSUME NEW y \in DOMAIN g, g[y].is_free, g[y].next # NULL, y # a
      PROVE  ~g[g[y].next].is_free
  <2>1. y \in DOMAIN f /\ y # l /\ y # ll /\ f[y].is_free /\ g[y].next = f[y].next
    BY Zenon, <1>3, <1>6, <1>8 DEF Takes, ll
  <2>2. f[y].next \in DOMAIN f
    BY Zenon, <1>8, <2>1 DEF Chain, Below
  <2>3. f[f[y].next].last = y
    BY Zenon, <1>8, <2>1 DEF Chain, Below
  <2>4. f[y].next # a /\ f[y].next # l
    BY Zenon, <2>1, <2>3 DEF l, ll
  <2>5. ~f[f[y].next].is_free
    BY Zenon, <1>8, <2>1, <2>4 DEF JoinedBut
  <2> QED BY Zenon, <1>3, <2>1, <2>2, <2>4, <2>5 DEF Takes
<1> QED BY Zenon, <1>3, <1>6, <1>7, <1>8 DEF g, l

\* A segment below a used one, taken in by the free one below it, leaves none to join.
LEMMA JoinsNext ==
  ASSUME NEW f, NEW end, Chain(f, end), NEW a \in DOMAIN f, a # main_segment, a # end,
         JoinedBut(f, a), ~f[f[a].last].is_free, f[f[a].next].is_free
  PROVE  LET g == merge_this_to_next(f, a)
         IN  Takes(f, g, end, a, f[a].next) /\ Joined(g)
<1> DEFINE g == merge_this_to_next(f, a)
           l == f[a].last
           n == f[a].next
<1>1. Takes(f, g, end, a, n)
  BY Zenon, MergedNext
<1>2. /\ n \in DOMAIN f /\ n # a /\ l \in DOMAIN f /\ l # a /\ f[l].next = a
  <2>1. n \in DOMAIN f /\ n # a /\ l \in DOMAIN f /\ l # a
    BY SMTT(30), Around
  <2>2. f[l].next = a
    BY Zenon DEF Chain, Above
  <2> QED BY Zenon, <2>1, <2>2
<1> HIDE DEF g
<1>3. SUFFICES ASSUME NEW y \in DOMAIN g, g[y].is_free, g[y].next # NULL
               PROVE  ~g[g[y].next].is_free
  BY Zenon, <1>1 DEF Joined, g
<1>4. y \in DOMAIN f /\ y # a /\ f[y].is_free /\ y # l
  BY Zenon, <1>1, <1>3 DEF Takes
<1>5. g[y].next = f[y].next
  BY Zenon, <1>1, <1>4 DEF Takes
<1>6. f[y].next \in DOMAIN f /\ f[f[y].next].last = y
  BY Zenon, <1>3, <1>4, <1>5 DEF Chain, Below
<1>7. f[y].next # a
  BY Zenon, <1>4, <1>6
<1>8. ~f[f[y].next].is_free
  BY Zenon, <1>3, <1>4, <1>5, <1>7 DEF JoinedBut
<1> QED BY ZenonT(30), <1>1, <1>5, <1>6, <1>7, <1>8 DEF Takes

\* The segment a call is about to free is in use, and not main_segment.
LEMMA Freeable ==
  ASSUME HeapInv, NEW x \in Callers, op[x].at # NULL
  PROVE  LET a == op[x].at - HDR
         IN  a \in DOMAIN seg /\ a # main_segment /\ ~seg[a].is_free /\ a + HDR = op[x].at
<1> DEFINE a == op[x].at - HDR
<1>1. PICK b \in live : b.at = op[x].at
  BY Zenon DEF HeapInv, Claims
<1>2. /\ b.at \in Nat /\ b.n \in Sizes /\ a \in DOMAIN seg /\ ~seg[a].is_free
      /\ seg[a].length = b.n
  BY Zenon, <1>1 DEF HeapInv, Holds
<1>3. a + HDR = op[x].at
  BY <1>1, <1>2, Numbers
<1> HIDE DEF a
<1>4. a \in Nat /\ a + HDR + seg[a].length <= Top /\ seg[a].length > 0 /\ seg[a].length \in Nat
  BY Zenon, <1>2, Numbers DEF HeapInv, Chain
<1>5. a # main_segment
  BY <1>4, Numbers
<1> QED BY Zenon, <1>2, <1>3, <1>5 DEF a

\* The list free leaves, as FreeSection says it.
AfterFree(f, a) ==
  LET next_free == f[a].next # NULL /\ f[f[a].next].is_free
      last_free == f[a].last # NULL /\ f[f[a].last].is_free
  IN  IF last_free /\ next_free THEN merge_this_to_next(merge_last_to_this(f, a), a)
      ELSE IF last_free THEN merge_last_to_this(f, a)
      ELSE IF next_free THEN merge_this_to_next(f, a)
      ELSE f

\* It is sound, whichever neighbours of the segment are free.
LEMMA Freed ==
  ASSUME NEW f, NEW end, Chain(f, end), NEW a \in DOMAIN f, a # main_segment, f[a].is_free,
         JoinedBut(f, a), NEW g, g = AfterFree(f, a)
  PROVE  Chain(g, end) /\ Joined(g) /\ Spares(f, g)
<1> DEFINE next_free == f[a].next # NULL /\ f[f[a].next].is_free
           last_free == f[a].last # NULL /\ f[f[a].last].is_free
           h == merge_last_to_this(f, a)
<1>1. f[a].last \in DOMAIN f /\ f[a].last # NULL
  BY Zenon, Around
<1>2. f[a].next # NULL <=> a # end
  BY Zenon, Around DEF Chain
<1>3. ASSUME last_free
      PROVE  /\ Takes(f, h, end, f[a].last, a) /\ h[a].next = f[a].next
             /\ h[a].last \in DOMAIN h /\ ~h[h[a].last].is_free /\ Spares(f, h)
             /\ \A y \in DOMAIN h : h[y].is_free /\ h[y].next # NULL /\ y # a
                                    => ~h[h[y].next].is_free
  <2>1. f[f[a].last].is_free
    BY Zenon, <1>3
  <2> HIDE DEF last_free
  <2>2. /\ Takes(f, h, end, f[a].last, a) /\ h[a].next = f[a].next
        /\ h[a].last \in DOMAIN h /\ ~h[h[a].last].is_free
        /\ \A y \in DOMAIN h : h[y].is_free /\ h[y].next # NULL /\ y # a
                                    => ~h[h[y].next].is_free
    BY Zenon, <2>1, JoinsLast
  <2> HIDE DEF h
  <2>3. Spares(f, h)
    BY Zenon, <2>1, <2>2, TakesSpares
  <2> QED BY <2>2, <2>3
<1> HIDE DEF h
<1>4. CASE last_free /\ next_free
  <2>1. g = merge_this_to_next(h, a)
    BY Zenon, <1>4 DEF AfterFree, h
  <2>2. Chain(h, end) /\ a \in DOMAIN h /\ h[a].is_free /\ DOMAIN h = DOMAIN f \ {f[a].last}
    BY Zenon, <1>3, <1>4 DEF Takes
  <2>3. f[a].next \in DOMAIN h /\ h[h[a].next].is_free
    <3>1. f[a].next \in DOMAIN f /\ f[a].next # f[a].last
      <4>1. a \in Nat /\ f[a].next < a /\ a < f[a].last /\ f[a].next \in DOMAIN f
        BY Zenon, <1>2, <1>4, Neighbours
      <4>2. f[a].next \in Nat /\ f[a].last \in Nat
        BY Zenon, <1>1, <4>1 DEF Chain
      <4> QED BY <4>1, <4>2
    <3> QED BY ZenonT(30), <1>3, <1>4, <2>2, <3>1 DEF Takes
  <2>4. JoinedBut(h, a)
    BY Zenon, <1>3, <1>4 DEF JoinedBut
  <2>5. Takes(h, g, end, a, h[a].next) /\ Joined(g)
    BY Zenon, <1>2, <1>3, <1>4, <2>1, <2>2, <2>3, <2>4, JoinsNext
  <2>6. Spares(h, g)
    BY Zenon, <2>2, <2>3, <2>5, TakesSpares
  <2>7. Spares(f, g)
    BY ZenonT(30), <1>3, <1>4, <2>6 DEF Spares
  <2> QED BY Zenon, <2>5, <2>7 DEF Takes
<1>5. CASE last_free /\ ~next_free
  <2>1. g = h
    BY Zenon, <1>5 DEF AfterFree, h
  <2>2. Chain(h, end) /\ DOMAIN h = DOMAIN f \ {f[a].last}
    BY Zenon, <1>3, <1>5 DEF Takes
  <2>3. h[a].next # NULL => ~h[h[a].next].is_free
    <3> SUFFICES ASSUME f[a].next # NULL PROVE ~h[f[a].next].is_free
      BY Zenon, <1>3, <1>5
    <3>1. f[a].next \in DOMAIN f /\ f[a].next # f[a].last
      <4>1. a \in Nat /\ f[a].next < a /\ a < f[a].last /\ f[a].next \in DOMAIN f
        BY Zenon, <1>2, Neighbours
      <4>2. f[a].next \in Nat /\ f[a].last \in Nat
        BY Zenon, <1>1, <4>1 DEF Chain
      <4> QED BY <4>1, <4>2
    <3> QED BY Zenon, <1>3, <1>5, <3>1 DEF Takes
  <2>4. Joined(h)
    BY Zenon, <1>3, <1>5, <2>3 DEF Joined
  <2> QED BY Zenon, <1>3, <1>5, <2>1, <2>2, <2>4
<1>6. CASE ~last_free /\ next_free
  <2>1. g = merge_this_to_next(f, a)
    BY Zenon, <1>6 DEF AfterFree
  <2>2. ~f[f[a].last].is_free /\ f[f[a].next].is_free /\ a # end
    BY Zenon, <1>1, <1>2, <1>6
  <2>3. Takes(f, g, end, a, f[a].next) /\ Joined(g)
    BY Zenon, <2>1, <2>2, JoinsNext
  <2>4. Spares(f, g)
    BY Zenon, <2>2, <2>3, TakesSpares
  <2> QED BY Zenon, <2>3, <2>4 DEF Takes
<1>7. CASE ~last_free /\ ~next_free
  <2>1. g = f
    BY Zenon, <1>7 DEF AfterFree
  <2>2. Joined(f)
    <3> SUFFICES ASSUME NEW y \in DOMAIN f, f[y].is_free, f[y].next # NULL
                 PROVE  ~f[f[y].next].is_free
      BY Zenon DEF Joined
    <3>1. CASE y = a
      BY Zenon, <1>7, <3>1
    <3>2. CASE f[y].next = a
      <4>1. f[a].last = y
        BY Zenon, <3>2 DEF Chain, Below
      <4> QED BY Zenon, <1>1, <1>7, <4>1
    <3> QED BY Zenon, <3>1, <3>2 DEF JoinedBut
  <2> QED BY SMTT(30), <2>1, <2>2 DEF Spares
<1> QED BY Zenon, <1>4, <1>5, <1>6, <1>7

\* free gives the segment back and joins it with its free neighbours.
LEMMA FreeSectionInv ==
  ASSUME HeapInv, NEW x \in Callers, FreeSection(x)
  PROVE  HeapInv'
<1> DEFINE a == op[x].at - HDR
           f == [seg EXCEPT ![a].is_free = TRUE]
           left == {b \in live : b.at # op[x].at}
<1>1. /\ pc[x] = "section" /\ op[x].what = "free" /\ live' = left /\ Leave(x, NoCall)
      /\ heap_end' = heap_end /\ last_segment' = last_segment
      /\ seg' = AfterFree(f, a)
  BY Zenon DEF FreeSection, AfterFree
<1>2. Chain(seg, heap_end) /\ Joined(seg) /\ Holds(seg, live) /\ last_segment = heap_end
  BY DEF HeapInv
<1>3. op[x].at # NULL /\ op[x].at \in Nat
  BY <1>1 DEF HeapInv, CallsOK
<1>4. a \in DOMAIN seg /\ a # main_segment /\ ~seg[a].is_free /\ a + HDR = op[x].at
  BY Zenon, <1>3, Freeable
<1> HIDE DEF a
<1>5. Flags(seg, f, heap_end, a, TRUE)
  BY Zenon, <1>2, <1>4, Flagged
<1> HIDE DEF f
<1>6. JoinedBut(f, a)
  <2> SUFFICES ASSUME NEW y \in DOMAIN f, f[y].is_free, f[y].next # NULL, y # a, f[y].next # a
               PROVE  ~f[f[y].next].is_free
    BY DEF JoinedBut
  <2>1. y \in DOMAIN seg /\ seg[y].is_free /\ f[y].next = seg[y].next
    BY <1>5 DEF Flags
  <2>2. seg[y].next \in DOMAIN seg /\ ~seg[seg[y].next].is_free
    BY Zenon, <1>2, <2>1 DEF Joined, Chain, Below
  <2> QED BY Zenon, <1>5, <2>1, <2>2 DEF Flags
<1>7. Chain(seg', heap_end) /\ Joined(seg') /\ Spares(f, seg')
  BY Zenon, <1>1, <1>4, <1>5, <1>6, Freed DEF Flags
<1>8. Holds(f, left)
  <2> SUFFICES ASSUME NEW b \in left
               PROVE  /\ b \in [at : Nat, n : Sizes] /\ b.at - HDR \in DOMAIN f
                      /\ ~f[b.at - HDR].is_free /\ f[b.at - HDR].length = b.n
    BY DEF Holds
  <2> DEFINE s == b.at - HDR
  <2>1. /\ b \in [at : Nat, n : Sizes] /\ s \in DOMAIN seg /\ ~seg[s].is_free
        /\ seg[s].length = b.n
    BY <1>2 DEF Holds
  <2>2. s # a
    BY <1>3, <1>4, <2>1, Numbers
  <2> HIDE DEF s
  <2>3. s \in DOMAIN f /\ ~f[s].is_free /\ f[s].length = b.n
    BY Zenon, <1>5, <2>1, <2>2 DEF Flags
  <2> QED BY Zenon, <2>1, <2>3 DEF s
<1>9. Holds(seg', live')
  BY Zenon, <1>1, <1>7, <1>8, StillHeld
<1>10. Sound(NoCall) /\ NoCall.at = NULL
  BY DEF Sound, Call, NoCall, NULL
<1>11. CallsOK' /\ Exclusive' /\ op'[x] = NoCall /\ \A y \in Callers : y # x => op'[y] = op[y]
  BY Zenon, <1>1, <1>10, Left
<1>12. Claims'
  <2>1. ASSUME NEW y \in Callers, op'[y].at # NULL
        PROVE  y # x /\ op'[y] = op[y] /\ op[y].at # op[x].at /\ \E b \in live' : b.at = op'[y].at
    <3>1. y # x /\ op'[y] = op[y]
      BY <1>10, <1>11, <2>1
    <3>2. op[y].at # op[x].at /\ \E b \in live : b.at = op[y].at
      BY Zenon, <2>1, <3>1 DEF HeapInv, Claims
    <3> QED BY Zenon, <1>1, <3>1, <3>2
  <2>2. ASSUME NEW y \in Callers, NEW z \in Callers, y # z, op'[y].at # NULL
        PROVE  op'[y].at # op'[z].at
    <3>1. CASE op'[z].at = NULL
      BY <2>2, <3>1
    <3>2. CASE op'[z].at # NULL
      <4>1. op'[y] = op[y] /\ op'[z] = op[z] /\ op[y].at # NULL
        BY Zenon, <2>1, <2>2, <3>2
      <4> QED BY ZenonT(30), <2>2, <4>1 DEF HeapInv, Claims
    <3> QED BY <3>1, <3>2
  <2> QED BY Zenon, <2>1, <2>2 DEF Claims
<1> QED BY Zenon, <1>1, <1>2, <1>7, <1>9, <1>11, <1>12 DEF HeapInv

-----------------------------------------------------------------------------
(* The theorems.                                                           *)

\* Every step of malloc, free, realloc and the interrupt handler keeps the invariant.
LEMMA NextInv == HeapInv /\ [Next]_vars => HeapInv'
<1> SUFFICES ASSUME HeapInv, [Next]_vars PROVE HeapInv'
  OBVIOUS
<1>1. CASE UNCHANGED vars
  BY Zenon, <1>1 DEF vars, heap, HeapInv, Holds, CallsOK, Claims, Exclusive
<1>2. ASSUME NEW x \in Callers, NEW n \in Sizes, malloc(x, n) PROVE HeapInv'
  BY <1>2, CallInv
<1>3. ASSUME NEW x \in Callers, NEW b \in live, free(x, b) \/ \E n \in Sizes : realloc(x, b, n)
      PROVE  HeapInv'
  BY <1>3, CallInv
<1>4. ASSUME NEW x \in Callers, Acquire(x) \/ Section(x) PROVE HeapInv'
  BY <1>4, AcquireInv, MallocSplitInv, MallocWholeInv, MallocExpandInv, FreeSectionInv
     DEF Section
<1>5. CASE SpinOut
  BY ZenonT(30), <1>5 DEF SpinOut, heap, HeapInv, Holds, CallsOK, Claims, Exclusive
<1> QED BY <1>1, <1>2, <1>3, <1>4, <1>5 DEF Next

\* HeapInv holds in every state the heap can reach, however its callers interleave.
THEOREM HeapSound == Spec => []HeapInv
<1>1. HeapInv /\ [Next]_vars => HeapInv'
  BY NextInv
<1> QED BY <1>1, InitInv, PTL DEF Spec

\* The list of segments stays sound: it leads from main_segment down to last_segment at the
\* heap's end, next and last are inverse, and the segments are disjoint and inside the heap,
\* through every split, merge and expansion.
THEOREM ListIsSound == Spec => []SegmentsSound
<1>1. HeapInv => SegmentsSound
  <2> SUFFICES ASSUME HeapInv PROVE SegmentsSound
    OBVIOUS
  <2>1. Chain(seg, heap_end) /\ last_segment = heap_end
    BY DEF HeapInv
  <2>2. seg[last_segment].next = NULL
    BY Zenon, <2>1 DEF Chain
  <2>3. ASSUME NEW a \in DOMAIN seg
        PROVE  /\ a + HDR + seg[a].length <= Top
               /\ (seg[a].next = NULL) = (a = last_segment)
               /\ seg[a].next # NULL => /\ seg[seg[a].next].last = a
                                        /\ seg[a].next + HDR + seg[seg[a].next].length <= a
                                        /\ \A b \in DOMAIN seg : ~ (seg[a].next < b /\ b < a)
    <3>1. a + HDR + seg[a].length <= Top
      BY <2>1 DEF Chain
    <3>2. CASE a = heap_end
      BY Zenon, <2>1, <2>2, <3>1, <3>2
    <3>3. CASE a # heap_end
      <4> DEFINE n == seg[a].next
      <4>1. n \in DOMAIN seg /\ seg[n].last = a /\ Above(seg, n) /\ n # NULL
        <5>1. n \in DOMAIN seg /\ Above(seg, n)
          BY SMTT(30), <2>1, <3>3, Neighbours
        <5>2. n # NULL
          BY SMTT(30), <2>1, <3>3, Around
        <5>3. seg[n].last = a
          BY Zenon, <2>1, <3>3 DEF Chain, Below
        <5> QED BY Zenon, <5>1, <5>2, <5>3
      <4>2. a \in Nat /\ n \in Nat /\ \A b \in DOMAIN seg : b \in Nat
        BY Zenon, <2>1, <4>1 DEF Chain
      <4> HIDE DEF n
      <4>3. n + HDR + seg[n].length <= a /\ \A b \in DOMAIN seg : ~ (n < b /\ b < a)
        BY <4>1, <4>2 DEF Above
      <4> QED BY Zenon, <2>1, <3>1, <3>3, <4>1, <4>3 DEF n
    <3> QED BY Zenon, <3>2, <3>3
  <2> QED BY Zenon, <2>1, <2>2, <2>3 DEF SegmentsSound
<1> QED BY <1>1, HeapSound, PTL

\* A block in use is exactly the data of a used segment, whatever other callers free, split,
\* merge or expand meanwhile.
THEOREM BlocksAreIntact == Spec => []BlocksIntact
<1>1. HeapInv => BlocksIntact
  BY DEF HeapInv, Holds, BlocksIntact
<1> QED BY <1>1, HeapSound, PTL

\* free leaves no two neighbours free, and neither does expand_heap or a split.
THEOREM NeighboursJoined == Spec => []Coalesced
<1>1. HeapInv => Coalesced
  BY Zenon DEF HeapInv, Joined, Coalesced
<1> QED BY <1>1, HeapSound, PTL

\* The blocks of a sound heap lie inside it and share no unit.
LEMMA BlocksApart ==
  ASSUME NEW f, NEW end, Chain(f, end), NEW blocks, Holds(f, blocks)
  PROVE  /\ \A b \in blocks : b \in Promise!Block /\ Promise!Units(b) \subseteq 0..(Top - 1)
         /\ \A b, c \in blocks :
              b # c => b.at # c.at /\ Promise!Units(b) \cap Promise!Units(c) = {}
<1>1. ASSUME NEW b \in blocks
      PROVE  /\ b \in [at : Nat, n : Sizes] /\ b.at - HDR \in DOMAIN f
             /\ f[b.at - HDR].length = b.n /\ b.n \in Nat /\ b.n > 0
             /\ b.at + b.n <= Top
  <2>1. /\ b \in [at : Nat, n : Sizes] /\ b.at - HDR \in DOMAIN f
        /\ f[b.at - HDR].length = b.n /\ b.n \in Nat /\ b.n > 0
    BY Zenon, Numbers DEF Holds
  <2> DEFINE s == b.at - HDR
  <2>2. s + HDR + f[s].length <= Top /\ s \in Nat
    BY Zenon, <2>1 DEF Chain
  <2>3. s + HDR = b.at
    BY <2>1, Numbers
  <2> QED BY Zenon, <2>1, <2>2, <2>3, Numbers
<1>2. ASSUME NEW b \in blocks
      PROVE  b \in Promise!Block /\ Promise!Units(b) \subseteq 0..(Top - 1)
  <2>1. b.at \in 0..(Top - 1)
    BY <1>1, Numbers
  <2> QED BY <1>1, <2>1, Numbers DEF Promise!Block, Promise!Units
<1>3. ASSUME NEW b \in blocks, NEW c \in blocks, b.at < c.at
      PROVE  Promise!Units(b) \cap Promise!Units(c) = {}
  <2> DEFINE s == b.at - HDR
             t == c.at - HDR
  <2>1. s < t /\ s \in Nat /\ t \in Nat /\ s + HDR = b.at /\ t + HDR = c.at
    BY <1>1, <1>3, Numbers DEF Chain
  <2>2. s \in DOMAIN f /\ t \in DOMAIN f /\ f[s].length = b.n
    BY Zenon, <1>1
  <2> HIDE DEF s, t
  <2>3. s + HDR + f[s].length <= t
    BY Zenon, <2>1, <2>2, Apart
  <2>4. b.at + b.n <= c.at
    BY <1>1, <2>1, <2>2, <2>3, Numbers
  <2> QED BY <1>1, <2>4 DEF Promise!Units
<1>4. ASSUME NEW b \in blocks, NEW c \in blocks, b.at = c.at
      PROVE  b = c
  BY <1>1, <1>4
<1>5. ASSUME NEW b \in blocks, NEW c \in blocks, b # c
      PROVE  b.at # c.at /\ Promise!Units(b) \cap Promise!Units(c) = {}
  <2>1. b.at \in Nat /\ c.at \in Nat /\ b.at # c.at
    BY <1>1, <1>4, <1>5
  <2> QED BY <1>3, <2>1
<1> QED BY <1>2, <1>5

\* The heap implements Allocator: a block handed out lies inside the memory and overlaps no
\* block in use, and only its owner's free ends its life.
THEOREM HeapAllocates == Spec => Allocates
<1>1. Init => Promise!Init
  BY DEF Init, Promise!Init
<1>2. HeapInv /\ HeapInv' /\ [Next]_vars => [Promise!Next]_live
  <2> SUFFICES ASSUME HeapInv, HeapInv', [Next]_vars, live' # live PROVE Promise!Next
    BY Zenon DEF vars
  <2>1. ASSUME NEW x \in Callers, NEW a, NEW f, Found(x, a, f) PROVE Promise!Next
    <3> DEFINE b == [at |-> a + HDR, n |-> f[a].length]
    <3>1. live' = live \cup {b} /\ b \notin live
      BY <2>1 DEF Found
    <3> HIDE DEF b
    <3>2. b \in Promise!Block /\ Promise!Units(b) \subseteq 0..(Top - 1)
      BY <3>1, BlocksApart DEF HeapInv
    <3>3. \A c \in live : Promise!Units(b) \cap Promise!Units(c) = {}
      BY <3>1, BlocksApart DEF HeapInv
    <3> QED BY <3>1, <3>2, <3>3 DEF Promise!Next, Promise!Allocate
  <2>2. ASSUME NEW x \in Callers, FreeSection(x) PROVE Promise!Next
    <3>1. live' = {b \in live : b.at # op[x].at}
      BY Zenon, <2>2 DEF FreeSection
    <3>2. PICK b \in live : b.at = op[x].at
      BY <3>1
    <3>3. b \in Promise!Block /\ \A c \in live : c # b => c.at # b.at
      BY Zenon, BlocksApart DEF HeapInv
    <3>4. live' = live \ {b}
      BY <3>1, <3>2, <3>3
    <3> QED BY <3>3, <3>4 DEF Promise!Next, Promise!Free
  <2>3. \A x \in Callers : Section(x) => Promise!Next
    BY Zenon, <2>1, <2>2 DEF Section, MallocSplit, MallocWhole, MallocExpand
  <2>4. ~ UNCHANGED vars /\ ~SpinOut
    BY DEF vars, SpinOut
  <2>5. \A x \in Callers : ~Acquire(x) /\ \A call : ~Begin(x, call)
    BY DEF Acquire, Begin
  <2> QED BY Zenon, <2>3, <2>4, <2>5 DEF Next, malloc, free, realloc
<1> QED BY <1>1, <1>2, HeapSound, PTL DEF Spec, Allocates, Promise!Spec
=============================================================================
