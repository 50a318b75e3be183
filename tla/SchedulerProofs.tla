--------------------------- MODULE SchedulerProofs --------------------------
(***************************************************************************)
(* The scheduler keeps its types and its lock discipline, for any number of *)
(* CPUs, threads and processes and any workload: SchedInv is inductive.     *)
(* And its ready list is a queue, for any set of threads.                   *)
(*                                                                         *)
(* The lemmas follow the model: the list and vector operators first, then   *)
(* the functions called with the lock held (each takes a good state of the  *)
(* scheduler to a good one), then scheduler_handler, then the actions; and   *)
(* at the end the module ReadyList.                                         *)
(***************************************************************************)
EXTENDS Scheduler, FiniteSetTheorems, WellFoundedInduction, TLAPS

-----------------------------------------------------------------------------
(* What scheduler_enqueue_wl and scheduler_get_tread_wl do to a list that   *)
(* spells a sequence of threads, for any set of threads T.                  *)

QueuesOver(T) ==
  [first : T \cup {NULL}, last : T \cup {NULL}, next : [T -> T \cup {NULL}],
   prev : [T -> T \cup {NULL}], inq : SUBSET T]

\* Forward links, from first through next to last and round to first again, visit the
\* threads of f in its order, each once.
Follows(q, f) ==
  LET n == Len(f)
  IN  /\ \A i, j \in 1..n : f[i] = f[j] => i = j
      /\ q.inq = {f[i] : i \in 1..n}
      /\ n = 0 => q.first = NULL /\ q.last = NULL
      /\ n > 0 => q.first = f[1] /\ q.last = f[n] /\ q.next[f[n]] = f[1]
      /\ \A i \in 1..(n - 1) : q.next[f[i]] = f[i + 1]

\* The backward link of the first thread and of every thread outside the list is null, so
\* taking the first one stores through no stale pointer.
NoStale(q, f, T) ==
  /\ \A t \in T \ q.inq : q.prev[t] = NULL
  /\ Len(f) > 0 => q.prev[f[1]] = NULL

\* The list q spells the sequence f.
Spells(q, f, T) == q \in QueuesOver(T) /\ f \in Seq(T) /\ Follows(q, f) /\ NoStale(q, f, T)

\* The empty list.
LEMMA EmptySpells ==
  ASSUME NEW T
  PROVE  Spells(EmptyQueue(T), << >>, T)
BY DEF Spells, QueuesOver, EmptyQueue, Follows, NoStale

\* The threads of f are the marked ones; first is the head of f, null when there is none.
LEMMA SpellsMembers ==
  ASSUME NEW T, NULL \notin T, NEW q, NEW f, Spells(q, f, T)
  PROVE  /\ \A i \in DOMAIN f : f[i] \in q.inq
         /\ f = << >> => q.first = NULL
         /\ f # << >> => q.first # NULL /\ q.first = Head(f) /\ q.first \in q.inq
<1>1. f \in Seq(T) /\ DOMAIN f = 1..Len(f) /\ q.inq = {f[i] : i \in 1..Len(f)}
  BY DEF Spells, Follows
<1>2. ASSUME f # << >> PROVE q.first = f[1] /\ f[1] \in T /\ f[1] \in q.inq
  <2>1. Len(f) \in Nat /\ Len(f) > 0
    BY <1>1, <1>2
  <2> QED BY <1>1, <2>1 DEF Spells, Follows
<1>3. ASSUME f = << >> PROVE q.first = NULL
  BY <1>3 DEF Spells, Follows
<1> QED BY <1>1, <1>2, <1>3

\* scheduler_enqueue_wl of a thread that is not in the list puts it at the end.
LEMMA EnqueueSpells ==
  ASSUME NEW T, NULL \notin T, NEW q, NEW f, Spells(q, f, T), NEW t \in T, t \notin q.inq
  PROVE  Spells(scheduler_enqueue_wl(q, t), Append(f, t), T)
<1> DEFINE r == scheduler_enqueue_wl(q, t)
           g == Append(f, t)
<1> DEFINE n == Len(f)
<1>1. /\ f \in Seq(T) /\ n \in Nat /\ t \notin q.inq /\ t # NULL
      /\ q \in QueuesOver(T)
  BY DEF Spells
<1>2. /\ g = Append(f, t) /\ g \in Seq(T) /\ Len(g) = n + 1
      /\ g[n + 1] = t /\ \A i \in 1..n : g[i] = f[i] /\ f[i] \in T
  BY <1>1
<1>3. r = scheduler_enqueue_wl(q, t)
  OBVIOUS
<1> HIDE DEF r, g
<1>4. \A i \in 1..n : f[i] # t
  BY <1>1 DEF Spells, Follows
<1>5. CASE n = 0
  <2> SUFFICES Spells(r, g, T)
    BY Zenon DEF r, g
  <2>1. q.first = NULL /\ q.last = NULL /\ q.inq = {}
    BY <1>5 DEF Spells, Follows
  <2>2. /\ r.first = t /\ r.last = t /\ r.inq = {t}
        /\ r.next = [q.next EXCEPT ![t] = t] /\ r.prev = q.prev
    BY <1>3, <2>1 DEF scheduler_enqueue_wl, SetIf
  <2>3. r \in QueuesOver(T)
    BY <1>1, <1>3, <2>1 DEF scheduler_enqueue_wl, SetIf, QueuesOver
  <2> QED
    BY <1>1, <1>2, <1>5, <2>1, <2>2, <2>3
       DEF Spells, Follows, NoStale, QueuesOver
<1>6. CASE n > 0
  <2> SUFFICES Spells(r, g, T)
    BY Zenon DEF r, g
  <2>1. q.first = f[1] /\ q.last = f[n] /\ q.first # NULL /\ q.last # NULL
    BY <1>1, <1>2, <1>6 DEF Spells, Follows
  <2>2. /\ r.first = q.first /\ r.last = t /\ r.inq = q.inq \cup {t}
        /\ r.next = [[q.next EXCEPT ![f[n]] = t] EXCEPT ![t] = q.first]
        /\ r.prev = [q.prev EXCEPT ![t] = q.last]
    BY <1>3, <2>1 DEF scheduler_enqueue_wl, SetIf
  <2>3. r \in QueuesOver(T)
    BY Zenon, <1>1, <1>2, <1>3, <1>6, <2>1 DEF scheduler_enqueue_wl, SetIf, QueuesOver
  <2>4. Follows(r, g)
    <3>1. \A i, j \in 1..(n + 1) : g[i] = g[j] => i = j
      BY <1>1, <1>2, <1>4 DEF Spells, Follows
    <3>2. r.inq = {g[i] : i \in 1..(n + 1)}
      BY <1>1, <1>2, <2>2 DEF Spells, Follows
    <3>3. r.next[t] = q.first /\ r.next[f[n]] = t
      BY <1>1, <1>2, <1>4, <1>6, <2>2 DEF QueuesOver
    <3>4. \A i \in 1..(n - 1) : r.next[f[i]] = f[i + 1]
      BY <1>1, <1>2, <1>4, <1>6, <2>2 DEF Spells, Follows, QueuesOver
    <3>5. \A i \in 1..n : r.next[g[i]] = g[i + 1]
      BY <1>1, <1>2, <1>6, <3>3, <3>4
    <3>6. r.first = g[1] /\ r.last = g[n + 1] /\ r.next[g[n + 1]] = g[1]
      BY <1>1, <1>2, <1>6, <2>1, <2>2, <3>3
    <3>7. Len(g) = n + 1 /\ n + 1 > 0 /\ n + 1 # 0 /\ (n + 1) - 1 = n
      BY <1>1, <1>2
    <3> HIDE DEF n
    <3> QED
      BY <3>1, <3>2, <3>5, <3>6, <3>7 DEF Follows
  <2>5. NoStale(r, g, T)
    BY <1>1, <1>2, <1>4, <1>6, <2>2 DEF Spells, NoStale, QueuesOver, Follows
  <2> QED
    BY <1>2, <2>3, <2>4, <2>5 DEF Spells
<1>7. n = 0 \/ n > 0
  BY <1>1
<1> QED
  BY <1>5, <1>6, <1>7 DEF r, g

\* scheduler_get_tread_wl takes the first thread off a list that is not empty.
LEMMA TakeSpells ==
  ASSUME NEW T, NULL \notin T, NEW q, NEW f, Spells(q, f, T), q.first # NULL
  PROVE  /\ Spells(scheduler_get_tread_wl(q), Tail(f), T)
         /\ f # << >> /\ q.first = Head(f) /\ q.first \in T
<1> DEFINE r == scheduler_get_tread_wl(q)
           g == Tail(f)
<1> DEFINE n == Len(f)
<1>1. /\ f \in Seq(T) /\ n \in Nat /\ q \in QueuesOver(T) /\ q.first # NULL
  BY DEF Spells
<1>2. n > 0 /\ q.first = f[1] /\ f[1] \in T /\ q.last = f[n]
  BY <1>1 DEF Spells, Follows
<1>3. /\ g = Tail(f) /\ g \in Seq(T) /\ Len(g) = n - 1
      /\ \A i \in 1..(n - 1) : g[i] = f[i + 1]
      /\ \A i \in 1..n : f[i] \in T /\ f[i] # NULL
  BY <1>1, <1>2
<1>4. r = scheduler_dequeue_wl(q, f[1]) /\ q.prev[f[1]] = NULL
  BY <1>2, <1>1 DEF scheduler_get_tread_wl, Spells, NoStale
<1> HIDE DEF r, g
<1>5. \A i \in 2..n : f[i] # f[1]
  BY <1>1, <1>2 DEF Spells, Follows
<1> SUFFICES Spells(r, g, T)
  BY <1>1, <1>2 DEF r, g
<1>6. CASE n = 1
  <2>1. q.next[f[1]] = f[1] /\ q.inq = {f[1]}
    BY <1>6, <1>2 DEF Spells, Follows
  <2>2. r = [first |-> NULL, last |-> NULL,
              next |-> [q.next EXCEPT ![f[1]] = NULL],
              prev |-> [[q.prev EXCEPT ![f[1]] = NULL] EXCEPT ![f[1]] = NULL],
              inq |-> q.inq \ {f[1]}]
    BY Zenon, <1>2, <1>3, <1>4, <2>1 DEF scheduler_dequeue_wl, SetIf
  <2>3. r \in QueuesOver(T)
    BY <1>1, <1>2, <2>2 DEF QueuesOver
  <2> QED
    BY <1>1, <1>2, <1>3, <1>6, <2>1, <2>2, <2>3
       DEF Spells, Follows, NoStale, QueuesOver
<1>7. CASE n > 1
  <2>1. /\ q.next[f[1]] = f[2] /\ f[2] # f[1] /\ f[n] # f[1]
        /\ f[2] \in T /\ f[n] \in T /\ f[2] # NULL /\ f[n] # NULL
    BY <1>1, <1>3, <1>5, <1>7 DEF Spells, Follows
  <2>2. r = [first |-> f[2], last |-> f[n],
              next |-> [[q.next EXCEPT ![f[n]] = f[2]] EXCEPT ![f[1]] = NULL],
              prev |-> [[q.prev EXCEPT ![f[2]] = NULL] EXCEPT ![f[1]] = NULL],
              inq |-> q.inq \ {f[1]}]
    <3>1. [q.next EXCEPT ![f[n]] = f[2]][f[1]] = f[2]
      BY <1>1, <1>2, <2>1 DEF QueuesOver
    <3> QED
      BY ZenonT(30), <1>2, <1>4, <2>1, <3>1 DEF scheduler_dequeue_wl, SetIf
  <2>3. r \in QueuesOver(T)
    BY SMTT(30), <1>1, <1>2, <2>1, <2>2 DEF QueuesOver
  <2>4. Follows(r, g)
    <3>1. \A i, j \in 1..(n - 1) : g[i] = g[j] => i = j
      BY <1>1, <1>3, <1>7 DEF Spells, Follows
    <3>2. r.inq = {g[i] : i \in 1..(n - 1)}
      <4>1. q.inq = {f[i] : i \in 1..n}
        BY DEF Spells, Follows
      <4>2. \A t \in q.inq \ {f[1]} : \E i \in 1..(n - 1) : t = g[i]
        <5> TAKE t \in q.inq \ {f[1]}
        <5>1. PICK i \in 1..n : t = f[i]
          BY <4>1
        <5>2. i # 1 /\ i - 1 \in 1..(n - 1) /\ g[i - 1] = t
          BY <1>1, <1>3, <5>1
        <5> QED
          BY <5>2
      <4>3. \A i \in 1..(n - 1) : g[i] \in q.inq /\ g[i] # f[1]
        BY <1>1, <1>3, <1>5, <4>1
      <4>4. r.inq = q.inq \ {f[1]}
        BY <2>2
      <4>5. \A t : t \in r.inq <=> \E i \in 1..(n - 1) : t = g[i]
        BY <4>2, <4>3, <4>4, Zenon
      <4> HIDE DEF n
      <4> QED
        BY <4>5, Zenon
    <3>3. r.first = g[1] /\ r.last = g[n - 1] /\ r.next[g[n - 1]] = g[1]
      BY <1>1, <1>3, <1>7, <2>1, <2>2 DEF QueuesOver
    <3>4. \A i \in 1..(n - 2) : r.next[g[i]] = g[i + 1]
      <4>1. \A i \in 2..(n - 1) : f[i] # f[n] /\ q.next[f[i]] = f[i + 1]
        BY <1>1, <1>7 DEF Spells, Follows
      <4>2. \A i \in 2..(n - 1) : r.next[f[i]] = q.next[f[i]]
        BY <1>1, <1>3, <1>5, <1>7, <2>1, <2>2, <4>1 DEF QueuesOver
      <4>3. \A i \in 1..(n - 2) : i + 1 \in 2..(n - 1) /\ g[i] = f[i + 1] /\ g[i + 1] = f[(i + 1) + 1]
        BY <1>1, <1>3, <1>7
      <4> QED
        BY ZenonT(30), <4>1, <4>2, <4>3
    <3> HIDE DEF n
    <3>5. Len(g) = n - 1 /\ n - 1 > 0 /\ n - 1 # 0 /\ (n - 1) - 1 = n - 2
      BY <1>1, <1>3, <1>7
    <3> QED
      BY <3>1, <3>2, <3>3, <3>4, <3>5 DEF Follows
  <2>5. NoStale(r, g, T)
    BY <1>1, <1>2, <1>3, <1>7, <2>1, <2>2 DEF Spells, NoStale, QueuesOver
  <2> QED
    BY <1>3, <2>3, <2>4, <2>5 DEF Spells
<1> HIDE DEF n
<1> QED
  BY <1>1, <1>2, <1>6, <1>7

\* A non-empty set of naturals has a least element.
LEMMA LeastIndex ==
  ASSUME NEW T \in SUBSET Nat, T # {}
  PROVE  \E x \in T : \A y \in T : x <= y
<1> DEFINE R == {ss \in Nat \X Nat : ss[1] < ss[2]}
<1>1. IsWellFoundedOn(R, Nat)
  BY NatLessThanWellFounded DEF OpToRel
<1>2. PICK x \in T : \A y \in T : ~ (<<y, x>> \in R)
  <2> HIDE DEF R
  <2> QED BY Zenon, <1>1, WFMin
<1>3. \A y \in T : x <= y
  <2> TAKE y \in T
  <2>1. <<y, x>> \in Nat \X Nat /\ ~ (<<y, x>> \in R)
    BY <1>2
  <2> QED BY <2>1
<1> QED BY <1>3

\* As many threads are marked is_in_queue as the list spells.
LEMMA SpellsAll ==
  ASSUME NEW T, NEW q, NEW f, Spells(q, f, T)
  PROVE  Cardinality(q.inq) = Len(f) /\ Len(f) \in Nat
<1> DEFINE n == Len(f)
<1>1. n \in Nat /\ q.inq = {f[i] : i \in 1..n} /\ \A i, j \in 1..n : f[i] = f[j] => i = j
  BY DEF Spells, Follows
<1> HIDE DEF n
<1> DEFINE b == [i \in 1..n |-> f[i]]
<1>2. b \in Bijection(1..n, q.inq)
  <2>1. b \in [1..n -> q.inq] /\ \A i \in 1..n : b[i] = f[i]
    BY <1>1
  <2>2. \A x \in q.inq : \E i \in 1..n : b[i] = x
    BY <1>1
  <2> HIDE DEF b
  <2>3. b \in Injection(1..n, q.inq)
    BY Zenon, <1>1, <2>1 DEF Injection, IsInjective
  <2>4. b \in Surjection(1..n, q.inq)
    BY <2>1, <2>2 DEF Surjection
  <2> QED BY Zenon, <2>3, <2>4 DEF Bijection
<1>3. ExistsBijection(1..n, q.inq)
  BY Zenon, <1>2 DEF ExistsBijection
<1>4. IsFiniteSet(1..n) /\ Cardinality(1..n) = n
  BY <1>1, FS_Interval
<1>5. Cardinality(q.inq) = n
  BY Zenon, <1>3, <1>4, FS_Bijection
<1> QED BY Zenon, <1>1, <1>5 DEF n

\* The walk from first along next reads off the sequence that the list spells.
LEMMA SpellsReady ==
  ASSUME NEW T, NULL \notin T, NEW q, NEW f, Spells(q, f, T)
  PROVE  Ready(q) = f
<1> DEFINE n == Cardinality(q.inq)
           step(w, i) == IF i = 1 THEN q.first
                         ELSE IF w[i - 1] = NULL THEN NULL ELSE q.next[w[i - 1]]
           Walk(w) == w = [i \in 1..n |-> step(w, i)]
           walk == CHOOSE w : Walk(w)
<1>1. Ready(q) = [i \in 1..n |-> walk[i]]
  BY DEF Ready
<1>2. n = Len(f) /\ n \in Nat
  BY SpellsAll
<1> HIDE DEF n
<1>3. /\ \A i \in 1..n : f[i] \in T /\ f[i] # NULL
      /\ n > 0 => q.first = f[1]
      /\ \A i \in 2..n : q.next[f[i - 1]] = f[i]
  BY <1>2 DEF Spells, Follows
<1>4. f = [i \in 1..n |-> f[i]]
  BY <1>2 DEF Spells
<1>5. \E w : Walk(w)
  <2>1. \A i \in 1..n : step(f, i) = f[i]
    BY <1>2, <1>3
  <2> HIDE DEF step
  <2>2. f = [i \in 1..n |-> step(f, i)]
    BY <1>4, <2>1
  <2> QED BY Zenon, <2>2
<1>6. Walk(walk)
  <2> HIDE DEF Walk
  <2> QED BY <1>5
<1> HIDE DEF walk
<1>7. \A i \in 1..n : walk[i] = f[i]
  <2> DEFINE Bad == {i \in 1..n : walk[i] # f[i]}
  <2> SUFFICES ASSUME Bad # {} PROVE FALSE
    OBVIOUS
  <2>1. Bad \subseteq Nat
    BY <1>2
  <2>2. PICK m \in Bad : \A z \in Bad : m <= z
    BY Zenon, <2>1, LeastIndex
  <2>3. m \in 1..n /\ walk[m] # f[m] /\ walk[m] = step(walk, m)
    BY Zenon, <1>6
  <2>4. m # 1
    BY <1>2, <1>3, <2>3
  <2>5. m - 1 \in 1..n /\ m \in 2..n /\ m - 1 \notin Bad
    BY <1>2, <2>2, <2>3, <2>4
  <2>6. walk[m - 1] = f[m - 1] /\ f[m - 1] # NULL
    BY <1>3, <2>5
  <2> QED BY <1>3, <2>3, <2>4, <2>5, <2>6
<1>8. [i \in 1..n |-> walk[i]] = [i \in 1..n |-> f[i]]
  BY <1>7
<1> QED BY Zenon, <1>1, <1>4, <1>8

\* A list that spells a sequence is well linked: one ring through the marked threads.
LEMMA SpellsLinked ==
  ASSUME NEW T, NULL \notin T, NEW q, NEW f, Spells(q, f, T)
  PROVE  WellLinked(q)
<1>1. Ready(q) = f /\ Len(f) \in Nat
  BY SpellsReady, SpellsAll
<1> QED BY <1>1 DEF WellLinked, Spells, Follows

-----------------------------------------------------------------------------
(* The types and the lock discipline of the scheduler.                      *)

\* A non-empty set of naturals contains its minimum: the scan of a vector or of a
\* process's threads stops at an index that is there.
LEMMA MinIn ==
  ASSUME NEW T \in SUBSET Nat, T # {}
  PROVE  Min(T) \in T
<1> DEFINE R == {ss \in Nat \X Nat : ss[1] < ss[2]}
<1>1. IsWellFoundedOn(R, Nat)
  BY NatLessThanWellFounded DEF OpToRel
<1>2. PICK x \in T : \A y \in T : ~ (<<y, x>> \in R)
  <2> HIDE DEF R
  <2> QED BY Zenon, <1>1, WFMin
<1>3. \A y \in T : x <= y
  <2> TAKE y \in T
  <2>1. <<y, x>> \in Nat \X Nat /\ ~ (<<y, x>> \in R)
    BY <1>2
  <2>2. ~ (y < x)
    BY <2>1
  <2> QED BY <2>2
<1> QED
  BY Zenon, <1>3 DEF Min

QueueRecords ==
  [first : TidOrNull, last : TidOrNull, next : [AllTids -> TidOrNull],
   prev : [AllTids -> TidOrNull], inq : SUBSET AllTids]

\* The constants are numbers, and no thread is NULL.
LEMMA Tidy ==
  /\ NULL \notin AllTids /\ \A t \in AllTids : t \in Nat
  /\ \A c \in Cpus : Idle(c) \in AllTids /\ c # 0
  /\ InitTid \in AllTids /\ InitPid \in Pids /\ 1 \in Pids /\ IrqCpu \in Cpus
  /\ \A p \in Pids : p \in Nat
BY SchedulerAssumption DEF NULL, AllTids, Cpus, Idle, InitTid, InitPid, Pids, IrqCpu

\* scheduler_enqueue_wl and scheduler_get_tread_wl keep the types of the list.
LEMMA EnqueueType ==
  ASSUME NEW q \in QueueRecords, NEW t \in AllTids
  PROVE  scheduler_enqueue_wl(q, t) \in QueueRecords
BY Tidy DEF QueueRecords, scheduler_enqueue_wl, SetIf, TidOrNull

\* A store through a pointer that may be null keeps a link field typed.
LEMMA SetIfType ==
  ASSUME NEW f \in [AllTids -> TidOrNull], NEW p \in TidOrNull, NEW v \in TidOrNull
  PROVE  SetIf(f, p, v) \in [AllTids -> TidOrNull]
BY DEF SetIf, TidOrNull

\* scheduler_dequeue_wl keeps the types of the list.
LEMMA DequeueType ==
  ASSUME NEW q \in QueueRecords, NEW t \in AllTids
  PROVE  scheduler_dequeue_wl(q, t) \in QueueRecords
<1> DEFINE only == q.first = t /\ q.first = q.next[t]
           f  == IF only THEN NULL ELSE IF q.first = t THEN q.next[t] ELSE q.first
           l0 == IF only THEN NULL ELSE q.last
           l  == IF l0 # t THEN l0 ELSE IF q.prev[t] # NULL THEN q.prev[t] ELSE f
           n1 == SetIf(q.next, l, f)
           n2 == SetIf(n1, q.prev[t], n1[t])
           p1 == SetIf(q.prev, n2[t], q.prev[t])
<1>1. f \in TidOrNull /\ l \in TidOrNull /\ q.prev[t] \in TidOrNull
  BY DEF QueueRecords, TidOrNull
<1>2. n1 \in [AllTids -> TidOrNull]
  BY Zenon, <1>1, SetIfType DEF QueueRecords
<1>3. n2 \in [AllTids -> TidOrNull]
  <2> HIDE DEF n1
  <2> QED BY Zenon, <1>1, <1>2, SetIfType
<1>4. p1 \in [AllTids -> TidOrNull]
  <2> HIDE DEF n2
  <2> QED BY Zenon, <1>1, <1>3, SetIfType DEF QueueRecords
<1>5. scheduler_dequeue_wl(q, t) =
        [first |-> f, last |-> l, next |-> [n2 EXCEPT ![t] = NULL],
         prev |-> [p1 EXCEPT ![t] = NULL], inq |-> q.inq \ {t}]
  BY DEF scheduler_dequeue_wl
<1> HIDE DEF f, l, n2, p1
<1> QED
  BY <1>1, <1>3, <1>4, <1>5 DEF QueueRecords, TidOrNull

\* scheduler_get_tread_wl keeps the types of the list.
LEMMA GetTreadType ==
  ASSUME NEW q \in QueueRecords
  PROVE  scheduler_get_tread_wl(q) \in QueueRecords
BY DequeueType DEF QueueRecords, scheduler_get_tread_wl, TidOrNull

\* vector_remove of a typed vector is typed, the wild items included.
LEMMA VectorRemoveType ==
  ASSUME NEW T, NEW v \in Seq(T), NEW i \in Nat, NEW wild \in T
  PROVE  vector_remove(v, i, wild) \in Seq(T)
<1>1. CASE i \notin 1..Len(v)
  BY <1>1 DEF vector_remove
<1>2. CASE i \in 1..Len(v) /\ Len(v) = 1
  BY <1>2 DEF vector_remove
<1>3. CASE i \in 1..Len(v) /\ Len(v) # 1
  <2> DEFINE n == Len(v)
             beyond(j) == 8 * (i - 1) + j
             item(j) == IF j <= n - i THEN IF beyond(j) <= n THEN v[beyond(j)] ELSE wild
                        ELSE IF j < i THEN v[j] ELSE wild
  <2>1. vector_remove(v, i, wild) = [j \in 1..(n - 1) |-> item(j)]
    BY <1>3 DEF vector_remove
  <2>2. n \in Nat /\ n - 1 \in Nat
    BY <1>3
  <2>3. \A j \in 1..(n - 1) : item(j) \in T
    BY <1>3, <2>2
  <2> HIDE DEF item, n
  <2> QED BY <2>1, <2>2, <2>3
<1> QED
  BY <1>1, <1>2, <1>3

-----------------------------------------------------------------------------
(* A good state of the scheduler has its types, and every saved context can *)
(* be resumed.  Each function called with the lock held keeps it good.      *)

SafeContexts == {k \in Contexts : Resumable(k)}
Good(S) ==
  S \in SchedStates /\ \A t \in AllTids : S.ctx[t] \in SafeContexts /\ S.rctx[t] \in SafeContexts

\* Context-preserving updates of a good state.
LEMMA GoodEnqueue ==
  ASSUME NEW S, Good(S), NEW t \in AllTids
  PROVE  Good(Enqueue(S, t))
<1> DEFINE Q == scheduler_enqueue_wl(S.q, t)
<1>1. Q \in QueueRecords
  BY SMTT(30), EnqueueType DEF Good, SchedStates, QueueRecords
<1>2. Enqueue(S, t) = [S EXCEPT !.q = Q]
  BY DEF Enqueue
<1> HIDE DEF Q
<1> QED BY ZenonT(30), <1>1, <1>2 DEF Good, SchedStates, QueueRecords

\* Taking the first thread of the list keeps what the lock protects well formed.
LEMMA GoodTake ==
  ASSUME NEW S, Good(S)
  PROVE  Good([S EXCEPT !.q = scheduler_get_tread_wl(@)]) /\ S.q.first \in TidOrNull
<1> DEFINE Q == scheduler_get_tread_wl(S.q)
<1>1. Q \in QueueRecords /\ S.q.first \in TidOrNull
  BY Zenon, GetTreadType DEF Good, SchedStates, QueueRecords
<1> HIDE DEF Q
<1>2. Good([S EXCEPT !.q = Q])
  BY Zenon, <1>1 DEF Good, SchedStates, QueueRecords
<1> QED BY <1>1, <1>2 DEF Q

\* A failed assertion changes nothing else.
LEMMA GoodFail ==
  ASSUME NEW S, Good(S), NEW why \in {"none", "assert_dequeue",
                                     "assert_irq", "assert_entry", "use_after_free"}
  PROVE  Good(Fail(S, why))
BY Zenon DEF Good, SchedStates, Fail

\* waitpid_return and exit_thread_routine keep what the lock protects well formed.
LEMMA GoodWaitpidReturn ==
  ASSUME NEW S, Good(S), NEW p \in Pids, NEW i \in DOMAIN S.waiters,
         S.waiters[i] # FreedInfo
  PROVE  Good(waitpid_return(S, p, i))
<1> DEFINE w == S.waiters[i].thr
           W == vector_remove(S.waiters, i, FreedInfo)
           S1 == [S EXCEPT !.waiters = W, !.got[w] = p, !.pausing = @ \ {w}]
           T == [thr : AllTids, pid : Nat] \cup {FreedInfo}
<1>1. S.waiters \in Seq(T) /\ i \in Nat /\ S.waiters[i] \in T
  BY DEF Good, SchedStates
<1>2. w \in AllTids
  BY <1>1
<1>3. W \in Seq(T)
  BY <1>1, VectorRemoveType
<1>4. waitpid_return(S, p, i) = Enqueue(S1, w)
  BY DEF waitpid_return
<1>5. Good(S1)
  <2> HIDE DEF W, w
  <2> QED BY Zenon, <1>2, <1>3 DEF Good, SchedStates
<1> HIDE DEF S1, w
<1> QED BY <1>2, <1>4, <1>5, GoodEnqueue

\* exit_thread_routine reports an exit to a waiter or to the results.
LEMMA GoodExitRoutine ==
  ASSUME NEW S, Good(S), TypeOK, NEW t \in AllTids
  PROVE  Good(exit_thread_routine(S, t))
<1> DEFINE p == owner[t]
           stop == {i \in DOMAIN S.waiters : Finds(S, i, p)}
<1>1. p \in Pids /\ parent[p] \in Pids \cup {NULL}
  BY DEF TypeOK
<1>2. CASE t # S.entry[p] \/ parent[p] = NULL
  BY <1>2 DEF exit_thread_routine
<1>3. CASE t = S.entry[p] /\ parent[p] # NULL /\ stop = {}
  <2> DEFINE R == [S.results EXCEPT ![parent[p]] = Append(@, p)]
  <2>1. exit_thread_routine(S, t) = [S EXCEPT !.results = R]
    BY <1>3 DEF exit_thread_routine, vector_push
  <2>2. R \in [Pids -> Seq(Pids \cup {FreedResult})]
    BY <1>1, <1>3 DEF Good, SchedStates
  <2> HIDE DEF R
  <2> QED BY ZenonT(30), <2>1, <2>2 DEF Good, SchedStates
<1>4. CASE t = S.entry[p] /\ parent[p] # NULL /\ stop # {}
  <2>1. DOMAIN S.waiters \subseteq Nat
    BY DEF Good, SchedStates
  <2>2. Min(stop) \in stop
    BY <1>4, <2>1, MinIn
  <2>3. PICK i \in DOMAIN S.waiters : i = Min(stop)
    BY <2>2
  <2>4. exit_thread_routine(S, t) =
          IF S.waiters[i] = FreedInfo THEN Fail(S, "use_after_free") ELSE waitpid_return(S, p, i)
    BY <1>4, <2>3 DEF exit_thread_routine
  <2> QED BY <1>1, <2>4, GoodFail, GoodWaitpidReturn
<1> QED BY <1>2, <1>3, <1>4

\* Fresh contexts.
LEMMA FreshContexts ==
  /\ \A a \in {"user", "handler", "idle", "exit_loop", "wait_done", "read_done",
             "unreachable", "wait_acq"} : K(a) \in SafeContexts
  /\ K("boot") \in Contexts
BY Tidy DEF K, SafeContexts, Contexts, Resumable, NamesThread, Points, UserMode, AcqPoints,
   CsPoints, RetPoints, TgtPoints, TidOrNull

\* Replacing contexts by safe ones keeps the state good.
LEMMA GoodContext ==
  ASSUME NEW S, Good(S), NEW t \in AllTids, NEW k \in SafeContexts
  PROVE  Good([S EXCEPT !.ctx[t] = k]) /\ Good([S EXCEPT !.rctx[t] = k])
<1> DEFINE C == [S.ctx EXCEPT ![t] = k]
           R == [S.rctx EXCEPT ![t] = k]
<1>1. C \in [AllTids -> SafeContexts] /\ R \in [AllTids -> SafeContexts]
  BY DEF Good, SchedStates
<1>2. [S EXCEPT !.ctx[t] = k] = [S EXCEPT !.ctx = C]
  OBVIOUS
<1>3. [S EXCEPT !.rctx[t] = k] = [S EXCEPT !.rctx = R]
  OBVIOUS
<1> HIDE DEF C, R
<1> QED BY ZenonT(30), <1>1, <1>2, <1>3 DEF Good, SchedStates, SafeContexts

\* scheduler_handle_signal leaves the thread a context it can be resumed at.
LEMMA GoodSignal ==
  ASSUME NEW S, Good(S), TypeOK, NEW t \in AllTids
  PROVE  Good(scheduler_handle_signal(S, t))
<1> DEFINE S1 == [S EXCEPT !.signal[t] = "none"]
           S2 == [S1 EXCEPT !.listed = @ \ {t}]
           S3 == [S1 EXCEPT !.rctx[t] = S.ctx[t]]
           S4 == [S3 EXCEPT !.ctx[t] = K("handler")]
           S5 == [S4 EXCEPT !.restore = @ \cup {t}]
<1>1. Good(S1)
  BY Zenon DEF Good, SchedStates
<1>2. Good(S2)
  <2> HIDE DEF S1
  <2> QED BY ZenonT(30), <1>1 DEF Good, SchedStates
<1>3. Good(exit_thread_routine(S2, t))
  <2> HIDE DEF S2
  <2> QED BY <1>2, GoodExitRoutine
<1>4. Good(S4)
  <2>1. Good(S3)
    <3>1. S.ctx[t] \in SafeContexts
      BY DEF Good
    <3> HIDE DEF S1
    <3> QED BY Zenon, <1>1, <3>1, GoodContext
  <2> HIDE DEF S3
  <2> QED BY Zenon, <2>1, FreshContexts, GoodContext
<1>5. Good(S5)
  <2> HIDE DEF S4
  <2> QED BY ZenonT(30), <1>4 DEF Good, SchedStates
<1>6. S5 = [S1 EXCEPT !.rctx[t] = S.ctx[t], !.ctx[t] = K("handler"), !.restore = @ \cup {t}]
  <2> HIDE DEF S1
  <2> QED OBVIOUS
<1>7. scheduler_handle_signal(S, t) \in {S, S1, exit_thread_routine(S2, t), S5}
  <2> HIDE DEF S5
  <2> QED BY <1>6 DEF scheduler_handle_signal
<1> HIDE DEF S1, S2, S3, S4, S5
<1> QED BY <1>1, <1>3, <1>5, <1>7

\* The first half of scheduler_handler.
LEMMA GoodEndThread ==
  ASSUME NEW S, Good(S), TypeOK, NEW e \in AllTids, NEW k \in SafeContexts
  PROVE  Good(EndThread(S, e, k))
<1> DEFINE S1 == IF S.tofree[e] = NULL THEN S
                 ELSE [S EXCEPT !.freed = @ \cup {S.tofree[e]}, !.tofree[e] = NULL]
           S2 == [S1 EXCEPT !.ignoring = @ \ {e}]
           S3 == [S1 EXCEPT !.ctx[e] = k]
<1>1. Good(S1)
  <2>1. CASE S.tofree[e] = NULL
    BY <2>1
  <2>2. CASE S.tofree[e] # NULL
    <3> DEFINE u == S.tofree[e]
               F == [S.tofree EXCEPT ![e] = NULL]
    <3>1. u \in AllTids /\ F \in [AllTids -> TidOrNull]
      BY <2>2 DEF Good, SchedStates, TidOrNull
    <3>2. S1 = [S EXCEPT !.freed = @ \cup {u}, !.tofree = F]
      BY <2>2
    <3> HIDE DEF u, F, S1
    <3> QED BY ZenonT(30), <3>1, <3>2 DEF Good, SchedStates
  <2> QED BY <2>1, <2>2
<1>2. EndThread(S, e, k) \in {Enqueue(S2, e), Enqueue(S3, e), exit_thread_routine(S1, e), S3}
  <2> HIDE DEF S2, S3
  <2> QED BY DEF EndThread, S2, S3
<1> HIDE DEF S1
<1>3. Good(S2)
  BY Zenon, <1>1 DEF Good, SchedStates
<1>4. Good(S3)
  BY Zenon, <1>1, GoodContext
<1> HIDE DEF S2, S3
<1> QED BY <1>1, <1>2, <1>3, <1>4, GoodEnqueue, GoodExitRoutine

\* Its choice of the next thread.
LEMMA GoodTakeThread ==
  ASSUME NEW S, Good(S), TypeOK
  PROVE  Good(TakeThread(S).st) /\ TakeThread(S).thr \in TidOrNull
<1> DEFINE t  == S.q.first
           S1 == [S EXCEPT !.q = scheduler_get_tread_wl(@)]
           S2 == scheduler_handle_signal(S1, t)
           S3 == exit_thread_routine(S2, t)
           S4 == [S3 EXCEPT !.q = scheduler_get_tread_wl(@)]
<1>1. Good(S1) /\ t \in TidOrNull
  BY GoodTake
<1>2. t # NULL => Good(S2) /\ Good(S3) /\ Good(S4) /\ S3.q.first \in TidOrNull
  <2> HAVE t # NULL
  <2>1. t \in AllTids
    BY <1>1 DEF TidOrNull
  <2>2. Good(S2)
    <3> HIDE DEF S1, t
    <3> QED BY <1>1, <2>1, GoodSignal
  <2>3. Good(S3)
    <3> HIDE DEF S2, t
    <3> QED BY <2>1, <2>2, GoodExitRoutine
  <2>4. Good(S4) /\ S3.q.first \in TidOrNull
    <3> HIDE DEF S3
    <3> QED BY <2>3, GoodTake
  <2> QED BY <2>2, <2>3, <2>4
<1>3. \/ TakeThread(S) = [st |-> S1, thr |-> t]
      \/ t # NULL /\ TakeThread(S) = [st |-> S2, thr |-> t]
      \/ t # NULL /\ TakeThread(S) = [st |-> S4, thr |-> S3.q.first]
  <2> HIDE DEF S2
  <2> QED BY DEF TakeThread, S2
<1> HIDE DEF S1, S2, S3, S4, t
<1> QED BY <1>1, <1>2, <1>3

\* scheduler_handler on a CPU: the scheduler's state stays good, and the CPU goes on
\* with a thread whose context can be resumed, or with what it was doing.
LEMMA HandlerKeeps ==
  ASSUME TypeOK, Good(s), NEW c \in Cpus, NEW k \in Contexts,
         cur[c] # NULL => k \in SafeContexts,
         scheduler_handler(c, k)
  PROVE  /\ Good(s')
         /\ \/ \E t \in AllTids, K1 \in SafeContexts :
                 cur' = [cur EXCEPT ![c] = t] /\ reg' = [reg EXCEPT ![c] = K1]
            \/ cur' = cur /\ reg' = [reg EXCEPT ![c] = k]
<1> DEFINE e    == cur[c]
           S1   == IF e = NULL THEN s ELSE EndThread(s, e, k)
           take == TakeThread(S1)
           S2   == take.st
           ends == e # NULL /\ e \in S2.pausing
           t    == IF ends /\ take.thr = NULL THEN Idle(c) ELSE take.thr
<1>1. /\ s' = IF ends /\ e \in S2.exiting THEN [S2 EXCEPT !.tofree[t] = e] ELSE S2
      /\ cur' = IF t = NULL THEN cur ELSE [cur EXCEPT ![c] = t]
      /\ reg' = [reg EXCEPT ![c] = IF t = NULL THEN k ELSE S2.ctx[t]]
  <2> HIDE DEF S1
  <2> QED BY Zenon DEF scheduler_handler, S1
<1>2. e \in TidOrNull
  BY DEF TypeOK
<1>3. Good(S1)
  BY <1>2, GoodEndThread DEF TidOrNull
<1>4. Good(S2) /\ take.thr \in TidOrNull
  <2> HIDE DEF S1
  <2> QED BY <1>3, GoodTakeThread
<1>5. t \in TidOrNull /\ (ends => t \in AllTids)
  <2> HIDE DEF S2, take
  <2> QED BY <1>4, Tidy DEF TidOrNull
<1>6. Good(s')
  <2>1. CASE ends /\ e \in S2.exiting
    <3> DEFINE F == [S2.tofree EXCEPT ![t] = e]
    <3>1. s' = [S2 EXCEPT !.tofree = F]
      <4> HIDE DEF S2, t, e, ends
      <4> QED BY <1>1, <2>1
    <3>2. F \in [AllTids -> TidOrNull]
      <4> HIDE DEF S2, t, e, ends
      <4> QED BY Zenon, <1>2, <1>4, <1>5, <2>1 DEF Good, SchedStates
    <3> HIDE DEF F, S2
    <3> QED BY ZenonT(30), <1>4, <3>1, <3>2 DEF Good, SchedStates
  <2>2. CASE ~ (ends /\ e \in S2.exiting)
    <3> HIDE DEF S2, t, e, ends
    <3> QED BY <1>1, <1>4, <2>2
  <2> QED BY <2>1, <2>2
<1>7. CASE t = NULL
  <2> HIDE DEF S2, t, e, ends
  <2> QED BY <1>1, <1>6, <1>7
<1>8. CASE t # NULL
  <2>1. t \in AllTids /\ S2.ctx[t] \in SafeContexts
    <3> HIDE DEF S2, t, e, ends
    <3> QED BY <1>4, <1>5, <1>8 DEF Good, TidOrNull
  <2>2. cur' = [cur EXCEPT ![c] = t] /\ reg' = [reg EXCEPT ![c] = S2.ctx[t]]
    <3> HIDE DEF S2, t, e, ends
    <3> QED BY <1>1, <1>8
  <2> HIDE DEF S2, t
  <2> QED BY Zenon, <1>6, <2>1, <2>2
<1> QED BY Zenon, <1>7, <1>8

-----------------------------------------------------------------------------
(* What a step has to show to keep SchedInv: one lemma for the steps of a    *)
(* CPU's thread, one for those of a device interrupt handler.               *)

\* The types of what a step of a CPU or of a handler changes least.
RestOK ==
  /\ owner \in [AllTids -> Pids] /\ parent \in [Pids -> Pids \cup {NULL}]
  /\ action \in [Pids -> Actions]
  /\ ntid \in InitTid..MaxTid /\ npid \in 2..MaxPid /\ nsig \in 0..MaxSignals
  /\ reading \in TidOrNull /\ waiting \in TidOrNull /\ reaped \in [Pids -> 0..2]
IrqRecords == [at : IrqAcqPoints \cup IrqCsPoints \cup {"none"}, tgt : TidOrNull,
               sig : Signals \cup {"none"}]

\* SchedInv holds exactly when the state is good, the types hold, and each CPU has its
\* part of the lock discipline.
CpuOK(c) ==
  /\ lock = c <=> \/ reg[c].at \in CsPoints \/ irq[c].at \in IrqCsPoints
  /\ irq[c].at \in IrqCsPoints => reg[c].at \notin CsPoints
  /\ reg[c].at = "boot" <=> cur[c] = NULL
  /\ NamesThread(reg[c])
  /\ irq[c].at # "none" => irq[c].tgt # NULL
Inv ==
  /\ Good(s) /\ RestOK /\ \A c \in Cpus : CpuOK(c)
  /\ lock \in Cpus \cup {0} /\ cur \in [Cpus -> TidOrNull] /\ reg \in [Cpus -> Contexts]
  /\ irq \in [Cpus -> IrqRecords]

\* Inv is SchedInv, grouped by what a step touches.
LEMMA InvIsSchedInv == SchedInv <=> Inv
<1>1. SchedInv => Inv
  BY Zenon DEF SchedInv, Inv, TypeOK, LockHolderRuns, Good, SafeContexts, SchedStates, RestOK,
         IrqRecords, CpuOK
<1>2. Inv => SchedInv
  BY Zenon DEF SchedInv, Inv, TypeOK, LockHolderRuns, Good, SafeContexts, Resumable, RestOK,
         IrqRecords, CpuOK
<1> QED BY SMTT(30), <1>1, <1>2

\* A CPU that changes its context takes the lock as it enters a critical section and
\* releases it as it leaves; the other CPUs are not affected.
LEMMA CpuMove ==
  ASSUME Inv, NEW c \in Cpus, NEW k \in Contexts, NamesThread(k),
         irq[c] = NoIrq, irq' = irq, Good(s'), RestOK',
         reg' = [reg EXCEPT ![c] = k],
         NEW t \in TidOrNull, cur' = [cur EXCEPT ![c] = t], k.at = "boot" <=> t = NULL,
         \/ lock' = lock /\ (reg[c].at \in CsPoints <=> k.at \in CsPoints)
         \/ lock = 0 /\ lock' = c /\ k.at \in CsPoints
         \/ reg[c].at \in CsPoints /\ lock' = 0 /\ k.at \notin CsPoints
  PROVE  Inv'
<1>1. lock' \in Cpus \cup {0} /\ cur' \in [Cpus -> TidOrNull] /\ reg' \in [Cpus -> Contexts]
      /\ irq' \in [Cpus -> IrqRecords]
  BY DEF Inv
<1>2. reg'[c] = k /\ cur'[c] = t /\ irq'[c].at = "none" /\ irq[c].at = "none"
  BY DEF Inv, NoIrq
<1>3. CpuOK(c)'
  BY <1>2, Tidy DEF Inv, CpuOK, IrqCsPoints
<1>4. \A d \in Cpus \ {c} : CpuOK(d)'
  <2> TAKE d \in Cpus \ {c}
  <2>1. reg'[d] = reg[d] /\ cur'[d] = cur[d] /\ irq'[d] = irq[d]
    BY DEF Inv
  <2>2. lock' = d <=> lock = d
    BY <1>2, Tidy DEF Inv, CpuOK
  <2> QED BY <2>1, <2>2 DEF Inv, CpuOK
<1> QED BY <1>1, <1>3, <1>4 DEF Inv

\* The same for the device interrupt handler over a CPU.
LEMMA IrqMove ==
  ASSUME Inv, NEW c \in Cpus, NEW h \in IrqRecords, h.at # "none" => h.tgt # NULL,
         irq' = [irq EXCEPT ![c] = h], UNCHANGED <<cur, reg>>, Good(s'), RestOK',
         \/ lock' = lock /\ irq[c].at \notin IrqCsPoints /\ h.at \notin IrqCsPoints
         \/ lock = 0 /\ lock' = c /\ h.at \in IrqCsPoints
         \/ irq[c].at \in IrqCsPoints /\ lock' = 0 /\ h.at \notin IrqCsPoints
  PROVE  Inv'
<1>1. lock' \in Cpus \cup {0} /\ cur' \in [Cpus -> TidOrNull] /\ reg' \in [Cpus -> Contexts]
      /\ irq' \in [Cpus -> IrqRecords]
  BY DEF Inv
<1>2. irq'[c] = h
  BY DEF Inv
<1>3. CpuOK(c)'
  BY <1>2, Tidy DEF Inv, CpuOK
<1>4. \A d \in Cpus \ {c} : CpuOK(d)'
  <2> TAKE d \in Cpus \ {c}
  <2>1. irq'[d] = irq[d]
    BY DEF Inv
  <2>2. lock' = d <=> lock = d
    BY <1>2, Tidy DEF Inv, CpuOK
  <2> QED BY <2>1, <2>2 DEF Inv, CpuOK
<1> QED BY <1>1, <1>3, <1>4 DEF Inv

\* A thread's step that does not change the CPU's thread.
LEMMA CpuStay ==
  ASSUME Inv, NEW c \in Cpus, NEW k \in Contexts, NamesThread(k), reg[c].at # "boot",
         k.at # "boot", irq[c] = NoIrq, irq' = irq, Good(s'), RestOK',
         reg' = [reg EXCEPT ![c] = k], cur' = cur,
         \/ lock' = lock /\ (reg[c].at \in CsPoints <=> k.at \in CsPoints)
         \/ lock = 0 /\ lock' = c /\ k.at \in CsPoints
         \/ reg[c].at \in CsPoints /\ lock' = 0 /\ k.at \notin CsPoints
  PROVE  Inv'
<1>1. cur[c] \in TidOrNull /\ cur[c] # NULL /\ cur' = [cur EXCEPT ![c] = cur[c]]
  BY DEF Inv, CpuOK
<1> QED BY Zenon, <1>1, CpuMove

\* A thread's step that changes neither the registers nor the lock.
LEMMA CpuHalt ==
  ASSUME Inv, UNCHANGED <<lock, reg, cur, irq>>, Good(s'), RestOK'
  PROVE  Inv'
BY DEF Inv, CpuOK, NamesThread

\* The variables outside the lock and the CPUs keep their types when unchanged.
LEMMA RestSame ==
  ASSUME RestOK, UNCHANGED <<Procs, Console, reaped>>
  PROVE  RestOK'
BY DEF RestOK, Procs, Console

\* A CPU that has left the boot code runs a thread.
LEMMA HasThread ==
  ASSUME Inv, NEW c \in Cpus, reg[c].at # "boot"
  PROVE  cur[c] \in AllTids /\ owner[cur[c]] \in Pids /\ reg[c] \in Contexts
         /\ NamesThread(reg[c])
BY DEF Inv, CpuOK, RestOK, TidOrNull

\* The context a call returns to can be resumed.
LEMMA ReturnType ==
  ASSUME Inv, NEW c \in Cpus, reg[c].at # "boot"
  PROVE  Return(c) \in SafeContexts
<1>1. cur[c] \in AllTids /\ reg[c] \in Contexts
  BY HasThread
<1>2. CASE reg[c].ret = "exec_exit"
  BY <1>1, <1>2, Tidy DEF Return, Call, SafeContexts, Contexts, Resumable, NamesThread, Points,
     UserMode, AcqPoints, CsPoints, RetPoints, TgtPoints, TidOrNull
<1>3. CASE reg[c].ret # "exec_exit"
  BY <1>1, <1>3, Tidy DEF Return, K, SafeContexts, Contexts, Resumable, NamesThread, Points,
     UserMode, AcqPoints, CsPoints, RetPoints, TgtPoints, TidOrNull
<1> QED BY <1>2, <1>3

\* The context at the entry of a scheduler function can be resumed.
LEMMA CallType ==
  ASSUME NEW a \in {"enq_acq", "exit_acq", "pause_acq", "rest_acq"}, NEW t \in AllTids,
         NEW r \in RetPoints
  PROVE  Call(a, t, r) \in SafeContexts
BY Tidy DEF Call, SafeContexts, Contexts, Resumable, NamesThread, Points, UserMode, AcqPoints,
   CsPoints, TgtPoints, TidOrNull

\* A context that can be resumed is outside the critical sections and the boot code.
LEMMA SafeIsTyped ==
  ASSUME NEW k \in SafeContexts
  PROVE  k \in Contexts /\ NamesThread(k) /\ k.at \notin CsPoints /\ k.at # "boot"
BY DEF SafeContexts, Resumable

-----------------------------------------------------------------------------
(* The actions.                                                             *)

\* Timer interrupt.
LEMMA TickKeeps ==
  ASSUME Inv, NEW c \in Cpus, Tick(c)
  PROVE  Inv'
<1>1. /\ lock = 0 /\ lock' = lock /\ irq' = irq /\ irq[c] = NoIrq /\ RestOK'
      /\ scheduler_handler(c, reg[c])
  BY Zenon, RestSame DEF Tick, Runs, scheduler_handler, CanAcquire, Inv
<1>2. TypeOK /\ Good(s) /\ reg[c] \in Contexts /\ NamesThread(reg[c])
  BY Zenon, InvIsSchedInv DEF SchedInv, Inv, CpuOK
<1>3. reg[c].at \notin CsPoints /\ cur[c] \in TidOrNull /\ (reg[c].at = "boot" <=> cur[c] = NULL)
  BY <1>1, Tidy DEF Inv, CpuOK
<1>4. cur[c] # NULL => reg[c] \in SafeContexts
  BY <1>2, <1>3 DEF SafeContexts, Resumable
<1>5. /\ Good(s')
      /\ \/ \E t \in AllTids, K1 \in SafeContexts :
              cur' = [cur EXCEPT ![c] = t] /\ reg' = [reg EXCEPT ![c] = K1]
         \/ cur' = cur /\ reg' = [reg EXCEPT ![c] = reg[c]]
  BY <1>1, <1>2, <1>4, HandlerKeeps
<1>6. CASE \E t \in AllTids, K1 \in SafeContexts :
             cur' = [cur EXCEPT ![c] = t] /\ reg' = [reg EXCEPT ![c] = K1]
  <2>1. PICK t \in AllTids, K1 \in SafeContexts :
             cur' = [cur EXCEPT ![c] = t] /\ reg' = [reg EXCEPT ![c] = K1]
    BY Zenon, <1>6
  <2>2. t \in TidOrNull /\ t # NULL
    BY Tidy DEF TidOrNull
  <2> QED BY Zenon, <1>1, <1>3, <1>5, <2>1, <2>2, SafeIsTyped, CpuMove
<1>7. CASE cur' = cur /\ reg' = [reg EXCEPT ![c] = reg[c]]
  <2>1. reg' = reg
    BY <1>7 DEF Inv
  <2> QED BY <1>1, <1>5, <1>7, <2>1, CpuHalt
<1> QED BY SMTT(30), <1>5, <1>6, <1>7

\* Software interrupt INT_SCHEDULE.
LEMMA SwitchKeeps ==
  ASSUME Inv, NEW c \in Cpus, Switch(c)
  PROVE  Inv'
<1>1. /\ lock = 0 /\ lock' = lock /\ irq' = irq /\ irq[c] = NoIrq /\ RestOK'
      /\ scheduler_handler(c, Return(c)) /\ reg[c].at = "int"
  BY Zenon, RestSame DEF Switch, At, Runs, scheduler_handler, CanAcquire, Inv
<1>2. TypeOK /\ Good(s) /\ Return(c) \in SafeContexts
  BY Zenon, <1>1, InvIsSchedInv, ReturnType DEF SchedInv, Inv
<1>3. reg[c].at \notin CsPoints
  BY <1>1 DEF CsPoints
<1>4. /\ Good(s')
      /\ \/ \E t \in AllTids, K1 \in SafeContexts :
              cur' = [cur EXCEPT ![c] = t] /\ reg' = [reg EXCEPT ![c] = K1]
         \/ cur' = cur /\ reg' = [reg EXCEPT ![c] = Return(c)]
  BY <1>1, <1>2, SafeIsTyped, HandlerKeeps
<1>5. CASE \E t \in AllTids, K1 \in SafeContexts :
             cur' = [cur EXCEPT ![c] = t] /\ reg' = [reg EXCEPT ![c] = K1]
  <2>1. PICK t \in AllTids, K1 \in SafeContexts :
             cur' = [cur EXCEPT ![c] = t] /\ reg' = [reg EXCEPT ![c] = K1]
    BY Zenon, <1>5
  <2>2. t \in TidOrNull /\ t # NULL
    BY Tidy DEF TidOrNull
  <2> QED BY ZenonT(30), <1>1, <1>3, <1>4, <2>1, <2>2, SafeIsTyped, CpuMove
<1>6. CASE cur' = cur /\ reg' = [reg EXCEPT ![c] = Return(c)]
  BY Zenon, <1>1, <1>2, <1>3, <1>4, <1>6, SafeIsTyped, CpuStay
<1> QED BY SMTT(30), <1>4, <1>5, <1>6

\* spinlock_acquire succeeds.
LEMMA AcquireKeeps ==
  ASSUME Inv, NEW c \in Cpus, Acquire(c)
  PROVE  Inv'
<1> DEFINE k == [reg[c] EXCEPT !.at = CsOf[@]]
<1>1. /\ lock = 0 /\ lock' = c /\ irq' = irq /\ irq[c] = NoIrq /\ RestOK' /\ s' = s
      /\ reg' = [reg EXCEPT ![c] = k] /\ cur' = cur /\ reg[c].at \in AcqPoints
  BY RestSame DEF Acquire, Runs, CanAcquire, Inv, Goto
<1>2. reg[c] \in Contexts /\ NamesThread(reg[c]) /\ reg[c].at # "boot" /\ Good(s')
  BY <1>1, HasThread DEF AcqPoints, Inv
<1>3. k \in Contexts /\ NamesThread(k) /\ k.at \in CsPoints /\ k.at # "boot"
  BY <1>1, <1>2 DEF Contexts, NamesThread, AcqPoints, CsPoints, CsOf, Points, TgtPoints
<1> HIDE DEF k
<1> QED BY Zenon, <1>1, <1>2, <1>3, CpuStay

\* Critical section of scheduler_enqueue.
LEMMA EnqueueCsKeeps ==
  ASSUME Inv, NEW c \in Cpus, EnqueueCs(c)
  PROVE  Inv'
<1>1. /\ lock' = 0 /\ irq' = irq /\ irq[c] = NoIrq /\ RestOK' /\ s' = Enqueue(s, reg[c].tgt)
      /\ reg' = [reg EXCEPT ![c] = Return(c)] /\ cur' = cur /\ reg[c].at = "enq_cs"
  BY SMTT(30), RestSame DEF EnqueueCs, At, Runs, Inv, Goto
<1>2. reg[c].tgt \in AllTids
  BY Zenon, <1>1, HasThread DEF Contexts, NamesThread, TgtPoints, TidOrNull
<1>3. Good(s') /\ Return(c) \in SafeContexts
  BY <1>1, <1>2, GoodEnqueue, ReturnType DEF Inv
<1>4. reg[c].at \in CsPoints
  BY <1>1 DEF CsPoints
<1> QED BY ZenonT(30), <1>1, <1>3, <1>4, SafeIsTyped, CpuStay

\* A new thread starts in user mode, so its context can be resumed.
LEMMA GoodNewThread ==
  ASSUME NEW S, Good(S), NEW t \in AllTids, NEW p \in Pids
  PROVE  Good(NewThread(S, t, p))
<1> DEFINE C == [S.ctx EXCEPT ![t] = K("user")]
           R == [S.rctx EXCEPT ![t] = K("user")]
           E == [S.entry EXCEPT ![p] = t]
<1>1. C \in [AllTids -> SafeContexts] /\ R \in [AllTids -> SafeContexts]
  BY FreshContexts DEF Good, SchedStates
<1>2. E \in [Pids -> TidOrNull]
  BY DEF Good, SchedStates, TidOrNull
<1>3. NewThread(S, t, p) =
        [S EXCEPT !.listed = @ \cup {t}, !.entry = E, !.ctx = C, !.rctx = R]
  BY DEF NewThread
<1>4. C \in [AllTids -> Contexts] /\ R \in [AllTids -> Contexts]
  BY <1>1 DEF SafeContexts
<1> DEFINE X == [S EXCEPT !.listed = @ \cup {t}, !.entry = E, !.ctx = C, !.rctx = R]
<1> HIDE DEF C, R, E
<1>5. X \in SchedStates /\ X.ctx = C /\ X.rctx = R
  BY ZenonT(30), <1>2, <1>4 DEF Good, SchedStates
<1> HIDE DEF X
<1>6. Good(X)
  BY <1>1, <1>5 DEF Good
<1> QED BY <1>3, <1>6 DEF X

\* fork up to the enqueue of the child.
LEMMA ForkKeeps ==
  ASSUME Inv, NEW c \in Cpus, Fork(c)
  PROVE  Inv'
<1>1. /\ lock' = lock /\ irq' = irq /\ irq[c] = NoIrq /\ cur' = cur /\ reg[c].at = "user"
      /\ ntid' = ntid + 1 /\ npid' = npid + 1 /\ ntid < MaxTid /\ npid < MaxPid
      /\ parent' = [parent EXCEPT ![npid'] = owner[cur[c]]]
      /\ owner' = [owner EXCEPT ![ntid'] = npid'] /\ s' = NewThread(s, ntid', npid')
      /\ reg' = [reg EXCEPT ![c] = Call("enq_acq", ntid', "user")]
      /\ UNCHANGED <<action, nsig, reading, waiting, reaped>>
  BY Zenon DEF Fork, Does, Runs, Goto, MyProc, Console
<1>2. ntid' \in AllTids /\ npid' \in Pids /\ ntid' \in InitTid..MaxTid /\ npid' \in 2..MaxPid
  BY SMTT(30), <1>1, SchedulerAssumption DEF Inv, RestOK, AllTids, Pids, InitTid
<1>3. owner[cur[c]] \in Pids
  BY Zenon, <1>1, HasThread
<1>4. RestOK'
  BY <1>1, <1>2, <1>3 DEF Inv, RestOK
<1>5. Good(s') /\ Call("enq_acq", ntid', "user") \in SafeContexts
  BY SMTT(30), <1>1, <1>2, GoodNewThread, CallType DEF Inv, RetPoints
<1>6. reg[c].at \notin CsPoints
  BY Zenon, <1>1 DEF CsPoints
<1> QED BY ZenonT(30), <1>1, <1>4, <1>5, <1>6, SafeIsTyped, CpuStay

\* entry_thread set to a thread or to NULL.
LEMMA GoodEntry ==
  ASSUME NEW S, Good(S), NEW p \in Pids, NEW t \in TidOrNull
  PROVE  Good([S EXCEPT !.entry[p] = t])
<1> DEFINE E == [S.entry EXCEPT ![p] = t]
<1>1. E \in [Pids -> TidOrNull] /\ [S EXCEPT !.entry[p] = t] = [S EXCEPT !.entry = E]
  BY DEF Good, SchedStates
<1> HIDE DEF E
<1> QED BY Zenon, <1>1 DEF Good, SchedStates

\* execve up to the load of the program.
LEMMA ExecveKeeps ==
  ASSUME Inv, NEW c \in Cpus, Execve(c)
  PROVE  Inv'
<1> DEFINE k == Call("exec_load", s.entry[owner[cur[c]]], "user")
<1>1. /\ lock' = lock /\ irq' = irq /\ irq[c] = NoIrq /\ cur' = cur /\ reg[c].at = "user"
      /\ RestOK' /\ s' = [s EXCEPT !.entry[owner[cur[c]]] = NULL]
      /\ reg' = [reg EXCEPT ![c] = k]
  BY RestSame DEF Execve, Does, Runs, Goto, MyProc, Inv
<1>2. owner[cur[c]] \in Pids /\ NULL \in TidOrNull /\ reg[c].at \notin CsPoints
  BY <1>1, HasThread DEF TidOrNull, CsPoints
<1>3. Good(s') /\ s.entry[owner[cur[c]]] \in TidOrNull
  BY ZenonT(30), <1>1, <1>2, GoodEntry DEF Inv, Good, SchedStates
<1>4. k \in Contexts /\ NamesThread(k) /\ k.at = "exec_load" /\ k.at \notin CsPoints
  BY Zenon, <1>3 DEF Call, Contexts, Points, RetPoints, NamesThread, TgtPoints, CsPoints
<1> HIDE DEF k
<1> QED BY ZenonT(30), <1>1, <1>2, <1>3, <1>4, CpuStay

\* execve when the load fails.
LEMMA ExecveErrorKeeps ==
  ASSUME Inv, NEW c \in Cpus, ExecveError(c)
  PROVE  Inv'
<1>1. /\ lock' = lock /\ irq' = irq /\ irq[c] = NoIrq /\ cur' = cur /\ reg[c].at = "exec_load"
      /\ RestOK' /\ s' = [s EXCEPT !.entry[owner[cur[c]]] = reg[c].tgt]
      /\ reg' = [reg EXCEPT ![c] = K("user")]
  BY RestSame DEF ExecveError, At, Runs, Goto, MyProc, Inv
<1>2. owner[cur[c]] \in Pids /\ reg[c].tgt \in TidOrNull /\ reg[c].at \notin CsPoints
  BY <1>1, HasThread DEF Contexts, CsPoints
<1>3. Good(s') /\ K("user") \in SafeContexts
  BY SMTT(30), <1>1, <1>2, GoodEntry, FreshContexts DEF Inv
<1> QED BY Zenon, <1>1, <1>2, <1>3, SafeIsTyped, CpuStay

\* execve when the program is loaded.
LEMMA ExecveLoadedKeeps ==
  ASSUME Inv, NEW c \in Cpus, ExecveLoaded(c)
  PROVE  Inv'
<1>1. /\ lock' = lock /\ irq' = irq /\ irq[c] = NoIrq /\ cur' = cur /\ reg[c].at = "exec_load"
      /\ ntid < MaxTid /\ UNCHANGED <<parent, action, npid, nsig, reading, waiting, reaped>>
  BY Zenon DEF ExecveLoaded, At, Runs, Console
<1>2. CASE s.entry[owner[cur[c]]] # NULL
  <2>1. s' = Fail(s, "assert_entry") /\ UNCHANGED <<ntid, owner, reg>>
    BY <1>2 DEF ExecveLoaded, MyProc
  <2>2. Good(s') /\ RestOK'
    BY <1>1, <2>1, GoodFail DEF Inv, RestOK
  <2> QED BY Zenon, <1>1, <2>1, <2>2, CpuHalt
<1>3. CASE s.entry[owner[cur[c]]] = NULL
  <2>1. /\ ntid' = ntid + 1 /\ owner' = [owner EXCEPT ![ntid'] = owner[cur[c]]]
        /\ s' = NewThread(s, ntid', owner[cur[c]])
        /\ reg' = [reg EXCEPT ![c] = Call("enq_acq", ntid', "exec_exit")]
    BY <1>3 DEF ExecveLoaded, MyProc, Goto
  <2>2. ntid' \in AllTids /\ ntid' \in InitTid..MaxTid
    BY SMTT(30), <1>1, <2>1, SchedulerAssumption DEF Inv, RestOK, AllTids, InitTid
  <2>3. owner[cur[c]] \in Pids /\ reg[c].at \notin CsPoints
    BY Zenon, <1>1, HasThread DEF CsPoints
  <2>4. RestOK'
    BY Zenon, <1>1, <2>1, <2>2, <2>3 DEF Inv, RestOK
  <2>5. Good(s') /\ Call("enq_acq", ntid', "exec_exit") \in SafeContexts
    BY <2>1, <2>2, <2>3, GoodNewThread, CallType DEF Inv, RetPoints
  <2> QED BY ZenonT(30), <1>1, <2>1, <2>3, <2>4, <2>5, SafeIsTyped, CpuStay
<1> QED BY <1>2, <1>3

\* exit, thread_exit and the entry of sigrestore.
LEMMA ExitKeeps ==
  ASSUME Inv, NEW c \in Cpus, Exit(c) \/ ThreadExit(c) \/ Sigrestore(c)
  PROVE  Inv'
<1> DEFINE k1 == [K("exit_loop") EXCEPT !.i = 1]
           k2 == Call("exit_acq", cur[c], "user")
           k3 == Call("rest_acq", cur[c], "unreachable")
<1>1. /\ lock' = lock /\ irq' = irq /\ irq[c] = NoIrq /\ cur' = cur /\ reg[c].at \in UserMode
      /\ RestOK' /\ s' = s
      /\ \E k \in {k1, k2, k3} : reg' = [reg EXCEPT ![c] = k]
  BY RestSame DEF Exit, ThreadExit, Sigrestore, Does, Runs, Goto, Me, Inv
<1>2. reg[c].at \notin CsPoints /\ reg[c].at # "boot" /\ Good(s')
  BY <1>1 DEF UserMode, CsPoints, Inv
<1>3. k1 \in SafeContexts
  BY SMTT(30) DEF K, SafeContexts, Contexts, Resumable, NamesThread, Points, UserMode, AcqPoints,
         CsPoints, RetPoints, TgtPoints, TidOrNull
<1>4. k2 \in SafeContexts /\ k3 \in SafeContexts
  BY Zenon, <1>2, HasThread, CallType DEF RetPoints
<1> HIDE DEF k1, k2, k3
<1>5. PICK k \in SafeContexts : reg' = [reg EXCEPT ![c] = k]
  BY ZenonT(30), <1>1, <1>3, <1>4
<1> QED BY Zenon, <1>1, <1>2, <1>5, SafeIsTyped, CpuStay

\* The loop of scheduler_exit_process over the threads.
LEMMA ExitLoopKeeps ==
  ASSUME Inv, NEW c \in Cpus, ExitLoop(c)
  PROVE  Inv'
<1> DEFINE rest == {t \in s.listed : t >= reg[c].i /\ owner[t] = MyProc(c) /\ t # Me(c)}
           k1 == Call("exit_acq", cur[c], "user")
           k2 == [Call("exit_acq", Min(rest), "exit_loop") EXCEPT !.i = Min(rest) + 1]
<1>1. /\ lock' = lock /\ irq' = irq /\ irq[c] = NoIrq /\ cur' = cur /\ reg[c].at = "exit_loop"
      /\ RestOK' /\ s' = s
      /\ reg' = [reg EXCEPT ![c] = IF rest = {} THEN k1 ELSE k2]
  BY RestSame DEF ExitLoop, At, Runs, Goto, Me, Inv
<1>2. reg[c].at \notin CsPoints /\ reg[c].at # "boot" /\ Good(s')
  BY <1>1 DEF CsPoints, Inv
<1>3. k1 \in SafeContexts
  BY <1>2, HasThread, CallType DEF RetPoints
<1>4. rest # {} => k2 \in SafeContexts
  <2> HAVE rest # {}
  <2>1. rest \subseteq AllTids /\ rest \in SUBSET Nat
    BY Zenon, Tidy DEF Inv, Good, SchedStates
  <2>2. Min(rest) \in AllTids /\ Min(rest) \in Nat
    BY Zenon, <2>1, MinIn
  <2> HIDE DEF rest
  <2> QED BY <2>2, Tidy DEF Call, SafeContexts, Contexts, Resumable, NamesThread, Points, UserMode,
        AcqPoints, CsPoints, RetPoints, TgtPoints, TidOrNull
<1> HIDE DEF k1, k2, rest
<1>5. PICK k \in SafeContexts : reg' = [reg EXCEPT ![c] = k]
  BY <1>1, <1>3, <1>4
<1> QED BY <1>1, <1>2, <1>5, SafeIsTyped, CpuStay

\* A thread listed no more, marked pausing and exiting.
LEMMA GoodMarks ==
  ASSUME NEW S, Good(S), NEW x \in AllTids
  PROVE  /\ Good([S EXCEPT !.listed = @ \ {x}])
         /\ Good([S EXCEPT !.pausing = @ \cup {x}]) /\ Good([S EXCEPT !.pausing = @ \ {x}])
         /\ Good([S EXCEPT !.pausing = @ \cup {x}, !.exiting = @ \cup {x}])
<1>1. Good([S EXCEPT !.listed = @ \ {x}])
  BY Zenon DEF Good, SchedStates
<1>2. Good([S EXCEPT !.pausing = @ \cup {x}])
  BY ZenonT(30) DEF Good, SchedStates
<1>3. Good([S EXCEPT !.pausing = @ \ {x}])
  BY Zenon DEF Good, SchedStates
<1>4. Good([S EXCEPT !.pausing = @ \cup {x}, !.exiting = @ \cup {x}])
  BY ZenonT(30) DEF Good, SchedStates
<1> QED BY <1>1, <1>2, <1>3, <1>4

\* Critical section of scheduler_exit_thread.
LEMMA ExitCsKeeps ==
  ASSUME Inv, NEW c \in Cpus, ExitCs(c)
  PROVE  Inv'
<1> DEFINE x  == reg[c].tgt
           S1 == [s EXCEPT !.listed = @ \ {x}]
           S2 == [S1 EXCEPT !.pausing = @ \cup {x}, !.exiting = @ \cup {x}]
           k  == IF x = Me(c) THEN [reg[c] EXCEPT !.at = "int"] ELSE Return(c)
<1>1. /\ irq' = irq /\ irq[c] = NoIrq /\ cur' = cur /\ reg[c].at = "exit_cs" /\ RestOK'
      /\ \/ s' = Fail(exit_thread_routine(S1, x), "assert_dequeue") /\ UNCHANGED <<lock, reg>>
         \/ s' = S2 /\ lock' = 0 /\ reg' = [reg EXCEPT ![c] = k]
  BY RestSame DEF ExitCs, At, Runs, Goto, Inv
<1>2. reg[c] \in Contexts /\ x \in AllTids /\ reg[c].at \in CsPoints /\ reg[c].at # "boot"
  BY <1>1, HasThread DEF Contexts, NamesThread, TgtPoints, TidOrNull, CsPoints
<1>3. Good(S1) /\ TypeOK
  BY Zenon, <1>2, GoodMarks, InvIsSchedInv DEF Inv, SchedInv
<1>4. Good(S2)
  <2> HIDE DEF S1, x
  <2> QED BY Zenon, <1>2, <1>3, GoodMarks
<1>5. Good(Fail(exit_thread_routine(S1, x), "assert_dequeue"))
  <2> HIDE DEF S1, x
  <2> QED BY <1>2, <1>3, GoodExitRoutine, GoodFail
<1>6. k \in SafeContexts
  <2>1. [reg[c] EXCEPT !.at = "int"] \in SafeContexts
    BY <1>2 DEF SafeContexts, Contexts, Resumable, NamesThread, Points, CsPoints, TgtPoints
  <2> QED BY <1>2, <2>1, ReturnType
<1> HIDE DEF S1, S2, x, k
<1>7. CASE s' = Fail(exit_thread_routine(S1, x), "assert_dequeue") /\ UNCHANGED <<lock, reg>>
  BY <1>1, <1>5, <1>7, CpuHalt
<1>8. CASE s' = S2 /\ lock' = 0 /\ reg' = [reg EXCEPT ![c] = k]
  BY ZenonT(30), <1>1, <1>2, <1>4, <1>6, <1>8, SafeIsTyped, CpuStay
<1> QED BY <1>1, <1>7, <1>8

\* Entry of waitpid.
LEMMA WaitpidKeeps ==
  ASSUME Inv, NEW c \in Cpus, NEW pid \in Pids \cup {ANY}, Waitpid(c, pid)
  PROVE  Inv'
<1> DEFINE k == [K("wait_acq") EXCEPT !.i = pid]
<1>1. /\ lock' = lock /\ irq' = irq /\ irq[c] = NoIrq /\ cur' = cur /\ reg[c].at = "user"
      /\ RestOK' /\ s' = s /\ reg' = [reg EXCEPT ![c] = k]
  BY RestSame DEF Waitpid, Does, Runs, Goto, Inv
<1>2. reg[c].at \notin CsPoints /\ Good(s') /\ pid \in Nat
  BY <1>1, Tidy DEF CsPoints, Inv, ANY
<1>3. k \in SafeContexts
  BY <1>2 DEF K, SafeContexts, Contexts, Resumable, NamesThread, Points, UserMode, AcqPoints,
         CsPoints, RetPoints, TgtPoints, TidOrNull
<1> HIDE DEF k
<1> QED BY Zenon, <1>1, <1>2, <1>3, SafeIsTyped, CpuStay

\* Counting a reaped process keeps the type of the count.
LEMMA ReapType ==
  ASSUME RestOK, NEW p
  PROVE  Reap(p) \in [Pids -> 0..2]
<1>1. reaped \in [Pids -> 0..2]
  BY DEF RestOK
<1>2. CASE p \in Pids
  <2>1. reaped[p] \in 0..2
    BY <1>1, <1>2
  <2>2. (IF reaped[p] < 2 THEN reaped[p] + 1 ELSE reaped[p]) \in 0..2
    BY <2>1
  <2> QED BY <1>1, <1>2, <2>2 DEF Reap
<1>3. CASE p \notin Pids
  BY ZenonT(30), <1>1, <1>3 DEF Reap
<1> QED BY <1>2, <1>3

\* Critical section of waitpid.
LEMMA WaitCsKeeps ==
  ASSUME Inv, NEW c \in Cpus, WaitCs(c)
  PROVE  Inv'
<1> DEFINE p   == owner[cur[c]]
           res == s.results[p]
           rem == vector_remove(res, 1, FreedResult)
           W   == Append(s.waiters, [thr |-> cur[c], pid |-> reg[c].i])
           G   == [s.got EXCEPT ![cur[c]] = NULL]
           T   == Pids \cup {FreedResult}
           N   == [j \in DOMAIN rem |-> IF rem[j] = res[1] THEN FreedResult ELSE rem[j]]
           R   == [s.results EXCEPT ![p] = N]
           k1  == Call("int", NULL, "wait_done")
<1>1. /\ irq' = irq /\ irq[c] = NoIrq /\ cur' = cur /\ reg[c].at = "wait_cs" /\ lock' = 0
      /\ UNCHANGED <<Procs, Console>>
  BY DEF WaitCs, At, Runs
<1>2. /\ cur[c] \in AllTids /\ p \in Pids /\ reg[c].i \in Nat /\ reg[c].at \in CsPoints
      /\ reg[c].at # "boot" /\ res \in Seq(T)
  BY ZenonT(30), <1>1, HasThread DEF Contexts, CsPoints, Inv, Good, SchedStates
<1>3. /\ K("user") \in SafeContexts
      /\ k1 \in SafeContexts
  BY Zenon, FreshContexts DEF Call, SafeContexts, Contexts, Resumable, NamesThread, Points, UserMode,
     AcqPoints, CsPoints, RetPoints, TgtPoints, TidOrNull
<1>4. CASE reg[c].i # ANY \/ res = << >>
  <2>1. /\ s' = [s EXCEPT !.waiters = W, !.pausing = @ \cup {cur[c]}, !.got = G]
        /\ reg' = [reg EXCEPT ![c] = k1] /\ reaped' = reaped
    BY Zenon, <1>4 DEF WaitCs, MyProc, Me, Goto, vector_push
  <2>a. /\ s.waiters \in Seq([thr : AllTids, pid : Nat] \cup {FreedInfo})
        /\ s.got \in [AllTids -> Pids \cup {NULL}]
    BY Zenon DEF Inv, Good, SchedStates
  <2>2. /\ W \in Seq([thr : AllTids, pid : Nat] \cup {FreedInfo})
        /\ G \in [AllTids -> Pids \cup {NULL}]
    BY <1>2, <2>a
  <2> HIDE DEF W, G, k1
  <2>3. Good(s')
    <3>1. Good([s EXCEPT !.waiters = W])
      BY Zenon, <2>2 DEF Inv, Good, SchedStates
    <3> DEFINE X == [s EXCEPT !.waiters = W]
    <3>2. s' = [X EXCEPT !.pausing = @ \cup {cur[c]}, !.got = G]
      BY <2>1
    <3> HIDE DEF X
    <3>3. Good(X)
      BY <3>1 DEF X
    <3> QED BY ZenonT(30), <1>2, <2>2, <3>2, <3>3 DEF Good, SchedStates
  <2>4. RestOK'
    BY <1>1, <2>1, RestSame DEF Inv
  <2> QED BY ZenonT(30), <1>1, <1>2, <1>3, <2>1, <2>3, <2>4, SafeIsTyped, CpuStay
<1>5. CASE ~ (reg[c].i # ANY \/ res = << >>) /\ res[1] = FreedResult
  <2>1. /\ s' = Fail(s, "use_after_free") /\ reg' = [reg EXCEPT ![c] = K("user")]
        /\ reaped' = reaped
    BY <1>5 DEF WaitCs, MyProc, Goto
  <2>2. Good(s') /\ RestOK'
    BY <1>1, <2>1, GoodFail, RestSame DEF Inv
  <2> QED BY ZenonT(30), <1>1, <1>2, <1>3, <2>1, <2>2, SafeIsTyped, CpuStay
<1>6. CASE ~ (reg[c].i # ANY \/ res = << >>) /\ res[1] # FreedResult
  <2>1. /\ s' = [s EXCEPT !.results = R] /\ reg' = [reg EXCEPT ![c] = K("user")]
        /\ reaped' = Reap(res[1])
    BY Zenon, <1>6 DEF WaitCs, MyProc, Goto
  <2>2. rem \in Seq(T)
    BY Zenon, <1>2, VectorRemoveType
  <2>3. N \in Seq(T)
    <3> HIDE DEF rem
    <3> QED BY <2>2
  <2>4. R \in [Pids -> Seq(T)]
    <3> HIDE DEF N
    <3> QED BY Zenon, <1>2, <2>3 DEF Inv, Good, SchedStates
  <2> HIDE DEF R, res
  <2>5. Good(s')
    BY ZenonT(30), <2>1, <2>4 DEF Inv, Good, SchedStates
  <2>6. RestOK'
    BY <1>1, <2>1, ReapType DEF Inv, RestOK, Procs, Console
  <2> QED BY ZenonT(30), <1>1, <1>2, <1>3, <2>1, <2>5, <2>6, SafeIsTyped, CpuStay
<1> QED BY Zenon, <1>4, <1>5, <1>6

\* waitpid after the waiter was woken.
LEMMA WaitDoneKeeps ==
  ASSUME Inv, NEW c \in Cpus, WaitDone(c)
  PROVE  Inv'
<1> DEFINE W == [j \in DOMAIN s.waiters |->
                   IF s.waiters[j].thr = Me(c) THEN FreedInfo ELSE s.waiters[j]]
           T == [thr : AllTids, pid : Nat] \cup {FreedInfo}
<1>1. /\ irq' = irq /\ irq[c] = NoIrq /\ cur' = cur /\ reg[c].at = "wait_done" /\ lock' = lock
      /\ UNCHANGED <<Procs, Console>> /\ reg' = [reg EXCEPT ![c] = K("user")]
      /\ s' = [s EXCEPT !.waiters = W]
      /\ reaped' \in {reaped, Reap(s.got[Me(c)])}
  BY DEF WaitDone, At, Runs, Goto
<1>2. s.waiters \in Seq(T)
  BY DEF Inv, Good, SchedStates
<1>3. W \in Seq(T)
  BY <1>2
<1>4. Good(s')
  <2> HIDE DEF W
  <2> QED BY ZenonT(30), <1>1, <1>3 DEF Inv, Good, SchedStates
<1>5. RestOK'
  BY <1>1, ReapType DEF Inv, RestOK, Procs, Console
<1>6. reg[c].at \notin CsPoints /\ K("user") \in SafeContexts
  BY <1>1, FreshContexts DEF CsPoints
<1> QED BY Zenon, <1>1, <1>4, <1>5, <1>6, SafeIsTyped, CpuStay

\* A console read that finds no key.
LEMMA ConsoleReadKeeps ==
  ASSUME Inv, NEW c \in Cpus, ConsoleRead(c)
  PROVE  Inv'
<1>1. /\ irq' = irq /\ irq[c] = NoIrq /\ cur' = cur /\ reg[c].at = "user" /\ lock' = lock
      /\ UNCHANGED <<Procs, reaped>> /\ s' = s /\ reading' = cur[c] /\ waiting' = cur[c]
      /\ reg' = [reg EXCEPT ![c] = Call("pause_acq", cur[c], "read_done")]
  BY Zenon DEF ConsoleRead, Does, Runs, Goto, Me
<1>2. /\ cur[c] \in AllTids /\ reg[c].at \notin CsPoints
      /\ Call("pause_acq", cur[c], "read_done") \in SafeContexts
  BY Zenon, <1>1, HasThread, CallType DEF CsPoints, RetPoints
<1>3. RestOK' /\ Good(s')
  BY Zenon, <1>1, <1>2 DEF Inv, RestOK, Procs, TidOrNull
<1> QED BY ZenonT(30), <1>1, <1>2, <1>3, SafeIsTyped, CpuStay

\* Critical section of scheduler_pause_thread.
LEMMA PauseCsKeeps ==
  ASSUME Inv, NEW c \in Cpus, PauseCs(c)
  PROVE  Inv'
<1> DEFINE x == reg[c].tgt
           k == [reg[c] EXCEPT !.at = "int"]
<1>1. /\ irq' = irq /\ irq[c] = NoIrq /\ cur' = cur /\ reg[c].at = "pause_cs" /\ RestOK'
      /\ \/ lock' = 0 /\ s' = s /\ reg' = [reg EXCEPT ![c] = Return(c)]
         \/ s' = Fail(s, "assert_dequeue") /\ UNCHANGED <<lock, reg>>
         \/ s' = [s EXCEPT !.pausing = @ \cup {x}] /\ lock' = 0 /\ reg' = [reg EXCEPT ![c] = k]
  BY RestSame DEF PauseCs, At, Runs, Goto, Inv
<1>2. reg[c] \in Contexts /\ x \in AllTids /\ reg[c].at \in CsPoints /\ reg[c].at # "boot"
  BY <1>1, HasThread DEF Contexts, NamesThread, TgtPoints, TidOrNull, CsPoints
<1>a. Return(c) \in SafeContexts
  BY <1>2, ReturnType
<1>3. k \in SafeContexts
  BY <1>2 DEF SafeContexts, Contexts, Resumable, NamesThread, Points, CsPoints, TgtPoints
<1>4. Good(s) /\ Good(Fail(s, "assert_dequeue")) /\ Good([s EXCEPT !.pausing = @ \cup {x}])
  BY Zenon, <1>2, GoodFail, GoodMarks DEF Inv
<1> HIDE DEF k, x
<1>5. CASE s' = Fail(s, "assert_dequeue") /\ UNCHANGED <<lock, reg>>
  BY <1>1, <1>4, <1>5, CpuHalt
<1>6. CASE lock' = 0 /\ s' = s /\ reg' = [reg EXCEPT ![c] = Return(c)]
  BY Zenon, <1>1, <1>2, <1>a, <1>4, <1>6, SafeIsTyped, CpuStay
<1>7. CASE s' = [s EXCEPT !.pausing = @ \cup {x}] /\ lock' = 0 /\ reg' = [reg EXCEPT ![c] = k]
  BY ZenonT(30), <1>1, <1>2, <1>3, <1>4, <1>7, SafeIsTyped, CpuStay
<1> QED BY <1>1, <1>5, <1>6, <1>7

\* A console read after the reader was woken.
LEMMA ReadDoneKeeps ==
  ASSUME Inv, NEW c \in Cpus, ReadDone(c)
  PROVE  Inv'
<1>1. /\ irq' = irq /\ irq[c] = NoIrq /\ cur' = cur /\ reg[c].at = "read_done" /\ lock' = lock
      /\ UNCHANGED <<Procs, reaped, waiting>> /\ s' = s /\ reading' = NULL
      /\ reg' = [reg EXCEPT ![c] = K("user")]
  BY DEF ReadDone, At, Runs, Goto
<1>2. RestOK' /\ Good(s') /\ reg[c].at \notin CsPoints /\ K("user") \in SafeContexts
  BY Zenon, <1>1, FreshContexts DEF Inv, RestOK, Procs, TidOrNull, CsPoints
<1> QED BY Zenon, <1>1, <1>2, SafeIsTyped, CpuStay

\* Critical section of sigrestore.
LEMMA RestoreCsKeeps ==
  ASSUME Inv, NEW c \in Cpus, RestoreCs(c)
  PROVE  Inv'
<1> DEFINE C == [s.ctx EXCEPT ![cur[c]] = s.rctx[cur[c]]]
           R == [s.rctx EXCEPT ![cur[c]] = s.ctx[cur[c]]]
           X == [s EXCEPT !.ctx = C, !.rctx = R, !.restore = @ \ {cur[c]},
                          !.ignoring = @ \cup {cur[c]}]
           k == Call("int", NULL, "unreachable")
<1>1. /\ irq' = irq /\ irq[c] = NoIrq /\ cur' = cur /\ reg[c].at = "rest_cs" /\ lock' = 0
      /\ RestOK' /\ s' = X /\ reg' = [reg EXCEPT ![c] = k]
  BY RestSame DEF RestoreCs, At, Runs, Goto, Me, Inv
<1>2. cur[c] \in AllTids /\ reg[c].at \in CsPoints
  BY <1>1, HasThread DEF CsPoints
<1>3. C \in [AllTids -> SafeContexts] /\ R \in [AllTids -> SafeContexts]
  BY Zenon, <1>2 DEF Inv, Good, SchedStates
<1>4. C \in [AllTids -> Contexts] /\ R \in [AllTids -> Contexts]
  BY Zenon, <1>3 DEF SafeContexts
<1>5. k \in SafeContexts
  BY DEF Call, SafeContexts, Contexts, Resumable, NamesThread, Points, UserMode, AcqPoints,
         CsPoints, RetPoints, TgtPoints, TidOrNull
<1> HIDE DEF C, R, k
<1>6. X \in SchedStates /\ X.ctx = C /\ X.rctx = R
  BY ZenonT(30), <1>2, <1>4 DEF Inv, Good, SchedStates
<1> HIDE DEF X
<1>7. Good(s')
  BY SMTT(30), <1>1, <1>3, <1>6 DEF Good
<1> QED BY ZenonT(30), <1>1, <1>2, <1>5, <1>7, SafeIsTyped, CpuStay

\* sigaction.
LEMMA SigActionKeeps ==
  ASSUME Inv, NEW c \in Cpus, NEW a \in Actions, SigAction(c, a)
  PROVE  Inv'
<1>1. /\ UNCHANGED <<lock, s, owner, parent, ntid, npid, nsig, cur, reg, irq, reading, waiting, reaped>>
      /\ action' = [action EXCEPT ![owner[cur[c]]] = a]
  BY Zenon DEF SigAction, MyProc, Console
<1>2. RestOK' /\ Good(s')
  BY Zenon, <1>1 DEF Inv, RestOK
<1> QED BY Zenon, <1>1, <1>2, CpuHalt

\* sheduler_exception_handler.
LEMMA FaultKeeps ==
  ASSUME Inv, NEW c \in Cpus, Fault(c)
  PROVE  Inv'
<1> DEFINE S1 == exit_thread_routine(s, cur[c])
           t  == S1.q.first
           S2 == [S1 EXCEPT !.q = scheduler_get_tread_wl(@)]
<1>1. /\ irq' = irq /\ irq[c] = NoIrq /\ reg[c].at \in UserMode /\ lock' = lock
      /\ RestOK' /\ s' = S2
      /\ cur' = IF t = NULL THEN cur ELSE [cur EXCEPT ![c] = t]
      /\ reg' = IF t = NULL THEN reg ELSE [reg EXCEPT ![c] = S1.ctx[t]]
  BY RestSame DEF Fault, Does, Runs, Me, Inv
<1>2. cur[c] \in AllTids /\ reg[c].at \notin CsPoints /\ reg[c].at # "boot"
  BY SMTT(30), <1>1, HasThread DEF CsPoints, UserMode
<1>3. Good(S1)
  BY Zenon, <1>2, GoodExitRoutine, InvIsSchedInv DEF SchedInv, Inv
<1> HIDE DEF S1
<1>4. Good(s') /\ t \in TidOrNull
  BY <1>1, <1>3, GoodTake
<1>5. CASE t = NULL
  BY <1>1, <1>4, <1>5, CpuHalt
<1>6. CASE t # NULL
  <2>1. t \in AllTids
    BY SMTT(30), <1>4, <1>6 DEF TidOrNull
  <2>2. S1.ctx[t] \in SafeContexts
    BY Zenon, <1>3, <2>1 DEF Good
  <2> HIDE DEF t, S2
  <2> QED BY ZenonT(30), <1>1, <1>2, <1>4, <1>6, <2>1, <2>2, SafeIsTyped, CpuMove
<1> QED BY <1>5, <1>6

-----------------------------------------------------------------------------
(* Device interrupt handlers.                                               *)

\* No handler is running.
LEMMA NoIrqType == NoIrq \in IrqRecords /\ NoIrq.at = "none" /\ NoIrq.at \notin IrqCsPoints
BY DEF NoIrq, IrqRecords, TidOrNull, IrqCsPoints

\* A key or Control-C arrives.
LEMMA IrqBeginKeeps ==
  ASSUME Inv, NEW c \in Cpus, Key(c) \/ \E t \in Tids : ControlC(c, t)
  PROVE  Inv'
<1> DEFINE Begun ==
             /\ irq[c] = NoIrq /\ lock' = lock /\ s' = s
             /\ UNCHANGED <<cur, reg, owner, parent, action, ntid, npid, reaped>>
             /\ reading' \in {reading, NULL} /\ waiting' = NULL /\ nsig' \in 0..MaxSignals
             /\ \E h \in IrqRecords : /\ irq' = [irq EXCEPT ![c] = h] /\ h.tgt # NULL
                                     /\ h.at \in {"unpause_acq", "signal_acq"}
<1>1. Begun
  <2>1. CASE Key(c)
    <3> DEFINE h == [at |-> "unpause_acq", tgt |-> waiting, sig |-> "none"]
    <3>1. h \in IrqRecords /\ irq' = [irq EXCEPT ![c] = h] /\ h.tgt # NULL /\ h.at = "unpause_acq"
      BY Zenon, <2>1 DEF Key, IrqGoto, IrqRecords, IrqAcqPoints, Inv, RestOK
    <3> HIDE DEF h
    <3>2. /\ irq[c] = NoIrq /\ lock' = lock /\ s' = s
          /\ UNCHANGED <<cur, reg, owner, parent, action, ntid, npid, nsig, reaped>>
          /\ reading' = reading /\ waiting' = NULL
      BY Zenon, <2>1 DEF Key, Interrupts, Procs
    <3>3. nsig' \in 0..MaxSignals
      BY <3>2 DEF Inv, RestOK
    <3>4. reading' \in {reading, NULL}
      BY <3>2
    <3>5. \E g \in IrqRecords : /\ irq' = [irq EXCEPT ![c] = g] /\ g.tgt # NULL
                               /\ g.at \in {"unpause_acq", "signal_acq"}
      BY Zenon, <3>1
    <3> QED BY ZenonT(30), <3>2, <3>3, <3>4, <3>5
  <2>2. ASSUME NEW t \in Tids, ControlC(c, t)
        PROVE  Begun
    <3> DEFINE h == [at |-> "signal_acq", tgt |-> t, sig |-> "SIGINT"]
    <3>1. t \in AllTids
      BY SMTT(30), SchedulerAssumption DEF Tids, AllTids
    <3>2. h \in IrqRecords /\ irq' = [irq EXCEPT ![c] = h] /\ h.tgt # NULL /\ h.at = "signal_acq"
      BY Zenon, <2>2, <3>1, Tidy DEF ControlC, IrqGoto, IrqRecords, IrqAcqPoints, Signals, TidOrNull
    <3> HIDE DEF h
    <3>3. /\ irq[c] = NoIrq /\ lock' = lock /\ s' = s
          /\ UNCHANGED <<cur, reg, owner, parent, action, ntid, npid, reaped>>
          /\ reading' = NULL /\ waiting' = NULL /\ nsig' = nsig + 1 /\ nsig < MaxSignals
      BY Zenon, <2>2 DEF ControlC, Interrupts
    <3>4. nsig' \in 0..MaxSignals
      BY <3>3, SchedulerAssumption DEF Inv, RestOK
    <3>5. reading' \in {reading, NULL}
      BY <3>3
    <3>6. \E g \in IrqRecords : /\ irq' = [irq EXCEPT ![c] = g] /\ g.tgt # NULL
                               /\ g.at \in {"unpause_acq", "signal_acq"}
      BY ZenonT(30), <3>2
    <3> QED BY Zenon, <3>3, <3>4, <3>5, <3>6
  <2> QED BY Zenon, <2>1, <2>2
<1>2. RestOK' /\ Good(s')
  BY Zenon, <1>1 DEF Inv, RestOK, TidOrNull
<1>3. PICK h \in IrqRecords : /\ irq' = [irq EXCEPT ![c] = h] /\ h.tgt # NULL
                             /\ h.at \notin IrqCsPoints
  BY Zenon, <1>1 DEF IrqCsPoints
<1> QED BY ZenonT(30), <1>1, <1>2, <1>3, NoIrqType, IrqMove

\* The interrupt handler gets the lock.
LEMMA IrqAcquireKeeps ==
  ASSUME Inv, NEW c \in Cpus, IrqAcquire(c)
  PROVE  Inv'
<1> DEFINE h == [irq[c] EXCEPT !.at = IrqCsOf[@]]
<1>1. /\ lock = 0 /\ lock' = c /\ s' = s /\ UNCHANGED <<cur, reg>> /\ RestOK'
      /\ irq' = [irq EXCEPT ![c] = h] /\ irq[c].at \in IrqAcqPoints
  BY RestSame DEF IrqAcquire, CanAcquire, IrqGoto, Inv
<1>2. irq[c] \in IrqRecords /\ irq[c].tgt # NULL /\ Good(s')
  BY <1>1 DEF Inv, CpuOK, IrqAcqPoints
<1>3. h \in IrqRecords /\ h.tgt # NULL /\ h.at \in IrqCsPoints
  BY SMTT(30), <1>1, <1>2 DEF IrqRecords, IrqAcqPoints, IrqCsPoints, IrqCsOf
<1> HIDE DEF h
<1> QED BY Zenon, <1>1, <1>2, <1>3, IrqMove

\* The interrupt handler spins for a lock its own CPU holds, and panics.
LEMMA IrqSpinOutKeeps ==
  ASSUME Inv, NEW c \in Cpus, IrqSpinOut(c)
  PROVE  Inv'
<1>1. UNCHANGED <<lock, reg, cur, irq>> /\ RestOK' /\ s' = Fail(s, "assert_irq")
  BY RestSame DEF IrqSpinOut, Inv
<1> QED BY Zenon, <1>1, GoodFail, CpuHalt DEF Inv

\* The critical sections of a handler end with the lock released, and the handler
\* either returns or spins for the lock again.
LEMMA IrqCsKeeps ==
  ASSUME Inv, NEW c \in Cpus, UnpauseCs(c) \/ IrqEnqueueCs(c) \/ SignalCs(c)
  PROVE  Inv'
<1> DEFINE x == irq[c].tgt
           h1 == [irq[c] EXCEPT !.at = "enq_acq"]
           h2 == [irq[c] EXCEPT !.at = "unpause_acq"]
           G  == [s.signal EXCEPT ![x] = irq[c].sig]
<1>1. /\ lock' = 0 /\ UNCHANGED <<cur, reg>> /\ RestOK' /\ irq[c].at \in IrqCsPoints
      /\ \E h \in {h1, h2, NoIrq} : irq' = [irq EXCEPT ![c] = h]
      /\ s' \in {[s EXCEPT !.pausing = @ \ {x}], Enqueue(s, x), [s EXCEPT !.signal = G]}
  <2>1. CASE UnpauseCs(c)
    BY Zenon, <2>1, RestSame DEF UnpauseCs, InIrq, IrqGoto, IrqCsPoints, Inv
  <2>2. CASE IrqEnqueueCs(c)
    BY <2>2, RestSame DEF IrqEnqueueCs, InIrq, IrqGoto, IrqCsPoints, Inv
  <2>3. CASE SignalCs(c)
    BY Zenon, <2>3, RestSame DEF SignalCs, InIrq, IrqGoto, IrqCsPoints, Inv
  <2> QED BY Zenon, <2>1, <2>2, <2>3
<1>2. irq[c] \in IrqRecords /\ x \in AllTids
  BY SMTT(30), <1>1 DEF Inv, CpuOK, IrqRecords, IrqCsPoints, TidOrNull
<1>3. G \in [AllTids -> Signals \cup {"none"}]
  BY Zenon, <1>2 DEF Inv, Good, SchedStates, IrqRecords
<1>4. \A h \in {h1, h2, NoIrq} : /\ h \in IrqRecords /\ (h.at # "none" => h.tgt # NULL)
                                /\ h.at \notin IrqCsPoints
  BY <1>2, NoIrqType, Tidy DEF IrqRecords, IrqAcqPoints, IrqCsPoints
<1> HIDE DEF h1, h2, G, x
<1>5. Good(s')
  <2>1. Good([s EXCEPT !.signal = G])
    BY Zenon, <1>3 DEF Inv, Good, SchedStates
  <2>2. Good(Enqueue(s, x)) /\ Good([s EXCEPT !.pausing = @ \ {x}])
    BY Zenon, <1>2, GoodEnqueue, GoodMarks DEF Inv
  <2> QED BY <1>1, <2>1, <2>2
<1>6. PICK h : /\ h \in IrqRecords /\ (h.at # "none" => h.tgt # NULL)
               /\ h.at \notin IrqCsPoints /\ irq' = [irq EXCEPT ![c] = h]
  BY Zenon, <1>1, <1>4
<1> QED BY ZenonT(30), <1>1, <1>5, <1>6, IrqMove

-----------------------------------------------------------------------------
\* The invariant holds at boot.
LEMMA InitInv == Init => Inv
<1> SUFFICES ASSUME Init PROVE Inv
  OBVIOUS
<1> DEFINE E == EmptyQueue(AllTids)
           Q == scheduler_enqueue_wl(E, InitTid)
           F == [t \in AllTids |-> K(IF t \in Cpus THEN "idle" ELSE "user")]
<1>1. E \in QueueRecords
  BY Zenon DEF EmptyQueue, QueueRecords, TidOrNull
<1>2. Q \in QueueRecords
  <2> HIDE DEF E
  <2> QED BY <1>1, Tidy, EnqueueType
<1>3. F \in [AllTids -> SafeContexts] /\ F \in [AllTids -> Contexts]
  BY FreshContexts DEF SafeContexts
<1>4. {Idle(c) : c \in Cpus} \subseteq AllTids
  BY Tidy
<1>5. s = [q |-> Q, pausing |-> {Idle(c) : c \in Cpus}, exiting |-> {}, ignoring |-> {},
           restore |-> {}, listed |-> {Idle(c) : c \in Cpus} \cup {InitTid},
           freed |-> {}, signal |-> [t \in AllTids |-> "none"], ctx |-> F, rctx |-> F,
           tofree |-> [t \in AllTids |-> NULL],
           waiters |-> << >>, results |-> [p \in Pids |-> << >>],
           got |-> [t \in AllTids |-> NULL],
           entry |-> [p \in Pids |-> IF p = InitPid THEN InitTid ELSE NULL],
           failed |-> "none"]
  BY Zenon DEF Init
<1>6. s \in SchedStates
  <2> HIDE DEF Q, F
  <2>2. [p \in Pids |-> IF p = InitPid THEN InitTid ELSE NULL] \in [Pids -> TidOrNull]
    BY Tidy DEF TidOrNull
  <2>3. /\ [t \in AllTids |-> NULL] \in [AllTids -> TidOrNull]
        /\ [t \in AllTids |-> NULL] \in [AllTids -> Pids \cup {NULL}]
        /\ [t \in AllTids |-> "none"] \in [AllTids -> Signals \cup {"none"}]
    BY DEF TidOrNull
  <2>4. /\ << >> \in Seq([thr : AllTids, pid : Nat] \cup {FreedInfo})
        /\ [p \in Pids |-> << >>] \in [Pids -> Seq(Pids \cup {FreedResult})]
    OBVIOUS
  <2>5. {Idle(c) : c \in Cpus} \cup {InitTid} \subseteq AllTids
    BY <1>4, Tidy
  <2> DEFINE I == {Idle(c) : c \in Cpus}
             J == I \cup {InitTid}
             E1 == [p \in Pids |-> IF p = InitPid THEN InitTid ELSE NULL]
             N1 == [t \in AllTids |-> NULL]
             G1 == [t \in AllTids |-> "none"]
             R1 == [p \in Pids |-> << >>]
  <2>6. s = [q |-> Q, pausing |-> I, exiting |-> {}, ignoring |-> {}, restore |-> {},
             listed |-> J, freed |-> {}, signal |-> G1, ctx |-> F, rctx |-> F,
             tofree |-> N1, waiters |-> << >>, results |-> R1, got |-> N1, entry |-> E1,
             failed |-> "none"]
    BY Zenon, <1>5
  <2>7. /\ I \subseteq AllTids /\ J \subseteq AllTids /\ E1 \in [Pids -> TidOrNull]
        /\ N1 \in [AllTids -> TidOrNull] /\ N1 \in [AllTids -> Pids \cup {NULL}]
        /\ G1 \in [AllTids -> Signals \cup {"none"}]
        /\ R1 \in [Pids -> Seq(Pids \cup {FreedResult})]
    BY ZenonT(30), <1>4, <2>2, <2>3, <2>4, <2>5
  <2> HIDE DEF I, J, E1, N1, G1, R1
  <2> QED BY Zenon, <1>2, <1>3, <2>4, <2>6, <2>7 DEF SchedStates, QueueRecords
<1>7. Good(s)
  <2>1. s.ctx = F /\ s.rctx = F
    <3> HIDE DEF E, Q, F
    <3> QED BY Zenon, <1>5
  <2> HIDE DEF F
  <2> QED BY <1>3, <1>6, <2>1 DEF Good
<1>8. RestOK
  <2>1. owner \in [AllTids -> Pids]
    <3>1. owner = [t \in AllTids |-> IF t = InitTid THEN InitPid ELSE 1]
      BY Zenon DEF Init
    <3> QED BY <3>1, Tidy
  <2>2. /\ parent \in [Pids -> Pids \cup {NULL}] /\ action \in [Pids -> Actions]
        /\ reaped \in [Pids -> 0..2] /\ reading \in TidOrNull /\ waiting \in TidOrNull
    <3>1. /\ parent = [p \in Pids |-> NULL] /\ action = [p \in Pids |-> "default"]
          /\ reaped = [p \in Pids |-> 0] /\ reading = NULL /\ waiting = NULL
      BY Zenon DEF Init
    <3> QED BY <3>1 DEF Actions, TidOrNull
  <2>3. ntid \in InitTid..MaxTid /\ npid \in 2..MaxPid /\ nsig \in 0..MaxSignals
    <3>1. ntid = InitTid /\ npid = InitPid /\ nsig = 0
      BY Zenon DEF Init
    <3> QED BY <3>1, SchedulerAssumption DEF InitTid, InitPid
  <2> QED BY <2>1, <2>2, <2>3 DEF RestOK
<1>9. /\ \A c \in Cpus : reg[c] = K("boot") /\ irq[c] = NoIrq /\ cur[c] = NULL /\ c # lock
      /\ lock \in Cpus \cup {0} /\ cur \in [Cpus -> TidOrNull]
  <2>1. /\ reg = [c \in Cpus |-> K("boot")] /\ irq = [c \in Cpus |-> NoIrq]
        /\ cur = [c \in Cpus |-> NULL] /\ lock = 0
    BY Zenon DEF Init
  <2> QED BY <2>1, Tidy DEF TidOrNull
<1>10. reg \in [Cpus -> Contexts] /\ irq \in [Cpus -> IrqRecords]
  <2>1. reg = [c \in Cpus |-> K("boot")] /\ irq = [c \in Cpus |-> NoIrq]
    BY ZenonT(30) DEF Init
  <2> QED BY <2>1, FreshContexts, NoIrqType
<1>11. \A c \in Cpus : CpuOK(c)
  BY <1>9, NoIrqType DEF CpuOK, K, CsPoints, NamesThread, TgtPoints
<1> QED BY <1>7, <1>8, <1>9, <1>10, <1>11 DEF Inv

\* Every step keeps the invariant.
LEMMA NextInv == Inv /\ [Next]_vars => Inv'
<1> SUFFICES ASSUME Inv, [Next]_vars PROVE Inv'
  OBVIOUS
<1>1. ASSUME NEW c \in Cpus, Tick(c) PROVE Inv'
  BY <1>1, TickKeeps
<1>2. ASSUME NEW c \in Cpus, CpuStep(c) PROVE Inv'
  BY Zenon, <1>2, SwitchKeeps, AcquireKeeps, EnqueueCsKeeps, ExecveErrorKeeps, ExecveLoadedKeeps,
     ExitLoopKeeps, ExitCsKeeps, WaitCsKeeps, WaitDoneKeeps, PauseCsKeeps,
     ReadDoneKeeps, RestoreCsKeeps DEF CpuStep
<1>3. ASSUME NEW c \in Cpus, UserStep(c) PROVE Inv'
  BY SMTT(30), <1>3, ForkKeeps, ExecveKeeps, ExitKeeps, WaitpidKeeps, ConsoleReadKeeps, FaultKeeps,
     SigActionKeeps DEF UserStep
<1>4. CASE IrqBegin(IrqCpu)
  BY <1>4, Tidy, IrqBeginKeeps DEF IrqBegin
<1>5. CASE IrqStep(IrqCpu)
  BY <1>5, Tidy, IrqAcquireKeeps, IrqSpinOutKeeps, IrqCsKeeps DEF IrqStep
<1>6. CASE UNCHANGED vars
  <2>1. UNCHANGED <<lock, reg, cur, irq>> /\ RestOK' /\ Good(s')
    BY Zenon, <1>6 DEF vars, Inv, RestOK
  <2> QED BY <2>1, CpuHalt
<1> QED BY <1>1, <1>2, <1>3, <1>4, <1>5, <1>6 DEF Next, Panic

\* SchedInv holds in every reachable state of the scheduler, whatever the numbers of CPUs,
\* threads and processes and whatever the programs and devices do.
THEOREM Invariant == Spec => []SchedInv
<1>1. Spec => []Inv
  BY InitInv, NextInv, PTL DEF Spec
<1>2. Inv => SchedInv
  BY InvIsSchedInv
<1> QED BY <1>1, <1>2, PTL

\* Every variable keeps its type: no operation of the scheduler stores a wild thread,
\* process or context.
THEOREM TypeCorrect == Spec => []TypeOK
<1>1. SchedInv => TypeOK
  BY DEF SchedInv
<1> QED BY <1>1, Invariant, PTL

\* scheduler_spinlock is held exactly inside the critical sections, by one CPU at most, and
\* its holder is never switched out, for any number of CPUs and any workload.
THEOREM LockDiscipline == Spec => []LockHolderRuns
<1>1. SchedInv => LockHolderRuns
  BY DEF SchedInv
<1> QED BY <1>1, Invariant, PTL

-----------------------------------------------------------------------------
(* The ready list on its own is a queue: module ReadyList, with any set of *)
(* threads, its pointers in list and the sequence they represent in order. *)

CONSTANT Thread
VARIABLES list, order

List == INSTANCE ReadyList WITH q <- list, fifo <- order

\* The invariant says that the pointers spell the sequence.
LEMMA InvSpells == List!ListInv <=> Spells(list, order, Thread)
BY DEF List!ListInv, List!ListTypeOK, List!Represents, List!BackLinks, List!Queues, List!NULL, NULL,
       Spells, QueuesOver, Follows, NoStale

\* The empty list of scheduler_init's zeroed globals satisfies the invariant.
LEMMA ListInit == List!Init => List!ListInv
BY EmptySpells, InvSpells DEF List!Init, List!EmptyQueue, List!NULL, EmptyQueue, NULL

\* The operators of the two modules are the same.
LEMMA SameOperators ==
  ASSUME NEW q, NEW t
  PROVE  /\ List!scheduler_enqueue_wl(q, t) = scheduler_enqueue_wl(q, t)
         /\ List!scheduler_get_tread_wl(q) = scheduler_get_tread_wl(q)
<1>1. List!scheduler_enqueue_wl(q, t) = scheduler_enqueue_wl(q, t)
  BY Zenon DEF List!scheduler_enqueue_wl, List!SetIf, List!NULL, scheduler_enqueue_wl, SetIf, NULL
<1>2. List!scheduler_dequeue_wl(q, q.first) = scheduler_dequeue_wl(q, q.first)
  BY Zenon DEF List!scheduler_dequeue_wl, List!SetIf, List!NULL, scheduler_dequeue_wl, SetIf, NULL
<1>3. List!scheduler_get_tread_wl(q) = scheduler_get_tread_wl(q)
  BY Zenon, <1>2 DEF List!scheduler_get_tread_wl, List!NULL, scheduler_get_tread_wl, NULL
<1> QED BY Zenon, <1>1, <1>3

\* scheduler_enqueue_wl of a thread that is not in the list, and scheduler_get_tread_wl on
\* a list that is not empty, keep the invariant.
LEMMA ListKeeps ==
  ASSUME NULL \notin Thread, List!ListInv, [List!Next]_<<list, order>>
  PROVE  List!ListInv'
<1>1. List!ListInv' <=> Spells(list', order', Thread)
  BY DEF List!ListInv, List!ListTypeOK, List!Represents, List!BackLinks, List!Queues, List!NULL, NULL,
         Spells, QueuesOver, Follows, NoStale
<1>2. CASE List!Take
  BY <1>1, <1>2, InvSpells, SameOperators, TakeSpells DEF List!Take, List!NULL, NULL
<1>3. ASSUME NEW t \in Thread, List!Join(t) PROVE List!ListInv'
  BY <1>1, <1>3, InvSpells, SameOperators, EnqueueSpells DEF List!Join
<1>4. CASE UNCHANGED <<list, order>>
  BY <1>1, <1>4, InvSpells
<1> QED
  BY <1>2, <1>3, <1>4 DEF List!Next

\* In every state of the ready list the pointers spell its sequence: first is its oldest
\* thread, following next visits the others in order and comes back to first.
THEOREM ListInvariant ==
  ASSUME NULL \notin Thread
  PROVE  List!Spec => [](List!ListInv)
<1>1. List!ListInv /\ [List!Next]_<<list, order>> => List!ListInv'
  BY ListKeeps
<1> QED
  BY ListInit, <1>1, PTL DEF List!Spec

\* scheduler_get_tread_wl returns the thread that became ready first.
THEOREM OldestFirst ==
  ASSUME NULL \notin Thread
  PROVE  List!Spec => [](List!TakesOldest)
<1>1. List!ListInv => List!TakesOldest
  BY DEF List!ListInv, List!ListTypeOK, List!Represents, List!TakesOldest
<1> QED
  BY ListInvariant, <1>1, PTL
=============================================================================
