------------------------------ MODULE ReadyList -----------------------------
(***************************************************************************)
(* The ready list on its own, for any set of threads: the pointers q beside *)
(* the sequence fifo that they are meant to represent.  Threads join as     *)
(* scheduler_enqueue_wl adds them, provided they are not in the list, and   *)
(* leave as scheduler_get_tread_wl takes them.  (scheduler_dequeue_wl is    *)
(* only ever reached from scheduler_get_tread_wl: see Scheduler.)           *)
(***************************************************************************)
EXTENDS RunQueue

CONSTANT Thread

ASSUME ThreadAssumption == NULL \notin Thread

VARIABLES q, fifo

Init == q = EmptyQueue(Thread) /\ fifo = << >>

Join(t) ==
  /\ t \notin q.inq
  /\ q' = scheduler_enqueue_wl(q, t)
  /\ fifo' = Append(fifo, t)

Take ==
  /\ q.first # NULL
  /\ q' = scheduler_get_tread_wl(q)
  /\ fifo' = Tail(fifo)

Next == Take \/ \E t \in Thread : Join(t)

Spec == Init /\ [][Next]_<<q, fifo>>

-----------------------------------------------------------------------------
Queues == [first : Thread \cup {NULL}, last : Thread \cup {NULL},
           next : [Thread -> Thread \cup {NULL}],
           prev : [Thread -> Thread \cup {NULL}], inq : SUBSET Thread]

\* The list's fields have their types and fifo is a sequence of threads.
ListTypeOK == q \in Queues /\ fifo \in Seq(Thread)

\* Forward links, from first through next to last and round to first again, visit
\* the threads of fifo in its order, each once.
Represents ==
  LET n == Len(fifo)
  IN  /\ \A i, j \in 1..n : fifo[i] = fifo[j] => i = j
      /\ q.inq = {fifo[i] : i \in 1..n}
      /\ n = 0 => q.first = NULL /\ q.last = NULL
      /\ n > 0 => q.first = fifo[1] /\ q.last = fifo[n] /\ q.next[fifo[n]] = fifo[1]
      /\ \A i \in 1..(n - 1) : q.next[fifo[i]] = fifo[i + 1]

\* What keeps it so: the backward link of the first thread and of every thread outside
\* the list is null, so taking the first one stores through no stale pointer.
BackLinks ==
  /\ \A t \in Thread \ q.inq : q.prev[t] = NULL
  /\ Len(fifo) > 0 => q.prev[fifo[1]] = NULL

\* The ready list represents fifo: what scheduler_enqueue_wl and scheduler_dequeue_wl keep,
\* together with the links that make it inductive.
ListInv == ListTypeOK /\ Represents /\ BackLinks

\* The thread scheduler_get_tread_wl returns is the one that has been in the list
\* longest, and null exactly when the list is empty.
TakesOldest == q.first = IF fifo = << >> THEN NULL ELSE Head(fifo)
=============================================================================
