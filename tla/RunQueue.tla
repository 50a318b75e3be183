------------------------------ MODULE RunQueue ------------------------------
(***************************************************************************)
(* The ready list of global/scheduler.c: an intrusive, circular, doubly    *)
(* linked list threaded through thread_t.  A queue is a record whose       *)
(* fields are the globals scheduler_first_node and scheduler_last_node and *)
(* the per-thread fields next, last (called prev here, to tell it from the *)
(* global) and is_in_queue.                                                *)
(*                                                                         *)
(* The operators are the C functions without the lock (the _wl family).    *)
(* They are total, like the C: nothing stops a caller from enqueueing a    *)
(* thread that is already in the queue.                                    *)
(***************************************************************************)
EXTENDS Naturals, Sequences, FiniteSets

\* The C null pointer.  Thread identifiers are positive.
NULL == 0

EmptyQueue(T) ==
  [first |-> NULL, last |-> NULL,
   next |-> [t \in T |-> NULL], prev |-> [t \in T |-> NULL], inq |-> {}]

\* p->field = v; nothing is stored through a null p (the C tests p, except for
\* thread->next, which is null only for a thread that is not in the queue).
SetIf(f, p, v) == IF p = NULL THEN f ELSE [f EXCEPT ![p] = v]

scheduler_enqueue_wl_Front(q, t) ==    \* the new thread goes in front
  LET f == IF q.last = NULL THEN t ELSE q.last
      n == SetIf([q.next EXCEPT ![t] = IF q.first = NULL THEN t ELSE q.first], q.last, t)
  IN  [first |-> t, last |-> f, next |-> n, prev |-> SetIf(q.prev, q.first, t),
       inq |-> q.inq \cup {t}]
scheduler_enqueue_wl_Unlinked(q, t) == \* last_node->next is not stored
  LET f == IF q.first = NULL THEN t ELSE q.first
  IN  [first |-> f, last |-> t, next |-> [q.next EXCEPT ![t] = f],
       prev |-> q.prev, inq |-> q.inq \cup {t}]
scheduler_enqueue_wl(q, t) ==
  LET f == IF q.first = NULL THEN t ELSE q.first
      n == SetIf(q.next, q.last, t)
  IN  [first |-> f,
       last  |-> t,
       next  |-> [n EXCEPT ![t] = f],
       prev  |-> IF q.last = NULL THEN q.prev ELSE [q.prev EXCEPT ![t] = q.last],
       inq   |-> q.inq \cup {t}]

\* The stores of the C, in its order; n1, n2 and p1 are the link fields after each.
scheduler_dequeue_wl_Marked(q, t) ==   \* is_in_queue is not cleared
  [q EXCEPT !.first = IF q.first = q.next[t] THEN NULL ELSE q.next[t],
            !.last = IF q.first = q.next[t] THEN NULL ELSE @,
            !.next[q.last] = q.next[t]]
scheduler_dequeue_wl_StaleLink(q, t) == \* thread->next->last is not stored
  LET only == q.first = q.next[t]
      f == IF only THEN NULL ELSE q.next[t]
  IN  [first |-> f, last |-> IF only THEN NULL ELSE q.last,
       next |-> [SetIf(q.next, q.last, f) EXCEPT ![t] = NULL],
       prev |-> [q.prev EXCEPT ![t] = NULL], inq |-> q.inq \ {t}]
scheduler_dequeue_wl(q, t) ==
  LET only  == q.first = t /\ q.first = q.next[t]
      f     == IF only THEN NULL ELSE IF q.first = t THEN q.next[t] ELSE q.first
      l0    == IF only THEN NULL ELSE q.last
      l     == IF l0 # t THEN l0 ELSE IF q.prev[t] # NULL THEN q.prev[t] ELSE f
      n1    == SetIf(q.next, l, f)
      n2    == SetIf(n1, q.prev[t], n1[t])
      p1    == SetIf(q.prev, n2[t], q.prev[t])
  IN  [first |-> f,
       last  |-> l,
       next  |-> [n2 EXCEPT ![t] = NULL],
       prev  |-> [p1 EXCEPT ![t] = NULL],
       inq   |-> q.inq \ {t}]

\* scheduler_get_tread_wl: the state after taking the first node, which is q.first.
scheduler_get_tread_wl_Mutant(q) == q  \* the node is not taken out
scheduler_get_tread_wl(q) ==
  IF q.first = NULL THEN q ELSE scheduler_dequeue_wl(q, q.first)

-----------------------------------------------------------------------------
\* The list the pointers spell: follow next from first, one node for each thread
\* whose is_in_queue is set.
Ready(q) ==
  LET n == Cardinality(q.inq)
      walk[i \in 1..n] ==
        IF i = 1 THEN q.first
        ELSE IF walk[i - 1] = NULL THEN NULL ELSE q.next[walk[i - 1]]
  IN  [i \in 1..n |-> walk[i]]

\* The pointers form one ring through exactly the threads marked is_in_queue,
\* closed from last to first.
WellLinked(q) ==
  LET r == Ready(q)
      n == Len(r)
  IN  /\ {r[i] : i \in 1..n} = q.inq
      /\ IF n = 0 THEN q.first = NULL /\ q.last = NULL
                  ELSE q.last = r[n] /\ q.next[q.last] = q.first
=============================================================================
