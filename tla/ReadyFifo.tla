------------------------------ MODULE ReadyFifo -----------------------------
(***************************************************************************)
(* What the scheduler promises of the CPUs it shares out: a thread is in at *)
(* most one place, and CPUs take threads in the order they became ready.    *)
(***************************************************************************)
EXTENDS Naturals, Sequences

CONSTANTS
  Cpu, Thread,   \* CPUs and threads
  First,         \* the thread that is ready at the start
  None,          \* what a CPU runs before its first switch
  IdleOf(_)      \* the idle thread of a CPU, not in Thread

VARIABLES
  ready,   \* the ready threads, longest-ready first
  on       \* CPU -> what it runs

Queued == {ready[i] : i \in DOMAIN ready}
Placed == Queued \cup {on[c] : c \in Cpu}

Init == ready = <<First>> /\ on = [c \in Cpu |-> None]

\* A thread that is nowhere (new, or woken) becomes ready.
BecomeReady(t) ==
  /\ t \notin Placed
  /\ ready' = Append(ready, t)
  /\ UNCHANGED on

\* CPU c changes threads.  Those in back join the end of the list: the thread c ran,
\* if it can still run, or else a thread that the end of this one wakes.  c takes the
\* first of the list, and idles only when the list is empty.
ChangeThread(c, back) ==
  LET all == ready \o back
  IN  /\ \/ back = << >>
         \/ \E t \in Thread : back = <<t>> /\ (t = on[c] \/ t \notin Placed)
      /\ on[c] \in Thread \cup {None, IdleOf(c)}
      /\ IF all = << >>
         THEN ready' = all /\ on' = [on EXCEPT ![c] = IF on[c] = None THEN None ELSE IdleOf(c)]
         ELSE ready' = Tail(all) /\ on' = [on EXCEPT ![c] = Head(all)]

Next ==
  \/ \E t \in Thread : BecomeReady(t)
  \/ \E c \in Cpu : ChangeThread(c, << >>) \/ \E t \in Thread : ChangeThread(c, <<t>>)

Spec == Init /\ [][Next]_<<ready, on>>
=============================================================================
