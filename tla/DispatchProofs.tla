--------------------------- MODULE DispatchProofs ---------------------------
(***************************************************************************)
(* What the CPUs run, for any number of CPUs, threads and processes: a      *)
(* thread is in one place, the ready list is well linked, and CPUs serve it *)
(* in order.                                                                *)
(*                                                                         *)
(* Programs may fork, execve, exit, fault and wait for a given child on any *)
(* CPUs.  With a wait for any child, a console read or a signal this is     *)
(* false: another CPU or an interrupt makes a thread ready that has only    *)
(* announced that it pauses, and still runs (see README.md).                *)
(***************************************************************************)
EXTENDS SchedulerProofs

\* Nothing wakes a thread: no wait for any child, no console read, no signal.
Unwoken == Workload \cap {"wait", "console", "signal"} = {}

\* A context of such a program: not in a pause or in sigrestore, and waiting only for a
\* given child.
Plain(k) ==
  /\ k.at \notin {"pause_acq", "pause_cs", "rest_acq", "rest_cs"}
  /\ k.at \in {"wait_acq", "wait_cs"} => k.i # ANY

\* No signal is pending or handled, no waiter takes any child, idle threads are not made
\* ready, and every saved context is plain.
Quiet(S) ==
  /\ S.restore = {} /\ S.ignoring = {} /\ \A t \in AllTids : S.signal[t] = "none"
  /\ \A i \in DOMAIN S.waiters : S.waiters[i] = FreedInfo \/ S.waiters[i].pid # ANY
  /\ \A c \in Cpus : Idle(c) \in S.pausing
  /\ \A t \in AllTids : Plain(S.ctx[t])

\* A context that is about to enqueue a thread it has created.
Launching(k) == k.at \in {"enq_acq", "enq_cs"}

\* The contexts that will be executed are those of the CPUs and of the ready threads.
Live(run, ctx, p) == IF p \in Cpus THEN run[p] ELSE ctx[p]

\* Where threads are, with I in the ready list, CPUs running the threads on in contexts
\* run, contexts ctx saved and n threads created.  A thread is in one place;
OnePlace(I, on, n) ==
  /\ I \subseteq Tids \cap 1..n
  /\ \A c \in Cpus : on[c] \in (Tids \cap 1..n) \cup {NULL, Idle(c)} /\ on[c] \notin I
  /\ \A c, d \in Cpus : on[c] \in Tids /\ on[c] = on[d] => c = d
\* idle threads stay in their loop;
IdleLoops(on, run, ctx) ==
  \A c \in Cpus : ctx[Idle(c)].at = "idle" /\ (on[c] = Idle(c) => run[c].at = "idle")
\* a thread that is being launched is nowhere yet and launches nothing when it starts,
Unstarted(I, on, run, ctx, n) ==
  \A p \in Cpus \cup I : Launching(Live(run, ctx, p)) =>
    LET t == Live(run, ctx, p).tgt
    IN  t \in Tids \cap 1..n /\ t \notin I /\ ~Launching(ctx[t]) /\ \A c \in Cpus : on[c] # t
\* and has one launcher.
OneLauncher(I, run, ctx) ==
  \A p, r \in Cpus \cup I :
    /\ Launching(Live(run, ctx, p)) /\ Launching(Live(run, ctx, r))
    /\ Live(run, ctx, p).tgt = Live(run, ctx, r).tgt
    => p = r

Placed(I, on, run, ctx, n) ==
  /\ OnePlace(I, on, n) /\ IdleLoops(on, run, ctx)
  /\ Unstarted(I, on, run, ctx, n) /\ OneLauncher(I, run, ctx)

\* The inductive invariant.
DispatchInv ==
  /\ Inv /\ Quiet(s)
  /\ \A c \in Cpus : irq[c] = NoIrq /\ Plain(reg[c])
  /\ Spells(s.q, Ready(s.q), AllTids)
  /\ Placed(s.q.inq, cur, reg, s.ctx, ntid)

-----------------------------------------------------------------------------
(* How the steps of the CPUs move threads and contexts about.               *)

\* Idle threads have the numbers of their CPUs, other threads come after them.
LEMMA Numbered ==
  /\ NULL = 0 /\ NULL \notin Cpus /\ NULL \notin Tids /\ NULL \notin AllTids
  /\ \A c \in Cpus : Idle(c) = c /\ c \in AllTids /\ c \notin Tids /\ c \in Nat
  /\ \A t \in Tids : t \in AllTids /\ t \notin Cpus /\ t \in Nat
  /\ \A t \in AllTids : t \in Nat /\ (t \in Cpus \/ t \in Tids)
BY SchedulerAssumption DEF NULL, Cpus, Tids, AllTids, Idle

\* A CPU goes on in another context, which launches no other thread.
LEMMA MoveOn ==
  ASSUME NEW I, NEW on, NEW run \in [Cpus -> Contexts], NEW ctx, NEW n,
         Placed(I, on, run, ctx, n),
         NEW c \in Cpus, NEW k, run[c].at # "idle" \/ k.at = "idle",
         Launching(k) => Launching(run[c]) /\ k.tgt = run[c].tgt
  PROVE  Placed(I, on, [run EXCEPT ![c] = k], ctx, n)
<1> DEFINE r2 == [run EXCEPT ![c] = k]
<1>1. \A d \in Cpus : r2[d] = IF d = c THEN k ELSE run[d]
  OBVIOUS
<1> HIDE DEF r2
<1>2. \A p : Launching(Live(r2, ctx, p)) =>
               Launching(Live(run, ctx, p)) /\ Live(r2, ctx, p).tgt = Live(run, ctx, p).tgt
  BY <1>1 DEF Live
<1>3. IdleLoops(on, r2, ctx)
  BY <1>1 DEF Placed, IdleLoops
<1>4. Unstarted(I, on, r2, ctx, n)
  BY <1>2, Zenon DEF Placed, Unstarted
<1>5. OneLauncher(I, r2, ctx)
  BY <1>2, Zenon DEF Placed, OneLauncher
<1> QED BY Zenon, <1>3, <1>4, <1>5 DEF Placed, r2

\* A CPU creates thread n + 1 and is about to enqueue it.
LEMMA Create ==
  ASSUME NEW I, NEW on, NEW run \in [Cpus -> Contexts], NEW ctx \in [AllTids -> Contexts],
         NEW n \in Nat, Placed(I, on, run, ctx, n), n + 1 \in Tids,
         NEW c \in Cpus, NEW k, run[c].at # "idle", k.tgt = n + 1,
         NEW u, ~Launching(u)
  PROVE  Placed(I, on, [run EXCEPT ![c] = k], [ctx EXCEPT ![n + 1] = u], n + 1)
<1> DEFINE r2 == [run EXCEPT ![c] = k]
           c2 == [ctx EXCEPT ![n + 1] = u]
<1>1. /\ \A d \in Cpus : r2[d] = IF d = c THEN k ELSE run[d]
      /\ \A t \in AllTids : c2[t] = IF t = n + 1 THEN u ELSE ctx[t]
  OBVIOUS
<1> HIDE DEF r2, c2
<1>2. n + 1 \in Tids /\ n + 1 \notin 1..n /\ \A t \in 1..n : t \in 1..(n + 1)
  OBVIOUS
<1>3. n + 1 \notin I /\ n + 1 \notin Cpus /\ \A d \in Cpus : on[d] # n + 1
  BY <1>2, Numbered DEF Placed, OnePlace
<1>4. \A p \in Cpus \cup I : p # c => Live(r2, c2, p) = Live(run, ctx, p)
  BY <1>1, <1>3, Numbered DEF Live, Placed, OnePlace
<1>5. Live(r2, c2, c) = k
  BY <1>1 DEF Live
<1>6. OnePlace(I, on, n + 1)
  <2> DEFINE N == 1..n
             M == 1..(n + 1)
  <2>1. \A t \in N : t \in M
    BY <1>2
  <2> HIDE DEF N, M
  <2>2. OnePlace(I, on, n) <=>
          /\ I \subseteq Tids \cap N
          /\ \A d \in Cpus : on[d] \in (Tids \cap N) \cup {NULL, Idle(d)} /\ on[d] \notin I
          /\ \A d, e \in Cpus : on[d] \in Tids /\ on[d] = on[e] => d = e
    BY Zenon DEF OnePlace, N
  <2>3. OnePlace(I, on, n + 1) <=>
          /\ I \subseteq Tids \cap M
          /\ \A d \in Cpus : on[d] \in (Tids \cap M) \cup {NULL, Idle(d)} /\ on[d] \notin I
          /\ \A d, e \in Cpus : on[d] \in Tids /\ on[d] = on[e] => d = e
    BY Zenon DEF OnePlace, M
  <2> QED BY <2>1, <2>2, <2>3 DEF Placed
<1>7. IdleLoops(on, r2, c2)
  BY ZenonT(30), <1>1, <1>3, Numbered DEF Placed, IdleLoops
<1>8. Unstarted(I, on, r2, c2, n + 1)
  <2> SUFFICES ASSUME NEW p \in Cpus \cup I, Launching(Live(r2, c2, p))
               PROVE  LET t == Live(r2, c2, p).tgt
                      IN  /\ t \in Tids /\ t \in 1..(n + 1) /\ t \notin I /\ ~Launching(c2[t])
                          /\ \A d \in Cpus : on[d] # t
    BY Zenon DEF Unstarted
  <2>1. CASE p = c
    BY <1>1, <1>3, <1>5, <2>1, Numbered
  <2>2. CASE p # c
    <3> DEFINE t == Live(run, ctx, p).tgt
    <3>1. t \in Tids /\ t \in 1..n /\ t \notin I /\ ~Launching(ctx[t]) /\ \A d \in Cpus : on[d] # t
      BY Zenon, <1>4, <2>2 DEF Placed, Unstarted
    <3>2. Live(r2, c2, p).tgt = t
      BY <1>4, <2>2
    <3> HIDE DEF t
    <3>3. c2[t] = ctx[t] /\ t \in 1..(n + 1)
      BY Zenon, <1>1, <1>2, <3>1, Numbered
    <3> QED BY Zenon, <3>1, <3>2, <3>3
  <2> QED BY Zenon, <2>1, <2>2
<1>9. OneLauncher(I, r2, c2)
  <2>1. \A p \in Cpus \cup I : p # c /\ Launching(Live(run, ctx, p)) => Live(run, ctx, p).tgt # n + 1
    BY <1>2 DEF Placed, Unstarted
  <2> QED BY <1>4, <1>5, <2>1 DEF Placed, OneLauncher
<1> QED BY Zenon, <1>6, <1>7, <1>8, <1>9 DEF Placed, r2, c2

\* A CPU enqueues the thread it has created.
LEMMA Enlist ==
  ASSUME NEW I, NEW on, NEW run \in [Cpus -> Contexts], NEW ctx, NEW n,
         Placed(I, on, run, ctx, n), NEW c \in Cpus, Launching(run[c]), NEW k, ~Launching(k)
  PROVE  Placed(I \cup {run[c].tgt}, on, [run EXCEPT ![c] = k], ctx, n)
<1> DEFINE t == run[c].tgt
           J == I \cup {t}
           r2 == [run EXCEPT ![c] = k]
<1>1. /\ t \in Tids /\ t \in 1..n /\ t \notin I /\ ~Launching(ctx[t])
      /\ \A d \in Cpus : on[d] # t
  BY Zenon DEF Placed, Unstarted, Live
<1>2. \A p \in Cpus \cup I : p # c /\ Launching(Live(run, ctx, p)) => Live(run, ctx, p).tgt # t
  BY DEF Placed, OneLauncher, Live
<1>3. \A d \in Cpus : r2[d] = IF d = c THEN k ELSE run[d]
  OBVIOUS
<1>4. Launching(run[c]) => run[c].at # "idle"
  BY DEF Launching
<1> HIDE DEF r2, t
<1>5. \A p \in Cpus \cup J : Launching(Live(r2, ctx, p)) =>
                               p \in Cpus \cup I /\ p # c /\ Live(r2, ctx, p) = Live(run, ctx, p)
  BY <1>1, <1>3, Numbered DEF Live
<1>6. OnePlace(J, on, n)
  BY Zenon, <1>1 DEF Placed, OnePlace
<1>7. IdleLoops(on, r2, ctx)
  BY Zenon, <1>3, <1>4 DEF Placed, IdleLoops
<1>8. Unstarted(J, on, r2, ctx, n)
  <2> SUFFICES ASSUME NEW p \in Cpus \cup J, Launching(Live(r2, ctx, p))
               PROVE  LET x == Live(r2, ctx, p).tgt
                      IN  /\ x \in Tids \cap 1..n /\ x \notin J /\ ~Launching(ctx[x])
                          /\ \A d \in Cpus : on[d] # x
    BY Zenon DEF Unstarted
  <2> QED BY Zenon, <1>2, <1>5 DEF Placed, Unstarted
<1>9. OneLauncher(J, r2, ctx)
  BY Zenon, <1>5 DEF Placed, OneLauncher
<1> QED BY Zenon, <1>6, <1>7, <1>8, <1>9 DEF Placed, r2, t

\* A CPU between two threads.
Vacant == K("boot")

\* A CPU drops its thread, whose context may be saved.
LEMMA Park ==
  ASSUME NEW I, NEW on \in [Cpus -> TidOrNull], NEW run \in [Cpus -> Contexts],
         NEW ctx \in [AllTids -> Contexts], NEW n, Placed(I, on, run, ctx, n),
         NEW c \in Cpus, on[c] # NULL, NEW k, on[c] = Idle(c) => k.at = "idle"
  PROVE  /\ Placed(I, [on EXCEPT ![c] = NULL], [run EXCEPT ![c] = Vacant],
                   [ctx EXCEPT ![on[c]] = k], n)
         /\ Placed(I, [on EXCEPT ![c] = NULL], [run EXCEPT ![c] = Vacant], ctx, n)
<1> DEFINE e == on[c]
           o2 == [on EXCEPT ![c] = NULL]
           r2 == [run EXCEPT ![c] = Vacant]
           c2 == [ctx EXCEPT ![e] = k]
<1>1. e \in AllTids /\ (e \in Cpus => e = c) /\ e \notin I /\ (e = c => k.at = "idle")
  BY ZenonT(30), Numbered DEF Placed, OnePlace
<1>2. /\ \A d \in Cpus : o2[d] = IF d = c THEN NULL ELSE on[d]
      /\ \A d \in Cpus : r2[d] = IF d = c THEN Vacant ELSE run[d]
      /\ \A t \in AllTids : c2[t] = IF t = e THEN k ELSE ctx[t]
  BY <1>1
<1>3. ~Launching(Vacant) /\ NULL \notin I /\ NULL \notin Tids
  BY Zenon, Numbered DEF Vacant, K, Launching, Placed, OnePlace
<1> HIDE DEF o2, r2, c2, e
<1>4. OnePlace(I, o2, n)
  BY <1>2, <1>3 DEF Placed, OnePlace
<1>5. ASSUME NEW z \in {ctx, c2}
      PROVE  Placed(I, o2, r2, z, n)
  <2>1. \A p \in Cpus \cup I : Launching(Live(r2, z, p)) =>
                                 p # c /\ Live(r2, z, p) = Live(run, ctx, p)
    BY <1>1, <1>2, <1>3, <1>5, Numbered DEF Live, Placed, OnePlace
  <2>2. IdleLoops(o2, r2, z)
    <3> SUFFICES ASSUME NEW d \in Cpus
                 PROVE  z[d].at = "idle" /\ (o2[d] = d => r2[d].at = "idle")
      BY ZenonT(30), Numbered DEF IdleLoops
    <3> QED BY <1>1, <1>2, <1>5, Numbered DEF Placed, IdleLoops
  <2>3. Unstarted(I, o2, r2, z, n)
    <3> SUFFICES ASSUME NEW p \in Cpus \cup I, Launching(Live(r2, z, p))
                 PROVE  LET x == Live(r2, z, p).tgt
                        IN  /\ x \in Tids \cap 1..n /\ x \notin I /\ ~Launching(z[x])
                            /\ \A d \in Cpus : o2[d] # x
      BY Zenon DEF Unstarted
    <3> DEFINE x == Live(run, ctx, p).tgt
    <3>1. /\ x \in Tids \cap 1..n /\ x \notin I /\ ~Launching(ctx[x]) /\ \A d \in Cpus : on[d] # x
          /\ Live(r2, z, p).tgt = x
      BY Zenon, <2>1 DEF Placed, Unstarted
    <3> HIDE DEF x
    <3>2. x # e /\ x # NULL
      BY Zenon, <3>1, Numbered DEF e
    <3> QED BY Zenon, <1>2, <1>5, <3>1, <3>2, Numbered
  <2>4. OneLauncher(I, r2, z)
    BY Zenon, <2>1 DEF Placed, OneLauncher
  <2> QED BY Zenon, <1>4, <2>2, <2>3, <2>4 DEF Placed
<1> QED BY Zenon, <1>5 DEF o2, r2, c2, e

\* A CPU's thread goes back to the ready list.
LEMMA Preempt ==
  ASSUME NEW I, NEW on \in [Cpus -> TidOrNull], NEW run \in [Cpus -> Contexts],
         NEW ctx \in [AllTids -> Contexts], NEW n, Placed(I, on, run, ctx, n),
         NEW c \in Cpus, on[c] \in Tids, NEW k,
         Launching(k) => Launching(run[c]) /\ k.tgt = run[c].tgt
  PROVE  Placed(I \cup {on[c]}, [on EXCEPT ![c] = NULL], [run EXCEPT ![c] = Vacant],
                [ctx EXCEPT ![on[c]] = k], n)
<1> DEFINE e == on[c]
           J == I \cup {e}
           o2 == [on EXCEPT ![c] = NULL]
           r2 == [run EXCEPT ![c] = Vacant]
           c2 == [ctx EXCEPT ![e] = k]
<1>1. e \in AllTids /\ e \notin Cpus /\ e \notin I /\ e \in Tids \cap 1..n /\ e # NULL
  BY Numbered DEF Placed, OnePlace
<1>2. /\ \A d \in Cpus : o2[d] = IF d = c THEN NULL ELSE on[d]
      /\ \A d \in Cpus : r2[d] = IF d = c THEN Vacant ELSE run[d]
      /\ \A t \in AllTids : c2[t] = IF t = e THEN k ELSE ctx[t]
  BY Zenon, <1>1
<1>3. ~Launching(Vacant) /\ NULL \notin I /\ NULL \notin Tids
  BY Zenon, Numbered DEF Vacant, K, Launching, Placed, OnePlace
<1>4. \A d \in Cpus : d # c => on[d] # e
  BY Zenon, <1>1 DEF Placed, OnePlace
<1> DEFINE From(p) == IF p = e THEN c ELSE p
<1> HIDE DEF o2, r2, c2, e
<1>5. \A p \in Cpus \cup J : Launching(Live(r2, c2, p)) =>
        /\ p # c /\ From(p) \in Cpus \cup I /\ Launching(Live(run, ctx, From(p)))
        /\ Live(r2, c2, p).tgt = Live(run, ctx, From(p)).tgt
  BY <1>1, <1>2, <1>3, Numbered DEF Live, Placed, OnePlace
<1>6. OnePlace(J, o2, n)
  BY <1>1, <1>2, <1>3, <1>4 DEF Placed, OnePlace
<1>7. IdleLoops(o2, r2, c2)
  <2> SUFFICES ASSUME NEW d \in Cpus
               PROVE  c2[d].at = "idle" /\ (o2[d] = d => r2[d].at = "idle")
    BY Zenon, Numbered DEF IdleLoops
  <2> QED BY <1>1, <1>2, Numbered DEF Placed, IdleLoops
<1>8. Unstarted(J, o2, r2, c2, n)
  <2> SUFFICES ASSUME NEW p \in Cpus \cup J, Launching(Live(r2, c2, p))
               PROVE  LET x == Live(r2, c2, p).tgt
                      IN  /\ x \in Tids \cap 1..n /\ x \notin J /\ ~Launching(c2[x])
                          /\ \A d \in Cpus : o2[d] # x
    BY Zenon DEF Unstarted
  <2> DEFINE x == Live(run, ctx, From(p)).tgt
  <2>1. /\ x \in Tids \cap 1..n /\ x \notin I /\ ~Launching(ctx[x]) /\ \A d \in Cpus : on[d] # x
        /\ Live(r2, c2, p).tgt = x
    BY Zenon, <1>5 DEF Placed, Unstarted
  <2> HIDE DEF x
  <2>2. x # e /\ x # NULL
    BY Zenon, <2>1, Numbered DEF e
  <2> QED BY Zenon, <1>2, <2>1, <2>2, Numbered
<1>9. OneLauncher(J, r2, c2)
  <2> SUFFICES ASSUME NEW p \in Cpus \cup J, NEW r \in Cpus \cup J,
                      Launching(Live(r2, c2, p)), Launching(Live(r2, c2, r)),
                      Live(r2, c2, p).tgt = Live(r2, c2, r).tgt
               PROVE  p = r
    BY Zenon DEF OneLauncher
  <2>1. From(p) = From(r)
    <3> HIDE DEF From
    <3> QED BY Zenon, <1>5 DEF Placed, OneLauncher
  <2> QED BY Zenon, <1>5, <2>1
<1> QED BY Zenon, <1>6, <1>7, <1>8, <1>9 DEF Placed, o2, r2, c2, e

\* A CPU between two threads takes one from the ready list.
LEMMA Resume ==
  ASSUME NEW I, NEW on \in [Cpus -> TidOrNull], NEW run \in [Cpus -> Contexts], NEW ctx, NEW n,
         Placed(I, on, run, ctx, n), NEW c \in Cpus, on[c] = NULL, ~Launching(run[c]), NEW t \in I
  PROVE  Placed(I \ {t}, [on EXCEPT ![c] = t], [run EXCEPT ![c] = ctx[t]], ctx, n)
<1> DEFINE J == I \ {t}
           o2 == [on EXCEPT ![c] = t]
           r2 == [run EXCEPT ![c] = ctx[t]]
           From(p) == IF p = c THEN t ELSE p
<1>1. t \in Tids \cap 1..n /\ t \notin Cpus /\ \A d \in Cpus : on[d] # t
  BY ZenonT(30), Numbered DEF Placed, OnePlace
<1>2. /\ \A d \in Cpus : o2[d] = IF d = c THEN t ELSE on[d]
      /\ \A d \in Cpus : r2[d] = IF d = c THEN ctx[t] ELSE run[d]
  OBVIOUS
<1> HIDE DEF o2, r2
<1>3. \A p \in Cpus \cup J : Live(r2, ctx, p) = Live(run, ctx, From(p)) /\ From(p) \in Cpus \cup I
  BY Zenon, <1>1, <1>2 DEF Live
<1>4. OnePlace(J, o2, n)
  BY Zenon, <1>1, <1>2 DEF Placed, OnePlace
<1>5. IdleLoops(o2, r2, ctx)
  <2> SUFFICES ASSUME NEW d \in Cpus
               PROVE  ctx[d].at = "idle" /\ (o2[d] = d => r2[d].at = "idle")
    BY Zenon, Numbered DEF IdleLoops
  <2> QED BY ZenonT(30), <1>1, <1>2, Numbered DEF Placed, IdleLoops
<1>6. Unstarted(J, o2, r2, ctx, n)
  <2> SUFFICES ASSUME NEW p \in Cpus \cup J, Launching(Live(r2, ctx, p))
               PROVE  LET x == Live(r2, ctx, p).tgt
                      IN  /\ x \in Tids \cap 1..n /\ x \notin J /\ ~Launching(ctx[x])
                          /\ \A d \in Cpus : o2[d] # x
    BY Zenon DEF Unstarted
  <2> DEFINE x == Live(run, ctx, From(p)).tgt
  <2>1. /\ x \in Tids \cap 1..n /\ x \notin I /\ ~Launching(ctx[x]) /\ \A d \in Cpus : on[d] # x
        /\ Live(r2, ctx, p).tgt = x
    BY Zenon, <1>3 DEF Placed, Unstarted
  <2> HIDE DEF x
  <2> QED BY Zenon, <1>2, <2>1
<1>7. OneLauncher(J, r2, ctx)
  <2> SUFFICES ASSUME NEW p \in Cpus \cup J, NEW r \in Cpus \cup J,
                      Launching(Live(r2, ctx, p)), Launching(Live(r2, ctx, r)),
                      Live(r2, ctx, p).tgt = Live(r2, ctx, r).tgt
               PROVE  p = r
    BY Zenon DEF OneLauncher
  <2>1. From(p) = From(r)
    <3> HIDE DEF From
    <3> QED BY Zenon, <1>3 DEF Placed, OneLauncher
  <2> QED BY Zenon, <1>1, <2>1
<1> QED BY Zenon, <1>4, <1>5, <1>6, <1>7 DEF Placed, o2, r2

\* A CPU between two threads takes its idle thread.
LEMMA GoIdle ==
  ASSUME NEW I, NEW on \in [Cpus -> TidOrNull], NEW run \in [Cpus -> Contexts], NEW ctx, NEW n,
         Placed(I, on, run, ctx, n), NEW c \in Cpus, on[c] = NULL
  PROVE  Placed(I, [on EXCEPT ![c] = Idle(c)], [run EXCEPT ![c] = ctx[Idle(c)]], ctx, n)
<1> DEFINE o2 == [on EXCEPT ![c] = Idle(c)]
           r2 == [run EXCEPT ![c] = ctx[Idle(c)]]
<1>1. /\ \A d \in Cpus : o2[d] = IF d = c THEN c ELSE on[d]
      /\ \A d \in Cpus : r2[d] = IF d = c THEN ctx[c] ELSE run[d]
  BY Numbered
<1>2. ctx[c].at = "idle" /\ ~Launching(ctx[c])
  BY Zenon, Numbered DEF Placed, IdleLoops, Launching
<1>3. c \notin I /\ c \notin Tids
  BY Zenon, Numbered DEF Placed, OnePlace
<1> HIDE DEF o2, r2
<1>4. \A p \in Cpus \cup I : Launching(Live(r2, ctx, p)) => Live(r2, ctx, p) = Live(run, ctx, p)
  BY Zenon, <1>1, <1>2 DEF Live
<1>5. OnePlace(I, o2, n)
  BY <1>1, <1>3, Numbered DEF Placed, OnePlace
<1>6. IdleLoops(o2, r2, ctx)
  <2> SUFFICES ASSUME NEW d \in Cpus
               PROVE  ctx[d].at = "idle" /\ (o2[d] = d => r2[d].at = "idle")
    BY Zenon, Numbered DEF IdleLoops
  <2> QED BY <1>1, <1>2, Numbered DEF Placed, IdleLoops
<1>7. Unstarted(I, o2, r2, ctx, n)
  <2> SUFFICES ASSUME NEW p \in Cpus \cup I, Launching(Live(r2, ctx, p))
               PROVE  LET x == Live(r2, ctx, p).tgt
                      IN  /\ x \in Tids \cap 1..n /\ x \notin I /\ ~Launching(ctx[x])
                          /\ \A d \in Cpus : o2[d] # x
    BY Zenon DEF Unstarted
  <2> DEFINE x == Live(run, ctx, p).tgt
  <2>1. /\ x \in Tids \cap 1..n /\ x \notin I /\ ~Launching(ctx[x]) /\ \A d \in Cpus : on[d] # x
        /\ Live(r2, ctx, p).tgt = x
    BY Zenon, <1>4 DEF Placed, Unstarted
  <2> HIDE DEF x
  <2> QED BY ZenonT(30), <1>1, <1>3, <2>1
<1>8. OneLauncher(I, r2, ctx)
  BY Zenon, <1>4 DEF Placed, OneLauncher
<1> QED BY Zenon, <1>5, <1>6, <1>7, <1>8 DEF Placed, o2, r2

-----------------------------------------------------------------------------
(* The functions called with the lock held, when nothing wakes a thread.    *)

\* What a step of the ready list and the CPUs is, read off the pointers.
Serves(c, back) ==
  LET all == Ready(s.q) \o back
  IN  /\ back = << >> \/ (cur[c] \in Tids /\ back = <<cur[c]>>)
      /\ cur[c] \in Tids \cup {NULL, Idle(c)}
      /\ IF all = << >>
         THEN /\ Ready(s.q)' = all
              /\ cur' = [cur EXCEPT ![c] = IF cur[c] = NULL THEN NULL ELSE Idle(c)]
         ELSE Ready(s.q)' = Tail(all) /\ cur' = [cur EXCEPT ![c] = Head(all)]

\* A CPU's change of threads is a step of the abstract queue.
LEMMA ServesIsStep ==
  ASSUME NEW c \in Cpus, NEW back, Serves(c, back)
  PROVE  Fifo!Next
<1>1. Fifo!ChangeThread(c, back)
  BY Zenon DEF Serves, Fifo!ChangeThread
<1>2. back = << >> \/ \E t \in Tids : back = <<t>>
  BY Zenon DEF Serves
<1> QED BY <1>1, <1>2 DEF Fifo!Next

\* The abstract queue starts as the scheduler does.
LEMMA FifoStarts == Fifo!Init <=> Ready(s.q) = <<InitTid>> /\ cur = [c \in Cpus |-> NULL]
BY DEF Fifo!Init

\* S and X differ neither in the ready list nor in what decides who joins it.
Alike(S, X) ==
  /\ X.q = S.q /\ X.ctx = S.ctx /\ X.pausing = S.pausing /\ X.waiters = S.waiters
  /\ X.restore = S.restore /\ X.ignoring = S.ignoring /\ X.signal = S.signal

\* A state like a quiet one is quiet.
LEMMA QuietAlike ==
  ASSUME NEW S, NEW X, Quiet(S), Alike(S, X)
  PROVE  Quiet(X)
BY Zenon DEF Quiet, Alike

\* exit_thread_routine wakes nobody: the exit goes to the parent's results.
LEMMA ExitWakesNobody ==
  ASSUME TypeOK, NEW S, Good(S), Quiet(S), NEW t \in AllTids
  PROVE  Alike(S, exit_thread_routine(S, t))
<1> DEFINE p == owner[t]
           stop == {i \in DOMAIN S.waiters : Finds(S, i, p)}
<1>1. \A i \in stop : S.waiters[i] = FreedInfo
  BY Zenon DEF Quiet, Finds
<1>2. stop # {} => Min(stop) \in stop
  <2>1. DOMAIN S.waiters \subseteq Nat
    BY DEF Good, SchedStates
  <2> QED BY Zenon, <2>1, MinIn
<1>3. exit_thread_routine(S, t) \in
        {S, [S EXCEPT !.results[parent[p]] = vector_push(@, p)], Fail(S, "use_after_free")}
  <2> DEFINE R == [S EXCEPT !.results[parent[p]] = vector_push(@, p)]
  <2>1. exit_thread_routine(S, t) =
          IF t # S.entry[p] \/ parent[p] = NULL THEN S
          ELSE IF stop = {} THEN R
          ELSE IF S.waiters[Min(stop)] = FreedInfo THEN Fail(S, "use_after_free")
          ELSE waitpid_return(S, p, Min(stop))
    BY DEF exit_thread_routine
  <2> HIDE DEF stop, R
  <2>2. stop # {} => S.waiters[Min(stop)] = FreedInfo
    BY <1>1, <1>2
  <2>3. exit_thread_routine(S, t) \in {S, R, Fail(S, "use_after_free")}
    BY Zenon, <2>1, <2>2
  <2> QED BY Zenon, <2>3 DEF R
<1>4. Alike(S, S)
  BY DEF Alike
<1>5. Alike(S, [S EXCEPT !.results[parent[p]] = vector_push(@, p)])
  BY DEF Alike, Good, SchedStates
<1>6. Alike(S, Fail(S, "use_after_free"))
  BY DEF Alike, Good, SchedStates, Fail
<1> QED BY Zenon, <1>3, <1>4, <1>5, <1>6

\* The first half of scheduler_handler puts the thread back in the ready list unless it is
\* pausing; a context is saved unless the thread is exiting.
LEMMA EndThreadDoes ==
  ASSUME TypeOK, NEW S, Good(S), Quiet(S), NEW e \in AllTids, NEW k, Plain(k)
  PROVE  LET X == EndThread(S, e, k)
         IN  /\ Quiet(X) /\ X.pausing = S.pausing
             /\ e \notin S.pausing => /\ X.q = scheduler_enqueue_wl(S.q, e)
                                      /\ X.ctx = [S.ctx EXCEPT ![e] = k]
             /\ e \in S.pausing => X.q = S.q /\ X.ctx \in {S.ctx, [S.ctx EXCEPT ![e] = k]}
<1> DEFINE S1 == IF S.tofree[e] = NULL THEN S
                 ELSE [S EXCEPT !.freed = @ \cup {S.tofree[e]}, !.tofree[e] = NULL]
           S2 == [S1 EXCEPT !.ctx[e] = k]
           X  == EndThread(S, e, k)
<1>1. Alike(S, S1) /\ Good(S1) /\ Quiet(S1)
  <2>1. Alike(S, S1)
    BY DEF Alike, Good, SchedStates
  <2>2. Good(S1)
    <3>1. CASE S.tofree[e] = NULL
      BY <3>1
    <3>2. CASE S.tofree[e] # NULL
      <4> DEFINE u == S.tofree[e]
                 F == [S.tofree EXCEPT ![e] = NULL]
      <4>1. u \in AllTids /\ F \in [AllTids -> TidOrNull]
        BY Zenon, <3>2 DEF Good, SchedStates, TidOrNull
      <4>2. S1 = [S EXCEPT !.freed = @ \cup {u}, !.tofree = F]
        BY <3>2
      <4> HIDE DEF u, F, S1
      <4> QED BY ZenonT(30), <4>1, <4>2 DEF Good, SchedStates
    <3> QED BY <3>1, <3>2
  <2> QED BY <2>1, <2>2, QuietAlike
<1>2. e \notin S.ignoring
  BY Zenon DEF Quiet
<1>3. X = IF e \notin S.pausing THEN Enqueue(S2, e)
          ELSE IF e \in S.exiting THEN exit_thread_routine(S1, e) ELSE S2
  BY Zenon, <1>2 DEF EndThread
<1> HIDE DEF S1, X
<1>4. /\ S2.q = S.q /\ S2.ctx = [S.ctx EXCEPT ![e] = k] /\ S2.pausing = S.pausing
      /\ S2.waiters = S.waiters /\ S2.restore = S.restore /\ S2.ignoring = S.ignoring
      /\ S2.signal = S.signal
  BY Zenon, <1>1 DEF Alike, Good, SchedStates
<1>5. S2 \in [DOMAIN S1 -> {S2[x] : x \in DOMAIN S1}] /\ "q" \in DOMAIN S1
  BY <1>1 DEF Good, SchedStates
<1>6. Quiet(S2)
  <2>1. \A t \in AllTids : S2.ctx[t] = IF t = e THEN k ELSE S.ctx[t]
    BY <1>4 DEF Good, SchedStates
  <2> HIDE DEF S2
  <2> QED BY Zenon, <1>4, <2>1 DEF Quiet
<1>7. CASE e \notin S.pausing
  <2>1. X.q = scheduler_enqueue_wl(S.q, e) /\ X.ctx = S2.ctx /\ X.pausing = S2.pausing
        /\ X.waiters = S2.waiters /\ X.restore = S2.restore /\ X.ignoring = S2.ignoring
        /\ X.signal = S2.signal
    <3> HIDE DEF S2
    <3> QED BY <1>3, <1>4, <1>5, <1>7 DEF Enqueue
  <2>2. Quiet(X)
    <3> HIDE DEF S2
    <3> QED BY Zenon, <1>6, <2>1 DEF Quiet
  <2> HIDE DEF S2
  <2> QED BY Zenon, <1>4, <1>7, <2>1, <2>2 DEF X
<1>8. CASE e \in S.pausing /\ e \in S.exiting
  <2>1. Alike(S1, X)
    BY <1>1, <1>3, <1>8, ExitWakesNobody
  <2>2. Quiet(X)
    BY Zenon, <1>1, <2>1, QuietAlike
  <2> QED BY Zenon, <1>1, <1>8, <2>1, <2>2 DEF Alike, X
<1>9. CASE e \in S.pausing /\ e \notin S.exiting
  <2>1. X = S2
    BY <1>3, <1>9
  <2> HIDE DEF S2
  <2> QED BY Zenon, <1>4, <1>6, <1>9, <2>1 DEF X
<1> QED BY Zenon, <1>7, <1>8, <1>9

\* Its second half takes the first ready thread.
LEMMA TakeThreadDoes ==
  ASSUME NEW S, Good(S), Quiet(S)
  PROVE  TakeThread(S) = [st |-> [S EXCEPT !.q = scheduler_get_tread_wl(@)], thr |-> S.q.first]
<1> DEFINE t  == S.q.first
           S1 == [S EXCEPT !.q = scheduler_get_tread_wl(@)]
           S2 == scheduler_handle_signal(S1, t)
           S3 == exit_thread_routine(S2, t)
<1>1. t \in TidOrNull /\ S1.signal = S.signal
  BY Zenon DEF Good, SchedStates
<1>2. t # NULL => S1.signal[t] = "none"
  BY <1>1 DEF Quiet, TidOrNull
<1>3. TakeThread(S) =
        IF t = NULL \/ IsKernel(S.ctx[t]) THEN [st |-> S1, thr |-> t]
        ELSE IF ~Fatal(S1, t) THEN [st |-> S2, thr |-> t]
        ELSE [st |-> [S3 EXCEPT !.q = scheduler_get_tread_wl(@)], thr |-> S3.q.first]
  BY Zenon DEF TakeThread
<1> HIDE DEF S1, t
<1>4. t # NULL => ~Fatal(S1, t) /\ S2 = S1
  BY Zenon, <1>2 DEF Fatal, scheduler_handle_signal
<1> HIDE DEF S2, S3
<1> QED BY <1>3, <1>4 DEF S1, t

\* Dequeueing clears the thread's mark.
LEMMA TakesMark ==
  ASSUME NEW q, q.first # NULL
  PROVE  scheduler_get_tread_wl(q).inq = q.inq \ {q.first}
BY Zenon DEF scheduler_get_tread_wl, scheduler_dequeue_wl

\* Enqueueing sets it.
LEMMA SetsMark ==
  ASSUME NEW q, NEW t
  PROVE  scheduler_enqueue_wl(q, t).inq = q.inq \cup {t}
BY Zenon DEF scheduler_enqueue_wl

\* The state between the two halves of scheduler_handler on CPU c: S, with the ready list
\* spelling all and the CPU vacant.
Between(c, k, S, all) ==
  /\ Good(S) /\ Quiet(S) /\ S.pausing = s.pausing
  /\ Spells(S.q, all, AllTids)
  /\ Placed(S.q.inq, [cur EXCEPT ![c] = NULL], [reg EXCEPT ![c] = Vacant], S.ctx, ntid)
  /\ \/ all = Ready(s.q) /\ (cur[c] = NULL \/ cur[c] \in s.pausing)
     \/ all = Append(Ready(s.q), cur[c]) /\ cur[c] \in Tids

\* The first half of scheduler_handler makes the CPU vacant.
LEMMA FirstHalf ==
  ASSUME DispatchInv, NEW c \in Cpus, NEW k \in Contexts, Plain(k),
         cur[c] # NULL => k \in SafeContexts,
         Launching(k) => Launching(reg[c]) /\ k.tgt = reg[c].tgt,
         cur[c] = Idle(c) => k.at = "idle"
  PROVE  \E all : Between(c, k, IF cur[c] = NULL THEN s ELSE EndThread(s, cur[c], k), all)
<1> DEFINE e == cur[c]
           f == Ready(s.q)
           X == EndThread(s, e, k)
<1>1. /\ TypeOK /\ Good(s) /\ Quiet(s) /\ Spells(s.q, f, AllTids)
      /\ Placed(s.q.inq, cur, reg, s.ctx, ntid)
      /\ cur \in [Cpus -> TidOrNull] /\ reg \in [Cpus -> Contexts]
      /\ s.ctx \in [AllTids -> Contexts]
  BY Zenon, InvIsSchedInv DEF DispatchInv, Inv, SchedInv, Good, SchedStates
<1>2. CASE e = NULL
  <2>1. reg[c].at = "boot"
    BY Zenon, <1>2 DEF DispatchInv, Inv, CpuOK
  <2>2. cur = [cur EXCEPT ![c] = NULL]
    BY Zenon, <1>1, <1>2
  <2>3. Placed(s.q.inq, cur, [reg EXCEPT ![c] = Vacant], s.ctx, ntid)
    <3>1. reg[c].at # "idle" /\ ~Launching(Vacant)
      BY Zenon, <2>1 DEF Launching, Vacant, K
    <3> QED BY Zenon, <1>1, <3>1, MoveOn
  <2>4. Between(c, k, s, f)
    BY Zenon, <1>1, <1>2, <2>2, <2>3 DEF Between
  <2> QED BY ZenonT(30), <1>2, <2>4
<1>3. CASE e # NULL
  <2>1. e \in AllTids /\ k \in SafeContexts
    BY Zenon, <1>1, <1>3 DEF TidOrNull
  <2>2. Good(X)
    BY Zenon, <1>1, <2>1, GoodEndThread
  <2>3. /\ Quiet(X) /\ X.pausing = s.pausing
        /\ e \notin s.pausing => /\ X.q = scheduler_enqueue_wl(s.q, e)
                                 /\ X.ctx = [s.ctx EXCEPT ![e] = k]
        /\ e \in s.pausing => X.q = s.q /\ X.ctx \in {s.ctx, [s.ctx EXCEPT ![e] = k]}
    BY Zenon, <1>1, <2>1, EndThreadDoes
  <2> HIDE DEF X
  <2>4. CASE e \in s.pausing
    <3>1. Placed(s.q.inq, [cur EXCEPT ![c] = NULL], [reg EXCEPT ![c] = Vacant], X.ctx, ntid)
      <4> DEFINE Has(z) == Placed(s.q.inq, [cur EXCEPT ![c] = NULL], [reg EXCEPT ![c] = Vacant], z, ntid)
      <4>1. Has([s.ctx EXCEPT ![e] = k]) /\ Has(s.ctx)
        BY Zenon, <1>1, <1>3, Park
      <4> HIDE DEF Has
      <4>2. Has(X.ctx)
        BY Zenon, <2>3, <2>4, <4>1
      <4> QED BY Zenon, <4>2 DEF Has
    <3>2. Between(c, k, X, f)
      BY Zenon, <1>1, <2>2, <2>3, <2>4, <3>1 DEF Between
    <3> QED BY Zenon, <1>3, <3>2 DEF X
  <2>5. CASE e \notin s.pausing
    <3>1. e \in Tids /\ e \notin s.q.inq
      BY Zenon, <1>1, <1>3, <2>5 DEF Placed, OnePlace, Quiet
    <3>2. Spells(X.q, Append(f, e), AllTids) /\ X.q.inq = s.q.inq \cup {e}
      <4>1. X.q = scheduler_enqueue_wl(s.q, e)
        BY Zenon, <2>3, <2>5
      <4>2. Spells(scheduler_enqueue_wl(s.q, e), Append(f, e), AllTids)
        BY Zenon, <1>1, <2>1, <3>1, Numbered, EnqueueSpells
      <4> QED BY ZenonT(30), <4>1, <4>2, SetsMark
    <3>3. Placed(s.q.inq \cup {e}, [cur EXCEPT ![c] = NULL], [reg EXCEPT ![c] = Vacant],
                 [s.ctx EXCEPT ![e] = k], ntid)
      BY Zenon, <1>1, <3>1, Preempt
    <3>4. Between(c, k, X, Append(f, e))
      BY ZenonT(30), <2>2, <2>3, <2>5, <3>1, <3>2, <3>3 DEF Between
    <3> QED BY Zenon, <1>3, <3>4 DEF X
  <2> QED BY Zenon, <2>4, <2>5
<1> QED BY Zenon, <1>2, <1>3

\* A CPU's context stays plain when it takes a plain one.
PlainRegs == \A d \in Cpus : Plain(reg[d])

\* The second half of scheduler_handler takes the first of the list, the idle thread when
\* the list is empty, or, before the first switch, nothing.
LEMMA SecondHalf ==
  ASSUME DispatchInv, NEW c \in Cpus, NEW k \in Contexts, cur[c] = NULL => k = reg[c],
         scheduler_handler(c, k),
         NEW S, S = IF cur[c] = NULL THEN s ELSE EndThread(s, cur[c], k),
         NEW all, Between(c, k, S, all)
  PROVE  /\ Quiet(s') /\ PlainRegs' /\ Placed(s'.q.inq, cur', reg', s'.ctx, ntid)
         /\ IF all = << >>
            THEN /\ Spells(s'.q, all, AllTids)
                 /\ cur' = [cur EXCEPT ![c] = IF cur[c] = NULL THEN NULL ELSE Idle(c)]
            ELSE Spells(s'.q, Tail(all), AllTids) /\ cur' = [cur EXCEPT ![c] = Head(all)]
<1> DEFINE e    == cur[c]
           S2   == [S EXCEPT !.q = scheduler_get_tread_wl(@)]
           ends == e # NULL /\ e \in S2.pausing
           t    == IF ends /\ S.q.first = NULL THEN Idle(c) ELSE S.q.first
           o1   == [cur EXCEPT ![c] = NULL]
           r1   == [reg EXCEPT ![c] = Vacant]
<1>1. /\ Good(S) /\ Quiet(S) /\ S.pausing = s.pausing /\ Spells(S.q, all, AllTids)
      /\ Placed(S.q.inq, o1, r1, S.ctx, ntid)
      /\ cur \in [Cpus -> TidOrNull] /\ reg \in [Cpus -> Contexts]
      /\ S.ctx \in [AllTids -> Contexts]
      /\ \A d \in Cpus : Plain(reg[d])
  BY Zenon DEF DispatchInv, Inv, Between, Good, SchedStates
<1>2. /\ s' = IF ends /\ e \in S2.exiting THEN [S2 EXCEPT !.tofree[t] = e] ELSE S2
      /\ cur' = IF t = NULL THEN cur ELSE [cur EXCEPT ![c] = t]
      /\ reg' = [reg EXCEPT ![c] = IF t = NULL THEN k ELSE S2.ctx[t]]
  <2>1. TakeThread(S) = [st |-> S2, thr |-> S.q.first]
    BY Zenon, <1>1, TakeThreadDoes
  <2>2. TakeThread(S).st = S2 /\ TakeThread(S).thr = S.q.first
    BY <2>1
  <2> HIDE DEF S2
  <2> DEFINE take == TakeThread(S)
             ends2 == e # NULL /\ e \in take.st.pausing
             t2 == IF ends2 /\ take.thr = NULL THEN Idle(c) ELSE take.thr
  <2>3. /\ s' = IF ends2 /\ e \in take.st.exiting THEN [take.st EXCEPT !.tofree[t2] = e] ELSE take.st
        /\ cur' = IF t2 = NULL THEN cur ELSE [cur EXCEPT ![c] = t2]
        /\ reg' = [reg EXCEPT ![c] = IF t2 = NULL THEN k ELSE take.st.ctx[t2]]
    BY Zenon DEF scheduler_handler
  <2> QED BY Zenon, <2>2, <2>3
<1>3. /\ S2.q = scheduler_get_tread_wl(S.q) /\ S2.ctx = S.ctx /\ S2.pausing = S.pausing
      /\ S2.waiters = S.waiters /\ S2.restore = S.restore /\ S2.ignoring = S.ignoring
      /\ S2.signal = S.signal
  BY Zenon, <1>1 DEF Good, SchedStates
<1>4. Alike(S2, s')
  <2>1. DOMAIN S2 = DOMAIN S /\ DOMAIN S = {"q", "pausing", "exiting", "ignoring", "restore", "listed",
          "freed", "signal", "ctx", "rctx", "tofree", "waiters", "results", "got", "entry", "failed"}
    BY Zenon, <1>1 DEF Good, SchedStates
  <2> HIDE DEF S2, t
  <2>2. s' = S2 \/ s' = [S2 EXCEPT !.tofree = [S2.tofree EXCEPT ![t] = e]]
    BY Zenon, <1>2
  <2> QED BY Zenon, <2>1, <2>2 DEF Alike
<1>5. Quiet(s') /\ s'.q = scheduler_get_tread_wl(S.q) /\ s'.ctx = S.ctx
  <2> HIDE DEF S2
  <2>1. Quiet(S2)
    BY ZenonT(30), <1>1, <1>3 DEF Quiet
  <2> QED BY Zenon, <1>3, <1>4, <2>1, QuietAlike DEF Alike
<1>6. o1 \in [Cpus -> TidOrNull] /\ r1 \in [Cpus -> Contexts] /\ o1[c] = NULL /\ r1[c] = Vacant
      /\ ~Launching(Vacant)
  BY Zenon, <1>1, FreshContexts DEF TidOrNull, Vacant, K, Launching
<1>7. \A u \in AllTids : Plain(S.ctx[u])
  BY Zenon, <1>1 DEF Quiet
<1>8. \A u : [o1 EXCEPT ![c] = u] = [cur EXCEPT ![c] = u]
  BY Zenon, <1>1
<1>9. \A u : [r1 EXCEPT ![c] = u] = [reg EXCEPT ![c] = u]
  BY ZenonT(30), <1>1
<1> HIDE DEF S2, o1, r1
<1>10. CASE all = << >>
  <2>1. S.q.first = NULL /\ s'.q = S.q
    <3>1. S.q.first = NULL
      BY ZenonT(30), <1>1, <1>10, Numbered, SpellsMembers
    <3> QED BY Zenon, <1>5, <3>1 DEF scheduler_get_tread_wl
  <2>2. CASE e = NULL
    <3>1. t = NULL /\ cur' = cur /\ reg' = reg
      BY Zenon, <1>1, <1>2, <2>1, <2>2
    <3>2. S = s
      BY Zenon, <2>2
    <3>3. Placed(s.q.inq, cur, reg, s.ctx, ntid)
      BY Zenon DEF DispatchInv
    <3>4. cur' = [cur EXCEPT ![c] = NULL]
      BY Zenon, <1>1, <2>2, <3>1
    <3>5. PlainRegs'
      BY Zenon, <1>1, <3>1 DEF PlainRegs
    <3>6. Placed(s'.q.inq, cur', reg', s'.ctx, ntid)
      BY ZenonT(30), <1>5, <2>1, <3>1, <3>2, <3>3
    <3> QED BY Zenon, <1>1, <1>5, <1>10, <2>1, <2>2, <3>4, <3>5, <3>6
  <2>3. CASE e # NULL
    <3>1. e \in s.pausing
      <4>1. Ready(s.q) \in Seq(AllTids)
        BY Zenon DEF DispatchInv, Spells
      <4>2. Append(Ready(s.q), e) # << >>
        BY SMTT(30), <4>1
      <4> QED BY ZenonT(30), <1>10, <2>3, <4>2 DEF Between
    <3>2. ends /\ t = Idle(c) /\ Idle(c) \in AllTids /\ Idle(c) # NULL
      BY Zenon, <1>1, <1>3, <2>1, <2>3, <3>1, Numbered
    <3>3. cur' = [cur EXCEPT ![c] = Idle(c)] /\ reg' = [reg EXCEPT ![c] = S.ctx[Idle(c)]]
      BY Zenon, <1>2, <1>3, <3>2
    <3>4. Placed(S.q.inq, cur', reg', S.ctx, ntid)
      <4>1. Placed(S.q.inq, [o1 EXCEPT ![c] = Idle(c)], [r1 EXCEPT ![c] = S.ctx[Idle(c)]], S.ctx, ntid)
        BY ZenonT(30), <1>1, <1>6, GoIdle
      <4> QED BY Zenon, <1>8, <1>9, <3>3, <4>1
    <3>5. PlainRegs'
      BY Zenon, <1>1, <1>7, <3>2, <3>3 DEF PlainRegs
    <3>6. Placed(s'.q.inq, cur', reg', s'.ctx, ntid)
      BY ZenonT(30), <1>5, <2>1, <3>4
    <3> QED BY Zenon, <1>1, <1>5, <1>10, <2>1, <2>3, <3>3, <3>5, <3>6
  <2> QED BY Zenon, <2>2, <2>3
<1>11. CASE all # << >>
  <2> DEFINE q == S.q
             h == q.first
  <2>1. h # NULL /\ h \in q.inq /\ h = Head(all) /\ h \in AllTids
        /\ Spells(scheduler_get_tread_wl(q), Tail(all), AllTids)
    <3>1. Spells(q, all, AllTids) /\ NULL \notin AllTids
      BY Zenon, <1>1, Numbered
    <3> HIDE DEF q
    <3>2. q.first # NULL /\ q.first \in q.inq
      BY Zenon, <1>11, <3>1, SpellsMembers
    <3>3. /\ Spells(scheduler_get_tread_wl(q), Tail(all), AllTids)
          /\ q.first = Head(all) /\ q.first \in AllTids
      BY ZenonT(30), <3>1, <3>2, TakeSpells
    <3> QED BY Zenon, <3>2, <3>3
  <2>2. Spells(s'.q, Tail(all), AllTids)
    BY <1>5, <2>1
  <2>3. s'.q.inq = S.q.inq \ {h} /\ h \in S.q.inq
    BY Zenon, <1>5, <2>1, TakesMark
  <2> HIDE DEF h
  <2>4. t = h
    BY Zenon, <2>1 DEF h
  <2>5. cur' = [cur EXCEPT ![c] = h] /\ reg' = [reg EXCEPT ![c] = S.ctx[h]]
    BY Zenon, <1>2, <1>3, <2>1, <2>4
  <2>6. Placed(S.q.inq \ {h}, cur', reg', S.ctx, ntid)
    <3>1. Placed(S.q.inq \ {h}, [o1 EXCEPT ![c] = h], [r1 EXCEPT ![c] = S.ctx[h]], S.ctx, ntid)
      BY ZenonT(30), <1>1, <1>6, <2>3, Resume
    <3> QED BY Zenon, <1>8, <1>9, <2>5, <3>1
  <2>7. PlainRegs'
    BY Zenon, <1>1, <1>7, <2>1, <2>5 DEF PlainRegs
  <2>8. Placed(s'.q.inq, cur', reg', s'.ctx, ntid)
    BY ZenonT(30), <1>5, <2>3, <2>6
  <2> QED BY Zenon, <1>5, <1>11, <2>1, <2>2, <2>5, <2>7, <2>8
<1> QED BY Zenon, <1>10, <1>11

-----------------------------------------------------------------------------
(* The actions: each keeps the invariant, and is a step of the abstract     *)
(* queue or leaves it as it is.                                             *)

Step == DispatchInv' /\ (Fifo!Next \/ UNCHANGED <<Ready(s.q), cur>>)

\* What the invariant of the next state is made of.
LEMMA Restore ==
  ASSUME DispatchInv, Inv', irq' = irq, Quiet(s'), PlainRegs', NEW g, Spells(s'.q, g, AllTids),
         Placed(s'.q.inq, cur', reg', s'.ctx, ntid')
  PROVE  DispatchInv' /\ Ready(s.q)' = g
<1>1. Ready(s'.q) = g
  BY Zenon, Numbered, SpellsReady
<1>2. Ready(s.q)' = g
  BY Zenon, <1>1
<1>3. Spells(s.q, Ready(s.q), AllTids)'
  BY Zenon, <1>1
<1>4. Quiet(s)' /\ Placed(s.q.inq, cur, reg, s.ctx, ntid)'
  OBVIOUS
<1>5. \A c \in Cpus : irq'[c] = NoIrq /\ Plain(reg'[c])
  BY Zenon DEF DispatchInv, PlainRegs
<1> QED BY Zenon, <1>2, <1>3, <1>4, <1>5 DEF DispatchInv

\* scheduler_handler, from the timer or from INT_SCHEDULE.
LEMMA HandlerSteps ==
  ASSUME DispatchInv, Inv', irq' = irq, ntid' = ntid, NEW c \in Cpus, NEW k \in Contexts, Plain(k),
         cur[c] # NULL => k \in SafeContexts, cur[c] = NULL => k = reg[c],
         Launching(k) => Launching(reg[c]) /\ k.tgt = reg[c].tgt,
         cur[c] = Idle(c) => k.at = "idle",
         scheduler_handler(c, k)
  PROVE  Step
<1> DEFINE S == IF cur[c] = NULL THEN s ELSE EndThread(s, cur[c], k)
           f == Ready(s.q)
<1>1. PICK all : Between(c, k, S, all)
  BY Zenon, FirstHalf
<1> HIDE DEF S
<1>2. /\ Quiet(s') /\ PlainRegs' /\ Placed(s'.q.inq, cur', reg', s'.ctx, ntid)
      /\ IF all = << >>
         THEN /\ Spells(s'.q, all, AllTids)
              /\ cur' = [cur EXCEPT ![c] = IF cur[c] = NULL THEN NULL ELSE Idle(c)]
         ELSE Spells(s'.q, Tail(all), AllTids) /\ cur' = [cur EXCEPT ![c] = Head(all)]
  BY ZenonT(30), <1>1, SecondHalf DEF S
<1>3. f \in Seq(AllTids) /\ cur[c] \in Tids \cup {NULL, Idle(c)}
  BY Zenon DEF DispatchInv, Spells, Placed, OnePlace
<1>4. PICK back : all = f \o back /\ (back = << >> \/ (cur[c] \in Tids /\ back = <<cur[c]>>))
  <2>1. f = f \o << >> /\ Append(f, cur[c]) = f \o <<cur[c]>>
    BY <1>3
  <2>2. CASE all = f
    BY Zenon, <2>1, <2>2
  <2>3. CASE all = Append(f, cur[c]) /\ cur[c] \in Tids
    BY ZenonT(30), <2>1, <2>3
  <2> QED BY ZenonT(30), <1>1, <2>2, <2>3 DEF Between
<1> DEFINE g == IF all = << >> THEN all ELSE Tail(all)
<1>5. Spells(s'.q, g, AllTids)
  BY Zenon, <1>2
<1> HIDE DEF g
<1>6. DispatchInv' /\ Ready(s.q)' = g
  BY Zenon, <1>2, <1>5, Restore
<1>7. Serves(c, back)
  <2>1. Ready(s.q) \o back = all
    BY Zenon, <1>4
  <2>2. all = << >> => Ready(s.q)' = all
    BY Zenon, <1>6 DEF g
  <2>3. all # << >> => Ready(s.q)' = Tail(all)
    BY Zenon, <1>6 DEF g
  <2> QED BY Zenon, <1>2, <1>3, <1>4, <2>1, <2>2, <2>3 DEF Serves
<1> QED BY Zenon, <1>6, <1>7, ServesIsStep DEF Step

\* The context after a call is plain and launches nothing.
LEMMA PlainReturn ==
  ASSUME NEW c \in Cpus, reg[c] \in Contexts
  PROVE  Plain(Return(c)) /\ ~Launching(Return(c)) /\ Return(c).at # "idle"
<1>1. CASE reg[c].ret = "exec_exit"
  BY <1>1 DEF Return, Call, Plain, Launching
<1>2. CASE reg[c].ret # "exec_exit"
  BY Zenon, <1>2 DEF Return, K, Plain, Launching, Contexts, RetPoints
<1> QED BY Zenon, <1>1, <1>2

\* The timer interrupt.
LEMMA TickSteps ==
  ASSUME DispatchInv, Inv', NEW c \in Cpus, Tick(c)
  PROVE  Step
<1>1. lock = 0 /\ irq' = irq /\ ntid' = ntid /\ scheduler_handler(c, reg[c])
  BY Zenon DEF Tick, scheduler_handler, CanAcquire, Procs
<1>2. /\ reg[c] \in Contexts /\ NamesThread(reg[c]) /\ reg[c].at \notin CsPoints
      /\ (reg[c].at = "boot" <=> cur[c] = NULL)
  BY Zenon, <1>1, Tidy DEF DispatchInv, Inv, CpuOK
<1>3. cur[c] # NULL => reg[c] \in SafeContexts
  BY Zenon, <1>2 DEF SafeContexts, Resumable
<1>4. Plain(reg[c]) /\ (cur[c] = Idle(c) => reg[c].at = "idle")
  BY Zenon DEF DispatchInv, Placed, IdleLoops
<1> QED BY ZenonT(30), <1>1, <1>2, <1>3, <1>4, HandlerSteps

\* INT_SCHEDULE.
LEMMA SwitchSteps ==
  ASSUME DispatchInv, Inv', NEW c \in Cpus, Switch(c)
  PROVE  Step
<1>1. irq' = irq /\ ntid' = ntid /\ scheduler_handler(c, Return(c)) /\ reg[c].at = "int"
  BY Zenon DEF Switch, At, Procs
<1>2. reg[c] \in Contexts /\ cur[c] # NULL /\ Return(c) \in SafeContexts /\ Return(c) \in Contexts
  BY Zenon, <1>1, ReturnType, SafeIsTyped DEF DispatchInv, Inv, CpuOK
<1>3. cur[c] # Idle(c)
  BY Zenon, <1>1 DEF DispatchInv, Placed, IdleLoops
<1>4. Plain(Return(c)) /\ ~Launching(Return(c))
  BY Zenon, <1>2, PlainReturn
<1> QED BY Zenon, <1>1, <1>2, <1>3, <1>4, HandlerSteps

\* A step of a CPU that leaves the ready list and the CPUs' threads alone.
LEMMA StaySteps ==
  ASSUME DispatchInv, Inv', irq' = irq, cur' = cur, ntid' = ntid, NEW c \in Cpus, NEW k,
         reg' = [reg EXCEPT ![c] = k], reg[c].at # "idle", Plain(k),
         Launching(k) => Launching(reg[c]) /\ k.tgt = reg[c].tgt,
         s'.q = s.q, s'.ctx = s.ctx, Quiet(s')
  PROVE  Step
<1>1. reg \in [Cpus -> Contexts] /\ Spells(s'.q, Ready(s.q), AllTids)
  BY Zenon DEF DispatchInv, Inv
<1>2. Placed(s.q.inq, cur, [reg EXCEPT ![c] = k], s.ctx, ntid)
  BY Zenon, <1>1, MoveOn DEF DispatchInv
<1>3. PlainRegs'
  BY Zenon, <1>1 DEF DispatchInv, PlainRegs
<1>4. DispatchInv' /\ Ready(s.q)' = Ready(s.q)
  BY Zenon, <1>1, <1>2, <1>3, Restore
<1> QED BY Zenon, <1>4 DEF Step

\* The same, when the CPU's context does not change either.
LEMMA HaltSteps ==
  ASSUME DispatchInv, Inv', UNCHANGED <<irq, cur, ntid, reg>>, s'.q = s.q, s'.ctx = s.ctx, Quiet(s')
  PROVE  Step
<1>1. Spells(s'.q, Ready(s.q), AllTids) /\ Placed(s'.q.inq, cur', reg', s'.ctx, ntid')
  BY Zenon DEF DispatchInv
<1>2. PlainRegs'
  BY Zenon DEF DispatchInv, PlainRegs
<1>3. DispatchInv' /\ Ready(s.q)' = Ready(s.q)
  BY Zenon, <1>1, <1>2, Restore
<1> QED BY Zenon, <1>3 DEF Step

\* spinlock_acquire.
LEMMA AcquireSteps ==
  ASSUME DispatchInv, Inv', NEW c \in Cpus, Acquire(c)
  PROVE  Step
<1> DEFINE k == [reg[c] EXCEPT !.at = CsOf[@]]
<1>1. /\ s' = s /\ irq' = irq /\ cur' = cur /\ ntid' = ntid /\ reg' = [reg EXCEPT ![c] = k]
      /\ reg[c].at \in AcqPoints
  BY Zenon DEF Acquire, Goto, Procs
<1>2. reg[c] \in Contexts /\ Plain(reg[c]) /\ Quiet(s)
  BY Zenon DEF DispatchInv, Inv
<1>3. k.at = CsOf[reg[c].at] /\ k.tgt = reg[c].tgt /\ k.i = reg[c].i
  BY SMTT(30), <1>2 DEF Contexts
<1>4. Plain(k) /\ (Launching(k) => Launching(reg[c])) /\ reg[c].at # "idle"
  <2> HIDE DEF k
  <2> DEFINE a == reg[c].at
  <2>1. a \in AcqPoints /\ k.at = CsOf[a] /\ a # "idle"
    BY Zenon, <1>1, <1>3 DEF AcqPoints
  <2> HIDE DEF a
  <2>2. /\ k.at = "pause_cs" => a = "pause_acq"
        /\ k.at = "rest_cs" => a = "rest_acq"
        /\ k.at = "wait_cs" => a = "wait_acq"
        /\ k.at = "enq_cs" => a = "enq_acq"
        /\ k.at \in CsPoints
    BY SMTT(30), <2>1 DEF AcqPoints, CsPoints, CsOf
  <2> QED BY Zenon, <1>2, <1>3, <2>1, <2>2 DEF Plain, Launching, CsPoints, a
<1> HIDE DEF k
<1> QED BY Zenon, <1>1, <1>2, <1>3, <1>4, StaySteps

\* scheduler_enqueue of a new thread.
LEMMA EnqueueCsSteps ==
  ASSUME DispatchInv, Inv', NEW c \in Cpus, EnqueueCs(c)
  PROVE  Step
<1> DEFINE t == reg[c].tgt
           f == Ready(s.q)
<1>1. /\ s' = Enqueue(s, t) /\ irq' = irq /\ cur' = cur /\ ntid' = ntid
      /\ reg' = [reg EXCEPT ![c] = Return(c)] /\ reg[c].at = "enq_cs"
  BY Zenon DEF EnqueueCs, At, Goto, Procs
<1>2. /\ reg \in [Cpus -> Contexts] /\ Good(s) /\ Quiet(s) /\ Spells(s.q, f, AllTids)
      /\ Placed(s.q.inq, cur, reg, s.ctx, ntid) /\ Launching(reg[c])
      /\ cur \in [Cpus -> TidOrNull]
  BY Zenon, <1>1 DEF DispatchInv, Inv, Launching
<1>3. Plain(Return(c)) /\ ~Launching(Return(c))
  BY Zenon, <1>2, PlainReturn
<1>4. t \in Tids /\ t \in AllTids /\ t \notin s.q.inq /\ \A d \in Cpus : cur[d] # t
  BY Zenon, <1>2, Numbered DEF Placed, Unstarted, Live
<1>5. /\ s'.q = scheduler_enqueue_wl(s.q, t) /\ s'.ctx = s.ctx /\ s'.pausing = s.pausing
      /\ s'.waiters = s.waiters /\ s'.restore = s.restore /\ s'.ignoring = s.ignoring
      /\ s'.signal = s.signal
  BY Zenon, <1>1, <1>2 DEF Enqueue, Good, SchedStates
<1>6. Quiet(s') /\ PlainRegs'
  <2>1. Quiet(s')
    BY Zenon, <1>2, <1>5 DEF Quiet
  <2>2. PlainRegs'
    BY Zenon, <1>1, <1>2, <1>3 DEF DispatchInv, PlainRegs
  <2> QED BY Zenon, <2>1, <2>2
<1>7. Spells(s'.q, Append(f, t), AllTids) /\ s'.q.inq = s.q.inq \cup {t}
  <2>1. Spells(scheduler_enqueue_wl(s.q, t), Append(f, t), AllTids)
    BY Zenon, <1>2, <1>4, Numbered, EnqueueSpells
  <2> HIDE DEF f, t
  <2> QED BY ZenonT(30), <1>5, <2>1, SetsMark
<1>8. Placed(s'.q.inq, cur', reg', s'.ctx, ntid')
  <2>1. Placed(s.q.inq \cup {reg[c].tgt}, cur, [reg EXCEPT ![c] = Return(c)], s.ctx, ntid)
    BY Zenon, <1>2, <1>3, Enlist
  <2> QED BY Zenon, <1>1, <1>5, <1>7, <2>1
<1>9. DispatchInv' /\ Ready(s.q)' = Append(f, t)
  BY Zenon, <1>1, <1>6, <1>7, <1>8, Restore
<1>10. t \notin Fifo!Placed
  <2>1. \A i \in DOMAIN f : f[i] \in s.q.inq
    BY Zenon, <1>2, Numbered, SpellsMembers
  <2> QED BY Zenon, <1>4, <2>1 DEF Fifo!Placed, Fifo!Queued
<1>11. Fifo!BecomeReady(t)
  BY Zenon, <1>1, <1>9, <1>10 DEF Fifo!BecomeReady
<1> QED BY Zenon, <1>4, <1>9, <1>11 DEF Step, Fifo!Next

\* The creation of a thread by fork or by the loader: thread ntid + 1 of process p.
LEMMA CreateSteps ==
  ASSUME DispatchInv, Inv', NEW c \in Cpus, reg[c].at # "idle", irq' = irq, cur' = cur,
         ntid < MaxTid, ntid' = ntid + 1, NEW p \in Pids, s' = NewThread(s, ntid', p), NEW r,
         reg' = [reg EXCEPT ![c] = Call("enq_acq", ntid', r)]
  PROVE  Step
<1> DEFINE t == ntid + 1
           k == Call("enq_acq", t, r)
<1>1. /\ reg \in [Cpus -> Contexts] /\ Good(s) /\ Quiet(s) /\ s.ctx \in [AllTids -> Contexts]
      /\ Placed(s.q.inq, cur, reg, s.ctx, ntid) /\ ntid \in InitTid..MaxTid
  BY Zenon DEF DispatchInv, Inv, RestOK, Good, SchedStates
<1>2. t \in Tids /\ t \in AllTids /\ ntid \in Nat
  <2>0. InitTid \in Nat /\ MaxTid \in Nat
    BY SMTT(30), SchedulerAssumption DEF InitTid
  <2>1. ntid \in InitTid..MaxTid /\ ntid < MaxTid /\ InitTid \in Nat /\ MaxTid \in Nat
    BY Zenon, <1>1, <2>0
  <2> QED BY SMTT(30), <2>1 DEF Tids, AllTids, InitTid
<1>3. Plain(k) /\ k.tgt = t /\ Plain(K("user")) /\ ~Launching(K("user"))
  BY Zenon DEF Call, K, Plain, Launching
<1>4. /\ s'.q = s.q /\ s'.ctx = [s.ctx EXCEPT ![t] = K("user")] /\ s'.pausing = s.pausing
      /\ s'.waiters = s.waiters /\ s'.restore = s.restore /\ s'.ignoring = s.ignoring
      /\ s'.signal = s.signal
  BY Zenon, <1>1 DEF NewThread, Good, SchedStates
<1> HIDE DEF t, k
<1>5. Quiet(s')
  <2>1. \A u \in AllTids : s'.ctx[u] = IF u = t THEN K("user") ELSE s.ctx[u]
    BY Zenon, <1>1, <1>4
  <2>2. \A u \in AllTids : Plain(s'.ctx[u])
    BY Zenon, <1>1, <1>3, <2>1 DEF Quiet
  <2> QED BY ZenonT(30), <1>1, <1>4, <2>2 DEF Quiet
<1>6. reg' = [reg EXCEPT ![c] = k] /\ ntid' = t
  BY Zenon DEF t, k
<1>7. PlainRegs'
  BY Zenon, <1>1, <1>3, <1>6 DEF DispatchInv, PlainRegs
<1>8. Placed(s'.q.inq, cur', reg', s'.ctx, ntid')
  <2>1. Placed(s.q.inq, cur, [reg EXCEPT ![c] = k], [s.ctx EXCEPT ![ntid + 1] = K("user")], ntid + 1)
    BY ZenonT(30), <1>1, <1>2, <1>3, Create DEF t
  <2> QED BY Zenon, <1>4, <1>6, <2>1 DEF t
<1>9. Spells(s'.q, Ready(s.q), AllTids)
  BY Zenon, <1>4 DEF DispatchInv
<1>10. DispatchInv' /\ Ready(s.q)' = Ready(s.q)
  BY Zenon, <1>5, <1>7, <1>8, <1>9, Restore
<1> QED BY Zenon, <1>10 DEF Step

\* fork.
LEMMA ForkSteps ==
  ASSUME DispatchInv, Inv', NEW c \in Cpus, Fork(c)
  PROVE  Step
<1>1. /\ irq' = irq /\ cur' = cur /\ reg[c].at # "idle" /\ ntid < MaxTid /\ ntid' = ntid + 1
      /\ s' = NewThread(s, ntid', npid') /\ reg' = [reg EXCEPT ![c] = Call("enq_acq", ntid', "user")]
      /\ npid' = npid + 1 /\ npid < MaxPid
  BY Zenon DEF Fork, Goto
<1>2. npid' \in Pids
  BY <1>1, SchedulerAssumption DEF DispatchInv, Inv, RestOK, Pids
<1> QED BY Zenon, <1>1, <1>2, CreateSteps

\* A step that leaves alone what decides who is ready keeps the state quiet.
LEMMA AlikeSteps ==
  ASSUME DispatchInv, Inv', irq' = irq, cur' = cur, ntid' = ntid, NEW c \in Cpus, NEW k,
         reg' = [reg EXCEPT ![c] = k], reg[c].at # "idle", Plain(k), ~Launching(k), Alike(s, s')
  PROVE  Step
<1>1. Quiet(s') /\ s'.q = s.q /\ s'.ctx = s.ctx
  BY Zenon, QuietAlike DEF DispatchInv, Alike
<1> QED BY Zenon, <1>1, StaySteps

\* The contexts of the calls of this section.
LEMMA PlainCalls ==
  /\ \A a \in {"user", "exit_loop"} : Plain(K(a)) /\ ~Launching(K(a))
  /\ Plain([K("exit_loop") EXCEPT !.i = 1]) /\ ~Launching([K("exit_loop") EXCEPT !.i = 1])
  /\ \A a \in {"exec_load", "exit_acq", "int"} : \A t, r :
       Plain(Call(a, t, r)) /\ ~Launching(Call(a, t, r))
  /\ \A t, r, j : LET k == [Call("exit_acq", t, r) EXCEPT !.i = j] IN Plain(k) /\ ~Launching(k)
BY DEF K, Call, Plain, Launching

\* execve: entry_thread is cleared, put back, or set to the new thread.
LEMMA ExecveSteps ==
  ASSUME DispatchInv, Inv', NEW c \in Cpus, Execve(c) \/ ExecveError(c) \/ ExecveLoaded(c)
  PROVE  Step
<1>1. Good(s) /\ Quiet(s) /\ cur[c] \in TidOrNull /\ owner \in [AllTids -> Pids]
  BY Zenon DEF DispatchInv, Inv, RestOK
<1>2. CASE Execve(c)
  <2>1. /\ irq' = irq /\ cur' = cur /\ ntid' = ntid /\ reg[c].at # "idle"
        /\ s' = [s EXCEPT !.entry[MyProc(c)] = NULL]
        /\ reg' = [reg EXCEPT ![c] = Call("exec_load", s.entry[MyProc(c)], "user")]
    BY Zenon, <1>2 DEF Execve, Goto, Procs
  <2>2. Alike(s, s')
    BY Zenon, <1>1, <2>1 DEF Alike, Good, SchedStates
  <2> QED BY Zenon, <2>1, <2>2, PlainCalls, AlikeSteps
<1>3. CASE ExecveError(c)
  <2>1. /\ irq' = irq /\ cur' = cur /\ ntid' = ntid /\ reg[c].at # "idle"
        /\ s' = [s EXCEPT !.entry[MyProc(c)] = reg[c].tgt]
        /\ reg' = [reg EXCEPT ![c] = K("user")]
    BY Zenon, <1>3 DEF ExecveError, At, Goto, Procs
  <2>2. Alike(s, s')
    BY Zenon, <1>1, <2>1 DEF Alike, Good, SchedStates
  <2> QED BY Zenon, <2>1, <2>2, PlainCalls, AlikeSteps
<1>4. CASE ExecveLoaded(c)
  <2>1. irq' = irq /\ cur' = cur /\ ntid < MaxTid /\ reg[c].at = "exec_load"
    BY Zenon, <1>4 DEF ExecveLoaded, At
  <2>2. CASE s.entry[MyProc(c)] # NULL
    <3>1. s' = Fail(s, "assert_entry") /\ UNCHANGED <<ntid, reg>>
      BY Zenon, <1>4, <2>2 DEF ExecveLoaded
    <3>2. Alike(s, s')
      BY Zenon, <1>1, <3>1 DEF Alike, Good, SchedStates, Fail
    <3>3. Quiet(s') /\ s'.q = s.q /\ s'.ctx = s.ctx
      BY Zenon, <1>1, <3>2, QuietAlike DEF Alike
    <3> QED BY Zenon, <2>1, <3>1, <3>3, HaltSteps
  <2>3. CASE s.entry[MyProc(c)] = NULL
    <3>1. /\ ntid' = ntid + 1 /\ s' = NewThread(s, ntid', MyProc(c))
          /\ reg' = [reg EXCEPT ![c] = Call("enq_acq", ntid', "exec_exit")]
      BY Zenon, <1>4, <2>3 DEF ExecveLoaded, Goto
    <3>2. MyProc(c) \in Pids /\ reg[c].at # "idle"
      BY Zenon, <2>1, HasThread DEF DispatchInv, MyProc
    <3> QED BY ZenonT(30), <2>1, <3>1, <3>2, CreateSteps
  <2> QED BY Zenon, <2>2, <2>3
<1> QED BY Zenon, <1>2, <1>3, <1>4

\* exit and thread_exit, up to scheduler_exit_thread.
LEMMA ExitSteps ==
  ASSUME DispatchInv, Inv', NEW c \in Cpus, Exit(c) \/ ThreadExit(c) \/ ExitLoop(c)
  PROVE  Step
<1>1. /\ irq' = irq /\ cur' = cur /\ ntid' = ntid /\ s' = s /\ reg[c].at # "idle"
      /\ \E k : reg' = [reg EXCEPT ![c] = k] /\ Plain(k) /\ ~Launching(k)
  <2>1. CASE Exit(c)
    BY Zenon, <2>1, PlainCalls DEF Exit, Does, UserMode, Goto, Procs
  <2>2. CASE ThreadExit(c)
    BY Zenon, <2>2, PlainCalls DEF ThreadExit, Does, UserMode, Goto, Procs
  <2>3. CASE ExitLoop(c)
    <3> DEFINE rest == {t \in s.listed : t >= reg[c].i /\ owner[t] = MyProc(c) /\ t # Me(c)}
    <3>1. /\ irq' = irq /\ cur' = cur /\ ntid' = ntid /\ s' = s /\ reg[c].at # "idle"
          /\ \/ reg' = [reg EXCEPT ![c] = Call("exit_acq", Me(c), "user")]
             \/ reg' = [reg EXCEPT ![c] = [Call("exit_acq", Min(rest), "exit_loop")
                                             EXCEPT !.i = Min(rest) + 1]]
      BY Zenon, <2>3 DEF ExitLoop, At, Goto, Procs
    <3> DEFINE k1 == Call("exit_acq", Me(c), "user")
               k2 == [Call("exit_acq", Min(rest), "exit_loop") EXCEPT !.i = Min(rest) + 1]
    <3>2. Plain(k1) /\ ~Launching(k1) /\ Plain(k2) /\ ~Launching(k2)
      BY Zenon, PlainCalls
    <3> HIDE DEF k1, k2
    <3>3. reg' = [reg EXCEPT ![c] = k1] \/ reg' = [reg EXCEPT ![c] = k2]
      BY Zenon, <3>1 DEF k1, k2
    <3> QED BY Zenon, <3>1, <3>2, <3>3
  <2> QED BY Zenon, <2>1, <2>2, <2>3
<1>2. Alike(s, s')
  BY Zenon, <1>1 DEF Alike
<1> QED BY Zenon, <1>1, <1>2, AlikeSteps

\* scheduler_exit_thread's critical section: the thread is marked, and stays where it is.
LEMMA ExitCsSteps ==
  ASSUME DispatchInv, Inv', NEW c \in Cpus, ExitCs(c)
  PROVE  Step
<1> DEFINE x  == reg[c].tgt
           S1 == [s EXCEPT !.listed = @ \ {x}]
<1>1. irq' = irq /\ cur' = cur /\ ntid' = ntid /\ reg[c].at = "exit_cs"
  BY Zenon DEF ExitCs, At, Procs
<1>2. /\ TypeOK /\ Good(s) /\ Quiet(s) /\ reg[c] \in Contexts /\ x \in AllTids
      /\ reg \in [Cpus -> Contexts]
  BY ZenonT(30), <1>1, InvIsSchedInv DEF DispatchInv, SchedInv, Inv, CpuOK, NamesThread, TgtPoints, Contexts, TidOrNull
<1>3. Alike(s, S1) /\ Good(S1) /\ Quiet(S1)
  <2>1. Alike(s, S1)
    BY Zenon, <1>2 DEF Alike, Good, SchedStates
  <2>2. Good(S1)
    BY Zenon, <1>2, GoodMarks
  <2> QED BY Zenon, <1>2, <2>1, <2>2, QuietAlike
<1>4. CASE x \in s.q.inq
  <2>1. s' = Fail(exit_thread_routine(S1, x), "assert_dequeue") /\ reg' = reg
    BY Zenon, <1>4 DEF ExitCs
  <2> HIDE DEF S1
  <2> DEFINE S2 == exit_thread_routine(S1, x)
  <2>2. Alike(S1, S2) /\ Good(S2)
    BY Zenon, <1>2, <1>3, ExitWakesNobody, GoodExitRoutine
  <2> HIDE DEF S2
  <2>3. Alike(S2, s')
    BY Zenon, <2>1, <2>2 DEF S2, Alike, Fail, Good, SchedStates
  <2>4. Alike(s, s')
    BY Zenon, <1>3, <2>2, <2>3 DEF Alike
  <2>5. Quiet(s') /\ s'.q = s.q /\ s'.ctx = s.ctx
    BY Zenon, <1>2, <2>4, QuietAlike DEF Alike
  <2> QED BY Zenon, <1>1, <2>1, <2>5, HaltSteps
<1>5. CASE x \notin s.q.inq
  <2> DEFINE k == IF x = Me(c) THEN [reg[c] EXCEPT !.at = "int"] ELSE Return(c)
  <2>1. /\ s' = [S1 EXCEPT !.pausing = @ \cup {x}, !.exiting = @ \cup {x}]
        /\ reg' = [reg EXCEPT ![c] = k]
    BY Zenon, <1>5 DEF ExitCs, Goto
  <2>2. Plain(k) /\ ~Launching(k)
    <3>1. Plain([reg[c] EXCEPT !.at = "int"]) /\ ~Launching([reg[c] EXCEPT !.at = "int"])
      BY Zenon, <1>2 DEF Plain, Launching, Contexts
    <3> QED BY Zenon, <1>2, <3>1, PlainReturn
  <2>3. /\ s'.q = s.q /\ s'.ctx = s.ctx /\ s'.pausing = s.pausing \cup {x}
        /\ s'.waiters = s.waiters /\ s'.restore = s.restore /\ s'.ignoring = s.ignoring
        /\ s'.signal = s.signal
    BY Zenon, <1>2, <2>1 DEF Good, SchedStates
  <2>4. Quiet(s')
    BY Zenon, <1>2, <2>3 DEF Quiet
  <2> HIDE DEF k
  <2> QED BY Zenon, <1>1, <2>1, <2>2, <2>3, <2>4, StaySteps
<1> QED BY Zenon, <1>4, <1>5

\* waitpid of a given child: the caller becomes a waiter that nobody wakes.
LEMMA WaitSteps ==
  ASSUME Unwoken, DispatchInv, Inv', NEW c \in Cpus,
         (\E pid \in Pids \cup {ANY} : Waitpid(c, pid)) \/ WaitCs(c) \/ WaitDone(c)
  PROVE  Step
<1>1. Good(s) /\ Quiet(s) /\ reg[c] \in Contexts /\ Plain(reg[c]) /\ reg \in [Cpus -> Contexts]
  BY Zenon DEF DispatchInv, Inv
<1>2. ASSUME NEW pid \in Pids \cup {ANY}, Waitpid(c, pid) PROVE Step
  <2> DEFINE k == [K("wait_acq") EXCEPT !.i = pid]
  <2>1. /\ irq' = irq /\ cur' = cur /\ ntid' = ntid /\ s' = s /\ reg[c].at # "idle" /\ pid # ANY
        /\ reg' = [reg EXCEPT ![c] = k]
    BY Zenon, <1>2 DEF Waitpid, Does, Goto, Procs, Unwoken
  <2>2. Plain(k) /\ ~Launching(k)
    BY Zenon, <2>1 DEF Plain, Launching, K
  <2>3. Alike(s, s')
    BY Zenon, <2>1 DEF Alike
  <2> HIDE DEF k
  <2> QED BY Zenon, <2>1, <2>2, <2>3, AlikeSteps
<1>3. CASE WaitCs(c)
  <2> DEFINE p   == MyProc(c)
             res == s.results[p]
             w == [thr |-> Me(c), pid |-> reg[c].i]
  <2>1. irq' = irq /\ cur' = cur /\ ntid' = ntid /\ reg[c].at = "wait_cs"
    BY Zenon, <1>3 DEF WaitCs, At, Procs
  <2>2. reg[c].i # ANY
    BY Zenon, <1>1, <2>1 DEF Plain
  <2>3. /\ s' = [s EXCEPT !.waiters = vector_push(@, w), !.pausing = @ \cup {Me(c)}, !.got[Me(c)] = NULL]
        /\ reg' = [reg EXCEPT ![c] = Call("int", NULL, "wait_done")]
    BY Zenon, <1>3, <2>2 DEF WaitCs, Goto
  <2>4. /\ s'.q = s.q /\ s'.ctx = s.ctx /\ s'.pausing = s.pausing \cup {Me(c)}
        /\ s'.waiters = Append(s.waiters, w) /\ s'.restore = s.restore /\ s'.ignoring = s.ignoring
        /\ s'.signal = s.signal
    BY Zenon, <1>1, <2>3 DEF Good, SchedStates, vector_push
  <2>5. \A i \in DOMAIN s'.waiters : s'.waiters[i] = FreedInfo \/ s'.waiters[i].pid # ANY
    <3>1. s.waiters \in Seq([thr : AllTids, pid : Nat] \cup {FreedInfo}) /\ w.pid = reg[c].i
      BY Zenon, <1>1 DEF Good, SchedStates
    <3> HIDE DEF w
    <3>2. \A i \in DOMAIN s'.waiters : s'.waiters[i] = w \/ (i \in DOMAIN s.waiters /\ s'.waiters[i] = s.waiters[i])
      <4>1. s'.waiters = Append(s.waiters, w)
        BY Zenon, <2>4
      <4> QED BY SMTT(30), <3>1, <4>1
    <3> QED BY Zenon, <1>1, <2>2, <3>1, <3>2 DEF Quiet
  <2>6. Quiet(s')
    BY Zenon, <1>1, <2>4, <2>5 DEF Quiet
  <2> HIDE DEF w
  <2> QED BY Zenon, <2>1, <2>3, <2>4, <2>6, PlainCalls, StaySteps
<1>4. CASE WaitDone(c)
  <2> DEFINE W == [j \in DOMAIN s.waiters |-> IF s.waiters[j].thr = Me(c) THEN FreedInfo ELSE s.waiters[j]]
  <2>1. /\ irq' = irq /\ cur' = cur /\ ntid' = ntid /\ reg[c].at # "idle"
        /\ s' = [s EXCEPT !.waiters = W] /\ reg' = [reg EXCEPT ![c] = K("user")]
    BY Zenon, <1>4 DEF WaitDone, At, Goto, Procs
  <2>2. \A i \in DOMAIN W : W[i] = FreedInfo \/ W[i].pid # ANY
    BY Zenon, <1>1 DEF Quiet
  <2> HIDE DEF W
  <2>3. /\ s'.q = s.q /\ s'.ctx = s.ctx /\ s'.pausing = s.pausing
        /\ s'.waiters = W /\ s'.restore = s.restore /\ s'.ignoring = s.ignoring
        /\ s'.signal = s.signal
    BY Zenon, <1>1, <2>1 DEF Good, SchedStates
  <2>4. Quiet(s')
    BY Zenon, <1>1, <2>2, <2>3 DEF Quiet
  <2> QED BY Zenon, <2>1, <2>3, <2>4, PlainCalls, StaySteps
<1> QED BY Zenon, <1>2, <1>3, <1>4

\* The end of a console read and a change of disposition do not touch the scheduler.
LEMMA OtherSteps ==
  ASSUME DispatchInv, Inv', NEW c \in Cpus, ReadDone(c) \/ \E a \in Actions : SigAction(c, a)
  PROVE  Step
<1>1. CASE ReadDone(c)
  <2>1. /\ irq' = irq /\ cur' = cur /\ ntid' = ntid /\ s' = s /\ reg[c].at # "idle"
        /\ reg' = [reg EXCEPT ![c] = K("user")]
    BY Zenon, <1>1 DEF ReadDone, At, Goto, Procs
  <2>2. Alike(s, s')
    BY Zenon, <2>1 DEF Alike
  <2> QED BY ZenonT(30), <2>1, <2>2, PlainCalls, AlikeSteps
<1>2. CASE \E a \in Actions : SigAction(c, a)
  <2>1. UNCHANGED <<irq, cur, ntid, reg, s>>
    BY Zenon, <1>2 DEF SigAction
  <2>2. s'.q = s.q /\ s'.ctx = s.ctx /\ Quiet(s')
    BY Zenon, <2>1 DEF DispatchInv
  <2> QED BY Zenon, <2>1, <2>2, HaltSteps
<1> QED BY Zenon, <1>1, <1>2

\* A fault in user mode ends the thread; the CPU takes the first ready one, if any.
LEMMA FaultSteps ==
  ASSUME DispatchInv, Inv', NEW c \in Cpus, Fault(c)
  PROVE  Step
<1> DEFINE S1 == exit_thread_routine(s, Me(c))
           t  == S1.q.first
           f  == Ready(s.q)
<1>1. /\ s' = [S1 EXCEPT !.q = scheduler_get_tread_wl(@)]
      /\ cur' = IF t = NULL THEN cur ELSE [cur EXCEPT ![c] = t]
      /\ reg' = IF t = NULL THEN reg ELSE [reg EXCEPT ![c] = S1.ctx[t]]
      /\ irq' = irq /\ ntid' = ntid /\ reg[c].at \in UserMode
  BY Zenon DEF Fault, Does, Procs
<1>2. /\ TypeOK /\ Good(s) /\ Quiet(s) /\ Spells(s.q, f, AllTids)
      /\ Placed(s.q.inq, cur, reg, s.ctx, ntid)
      /\ cur \in [Cpus -> TidOrNull] /\ reg \in [Cpus -> Contexts]
      /\ s.ctx \in [AllTids -> Contexts] /\ \A d \in Cpus : Plain(reg[d])
  BY Zenon, InvIsSchedInv DEF DispatchInv, Inv, SchedInv, Good, SchedStates
<1>3. cur[c] \in AllTids /\ cur[c] # NULL
  BY Zenon, <1>1, HasThread, Tidy DEF DispatchInv, UserMode
<1>4. Alike(s, S1) /\ Good(S1)
  BY Zenon, <1>2, <1>3, ExitWakesNobody, GoodExitRoutine DEF Me
<1> HIDE DEF S1
<1>5. /\ s'.q = scheduler_get_tread_wl(s.q) /\ s'.ctx = s.ctx /\ s'.pausing = s.pausing
      /\ s'.waiters = s.waiters /\ s'.restore = s.restore /\ s'.ignoring = s.ignoring
      /\ s'.signal = s.signal /\ t = s.q.first /\ S1.ctx = s.ctx
  BY Zenon, <1>1, <1>4 DEF Alike, Good, SchedStates
<1>6. Quiet(s')
  BY ZenonT(30), <1>2, <1>5 DEF Quiet
<1> HIDE DEF t
<1>7. CASE t = NULL
  <2>1. s'.q = s.q /\ UNCHANGED <<irq, cur, ntid, reg>>
    BY Zenon, <1>1, <1>5, <1>7 DEF scheduler_get_tread_wl
  <2> QED BY Zenon, <1>5, <1>6, <2>1, HaltSteps
<1>8. CASE t # NULL
  <2>1. Spells(s'.q, Tail(f), AllTids) /\ f # << >> /\ t = Head(f) /\ t \in AllTids
    <3>1. s.q.first = t /\ s.q.first # NULL /\ NULL \notin AllTids
      BY Zenon, <1>5, <1>8, Numbered
    <3>2. /\ Spells(scheduler_get_tread_wl(s.q), Tail(f), AllTids)
          /\ f # << >> /\ s.q.first = Head(f) /\ s.q.first \in AllTids
      BY ZenonT(30), <1>2, <3>1, TakeSpells
    <3> HIDE DEF f
    <3> QED BY ZenonT(30), <1>5, <3>1, <3>2
  <2>2. s'.q.inq = s.q.inq \ {t} /\ t \in s.q.inq
    <3>1. t \in s.q.inq
      BY ZenonT(30), <1>2, <1>5, <2>1, Numbered, SpellsMembers
    <3> QED BY Zenon, <1>5, <1>8, <3>1, TakesMark
  <2>3. cur' = [cur EXCEPT ![c] = t] /\ reg' = [reg EXCEPT ![c] = s.ctx[t]]
    BY Zenon, <1>1, <1>5, <1>8
  <2> DEFINE o1 == [cur EXCEPT ![c] = NULL]
             r1 == [reg EXCEPT ![c] = Vacant]
  <2>4. Placed(s.q.inq, o1, r1, s.ctx, ntid)
    <3>1. K("idle").at = "idle"
      BY Zenon DEF K
    <3> QED BY ZenonT(30), <1>2, <1>3, <3>1, Park
  <2>5. /\ o1 \in [Cpus -> TidOrNull] /\ r1 \in [Cpus -> Contexts] /\ o1[c] = NULL
        /\ ~Launching(r1[c]) /\ [o1 EXCEPT ![c] = t] = [cur EXCEPT ![c] = t]
        /\ [r1 EXCEPT ![c] = s.ctx[t]] = [reg EXCEPT ![c] = s.ctx[t]]
    BY Zenon, <1>2, FreshContexts DEF TidOrNull, Vacant, K, Launching
  <2> HIDE DEF o1, r1
  <2>6. Placed(s'.q.inq, cur', reg', s'.ctx, ntid')
    <3>1. Placed(s.q.inq \ {t}, [o1 EXCEPT ![c] = t], [r1 EXCEPT ![c] = s.ctx[t]], s.ctx, ntid)
      BY ZenonT(30), <2>2, <2>4, <2>5, Resume
    <3> QED BY Zenon, <1>1, <1>5, <2>2, <2>3, <2>5, <3>1
  <2>7. PlainRegs'
    BY Zenon, <1>2, <2>1, <2>3 DEF PlainRegs, Quiet
  <2>8. DispatchInv' /\ Ready(s.q)' = Tail(f)
    BY Zenon, <1>1, <1>6, <2>1, <2>6, <2>7, Restore
  <2>9. Serves(c, << >>)
    <3>1. f \o << >> = f
      BY SMTT(30), <1>2 DEF Spells
    <3>2. cur[c] \in Tids \cup {NULL, Idle(c)}
      BY Zenon, <1>2 DEF Placed, OnePlace
    <3> QED BY Zenon, <2>1, <2>3, <2>8, <3>1, <3>2 DEF Serves
  <2> QED BY Zenon, <2>8, <2>9, ServesIsStep DEF Step
<1> QED BY Zenon, <1>7, <1>8

\* Without console, signals and sigrestore the other operations never start.
LEMMA NeverStarts ==
  ASSUME Unwoken, DispatchInv, NEW c \in Cpus
  PROVE  /\ ~PauseCs(c) /\ ~RestoreCs(c) /\ ~ConsoleRead(c) /\ ~Sigrestore(c)
         /\ ~IrqBegin(c) /\ ~IrqStep(c)
<1>1. Plain(reg[c]) /\ irq[c].at = "none" /\ s.restore = {}
  <2>1. Plain(reg[c]) /\ irq[c] = NoIrq /\ s.restore = {}
    BY Zenon DEF DispatchInv, Quiet
  <2>2. NoIrq.at = "none"
    BY DEF NoIrq
  <2> QED BY Zenon, <2>1, <2>2
<1>2. ~PauseCs(c) /\ ~RestoreCs(c)
  BY Zenon, <1>1 DEF PauseCs, RestoreCs, At, Plain
<1>3. ~ConsoleRead(c) /\ ~Sigrestore(c)
  BY Zenon, <1>1 DEF ConsoleRead, Does, Unwoken, Sigrestore
<1>4. ~IrqBegin(c)
  BY Zenon DEF IrqBegin, Key, ControlC, Unwoken
<1>5. ~IrqStep(c)
  BY Zenon, <1>1 DEF IrqStep, IrqAcquire, IrqSpinOut, UnpauseCs, IrqEnqueueCs, SignalCs, InIrq, IrqAcqPoints
<1> QED BY Zenon, <1>2, <1>3, <1>4, <1>5

\* The state scheduler_init leaves: the first user thread is ready, no CPU has switched yet.
LEMMA DispatchInit ==
  ASSUME Init
  PROVE  DispatchInv /\ Fifo!Init
<1> DEFINE q0 == scheduler_enqueue_wl(EmptyQueue(AllTids), InitTid)
<1>1. /\ Inv /\ s.q = q0 /\ s.pausing = {Idle(c) : c \in Cpus} /\ s.restore = {} /\ s.ignoring = {}
      /\ s.signal = [t \in AllTids |-> "none"] /\ s.waiters = << >>
      /\ s.ctx = [t \in AllTids |-> K(IF t \in Cpus THEN "idle" ELSE "user")]
      /\ ntid = InitTid /\ cur = [c \in Cpus |-> NULL] /\ reg = [c \in Cpus |-> K("boot")]
      /\ irq = [c \in Cpus |-> NoIrq]
  BY Zenon, InitInv DEF Init
<1>2. InitTid \in Tids /\ InitTid \in AllTids /\ InitTid \in 1..InitTid
  BY SMTT(30), SchedulerAssumption, Numbered DEF InitTid, Tids
<1>3. Spells(q0, <<InitTid>>, AllTids) /\ q0.inq = {InitTid}
  <2>1. EmptyQueue(AllTids).inq = {}
    BY Zenon DEF EmptyQueue
  <2>2. Append(<< >>, InitTid) = <<InitTid>>
    OBVIOUS
  <2>3. Spells(EmptyQueue(AllTids), << >>, AllTids) /\ InitTid \notin EmptyQueue(AllTids).inq
    BY Zenon, <2>1, EmptySpells
  <2>4. Spells(q0, Append(<< >>, InitTid), AllTids)
    BY Zenon, <1>2, <2>3, Numbered, EnqueueSpells
  <2>5. q0.inq = {} \cup {InitTid}
    BY ZenonT(30), <2>1, SetsMark
  <2> HIDE DEF q0
  <2> QED BY Zenon, <2>2, <2>4, <2>5
<1>4. Ready(q0) = <<InitTid>>
  BY Zenon, <1>3, Numbered, SpellsReady
<1> HIDE DEF q0
<1>5. /\ \A a \in {"idle", "user", "boot"} : K(a).at = a /\ ~Launching(K(a)) /\ Plain(K(a))
  BY Zenon DEF K, Launching, Plain
<1>6. \A t \in AllTids : s.ctx[t] = IF t \in Cpus THEN K("idle") ELSE K("user")
  BY Zenon, <1>1
<1>7. Quiet(s)
  <2>1. \A t \in AllTids : Plain(s.ctx[t]) /\ s.signal[t] = "none"
    BY Zenon, <1>1, <1>5, <1>6
  <2>2. s.waiters = << >> /\ s.restore = {} /\ s.ignoring = {} /\ \A c \in Cpus : Idle(c) \in s.pausing
    BY Zenon, <1>1
  <2>3. DOMAIN << >> = {}
    OBVIOUS
  <2> QED BY Zenon, <2>1, <2>2, <2>3 DEF Quiet
<1>8. Placed({InitTid}, cur, reg, s.ctx, InitTid)
  <2>1. OnePlace({InitTid}, cur, InitTid)
    BY Zenon, <1>1, <1>2, Numbered DEF OnePlace
  <2>2. IdleLoops(cur, reg, s.ctx)
    BY ZenonT(30), <1>1, <1>5, <1>6, Numbered DEF IdleLoops
  <2>3. \A p \in Cpus \cup {InitTid} : ~Launching(Live(reg, s.ctx, p))
    <3>1. \A d \in Cpus : ~Launching(reg[d])
      BY Zenon, <1>1, <1>5
    <3>2. ~Launching(s.ctx[InitTid])
      BY Zenon, <1>2, <1>5, <1>6
    <3> QED BY Zenon, <3>1, <3>2 DEF Live
  <2> QED BY Zenon, <2>1, <2>2, <2>3 DEF Placed, Unstarted, OneLauncher
<1>9. \A c \in Cpus : irq[c] = NoIrq /\ Plain(reg[c])
  BY Zenon, <1>1, <1>5
<1>10. DispatchInv
  BY Zenon, <1>1, <1>3, <1>4, <1>7, <1>8, <1>9 DEF DispatchInv
<1> QED BY Zenon, <1>1, <1>4, <1>10, FifoStarts

\* Every step keeps the invariant and is a step of the abstract queue, or leaves it alone.
LEMMA DispatchNext ==
  ASSUME Unwoken, DispatchInv, [Next]_vars
  PROVE  Step
<1>1. Inv'
  BY NextInv DEF DispatchInv
<1>2. ASSUME NEW c \in Cpus, Tick(c) \/ CpuStep(c) \/ UserStep(c) PROVE Step
  <2>1. ~PauseCs(c) /\ ~RestoreCs(c) /\ ~ConsoleRead(c) /\ ~Sigrestore(c)
    BY Zenon, NeverStarts
  <2>2. CASE CpuStep(c)
    BY Zenon, <1>1, <2>1, <2>2, SwitchSteps, AcquireSteps, EnqueueCsSteps, ExecveSteps, ExitSteps,
       ExitCsSteps, WaitSteps, OtherSteps DEF CpuStep
  <2>3. CASE UserStep(c)
    BY Zenon, <1>1, <2>1, <2>3, ForkSteps, ExecveSteps, ExitSteps, WaitSteps, FaultSteps, OtherSteps
       DEF UserStep
  <2> QED BY Zenon, <1>1, <1>2, <2>2, <2>3, TickSteps
<1>3. ~IrqBegin(IrqCpu) /\ ~IrqStep(IrqCpu)
  BY Zenon, NeverStarts, Tidy
<1>4. CASE UNCHANGED vars
  <2>1. UNCHANGED <<irq, cur, ntid, reg, s>>
    BY Zenon, <1>4 DEF vars
  <2>2. s'.q = s.q /\ s'.ctx = s.ctx /\ Quiet(s')
    BY Zenon, <2>1 DEF DispatchInv
  <2> QED BY Zenon, <1>1, <2>1, <2>2, HaltSteps
<1> QED BY ZenonT(30), <1>2, <1>3, <1>4 DEF Next, Panic

-----------------------------------------------------------------------------

\* The invariant holds whatever the numbers of CPUs, threads and processes, as long as no
\* program waits for any child, reads the console or signals.
THEOREM DispatchSound ==
  ASSUME Unwoken
  PROVE  Spec => []DispatchInv
<1>1. DispatchInv /\ [Next]_vars => DispatchInv'
  BY Zenon, DispatchNext DEF Step
<1> QED BY DispatchInit, <1>1, PTL DEF Spec

\* scheduler_enqueue_wl and scheduler_dequeue_wl, as the scheduler calls them from any
\* CPUs, keep the ready list one ring through exactly the threads marked is_in_queue.
THEOREM ReadyListLinked ==
  ASSUME Unwoken
  PROVE  Spec => []QueueWellLinked
<1>1. DispatchInv => QueueWellLinked
  BY Zenon, Numbered, SpellsLinked DEF DispatchInv, QueueWellLinked
<1> QED BY DispatchSound, <1>1, PTL

\* No thread runs on two CPUs, or is in the ready list while it runs: the launch, the
\* preemption and the end of a thread never put it in two places.
THEOREM OneResidence ==
  ASSUME Unwoken
  PROVE  Spec => []SingleResidence
<1>1. DispatchInv => SingleResidence
  BY DEF DispatchInv, Placed, OnePlace, SingleResidence, Running
<1> QED BY DispatchSound, <1>1, PTL

\* The scheduler implements ReadyFifo: CPUs take threads in the order they became ready,
\* each thread is queued once, and a CPU idles only when the list is empty.
THEOREM ServedInOrder ==
  ASSUME Unwoken
  PROVE  Spec => ServesInOrder
<1>1. Init => Fifo!Init
  BY DispatchInit
<1>2. DispatchInv /\ [Next]_vars => [Fifo!Next]_<<Ready(s.q), cur>>
  BY Zenon, DispatchNext DEF Step
<1>3. Spec => []DispatchInv
  BY Zenon, DispatchSound
<1> QED BY <1>1, <1>2, <1>3, PTL DEF Spec, ServesInOrder, Fifo!Spec
=============================================================================
