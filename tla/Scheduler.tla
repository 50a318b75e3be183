----------------------------- MODULE Scheduler ------------------------------
(***************************************************************************)
(* The thread scheduler of the kernel (global/scheduler.c): the ready list, *)
(* the timer and forced switches, process and thread creation, exit,        *)
(* fork, execve, waitpid, pause/unpause and signals, on several CPUs.       *)
(*                                                                         *)
(* What a CPU executes is a context: in user mode, or at a point of a       *)
(* system call.  A scheduler function that takes scheduler_spinlock is      *)
(* three steps: spin and acquire (x_acq), the critical section with the     *)
(* release (x_cs), and what follows the release (often "int", the software  *)
(* interrupt INT_SCHEDULE).  Interrupts are enabled at all of these points, *)
(* so a tick or a keyboard interrupt may come between any two of them.  An  *)
(* interrupt handler runs with interrupts disabled: scheduler_handler is    *)
(* one step, taken when the lock is free.                                   *)
(*                                                                         *)
(* Threads are numbered as scheduler_get_new_tid numbers them: the idle     *)
(* thread of each CPU first.  Process 1 is the kernel's, process 2 the      *)
(* first user process.                                                      *)
(***************************************************************************)
EXTENDS RunQueue, Vector, Integers, FiniteSetsExt

CONSTANTS
  NCpus,           \* CPUs
  MaxTid, MaxPid,  \* bounds on the threads and processes ever created
  Workload,        \* the operations user programs and devices perform
  Parents,         \* the processes whose program forks
  MaxOutstanding,  \* children a process has forked and not reaped, at most
  MaxSignals,      \* signals sent
  MaxResults       \* exits reported to a parent and not collected

Operations == {"fork", "exit", "thread_exit", "execve", "wait", "waitpid",
               "console", "signal", "sigaction", "fault"}

ASSUME SchedulerAssumption ==
  /\ NCpus \in Nat \ {0} /\ MaxTid \in Nat /\ MaxPid \in Nat
  /\ NCpus < MaxTid /\ 2 <= MaxPid
  /\ Workload \subseteq Operations
  /\ MaxSignals \in Nat /\ MaxOutstanding \in Nat /\ MaxResults \in Nat

Cpus == 1..NCpus
AllTids == 1..MaxTid
Tids == (NCpus + 1)..MaxTid
Pids == 1..MaxPid
Idle(c) == c
\* The I/O APIC sends every device interrupt to the CPU with APIC id 0.
IrqCpu == 1
InitTid == NCpus + 1
InitPid == 2

\* waitpid's pid argument -1.
ANY == 0

\* sighandler dispositions and the signals the model distinguishes by their default.
Actions == {"default", "ignore", "user"}
Signals == {"SIGKILL", "SIGINT", "SIGCHLD"}

VARIABLES
  lock,    \* scheduler_spinlock: 0, or the CPU whose code holds it
  s,       \* what the lock protects: see TypeOK
  owner,   \* thread -> process (meaningless before the thread is created)
  parent,  \* process -> parent process or NULL
  action,  \* process -> disposition of its signals
  ntid, npid, nsig,   \* threads and processes created, signals sent
  cur,     \* CPU -> its current thread, NULL before the first switch
  reg,     \* CPU -> the context it executes
  irq,     \* CPU -> the device interrupt handler running over it
  reading, \* devconsole lock_waiting_thread_for_input: its holder
  waiting, \* devconsole waiting_thread_for_input
  reaped   \* process -> times its exit was returned by waitpid

vars == <<lock, s, owner, parent, action, ntid, npid, nsig, cur, reg, irq,
          reading, waiting, reaped>>

UserMode == {"user", "handler"}
AcqPoints == {"enq_acq", "exit_acq", "wait_acq", "pause_acq", "rest_acq"}
CsPoints == {"enq_cs", "exit_cs", "wait_cs", "pause_cs", "rest_cs"}
CsOf == [enq_acq |-> "enq_cs", exit_acq |-> "exit_cs", wait_acq |-> "wait_cs",
         pause_acq |-> "pause_cs", rest_acq |-> "rest_cs"]
Points == UserMode \cup AcqPoints \cup CsPoints \cup
          {"boot", "idle", "int", "exec_load", "exit_loop", "wait_done",
           "read_done", "unreachable"}
RetPoints == {"user", "exit_loop", "wait_done", "read_done", "exec_exit", "unreachable"}
\* The points of a call about a thread.
TgtPoints == {"enq_acq", "enq_cs", "exit_acq", "exit_cs", "pause_acq", "pause_cs",
              "rest_acq", "rest_cs"}
IrqAcqPoints == {"unpause_acq", "enq_acq", "signal_acq"}
IrqCsPoints == {"unpause_cs", "enq_cs", "signal_cs"}
IrqCsOf == [unpause_acq |-> "unpause_cs", enq_acq |-> "enq_cs",
            signal_acq |-> "signal_cs"]

TidOrNull == AllTids \cup {NULL}

\* A context: where it is, the thread a call is about, where the call returns to,
\* and a number it carries (a loop index, or waitpid's argument).
Contexts == [at : Points, tgt : TidOrNull, ret : RetPoints, i : Nat]
K(at) == [at |-> at, tgt |-> NULL, ret |-> "user", i |-> 0]
Call(at, tgt, ret) == [at |-> at, tgt |-> tgt, ret |-> ret, i |-> 0]
NoIrq == [at |-> "none", tgt |-> NULL, sig |-> "none"]

IsKernel(k) == k.at \notin UserMode

\* A pointer to freed memory, in the list of waiters and among the results.
FreedInfo == [thr |-> NULL, pid |-> 0]
FreedResult == 0

\* What the lock protects: the ready list; the threads whose is_pausing, is_exiting,
\* is_ignoring_ctx, is_signal_to_restore are set; those in their process's threads and
\* those given to scheduler_free_thread; per thread its pending signal, ctx,
\* signal_restore_ctx and thread_to_free; schduler_waitpid_list; per process its
\* childs_result and entry_thread; per thread the pid its waitpid_info was given; and
\* the assertion that failed, if one did.
SchedStates ==
  [q : [first : TidOrNull, last : TidOrNull, next : [AllTids -> TidOrNull],
        prev : [AllTids -> TidOrNull], inq : SUBSET AllTids],
   pausing : SUBSET AllTids, exiting : SUBSET AllTids,
   ignoring : SUBSET AllTids, restore : SUBSET AllTids,
   listed : SUBSET AllTids, freed : SUBSET AllTids,
   signal : [AllTids -> Signals \cup {"none"}],
   ctx : [AllTids -> Contexts], rctx : [AllTids -> Contexts],
   tofree : [AllTids -> TidOrNull],
   waiters : Seq([thr : AllTids, pid : Nat] \cup {FreedInfo}),
   results : [Pids -> Seq(Pids \cup {FreedResult})],
   got : [AllTids -> Pids \cup {NULL}],
   entry : [Pids -> TidOrNull],
   failed : {"none", "assert_dequeue",
             "assert_irq", "assert_entry", "use_after_free"}]

\* Every variable has its type.
TypeOK ==
  /\ lock \in Cpus \cup {0}
  /\ s \in SchedStates
  /\ owner \in [AllTids -> Pids]
  /\ parent \in [Pids -> Pids \cup {NULL}]
  /\ action \in [Pids -> Actions]
  /\ ntid \in InitTid..MaxTid /\ npid \in 2..MaxPid /\ nsig \in 0..MaxSignals
  /\ cur \in [Cpus -> TidOrNull]
  /\ reg \in [Cpus -> Contexts]
  /\ irq \in [Cpus -> [at : IrqAcqPoints \cup IrqCsPoints \cup {"none"},
                       tgt : TidOrNull, sig : Signals \cup {"none"}]]
  /\ reading \in TidOrNull /\ waiting \in TidOrNull
  /\ reaped \in [Pids -> 0..2]

Init ==
  /\ lock = 0
  /\ s = [q |-> scheduler_enqueue_wl(EmptyQueue(AllTids), InitTid),
          pausing |-> {Idle(c) : c \in Cpus}, exiting |-> {}, ignoring |-> {},
          restore |-> {}, listed |-> {Idle(c) : c \in Cpus} \cup {InitTid},
          freed |-> {}, signal |-> [t \in AllTids |-> "none"],
          ctx |-> [t \in AllTids |-> K(IF t \in Cpus THEN "idle" ELSE "user")],
          rctx |-> [t \in AllTids |-> K(IF t \in Cpus THEN "idle" ELSE "user")],
          tofree |-> [t \in AllTids |-> NULL],
          waiters |-> << >>, results |-> [p \in Pids |-> << >>],
          got |-> [t \in AllTids |-> NULL],
          entry |-> [p \in Pids |-> IF p = InitPid THEN InitTid ELSE NULL],
          failed |-> "none"]
  /\ owner = [t \in AllTids |-> IF t = InitTid THEN InitPid ELSE 1]
  /\ parent = [p \in Pids |-> NULL]
  /\ action = [p \in Pids |-> "default"]
  /\ ntid = InitTid /\ npid = InitPid /\ nsig = 0
  /\ cur = [c \in Cpus |-> NULL]
  /\ reg = [c \in Cpus |-> K("boot")]
  /\ irq = [c \in Cpus |-> NoIrq]
  /\ reading = NULL /\ waiting = NULL
  /\ reaped = [p \in Pids |-> 0]

-----------------------------------------------------------------------------
(* The functions called with the lock held, on the state the lock protects. *)

\* spinlock_test_and_acq finds the lock free.
CanAcquire_Mutant == TRUE
CanAcquire == lock = 0

Enqueue(S, t) == [S EXCEPT !.q = scheduler_enqueue_wl(@, t)]
Fail(S, why) == [S EXCEPT !.failed = why]

\* waitpid_return: the waiter at position i gets process p's exit and is made ready.
waitpid_return(S, p, i) ==
  LET w == S.waiters[i].thr
  IN  Enqueue([S EXCEPT !.waiters = vector_remove(@, i, FreedInfo),
                        !.got[w] = p, !.pausing = @ \ {w}], w)

\* exit_thread_routine: the exit of an entry thread goes to the first thread of the
\* parent in the list of waiters with pid -1, or else to the parent's results.  The
\* scan dereferences each entry up to that one.
Finds(S, i, p) ==
  \/ S.waiters[i] = FreedInfo
  \/ owner[S.waiters[i].thr] = parent[p] /\ S.waiters[i].pid = ANY
exit_thread_routine_Deaf(S, t) ==      \* the waiters are not searched
  LET p == owner[t]
  IN  IF t # S.entry[p] \/ parent[p] = NULL THEN S
      ELSE [S EXCEPT !.results[parent[p]] = vector_push(@, p)]
exit_thread_routine_Twice(S, t) ==     \* no return after waitpid_return
  LET p == owner[t]
      stop == {i \in DOMAIN S.waiters : Finds(S, i, p)}
      S1 == [S EXCEPT !.results[parent[p]] = vector_push(@, p)]
  IN  IF t # S.entry[p] \/ parent[p] = NULL THEN S
      ELSE IF stop = {} THEN S1 ELSE waitpid_return(S1, p, Min(stop))
exit_thread_routine(S, t) ==
  LET p == owner[t]
      stop == {i \in DOMAIN S.waiters : Finds(S, i, p)}
  IN  IF t # S.entry[p] \/ parent[p] = NULL THEN S
      ELSE IF stop = {} THEN [S EXCEPT !.results[parent[p]] = vector_push(@, p)]
      ELSE IF S.waiters[Min(stop)] = FreedInfo THEN Fail(S, "use_after_free")
      ELSE waitpid_return(S, p, Min(stop))

\* scheduler_handle_signal, in two parts: whether a pending signal ends the thread,
\* and the state after it.
Fatal(S, t) ==
  \/ S.signal[t] = "SIGKILL"
  \/ S.signal[t] = "SIGINT" /\ action[owner[t]] = "default"

scheduler_handle_signal(S, t) ==
  LET S1 == [S EXCEPT !.signal[t] = "none"]
  IN  IF S.signal[t] = "none" THEN S
      ELSE IF Fatal(S, t) THEN exit_thread_routine([S1 EXCEPT !.listed = @ \ {t}], t)
      ELSE IF action[owner[t]] = "user"
      THEN [S1 EXCEPT !.rctx[t] = S.ctx[t], !.ctx[t] = K("handler"),
                      !.restore = @ \cup {t}]
      ELSE S1

\* The first half of scheduler_handler: what becomes of the thread e that was
\* running with context k.
EndThread_Mutant(S, e, k) ==           \* a preempted thread is not made ready
  IF e \in S.pausing /\ e \in S.exiting THEN exit_thread_routine(S, e)
  ELSE [S EXCEPT !.ctx[e] = k]
EndThread(S, e, k) ==
  LET S1 == IF S.tofree[e] = NULL THEN S
            ELSE [S EXCEPT !.freed = @ \cup {S.tofree[e]}, !.tofree[e] = NULL]
  IN  IF e \in S.ignoring THEN Enqueue([S1 EXCEPT !.ignoring = @ \ {e}], e)
      ELSE IF e \notin S.pausing THEN Enqueue([S1 EXCEPT !.ctx[e] = k], e)
      ELSE IF e \in S.exiting THEN exit_thread_routine(S1, e)
      ELSE [S1 EXCEPT !.ctx[e] = k]

\* Taking the next thread, with its pending signal; a thread that the signal ends
\* goes through exit_thread_routine a second time and the next one is taken as it is.
TakeThread(S) ==
  LET t  == S.q.first
      S1 == [S EXCEPT !.q = scheduler_get_tread_wl(@)]
      S2 == scheduler_handle_signal(S1, t)
      S3 == exit_thread_routine(S2, t)
  IN  IF t = NULL \/ IsKernel(S.ctx[t]) THEN [st |-> S1, thr |-> t]
      ELSE IF ~Fatal(S1, t) THEN [st |-> S2, thr |-> t]
      ELSE [st |-> [S3 EXCEPT !.q = scheduler_get_tread_wl(@)], thr |-> S3.q.first]

\* scheduler_handler on CPU c, interrupting context k.
scheduler_handler(c, k) ==
  LET e    == cur[c]
      S1   == IF e = NULL THEN s ELSE EndThread(s, e, k)
      take == TakeThread(S1)
      S2   == take.st
      ends == e # NULL /\ e \in S2.pausing
      t    == IF ends /\ take.thr = NULL THEN Idle(c) ELSE take.thr
  IN  /\ CanAcquire
      /\ s' = IF ends /\ e \in S2.exiting THEN [S2 EXCEPT !.tofree[t] = e] ELSE S2
      /\ cur' = IF t = NULL THEN cur ELSE [cur EXCEPT ![c] = t]
      /\ reg' = [reg EXCEPT ![c] = IF t = NULL THEN k ELSE S2.ctx[t]]

-----------------------------------------------------------------------------
(* Steps of a CPU.                                                          *)

\* The thread on CPU c executes: no panic, and no device interrupt over it.
Runs(c) == s.failed = "none" /\ irq[c] = NoIrq
At(c, point) == Runs(c) /\ reg[c].at = point
Does(c, op) == Runs(c) /\ reg[c].at \in UserMode /\ op \in Workload
Goto(c, k) == reg' = [reg EXCEPT ![c] = k]
Me(c) == cur[c]
MyProc(c) == owner[cur[c]]

\* The context after the call that reg[c] is in returns.
Return(c) ==
  IF reg[c].ret = "exec_exit" THEN Call("exit_acq", cur[c], "unreachable")
  ELSE [K(reg[c].ret) EXCEPT !.i = IF reg[c].ret = "exit_loop" THEN reg[c].i ELSE 0]

Procs == <<owner, parent, action, ntid, npid, nsig>>
Console == <<reading, waiting>>

\* The local APIC timer: scheduler_handler with force_switching false gives up when
\* it does not get the lock at once.
Tick(c) ==
  /\ Runs(c)
  /\ scheduler_handler(c, reg[c])
  /\ UNCHANGED <<lock, Procs, irq, Console, reaped>>

\* INT_SCHEDULE: the same handler, which spins for the lock.
Switch(c) ==
  /\ At(c, "int")
  /\ scheduler_handler(c, Return(c))
  /\ UNCHANGED <<lock, Procs, irq, Console, reaped>>

\* spinlock_acquire in a system call.
Acquire(c) ==
  /\ Runs(c) /\ reg[c].at \in AcqPoints /\ CanAcquire
  /\ lock' = c
  /\ Goto(c, [reg[c] EXCEPT !.at = CsOf[@]])
  /\ UNCHANGED <<s, Procs, cur, irq, Console, reaped>>

\* scheduler_enqueue's critical section.
EnqueueCs(c) ==
  /\ At(c, "enq_cs")
  /\ s' = Enqueue(s, reg[c].tgt)
  /\ lock' = 0
  /\ Goto(c, Return(c))
  /\ UNCHANGED <<Procs, cur, irq, Console, reaped>>

Outstanding(p) == {k \in Pids : k <= npid /\ parent[k] = p /\ reaped[k] = 0}

\* A thread of process p that starts in user mode.
NewThread(S, t, p) ==
  [S EXCEPT !.listed = @ \cup {t}, !.entry[p] = t,
            !.ctx[t] = K("user"), !.rctx[t] = K("user")]

\* scheduler_fork_syscall up to its call of scheduler_enqueue.
Fork(c) ==
  /\ Does(c, "fork") /\ reg[c].at = "user"
  /\ MyProc(c) \in Parents /\ Cardinality(Outstanding(MyProc(c))) < MaxOutstanding
  /\ npid < MaxPid /\ ntid < MaxTid
  /\ npid' = npid + 1 /\ ntid' = ntid + 1
  /\ parent' = [parent EXCEPT ![npid'] = MyProc(c)]
  /\ owner' = [owner EXCEPT ![ntid'] = npid']
  /\ s' = NewThread(s, ntid', npid')
  /\ Goto(c, Call("enq_acq", ntid', "user"))
  /\ UNCHANGED <<lock, action, nsig, cur, irq, Console, reaped>>

\* scheduler_execve_syscall: the file is open, entry_thread is cleared for the loader.
Execve(c) ==
  /\ Does(c, "execve") /\ reg[c].at = "user"
  /\ s' = [s EXCEPT !.entry[MyProc(c)] = NULL]
  /\ Goto(c, Call("exec_load", s.entry[MyProc(c)], "user"))
  /\ UNCHANGED <<lock, Procs, cur, irq, Console, reaped>>

\* The loader refuses the file: the old entry thread is put back.
ExecveError(c) ==
  /\ At(c, "exec_load")
  /\ s' = [s EXCEPT !.entry[MyProc(c)] = reg[c].tgt]
  /\ Goto(c, K("user"))
  /\ UNCHANGED <<lock, Procs, cur, irq, Console, reaped>>

\* The loader asserts that there is no entry thread and creates one; then
\* scheduler_launch_process enqueues it and scheduler_exit_thread ends the caller.
ExecveLoaded(c) ==
  /\ At(c, "exec_load") /\ ntid < MaxTid
  /\ IF s.entry[MyProc(c)] # NULL
     THEN s' = Fail(s, "assert_entry") /\ UNCHANGED <<ntid, owner, reg>>
     ELSE /\ ntid' = ntid + 1
          /\ owner' = [owner EXCEPT ![ntid'] = MyProc(c)]
          /\ s' = NewThread(s, ntid', MyProc(c))
          /\ Goto(c, Call("enq_acq", ntid', "exec_exit"))
  /\ UNCHANGED <<lock, parent, action, npid, nsig, cur, irq, Console, reaped>>

\* exit(): scheduler_exit_process walks the other threads of the process, then ends
\* the caller.  thread_exit() only ends the caller.
Exit(c) ==
  /\ Does(c, "exit")
  /\ Goto(c, [K("exit_loop") EXCEPT !.i = 1])
  /\ UNCHANGED <<lock, s, Procs, cur, irq, Console, reaped>>

ThreadExit(c) ==
  /\ Does(c, "thread_exit")
  /\ Goto(c, Call("exit_acq", Me(c), "user"))
  /\ UNCHANGED <<lock, s, Procs, cur, irq, Console, reaped>>

ExitLoop(c) ==
  /\ At(c, "exit_loop")
  /\ LET rest == {t \in s.listed : t >= reg[c].i /\ owner[t] = MyProc(c) /\ t # Me(c)}
     IN  IF rest = {} THEN Goto(c, Call("exit_acq", Me(c), "user"))
         ELSE Goto(c, [Call("exit_acq", Min(rest), "exit_loop")
                         EXCEPT !.i = Min(rest) + 1])
  /\ UNCHANGED <<lock, s, Procs, cur, irq, Console, reaped>>

\* scheduler_exit_thread's critical section.  For a thread in the ready list it calls
\* scheduler_dequeue, which takes the lock this CPU already holds: its assert fails.
ExitCs_Mutant(c) ==                    \* a thread that still runs is freed
  /\ At(c, "exit_cs") /\ reg[c].tgt \notin s.q.inq
  /\ s' = [s EXCEPT !.listed = @ \ {reg[c].tgt}, !.freed = @ \cup {reg[c].tgt},
                    !.pausing = @ \cup {reg[c].tgt}, !.exiting = @ \cup {reg[c].tgt}]
  /\ lock' = 0
  /\ Goto(c, IF reg[c].tgt = Me(c) THEN [reg[c] EXCEPT !.at = "int"] ELSE Return(c))
  /\ UNCHANGED <<Procs, cur, irq, Console, reaped>>
ExitCs(c) ==
  /\ At(c, "exit_cs")
  /\ LET x  == reg[c].tgt
         S1 == [s EXCEPT !.listed = @ \ {x}]
     IN  IF x \in s.q.inq
         THEN s' = Fail(exit_thread_routine(S1, x), "assert_dequeue") /\ UNCHANGED <<lock, reg>>
         ELSE /\ s' = [S1 EXCEPT !.pausing = @ \cup {x}, !.exiting = @ \cup {x}]
              /\ lock' = 0
              /\ Goto(c, IF x = Me(c) THEN [reg[c] EXCEPT !.at = "int"] ELSE Return(c))
  /\ UNCHANGED <<Procs, cur, irq, Console, reaped>>

\* waitpid(pid, ...), pid = ANY for -1.  The flags and rusage arguments are ignored
\* by the code.
Waitpid(c, pid) ==
  /\ Does(c, IF pid = ANY THEN "wait" ELSE "waitpid") /\ reg[c].at = "user"
  /\ pid = ANY \/ pid \in Outstanding(MyProc(c))
  /\ Goto(c, [K("wait_acq") EXCEPT !.i = pid])
  /\ UNCHANGED <<lock, s, Procs, cur, irq, Console, reaped>>

\* waitpid returns p.  The count stops at two, once too many.
Reap(p) == [reaped EXCEPT ![p] = IF @ < 2 THEN @ + 1 ELSE @]

\* A result that is there is taken, and freed; otherwise the thread joins the waiters
\* and pauses.
WaitCs(c) ==
  /\ At(c, "wait_cs")
  /\ lock' = 0
  /\ LET p   == MyProc(c)
         res == s.results[p]
         rem == vector_remove(res, 1, FreedResult)
     IN  IF reg[c].i # ANY \/ res = << >>
         THEN /\ s' = [s EXCEPT !.waiters = vector_push(@, [thr |-> Me(c), pid |-> reg[c].i]),
                                !.pausing = @ \cup {Me(c)}, !.got[Me(c)] = NULL]
              /\ Goto(c, Call("int", NULL, "wait_done"))
              /\ UNCHANGED reaped
         ELSE IF res[1] = FreedResult
         THEN s' = Fail(s, "use_after_free") /\ Goto(c, K("user")) /\ UNCHANGED reaped
         ELSE /\ s' = [s EXCEPT !.results[p] =
                         [j \in DOMAIN rem |-> IF rem[j] = res[1] THEN FreedResult ELSE rem[j]]]
              /\ reaped' = Reap(res[1])
              /\ Goto(c, K("user"))
  /\ UNCHANGED <<Procs, cur, irq, Console>>

\* The waiter runs again: it reads its info and frees it, wherever it still is.
WaitDone(c) ==
  /\ At(c, "wait_done")
  /\ s' = [s EXCEPT !.waiters = [j \in DOMAIN @ |->
                      IF @[j].thr = Me(c) THEN FreedInfo ELSE @[j]]]
  /\ reaped' = IF s.got[Me(c)] = NULL THEN reaped
               ELSE Reap(s.got[Me(c)])
  /\ Goto(c, K("user"))
  /\ UNCHANGED <<lock, Procs, cur, irq, Console>>

\* console_interface_read with an empty key buffer: take the reader's lock, become
\* the waiting thread, call scheduler_pause_thread.
ConsoleRead(c) ==
  /\ Does(c, "console") /\ reg[c].at = "user" /\ reading = NULL
  /\ reading' = Me(c) /\ waiting' = Me(c)
  /\ Goto(c, Call("pause_acq", Me(c), "read_done"))
  /\ UNCHANGED <<lock, s, Procs, cur, irq, reaped>>

\* scheduler_pause_thread's critical section, for the calling thread.
PauseCs(c) ==
  /\ At(c, "pause_cs")
  /\ LET x == reg[c].tgt
     IN  IF x \in s.pausing \cup s.exiting
         THEN lock' = 0 /\ s' = s /\ Goto(c, Return(c))
         ELSE IF x \in s.q.inq
         THEN s' = Fail(s, "assert_dequeue") /\ UNCHANGED <<lock, reg>>
         ELSE /\ s' = [s EXCEPT !.pausing = @ \cup {x}]
              /\ lock' = 0
              /\ Goto(c, [reg[c] EXCEPT !.at = "int"])
  /\ UNCHANGED <<Procs, cur, irq, Console, reaped>>

ReadDone(c) ==
  /\ At(c, "read_done")
  /\ reading' = NULL
  /\ Goto(c, K("user"))
  /\ UNCHANGED <<lock, s, Procs, cur, irq, waiting, reaped>>

SigAction(c, a) ==
  /\ Does(c, "sigaction") /\ reg[c].at = "user"
  /\ action' = [action EXCEPT ![MyProc(c)] = a]
  /\ UNCHANGED <<lock, s, owner, parent, ntid, npid, nsig, cur, reg, irq, Console, reaped>>

\* scheduler_sigrestore; without a context to restore it returns EINVAL.
Sigrestore(c) ==
  /\ Runs(c) /\ reg[c].at \in UserMode /\ Me(c) \in s.restore
  /\ Goto(c, Call("rest_acq", Me(c), "unreachable"))
  /\ UNCHANGED <<lock, s, Procs, cur, irq, Console, reaped>>

RestoreCs(c) ==
  /\ At(c, "rest_cs")
  /\ s' = [s EXCEPT !.ctx[Me(c)] = s.rctx[Me(c)], !.rctx[Me(c)] = s.ctx[Me(c)],
                    !.restore = @ \ {Me(c)}, !.ignoring = @ \cup {Me(c)}]
  /\ lock' = 0
  /\ Goto(c, Call("int", NULL, "unreachable"))
  /\ UNCHANGED <<Procs, cur, irq, Console, reaped>>

\* sheduler_exception_handler, for a fault in user mode.  With an empty ready list
\* the same thread resumes, and faults again.
Fault(c) ==
  LET S1 == exit_thread_routine(s, Me(c))
      t  == S1.q.first
  IN  /\ Does(c, "fault") /\ CanAcquire
      /\ \A p \in Pids : Len(s.results[p]) < MaxResults
      /\ s' = [S1 EXCEPT !.q = scheduler_get_tread_wl(@)]
      /\ cur' = IF t = NULL THEN cur ELSE [cur EXCEPT ![c] = t]
      /\ reg' = IF t = NULL THEN reg ELSE [reg EXCEPT ![c] = S1.ctx[t]]
      /\ UNCHANGED <<lock, Procs, irq, Console, reaped>>

-----------------------------------------------------------------------------
(* Keyboard interrupts: the device handlers that call the scheduler.  They  *)
(* run with interrupts disabled over whatever the CPU was executing, which  *)
(* may be a critical section of the scheduler.                              *)

Interrupts(c) == s.failed = "none" /\ irq[c] = NoIrq
InIrq(c, point) == s.failed = "none" /\ irq[c].at = point
IrqGoto(c, h) == irq' = [irq EXCEPT ![c] = h]

\* A key for the thread that waits for input (add_key_to_key_buffer).
Key(c) ==
  /\ "console" \in Workload /\ Interrupts(c) /\ waiting # NULL
  /\ IrqGoto(c, [at |-> "unpause_acq", tgt |-> waiting, sig |-> "none"])
  /\ waiting' = NULL
  /\ UNCHANGED <<lock, s, Procs, cur, reg, reading, reaped>>

\* Control-C (key_handler): signal the thread last seen on the console, forget the
\* reader and release its lock.
ControlC(c, t) ==
  /\ "signal" \in Workload /\ Interrupts(c) /\ nsig < MaxSignals
  /\ t \in InitTid..ntid
  /\ nsig' = nsig + 1
  /\ IrqGoto(c, [at |-> "signal_acq", tgt |-> t, sig |-> "SIGINT"])
  /\ reading' = NULL /\ waiting' = NULL
  /\ UNCHANGED <<lock, s, owner, parent, action, ntid, npid, cur, reg, reaped>>

IrqAcquire(c) ==
  /\ s.failed = "none" /\ irq[c].at \in IrqAcqPoints /\ CanAcquire
  /\ lock' = c
  /\ IrqGoto(c, [irq[c] EXCEPT !.at = IrqCsOf[@]])
  /\ UNCHANGED <<s, Procs, cur, reg, Console, reaped>>

\* The lock is held by the code this interrupt came over, which cannot run until the
\* handler returns: spinlock_acquire gives up after its bound and the assert fails.
IrqSpinOut(c) ==
  /\ s.failed = "none" /\ irq[c].at \in IrqAcqPoints /\ lock = c
  /\ s' = Fail(s, "assert_irq")
  /\ UNCHANGED <<lock, Procs, cur, reg, irq, Console, reaped>>

\* scheduler_unpause_thread: EINVAL unless the thread is pausing; scheduler_enqueue
\* takes the lock again.
UnpauseCs(c) ==
  /\ InIrq(c, "unpause_cs")
  /\ lock' = 0
  /\ s' = [s EXCEPT !.pausing = @ \ {irq[c].tgt}]
  /\ IrqGoto(c, IF irq[c].tgt \in s.pausing THEN [irq[c] EXCEPT !.at = "enq_acq"] ELSE NoIrq)
  /\ UNCHANGED <<Procs, cur, reg, Console, reaped>>

IrqEnqueueCs(c) ==
  /\ InIrq(c, "enq_cs")
  /\ lock' = 0
  /\ s' = Enqueue(s, irq[c].tgt)
  /\ IrqGoto(c, NoIrq)
  /\ UNCHANGED <<Procs, cur, reg, Console, reaped>>

\* scheduler_signal_thread: a pausing thread is unpaused.
SignalCs(c) ==
  /\ InIrq(c, "signal_cs")
  /\ lock' = 0
  /\ s' = [s EXCEPT !.signal[irq[c].tgt] = irq[c].sig]
  /\ IrqGoto(c, IF irq[c].tgt \in s.pausing
                THEN [irq[c] EXCEPT !.at = "unpause_acq"] ELSE NoIrq)
  /\ UNCHANGED <<Procs, cur, reg, Console, reaped>>

-----------------------------------------------------------------------------
\* A failed assertion panics: nothing runs any more.
Panic == s.failed # "none" /\ UNCHANGED vars

CpuStep(c) ==
  \/ Switch(c) \/ Acquire(c) \/ EnqueueCs(c)
  \/ ExecveError(c) \/ ExecveLoaded(c)
  \/ ExitLoop(c) \/ ExitCs(c)
  \/ WaitCs(c) \/ WaitDone(c) \/ PauseCs(c) \/ ReadDone(c) \/ RestoreCs(c)

UserStep(c) ==
  \/ Fork(c) \/ Execve(c) \/ Exit(c) \/ ThreadExit(c)
  \/ \E pid \in Pids \cup {ANY} : Waitpid(c, pid)
  \/ ConsoleRead(c) \/ Sigrestore(c) \/ Fault(c)
  \/ \E a \in Actions : SigAction(c, a)

IrqBegin(c) ==
  \/ Key(c)
  \/ \E t \in Tids : ControlC(c, t)

IrqStep(c) ==
  \/ IrqAcquire(c) \/ IrqSpinOut(c)
  \/ UnpauseCs(c) \/ IrqEnqueueCs(c) \/ SignalCs(c)

Next ==
  \/ \E c \in Cpus : Tick(c) \/ CpuStep(c) \/ UserStep(c)
  \/ IrqBegin(IrqCpu) \/ IrqStep(IrqCpu)
  \/ Panic

Spec == Init /\ [][Next]_vars

\* A thread that gets a CPU again and again executes its kernel code there, and a CPU
\* its interrupt handlers; a spinning acquire succeeds when the lock is released again
\* and again (spinlock_acquire gives up, and panics, after a bounded number of
\* attempts); the timer keeps firing, and not every tick finds the lock taken.
\* Nothing is assumed of what user programs do.
Fairness ==
  /\ SF_vars(IrqStep(IrqCpu))
  /\ \A c \in Cpus : SF_vars(Tick(c))
  /\ \A c \in Cpus, t \in Tids : SF_vars(cur[c] = t /\ CpuStep(c))

FairSpec == Spec /\ Fairness

-----------------------------------------------------------------------------
Running(t) == \E c \in Cpus : cur[c] = t
BeingLaunched(t) == \/ \E c \in Cpus : reg[c].at \in {"enq_acq", "enq_cs"} /\ reg[c].tgt = t
                    \/ \E u \in Tids : s.ctx[u].at = "enq_acq" /\ s.ctx[u].tgt = t

\* The pointers of the ready list form one ring through exactly the threads marked
\* is_in_queue, whatever order threads are created, preempted, woken and ended in.
QueueWellLinked == WellLinked(s.q)

\* A thread is in one place: it runs on at most one CPU, and is not in the ready list
\* while it runs.
SingleResidence ==
  \A t \in Tids : /\ \A c, d \in Cpus : cur[c] = t /\ cur[d] = t => c = d
                  /\ Running(t) => t \notin s.q.inq

\* A created thread that has not ended is never dropped: it runs, is ready, is paused
\* (and so has someone to wake it), or is about to be enqueued by its creator.
NoThreadLost ==
  \A t \in InitTid..ntid : t \in s.listed =>
    Running(t) \/ t \in s.q.inq \/ t \in s.pausing \/ BeingLaunched(t)

\* scheduler_spinlock is held exactly by a CPU that is inside a critical section, so by
\* one at most, and its holder is never switched out: no saved context is inside one.
LockHolderRuns ==
  /\ \A c \in Cpus : lock = c <=> \/ reg[c].at \in CsPoints
                                  \/ irq[c].at \in IrqCsPoints
  /\ \A t \in AllTids : s.ctx[t].at \notin CsPoints /\ s.rctx[t].at \notin CsPoints

\* The inductive form of TypeOK and LockHolderRuns.  A device interrupt handler is in a
\* critical section only over code that is not in one; a CPU runs a thread from its
\* first switch on; a call that is about a thread names one; and what is saved as a
\* thread's context can be resumed: it is neither the boot code nor in a critical section.
NamesThread(k) == k.at \in TgtPoints => k.tgt # NULL
Resumable(k) == k.at \notin CsPoints \cup {"boot"} /\ NamesThread(k)
SchedInv ==
  /\ TypeOK /\ LockHolderRuns
  /\ \A c \in Cpus :
       /\ irq[c].at \in IrqCsPoints => reg[c].at \notin CsPoints
       /\ reg[c].at = "boot" <=> cur[c] = NULL
       /\ NamesThread(reg[c])
       /\ irq[c].at # "none" => irq[c].tgt # NULL
  /\ \A t \in AllTids : Resumable(s.ctx[t]) /\ Resumable(s.rctx[t])

\* A thread given to scheduler_free_thread is out of the scheduler's reach: no CPU runs
\* it, it is neither ready nor waiting, and it will not be freed again.
FreedUnreferenced ==
  \A t \in s.freed : /\ ~Running(t) /\ t \notin s.q.inq
                     /\ \A i \in DOMAIN s.waiters : s.waiters[i].thr # t
                     /\ \A u \in AllTids : s.tofree[u] # t

\* A child's exit is reported once: it is in flight to one waiter, or queued once among
\* the parent's results, or already returned, never two of them.
Reports(p) == reaped[p]
  + Cardinality({i \in DOMAIN s.results[parent[p]] : s.results[parent[p]][i] = p})
  + Cardinality({t \in Tids : s.got[t] = p /\ reaped[p] = 0})
ReportedOnce == \A p \in Pids : parent[p] # NULL => Reports(p) <= 1

\* No CPU executes what follows a call that must not return (an exit of the caller,
\* sigrestore, a fatal fault): there the code has assert(0), and the model no step.
NeverResumed == \A c \in Cpus : reg[c].at # "unreachable"

\* No assertion of the scheduler fails, and no freed list entry is read.
NoFailure == s.failed = "none" /\ NeverResumed

\* Creation, exit, thread_exit and execve on any CPUs fail one assertion only, and only
\* when exit() ends a thread of its process that called execve: the thread in the way is
\* ready and is not the entry thread of its process.
OnlyExecFails ==
  /\ NeverResumed
  /\ s.failed # "none" =>
       /\ s.failed = "assert_dequeue"
       /\ \E c \in Cpus : /\ reg[c].at = "exit_cs" /\ reg[c].tgt # Me(c)
                         /\ reg[c].tgt # s.entry[MyProc(c)]

\* Where thread t is: in the registers of the CPU that runs it, or in its saved context.
Where(t) == IF Running(t) THEN reg[CHOOSE c \in Cpus : cur[c] = t] ELSE s.ctx[t]
InWait(t) ==
  /\ t \notin s.exiting
  /\ \/ Where(t).at \in {"wait_acq", "wait_cs", "wait_done"}
     \/ Where(t).at = "int" /\ Where(t).ret = "wait_done"
Exited(p) == s.entry[p] \in s.exiting /\ ~Running(s.entry[p])
ChildExited(t) == \E p \in Pids : parent[p] = owner[t] /\ Exited(p) /\ reaped[p] = 0

\* A wait for a child that has exited returns, whether the exit or the wait came first.
WaitReturns ==
  \A t \in Tids : (t <= ntid /\ InWait(t) /\ ChildExited(t))
                    ~> (~InWait(t) \/ s.failed # "none")

\* A ready thread runs: the ready list is served in order by the CPUs' ticks.
ReadyRuns == \A t \in Tids : t \in s.q.inq ~> (Running(t) \/ s.failed # "none")

\* The scheduler implements ReadyFifo: read off the pointers, the ready list is a queue
\* that CPUs take from at one end and threads join at the other, each thread once.
Fifo == INSTANCE ReadyFifo
          WITH Cpu <- Cpus, Thread <- Tids, First <- InitTid, None <- NULL,
               IdleOf <- Idle, ready <- Ready(s.q), on <- cur
ServesInOrder == Fifo!Spec
=============================================================================
