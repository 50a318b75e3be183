------------------------------- MODULE Console -------------------------------
(***************************************************************************)
(* The console's input: modules/devconsole/source/interface.c.             *)
(*                                                                         *)
(* The keyboard interrupt puts keys in key_buffer under key_handler_lock;  *)
(* a reader takes the whole buffer under lock_waiting_thread_for_input.    *)
(* No lock is common to both: they share key_buffer_size,                  *)
(* key_buffer_char_index and waiting_thread_for_input without one.  Every  *)
(* statement of the reader is a step, and so is every statement of the     *)
(* handler that a reader can see (the modules are built without            *)
(* optimisation, so each statement loads what it names).  The keyboard     *)
(* interrupts one CPU, so there is one handler; that it comes over a       *)
(* thread, which then stands still, is one of the interleavings.           *)
(*                                                                         *)
(* The model stops at the first situation the code has no answer to, and   *)
(* `hazard' names it.                                                      *)
(***************************************************************************)
EXTENDS Integers, Sequences, FiniteSets, TLC

CONSTANTS
  KEY_BUFFER_SIZE,  \* keys the buffer holds (1024 in the code)
  Threads,          \* threads that use the console
  Report,           \* keys of a cursor position report ("\e[y;xR")
  NULL,             \* no thread
  MaxCalls,         \* system calls
  Events,           \* keys pressed: "ctrl_down" and "ctrl_up", "c", "other" (a printable
                    \* one), "newline" (or backspace)
  MaxEvents         \* keyboard interrupts

ASSUME ConsoleAssumption == KEY_BUFFER_SIZE \in Nat /\ Report \in Nat

VARIABLES
  c,          \* the variables of interface.c.  key_buffer holds the keys at 0..KEY_BUFFER_SIZE:
              \* a key is its number among those accepted, 0 the terminator.  reader_lock:
              \* lock_waiting_thread_for_input is taken.  key_handler_lock: its holder, a
              \* thread, "irq" or NULL
  add,        \* add_key_to_key_buffer, run by the holder of key_handler_lock: where it is,
              \* how many keys are to be added and thread_to_start
  irq,        \* the interrupt handler: where it is and the key
  pc,         \* where each thread is
  buffer,     \* per thread, the size_read keys it has copied
  pausing,    \* threads whose is_pausing is set
  signalled,  \* threads with a pending SIGINT
  g,          \* for the properties: the number of keys accepted in the buffer, the keys
              \* readers took (delivered), and whether Control-C has released reader_lock
              \* over a thread inside read (released)
  hazard,     \* what stopped the model
  calls, events

vars == <<c, add, irq, pc, buffer, pausing, signalled, g, hazard, calls, events>>
threads == <<pc, buffer>>
sched == <<pausing, signalled>>

Where == 0..KEY_BUFFER_SIZE
InRead == {"last", "test", "wait", "arg", "pause", "paused", "copy", "size", "index", "release"}
Inside == {t \in Threads : pc[t] \in InRead}

Init ==
  /\ c = [key_buffer |-> [i \in Where |-> 0], key_buffer_char_index |-> 0,
          key_buffer_size |-> 0, waiting_thread_for_input |-> NULL, reader_lock |-> FALSE,
          last_thread_output |-> NULL, key_handler_lock |-> NULL,
          crtl_key_is_pressed |-> FALSE]
  /\ add = [at |-> "none", left |-> 0, thread |-> NULL]
  /\ irq = [at |-> "none", key |-> "other"]
  /\ pc = [t \in Threads |-> "user"]
  /\ buffer = [t \in Threads |-> <<>>]
  /\ pausing = {} /\ signalled = {}
  /\ g = [accepted |-> 0, delivered |-> <<>>, released |-> FALSE]
  /\ hazard = "none" /\ calls = 0 /\ events = 0

-----------------------------------------------------------------------------
(* The scheduler's part, as seen from here.                                *)

\* scheduler_unpause_thread: a thread that is not pausing is left alone (EINVAL).
scheduler_unpause_thread(t) == pausing' = pausing \ {t}

\* scheduler_signal_thread: a pausing thread runs again.
scheduler_signal_thread(t) ==
  /\ signalled' = signalled \cup {t}
  /\ scheduler_unpause_thread(t)

\* scheduler_pause_thread on the calling thread.
scheduler_pause_thread(t) == pausing' = pausing \cup {t}

\* t is at the statement `at'.
Runs(t, at) == hazard = "none" /\ pc[t] = at

\* Bad(h, name): the hazard after a step that meets it when h holds.
Bad(h, name) == hazard' = IF h THEN name ELSE hazard

Goto(t, at) == pc' = [pc EXCEPT ![t] = at]

\* scheduler_handle_signal, whenever t is scheduled: SIGINT ends the thread where it is,
\* or its handler runs and the thread goes on.  A thread that ends inside key_handler_lock
\* leaves it taken.
scheduler_handle_signal(t) ==
  /\ hazard = "none"
  /\ t \in signalled /\ t \notin pausing /\ pc[t] # "dead"
  /\ signalled' = signalled \ {t}
  /\ \/ Goto(t, "dead") /\ Bad(c.key_handler_lock = t, "held")
     \/ UNCHANGED <<pc, hazard>>
  /\ UNCHANGED <<c, add, irq, buffer, pausing, g, calls, events>>

-----------------------------------------------------------------------------
(* add_key_to_key_buffer, under key_handler_lock.                          *)

AddAt(at) == hazard = "none" /\ add.at = at
AddGoto(at) == add' = [add EXCEPT !.at = at]

\* A full buffer drops the key.  An index that is not the size means that a reader is
\* between its two resets, or ended there: the key goes where no reader looks.
AddStore ==
  /\ AddAt("store")
  /\ \/ /\ c.key_buffer_size = KEY_BUFFER_SIZE
        /\ AddGoto("next") /\ UNCHANGED <<c, hazard>>
     \/ /\ c.key_buffer_size < KEY_BUFFER_SIZE
        /\ c.key_buffer_char_index = c.key_buffer_size
        /\ c' = [c EXCEPT !.key_buffer[c.key_buffer_char_index] = g.accepted + 1,
                          !.key_buffer[c.key_buffer_char_index + 1] = 0,
                          !.key_buffer_char_index = @ + 1]
        /\ AddGoto("count") /\ UNCHANGED hazard
     \/ /\ c.key_buffer_size < KEY_BUFFER_SIZE
        /\ c.key_buffer_char_index # c.key_buffer_size
        /\ hazard' = "clash" /\ UNCHANGED <<c, add>>
  /\ UNCHANGED <<irq, pc, pausing, g>>

AddCount ==
  /\ AddAt("count") /\ AddGoto("test")
  /\ c' = [c EXCEPT !.key_buffer_size = @ + 1]
  /\ g' = [g EXCEPT !.accepted = @ + 1]
  /\ UNCHANGED <<irq, pc, pausing, hazard>>

AddTest ==
  /\ AddAt("test")
  /\ add' = [add EXCEPT !.at = IF c.waiting_thread_for_input # NULL THEN "clear" ELSE "next",
                        !.thread = c.waiting_thread_for_input]
  /\ UNCHANGED <<c, irq, pc, pausing, g, hazard>>

\* Another reader's store since the test is undone: it will not be woken.
AddClear ==
  /\ AddAt("clear") /\ AddGoto("unpause")
  /\ Bad(c.waiting_thread_for_input # add.thread, "missed")
  /\ c' = [c EXCEPT !.waiting_thread_for_input = NULL]
  /\ UNCHANGED <<irq, pc, pausing, g>>

\* A thread that ended with waiting_thread_for_input set is gone.
AddUnpause_Mutant ==   \* the reader is not woken
  /\ AddAt("unpause") /\ AddGoto("next")
  /\ UNCHANGED <<c, irq, pc, pausing, g, hazard>>
AddUnpause ==
  /\ AddAt("unpause") /\ AddGoto("next")
  /\ Bad(pc[add.thread] = "dead", "dangling")
  /\ scheduler_unpause_thread(add.thread)
  /\ UNCHANGED <<c, irq, pc, g>>

\* print_to_key_buffer's loop, and the return to key_handler or to the report's writer,
\* which release key_handler_lock.
AddNext ==
  /\ AddAt("next")
  /\ IF add.left > 1
       THEN /\ add' = [add EXCEPT !.at = "store", !.left = @ - 1]
            /\ UNCHANGED <<c, irq, pc>>
       ELSE /\ add' = [at |-> "none", left |-> 0, thread |-> NULL]
            /\ c' = [c EXCEPT !.key_handler_lock = NULL]
            /\ IF c.key_handler_lock = "irq"
                 THEN irq' = [irq EXCEPT !.at = "none"] /\ UNCHANGED pc
                 ELSE Goto(c.key_handler_lock, "user") /\ UNCHANGED irq
  /\ UNCHANGED <<pausing, g, hazard>>

\* A thread that adds a report runs these steps itself.
AddRuns == c.key_handler_lock \in Threads => Runs(c.key_handler_lock, "report")

AddKey ==
  /\ AddRuns
  /\ AddStore \/ AddCount \/ AddTest \/ AddClear \/ AddUnpause \/ AddNext
  /\ UNCHANGED <<buffer, signalled, calls, events>>

-----------------------------------------------------------------------------
(* key_handler, in the keyboard interrupt.                                 *)

IrqAt(at) == hazard = "none" /\ irq.at = at
IrqGoto(at) == irq' = [irq EXCEPT !.at = at]

Interrupt ==
  /\ IrqAt("none") /\ events < MaxEvents
  /\ events' = events + 1
  /\ \E k \in Events : irq' = [at |-> "acquire", key |-> k]
  /\ UNCHANGED <<c, add, threads, sched, g, hazard, calls>>

KeyAcquire ==
  /\ IrqAt("acquire") /\ IrqGoto("dispatch")
  /\ c.key_handler_lock = NULL
  /\ c' = [c EXCEPT !.key_handler_lock = "irq"]
  /\ UNCHANGED <<add, sched, g, hazard>>

\* spinlock_acquire gives up and its assertion fails: the holder does not run, because it
\* is the thread under the handler or waits for a CPU.
Panic ==
  /\ IrqAt("acquire") /\ c.key_handler_lock \in Threads
  /\ hazard' = "panic"
  /\ UNCHANGED <<c, add, irq, sched, g>>

KeyDispatch ==
  /\ IrqAt("dispatch")
  /\ \/ /\ irq.key \in {"ctrl_down", "ctrl_up"}
        /\ c' = [c EXCEPT !.crtl_key_is_pressed = (irq.key = "ctrl_down"),
                          !.key_handler_lock = NULL]
        /\ IrqGoto("none") /\ UNCHANGED <<add, sched, hazard>>
     \/ /\ irq.key = "newline" \/ (irq.key \in {"c", "other"} /\ ~c.crtl_key_is_pressed)
        /\ add' = [at |-> "store", left |-> 1, thread |-> NULL]
        /\ IrqGoto("add") /\ UNCHANGED <<c, sched, hazard>>
     \/ /\ irq.key = "other" \/ (irq.key = "c" /\ c.last_thread_output = NULL)
        /\ c.crtl_key_is_pressed
        /\ c' = [c EXCEPT !.key_handler_lock = NULL]
        /\ IrqGoto("none") /\ UNCHANGED <<add, sched, hazard>>
     \/ /\ irq.key = "c" /\ c.crtl_key_is_pressed /\ c.last_thread_output # NULL
        /\ Bad(pc[c.last_thread_output] = "dead", "dangling")
        /\ scheduler_signal_thread(c.last_thread_output)
        /\ IrqGoto("forget") /\ UNCHANGED <<c, add>>
  /\ UNCHANGED g

KeyForget ==
  /\ IrqAt("forget") /\ IrqGoto("abandon")
  /\ c' = [c EXCEPT !.last_thread_output = NULL]
  /\ UNCHANGED <<add, sched, g, hazard>>

\* The waiting thread may not be the one that was signalled: it sleeps on, and no key
\* wakes it.
KeyAbandon ==
  /\ IrqAt("abandon") /\ IrqGoto("free")
  /\ Bad(c.waiting_thread_for_input \in pausing, "abandoned")
  /\ c' = [c EXCEPT !.waiting_thread_for_input = NULL]
  /\ UNCHANGED <<add, sched, g>>

KeyFree ==
  /\ IrqAt("free") /\ IrqGoto("none")
  /\ c' = [c EXCEPT !.reader_lock = FALSE, !.key_handler_lock = NULL]
  /\ g' = [g EXCEPT !.released = @ \/ Inside # {}]
  /\ UNCHANGED <<add, sched, hazard>>

key_handler ==
  /\ KeyAcquire \/ KeyDispatch \/ KeyForget \/ KeyAbandon \/ KeyFree \/ Panic
  /\ UNCHANGED <<threads, calls, events>>

-----------------------------------------------------------------------------
(* console_interface_read.                                                 *)

Call(t) == Runs(t, "user") /\ calls < MaxCalls /\ calls' = calls + 1

ReadTry_Mutant(t) ==   \* the lock is not tested
  /\ Call(t) /\ Goto(t, "last")
  /\ c' = [c EXCEPT !.reader_lock = TRUE]
  /\ UNCHANGED <<buffer, pausing, g, hazard>>
ReadTry(t) ==
  /\ Call(t)
  /\ \/ /\ ~c.reader_lock /\ c' = [c EXCEPT !.reader_lock = TRUE]
        /\ Goto(t, "last") /\ Bad(Inside # {}, "two")
     \/ c.reader_lock /\ UNCHANGED <<c, pc, hazard>>   \* EIO
  /\ UNCHANGED <<buffer, pausing, g>>

ReadLast(t) ==
  /\ Runs(t, "last") /\ Goto(t, "test")
  /\ c' = [c EXCEPT !.last_thread_output = t]
  /\ UNCHANGED <<buffer, pausing, g, hazard, calls>>

StartCopy(t) == Goto(t, "copy") /\ buffer' = [buffer EXCEPT ![t] = <<>>]

ReadTest(t) ==
  /\ Runs(t, "test")
  /\ \/ c.key_buffer_size = 0 /\ Goto(t, "wait") /\ UNCHANGED buffer
     \/ c.key_buffer_size # 0 /\ StartCopy(t)
  /\ UNCHANGED <<c, pausing, g, hazard, calls>>

ReadWait(t) ==
  /\ Runs(t, "wait") /\ Goto(t, "arg")
  /\ c' = [c EXCEPT !.waiting_thread_for_input = t]
  /\ UNCHANGED <<buffer, pausing, g, hazard, calls>>

\* The argument of scheduler_pause_thread is read back from waiting_thread_for_input.
ReadArg(t) ==
  /\ Runs(t, "arg") /\ Goto(t, "pause")
  /\ Bad(c.waiting_thread_for_input = NULL, "null")
  /\ UNCHANGED <<c, buffer, pausing, g, calls>>

\* The keys that wake a thread going to sleep: one to come, or one whose handler has yet
\* to look at waiting_thread_for_input, or has looked and has yet to unpause.
WakeComing(t) ==
  \/ /\ c.waiting_thread_for_input = t
     /\ c.key_buffer_size = 0 \/ add.at \in {"test", "clear"}
  \/ add.at = "unpause" /\ add.thread = t

ReadPause(t) ==
  /\ Runs(t, "pause") /\ Goto(t, "paused")
  /\ scheduler_pause_thread(t)
  /\ Bad(~WakeComing(t), "missed")
  /\ UNCHANGED <<c, buffer, g, calls>>

ReadResume(t) ==
  /\ Runs(t, "paused") /\ t \notin pausing
  /\ StartCopy(t)
  /\ UNCHANGED <<c, pausing, g, hazard, calls>>

\* The loop compares size_read with the size of now, and not with the caller's size.
ReadCopy(t) ==
  /\ Runs(t, "copy")
  /\ \/ /\ Len(buffer[t]) < c.key_buffer_size
        /\ buffer' = [buffer EXCEPT ![t] = Append(@, c.key_buffer[Len(@)])]
        /\ UNCHANGED pc
     \/ Len(buffer[t]) >= c.key_buffer_size /\ Goto(t, "size") /\ UNCHANGED buffer
  /\ UNCHANGED <<c, pausing, g, hazard, calls>>

\* A key that came after the loop's last test, or is half added, is lost.
ReadSize_Mutant(t) ==   \* key_buffer_size is not reset
  /\ Runs(t, "size") /\ Goto(t, "index")
  /\ g' = [g EXCEPT !.delivered = @ \o buffer[t]]
  /\ Bad(c.key_buffer_size # Len(buffer[t]) \/ add.at = "count", "clash")
  /\ UNCHANGED <<c, buffer, pausing, calls>>
ReadSize(t) ==
  /\ Runs(t, "size") /\ Goto(t, "index")
  /\ c' = [c EXCEPT !.key_buffer_size = 0]
  /\ g' = [g EXCEPT !.delivered = @ \o buffer[t]]
  /\ Bad(c.key_buffer_size # Len(buffer[t]) \/ add.at = "count", "clash")
  /\ UNCHANGED <<buffer, pausing, calls>>

ReadIndex(t) ==
  /\ Runs(t, "index") /\ Goto(t, "release")
  /\ c' = [c EXCEPT !.key_buffer_char_index = 0]
  /\ UNCHANGED <<buffer, pausing, g, hazard, calls>>

ReadRelease(t) ==
  /\ Runs(t, "release") /\ Goto(t, "user")
  /\ c' = [c EXCEPT !.reader_lock = FALSE]
  /\ UNCHANGED <<buffer, pausing, g, hazard, calls>>

console_interface_read(t) ==
  /\ \/ ReadTry(t) \/ ReadLast(t) \/ ReadTest(t) \/ ReadWait(t) \/ ReadArg(t) \/ ReadPause(t)
     \/ ReadResume(t) \/ ReadCopy(t) \/ ReadSize(t) \/ ReadIndex(t) \/ ReadRelease(t)
  /\ UNCHANGED <<add, irq, signalled, events>>

-----------------------------------------------------------------------------
(* console_interface_write and console_interface_close.                    *)

\* A write or a close starts; a write whose text asks for the cursor takes the lock again.
OutputCall(t) ==
  /\ \/ Call(t) /\ \E at \in {"w_acquire", "c_acquire"} : Goto(t, at)
     \/ Runs(t, "print") /\ (\E at \in {"r_acquire", "user"} : Goto(t, at)) /\ UNCHANGED calls
  /\ UNCHANGED <<c, add>>

OutputAcquire(t) ==
  /\ \E at \in {"w_acquire", "c_acquire", "r_acquire"} :
       /\ Runs(t, at)
       /\ Goto(t, [w_acquire |-> "w_last", c_acquire |-> "c_last", r_acquire |-> "report"][at])
       /\ add' = IF at = "r_acquire" THEN [at |-> "store", left |-> Report, thread |-> NULL]
                 ELSE add
  /\ c.key_handler_lock = NULL /\ c' = [c EXCEPT !.key_handler_lock = t]
  /\ UNCHANGED calls

OutputLast(t) ==
  /\ \/ /\ Runs(t, "w_last") /\ Goto(t, "print")
        /\ c' = [c EXCEPT !.last_thread_output = t, !.key_handler_lock = NULL]
     \/ /\ Runs(t, "c_last") /\ Goto(t, "user")
        /\ c' = [c EXCEPT !.last_thread_output = NULL, !.key_handler_lock = NULL]
  /\ UNCHANGED <<add, calls>>

console_interface_write(t) ==
  /\ OutputCall(t) \/ OutputAcquire(t) \/ OutputLast(t)
  /\ UNCHANGED <<irq, buffer, sched, g, hazard, events>>

-----------------------------------------------------------------------------
\* Nothing more happens: a hazard was met, or the bounds are used up.
Stopped ==
  /\ \/ hazard # "none"
     \/ /\ events = MaxEvents
        /\ calls = MaxCalls \/ \A t \in Threads : pc[t] = "dead" \/ t \in pausing
  /\ UNCHANGED vars

Next ==
  \/ Interrupt \/ key_handler \/ AddKey \/ Stopped
  \/ \E t \in Threads : \/ console_interface_read(t) \/ console_interface_write(t)
                        \/ scheduler_handle_signal(t)

\* The interrupt handler ends, and a thread that can run does: neither waits for anything
\* but a lock held for a few statements.  Keys and system calls need not come.
Spec ==
  /\ Init /\ [][Next]_vars
  /\ WF_vars(key_handler) /\ WF_vars(AddKey)
  /\ \A t \in Threads :
       /\ WF_vars(pc[t] # "user" /\ console_interface_read(t))
       /\ WF_vars(pc[t] # "user" /\ console_interface_write(t))

-----------------------------------------------------------------------------
(* Properties.                                                             *)

\* Every key that key_handler or a cursor report put in the buffer is handed to a reader
\* once and in order, or is still there, whatever comes between the reader's copy loop and
\* its resets (lines 131 to 137) short of a clash.
Delivery ==
  hazard = "none" =>
    g.delivered \o [i \in 1..c.key_buffer_size |-> c.key_buffer[i - 1]] =
      [i \in 1..g.accepted |-> i]

\* Two threads are inside console_interface_read (lines 120 to 141) only after Control-C
\* has released the lock over one of them: no other interleaving does it.
OneReader == Cardinality(Inside) > 1 => g.released

\* A thread in console_interface_read with a key in the buffer leaves it, by returning or
\* by its signal, unless its wake-up is missed in the way `hazard' names: the key came
\* between line 123 and the pause of line 125, or Control-C was meant for another thread.
ReadReturns ==
  \A t \in Threads :
    (pc[t] \in InRead /\ c.key_buffer_size > 0) ~> (pc[t] \notin InRead \/ hazard # "none")
=============================================================================
