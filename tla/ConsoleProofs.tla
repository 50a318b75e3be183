---------------------------- MODULE ConsoleProofs ----------------------------
(***************************************************************************)
(* Readers of the console exclude each other and lose no key, for any size *)
(* of the buffer, any threads and any number of keys, as long as none of   *)
(* the situations `hazard' names has been met.                             *)
(*                                                                         *)
(* The keys a reader can see are those numbered from the last delivered    *)
(* one on.  A reader's copy is the beginning of them, whatever the handler *)
(* adds meanwhile, because no other reader resets the buffer under it: the *)
(* two properties are proved together.                                     *)
(***************************************************************************)
EXTENDS Console, FiniteSetTheorems, SequenceTheorems, TLAPS

\* The number of the last key that a reader has taken.
Taken == g.accepted - c.key_buffer_size

Upto(n) == [i \in 1..n |-> i]

ThreadOrNull == Threads \cup {NULL}
Variables ==
  [key_buffer : [Where -> Nat], key_buffer_char_index : Nat, key_buffer_size : Where,
   waiting_thread_for_input : ThreadOrNull, reader_lock : BOOLEAN,
   last_thread_output : ThreadOrNull, key_handler_lock : ThreadOrNull \cup {"irq"},
   crtl_key_is_pressed : BOOLEAN]

Points == {"user", "w_acquire", "c_acquire", "r_acquire", "w_last", "c_last", "print", "report",
           "dead"} \cup InRead
AddPoints == {"none", "store", "count", "test", "clear", "unpause", "next"}
IrqPoints == {"none", "acquire", "dispatch", "add", "forget", "abandon", "free"}

Additions == [at : AddPoints, left : Int, thread : ThreadOrNull]
Interrupts == [at : IrqPoints, key : Events \cup {"other"}]
Counts == [accepted : Nat, delivered : Seq(Nat), released : BOOLEAN]

Types ==
  /\ c \in Variables /\ add \in Additions /\ irq \in Interrupts /\ g \in Counts
  /\ pc \in [Threads -> Points] /\ buffer \in [Threads -> Seq(Nat)]

\* One thread is inside console_interface_read, and holds the lock unless Control-C took it.
Excludes ==
  /\ \A t, u \in Inside : t # u => g.released
  /\ \A t \in Inside : c.reader_lock \/ g.released
  /\ hazard = "none" => \A t, u \in Inside : t = u

\* The buffer holds the keys after the last one taken, and a key half added is the next.
Holds ==
  /\ c.key_buffer_size <= g.accepted /\ g.delivered = Upto(Taken)
  /\ \A i \in 0..(c.key_buffer_size - 1) : c.key_buffer[i] = Taken + i + 1
  /\ add.at = "count" => /\ c.key_buffer_size < KEY_BUFFER_SIZE
                         /\ c.key_buffer[c.key_buffer_size] = g.accepted + 1

\* A reader has copied the first of them.
Copies ==
  \A t \in Threads : pc[t] \in {"copy", "size"} =>
    /\ Len(buffer[t]) <= c.key_buffer_size
    /\ \A j \in 1..Len(buffer[t]) : buffer[t][j] = Taken + j

Inv == Types /\ Excludes /\ (hazard = "none" => Holds /\ Copies)

-----------------------------------------------------------------------------
(* What the steps that leave the keys or the readers alone keep.           *)

\* A step that leaves the buffer and what was accepted, delivered and copied alone.
LEMMA KeysStay ==
  ASSUME hazard = "none" => Holds /\ Copies, hazard' = "none" => hazard = "none",
         c'.key_buffer = c.key_buffer, c'.key_buffer_size = c.key_buffer_size,
         g'.accepted = g.accepted, g'.delivered = g.delivered, buffer' = buffer,
         add'.at = "count" => add.at = "count",
         \A t \in Threads : pc'[t] \in {"copy", "size"} => pc[t] \in {"copy", "size"}
  PROVE  hazard' = "none" => Holds' /\ Copies'
<1>1. Taken' = Taken
  BY DEF Taken
<1> SUFFICES ASSUME hazard' = "none" PROVE Holds' /\ Copies'
  OBVIOUS
<1>2. Holds'
  BY <1>1 DEF Holds
<1>3. Copies'
  BY <1>1 DEF Copies
<1> QED BY <1>2, <1>3

\* A step on which no thread enters console_interface_read and the lock stays, or
\* Control-C is known to have released it.
LEMMA ReadersStay ==
  ASSUME Excludes, hazard' = "none" => hazard = "none",
         \A t \in Threads : pc'[t] \in InRead => pc[t] \in InRead,
         g.released => g'.released, c'.reader_lock = c.reader_lock \/ g'.released \/ Inside' = {}
  PROVE  Excludes'
<1>1. \A t \in Inside' : t \in Inside
  BY DEF Inside
<1> HIDE DEF Inside
<1> QED BY <1>1 DEF Excludes

-----------------------------------------------------------------------------
(* add_key_to_key_buffer.                                                  *)

\* A key is stored where the buffer ends: no key that a reader can see is overwritten.
LEMMA AddStoreKeeps ==
  ASSUME Inv, AddStore, UNCHANGED <<buffer, signalled, calls, events>>
  PROVE  Inv'
<1>1. /\ hazard = "none" /\ add.at = "store" /\ pc' = pc /\ g' = g /\ irq' = irq /\ buffer' = buffer
  BY DEF AddStore, AddAt
<1> USE DEF Inv
<1>2. CASE ~(c.key_buffer_size < KEY_BUFFER_SIZE /\ c.key_buffer_char_index = c.key_buffer_size)
  <2>0. c' = c
    BY <1>2, ConsoleAssumption DEF AddStore, Types, Variables, Where
  <2>1. add' = add \/ add' = [add EXCEPT !.at = "next"]
    BY <1>2, ConsoleAssumption DEF AddStore, AddGoto, Types, Variables, Where
  <2>2. add' \in Additions /\ add'.at # "count"
    BY <1>1, <2>1 DEF Types, Additions, AddPoints
  <2>3. Types'
    BY <1>1, <2>0, <2>2 DEF Types
  <2>4. Excludes'
    BY <1>1, <2>0, ReadersStay
  <2> QED BY <1>1, <2>0, <2>2, <2>3, <2>4, KeysStay
<1>3. CASE c.key_buffer_size < KEY_BUFFER_SIZE /\ c.key_buffer_char_index = c.key_buffer_size
  <2> DEFINE n == c.key_buffer_size
  <2>1. /\ n < KEY_BUFFER_SIZE /\ c.key_buffer_char_index = n /\ n # KEY_BUFFER_SIZE
        /\ add' = [add EXCEPT !.at = "count"] /\ hazard' = hazard
    BY <1>3, ConsoleAssumption DEF AddStore, AddGoto, Types, Variables, Where
  <2>a. c' = [c EXCEPT !.key_buffer[c.key_buffer_char_index] = g.accepted + 1,
                       !.key_buffer[c.key_buffer_char_index + 1] = 0,
                       !.key_buffer_char_index = @ + 1]
    BY Zenon, <1>3, <2>1 DEF AddStore
  <2>b. c' = [c EXCEPT !.key_buffer = [[@ EXCEPT ![n] = g.accepted + 1] EXCEPT ![n + 1] = 0],
                       !.key_buffer_char_index = @ + 1]
    BY <2>1, <2>a DEF Types, Variables
  <2>2. n \in Nat /\ n \in Where /\ n + 1 \in Where /\ n + 1 # n
    BY <2>1, ConsoleAssumption DEF Types, Variables, Where
  <2>3. /\ c'.key_buffer_size = n /\ c'.reader_lock = c.reader_lock
        /\ c'.key_buffer = [[c.key_buffer EXCEPT ![n] = g.accepted + 1] EXCEPT ![n + 1] = 0]
    BY <2>b DEF Types, Variables
  <2>4. Types'
    <3>1. c' \in Variables
      <4> DEFINE b == [[c.key_buffer EXCEPT ![n] = g.accepted + 1] EXCEPT ![n + 1] = 0]
      <4>1. b \in [Where -> Nat] /\ n + 1 \in Nat
        BY <2>2 DEF Types, Variables, Counts
      <4>2. c' = [c EXCEPT !.key_buffer = b, !.key_buffer_char_index = n + 1]
        BY Zenon, <2>1, <2>b
      <4> HIDE DEF b
      <4> QED BY <4>1, <4>2 DEF Types, Variables
    <3>2. add' \in Additions
      BY <2>1 DEF Types, Additions, AddPoints
    <3> QED BY <1>1, <3>1, <3>2 DEF Types
  <2>5. Excludes'
    BY <1>1, <2>1, <2>3, ReadersStay
  <2>6. Holds /\ Copies
    BY <1>1
  <2>7. Taken' = Taken
    BY <1>1, <2>3 DEF Taken
  <2>8. Holds'
    <3>1. \A i \in 0..(n - 1) : c'.key_buffer[i] = c.key_buffer[i]
      BY <2>2, <2>3, <2>1, ConsoleAssumption DEF Types, Variables, Where
    <3>2. c'.key_buffer[n] = g.accepted + 1
      BY <2>2, <2>3 DEF Types, Variables
    <3> QED BY <1>1, <2>1, <2>3, <2>6, <2>7, <3>1, <3>2 DEF Holds
  <2>9. Copies'
    BY <1>1, <2>3, <2>6, <2>7 DEF Copies
  <2> QED BY <2>4, <2>5, <2>8, <2>9
<1> QED BY <1>2, <1>3

\* Counting it makes it the last of the keys a reader can see.
LEMMA AddCountKeeps ==
  ASSUME Inv, AddCount, UNCHANGED <<buffer, signalled, calls, events>>
  PROVE  Inv'
<1> DEFINE n == c.key_buffer_size
<1>1. /\ hazard = "none" /\ add.at = "count" /\ pc' = pc /\ irq' = irq /\ buffer' = buffer
      /\ c' = [c EXCEPT !.key_buffer_size = @ + 1] /\ g' = [g EXCEPT !.accepted = @ + 1]
      /\ add' = [add EXCEPT !.at = "test"] /\ hazard' = hazard
  BY DEF AddCount, AddAt, AddGoto
<1>2. Holds /\ Copies /\ Types /\ Excludes
  BY <1>1 DEF Inv
<1>3. /\ n < KEY_BUFFER_SIZE /\ n \in Nat /\ g.accepted \in Nat /\ n + 1 \in Where
      /\ c.key_buffer[n] = g.accepted + 1
  BY <1>1, <1>2, ConsoleAssumption DEF Holds, Types, Variables, Where, Counts
<1>4. /\ c'.key_buffer_size = n + 1 /\ c'.key_buffer = c.key_buffer /\ c'.reader_lock = c.reader_lock
      /\ g'.accepted = g.accepted + 1 /\ g'.delivered = g.delivered /\ g'.released = g.released
      /\ add'.at = "test"
  BY <1>1, <1>2 DEF Types, Variables, Additions, Counts
<1>5. Types'
  <2>1. c' \in Variables
    BY <1>1, <1>2, <1>3 DEF Types, Variables
  <2>2. add' \in Additions
    BY <1>1, <1>2 DEF Types, Additions, AddPoints
  <2>3. g' \in Counts
    <3> DEFINE m == g.accepted + 1
    <3>1. m \in Nat /\ g' = [g EXCEPT !.accepted = m] /\ g \in Counts
      BY <1>1, <1>2, <1>3 DEF Types
    <3> HIDE DEF m
    <3> QED BY Zenon, <3>1 DEF Counts
  <2> QED BY <1>1, <1>2, <2>1, <2>2, <2>3 DEF Types
<1>6. Excludes'
  BY <1>1, <1>2, <1>4, ReadersStay
<1>7. Taken' = Taken /\ Taken \in Int
  BY <1>3, <1>4 DEF Taken
<1>8. Holds'
  <2>1. \A i \in 0..n : c.key_buffer[i] = Taken + i + 1
    BY <1>2, <1>3 DEF Holds, Taken
  <2> QED BY <1>2, <1>3, <1>4, <1>7, <2>1 DEF Holds
<1>9. Copies'
  BY <1>1, <1>2, <1>3, <1>4, <1>7 DEF Copies, Types
<1> QED BY <1>5, <1>6, <1>8, <1>9 DEF Inv

\* A step that does neither, and moves no thread into console_interface_read or its loop.
LEMMA Calm ==
  ASSUME Inv, Types', hazard' = "none" => hazard = "none",
         c'.key_buffer = c.key_buffer, c'.key_buffer_size = c.key_buffer_size,
         c'.reader_lock = c.reader_lock, g' = g, buffer' = buffer,
         add'.at = "count" => add.at = "count",
         \A t \in Threads : /\ pc'[t] \in InRead => pc[t] \in InRead
                            /\ pc'[t] \in {"copy", "size"} => pc[t] \in {"copy", "size"}
  PROVE  Inv'
<1>1. Excludes'
  BY ReadersStay DEF Inv
<1>2. hazard' = "none" => Holds' /\ Copies'
  BY KeysStay DEF Inv
<1> QED BY <1>1, <1>2 DEF Inv

\* The waiting reader is woken, and the loop goes round or the lock is released.
LEMMA AddOthersKeep ==
  ASSUME Inv, AddTest \/ AddClear \/ AddUnpause \/ AddNext,
         UNCHANGED <<buffer, signalled, calls, events>>
  PROVE  Inv'
<1>1. /\ g' = g /\ buffer' = buffer /\ Types /\ hazard = "none"
  BY DEF AddTest, AddClear, AddUnpause, AddNext, Inv, AddAt
<1>2. add' \in Additions /\ add'.at # "count"
  <2>1. CASE AddTest
    <3>1. /\ c.waiting_thread_for_input \in ThreadOrNull
          /\ \E a \in {"clear", "next"} :
               add' = [add EXCEPT !.at = a, !.thread = c.waiting_thread_for_input]
      BY <1>1, <2>1 DEF AddTest, Types, Variables
    <3> QED BY <1>1, <3>1 DEF Types, Additions, AddPoints
  <2>2. CASE AddClear \/ AddUnpause
    BY <1>1, <2>2 DEF AddClear, AddUnpause, AddGoto, Types, Additions, AddPoints
  <2>3. CASE AddNext
    <3>1. CASE add.left > 1
      <4> DEFINE n == add.left - 1
      <4>1. n \in Int /\ add' = [add EXCEPT !.at = "store", !.left = n] /\ add \in Additions
        BY <1>1, <2>3, <3>1 DEF AddNext, Types, Additions
      <4> HIDE DEF n
      <4> QED BY <4>1 DEF Additions, AddPoints
    <3>2. CASE ~(add.left > 1)
      <4>1. add' = [at |-> "none", left |-> 0, thread |-> NULL]
        BY Zenon, <2>3, <3>2 DEF AddNext
      <4> QED BY <4>1 DEF Additions, AddPoints, ThreadOrNull
    <3> QED BY <3>1, <3>2
  <2> QED BY <2>1, <2>2, <2>3
<1>3. c' \in Variables
  BY <1>1 DEF AddTest, AddClear, AddUnpause, AddNext, Types, Variables, ThreadOrNull
<1>4. /\ c'.key_buffer = c.key_buffer /\ c'.key_buffer_size = c.key_buffer_size
      /\ c'.reader_lock = c.reader_lock
  BY <1>1 DEF AddTest, AddClear, AddUnpause, AddNext, Types, Variables
<1>5. irq' \in Interrupts
  BY <1>1 DEF AddTest, AddClear, AddUnpause, AddNext, Types, Interrupts, IrqPoints
<1>6. \/ pc' = pc
      \/ pc' = [pc EXCEPT ![c.key_handler_lock] = "user"]
  BY DEF AddTest, AddClear, AddUnpause, AddNext, Goto
<1>7. /\ pc' \in [Threads -> Points]
      /\ \A t \in Threads : pc'[t] \in {pc[t], "user"}
  BY <1>1, <1>6 DEF Types, Points
<1>8. Types'
  BY <1>1, <1>2, <1>3, <1>5, <1>7 DEF Types
<1> QED BY <1>1, <1>2, <1>4, <1>7, <1>8, Calm DEF InRead

-----------------------------------------------------------------------------
(* key_handler.                                                            *)

\* A key interrupt that begins touches neither the buffer nor the readers.
LEMMA InterruptKeeps ==
  ASSUME Inv, Interrupt
  PROVE  Inv'
<1>1. /\ c' = c /\ add' = add /\ pc' = pc /\ buffer' = buffer /\ g' = g /\ hazard' = hazard /\ Types
      /\ \E k \in Events : irq' = [at |-> "acquire", key |-> k]
  BY DEF Interrupt, threads, Inv
<1>2. Types'
  BY <1>1 DEF Types, Interrupts, IrqPoints
<1> QED BY <1>1, <1>2, Calm

\* Until Control-C ends, the handler changes nothing that readers rely on.
LEMMA HandlerKeeps ==
  ASSUME Inv, KeyAcquire \/ KeyDispatch \/ KeyForget \/ KeyAbandon \/ Panic,
         UNCHANGED <<threads, calls, events>>
  PROVE  Inv'
<1>1. /\ g' = g /\ buffer' = buffer /\ pc' = pc /\ Types /\ hazard = "none"
  BY DEF KeyAcquire, KeyDispatch, KeyForget, KeyAbandon, Panic, Inv, IrqAt, threads
<1>2. irq' \in Interrupts
  BY <1>1 DEF KeyAcquire, KeyDispatch, KeyForget, KeyAbandon, Panic, IrqGoto, Types, Interrupts,
     IrqPoints
<1>3. add' \in Additions /\ (add'.at = "count" => add.at = "count")
  BY <1>1 DEF KeyAcquire, KeyDispatch, KeyForget, KeyAbandon, Panic, Types, Additions, AddPoints,
     ThreadOrNull
<1>4. c' \in Variables
  BY <1>1 DEF KeyAcquire, KeyDispatch, KeyForget, KeyAbandon, Panic, Types, Variables, ThreadOrNull
<1>5. /\ c'.key_buffer = c.key_buffer /\ c'.key_buffer_size = c.key_buffer_size
      /\ c'.reader_lock = c.reader_lock
  BY <1>1 DEF KeyAcquire, KeyDispatch, KeyForget, KeyAbandon, Panic, Types, Variables
<1>6. Types'
  BY <1>1, <1>2, <1>3, <1>4 DEF Types
<1> QED BY <1>1, <1>3, <1>5, <1>6, Calm

\* Control-C's last step releases the readers' lock, and says so when a thread is inside.
LEMMA KeyFreeKeeps ==
  ASSUME Inv, KeyFree, UNCHANGED <<threads, calls, events>>
  PROVE  Inv'
<1>1. /\ c' = [c EXCEPT !.reader_lock = FALSE, !.key_handler_lock = NULL]
      /\ g' = [g EXCEPT !.released = @ \/ Inside # {}] /\ irq' = [irq EXCEPT !.at = "none"]
      /\ add' = add /\ pc' = pc /\ buffer' = buffer /\ hazard' = hazard /\ Types /\ Excludes
  BY DEF KeyFree, IrqGoto, threads, Inv
<1>2. c' \in Variables /\ irq' \in Interrupts
  BY <1>1 DEF Types, Variables, ThreadOrNull, Interrupts, IrqPoints
<1>3. c'.key_buffer = c.key_buffer /\ c'.key_buffer_size = c.key_buffer_size
  BY <1>1 DEF Types, Variables
<1>4. g' \in Counts /\ g'.accepted = g.accepted /\ g'.delivered = g.delivered
      /\ g'.released = (g.released \/ Inside # {})
  BY Zenon, <1>1 DEF Types, Counts
<1>5. Types'
  BY <1>1, <1>2, <1>4 DEF Types
<1>6. Inside' = Inside
  BY <1>1 DEF Inside
<1>7. Excludes'
  BY <1>1, <1>4, <1>6, ReadersStay
<1>8. hazard' = "none" => Holds' /\ Copies'
  BY <1>1, <1>3, <1>4, KeysStay DEF Inv
<1> QED BY <1>5, <1>7, <1>8 DEF Inv

-----------------------------------------------------------------------------
(* console_interface_read.                                                 *)

\* A thread enters with the lock, which no thread inside had, or only one that lost it.
LEMMA ReadTryKeeps ==
  ASSUME Inv, NEW t \in Threads, ReadTry(t), UNCHANGED <<add, irq, signalled, events>>
  PROVE  Inv'
<1>1. /\ hazard = "none" /\ pc[t] = "user" /\ buffer' = buffer /\ g' = g /\ add' = add /\ irq' = irq
      /\ Types /\ Excludes
  BY DEF ReadTry, Call, Runs, Inv
<1>2. CASE c' = c /\ pc' = pc /\ hazard' = hazard
  <2>1. Types'
    BY <1>1, <1>2 DEF Types
  <2> QED BY <1>1, <1>2, <2>1, Calm
<1>3. CASE /\ ~c.reader_lock /\ c' = [c EXCEPT !.reader_lock = TRUE] /\ pc' = [pc EXCEPT ![t] = "last"]
           /\ hazard' = IF Inside # {} THEN "two" ELSE hazard
  <2>1. /\ c' \in Variables /\ c'.key_buffer = c.key_buffer /\ c'.key_buffer_size = c.key_buffer_size
        /\ c'.reader_lock
    BY <1>1, <1>3 DEF Types, Variables
  <2>2. Types'
    BY <1>1, <1>3, <2>1 DEF Types, Points, InRead
  <2>3. /\ \A u \in Threads : pc'[u] = IF u = t THEN "last" ELSE pc[u]
        /\ \A u \in Inside' : u = t \/ u \in Inside
    BY <1>1, <1>3 DEF Types, Inside
  <2>4. Excludes'
    <3> HIDE DEF Inside
    <3>1. Inside # {} => g.released
      BY <1>1, <1>3 DEF Excludes
    <3>2. hazard' = "none" => Inside = {}
      BY <1>3
    <3> QED BY <1>1, <2>1, <2>3, <3>1, <3>2 DEF Excludes
  <2>5. hazard' = "none" => Holds' /\ Copies'
    BY <1>1, <1>3, <2>1, <2>3, KeysStay DEF Inv
  <2> QED BY <2>2, <2>4, <2>5 DEF Inv
<1> QED BY <1>2, <1>3 DEF ReadTry, Goto, Bad

\* The steps before the loop, and between the two resets, change no key.
LEMMA ReadWaitsKeep ==
  ASSUME Inv, NEW t \in Threads, UNCHANGED <<add, irq, signalled, events>>,
         ReadLast(t) \/ ReadWait(t) \/ ReadArg(t) \/ ReadPause(t) \/ ReadIndex(t)
  PROVE  Inv'
<1>1. /\ hazard = "none" /\ pc[t] \in InRead /\ buffer' = buffer /\ g' = g /\ add' = add /\ irq' = irq
      /\ Types
  BY DEF ReadLast, ReadWait, ReadArg, ReadPause, ReadIndex, Runs, Inv, InRead
<1>2. PICK p \in {"test", "arg", "pause", "paused", "release"} : pc' = [pc EXCEPT ![t] = p]
  BY DEF ReadLast, ReadWait, ReadArg, ReadPause, ReadIndex, Goto
<1>3. /\ c' \in Variables /\ c'.key_buffer = c.key_buffer /\ c'.key_buffer_size = c.key_buffer_size
      /\ c'.reader_lock = c.reader_lock
  <2>1. CASE c' = c
    BY <1>1, <2>1 DEF Types
  <2>2. CASE \/ c' = [c EXCEPT !.last_thread_output = t]
             \/ c' = [c EXCEPT !.waiting_thread_for_input = t]
    BY <1>1, <2>2 DEF Types, Variables, ThreadOrNull
  <2>3. CASE c' = [c EXCEPT !.key_buffer_char_index = 0]
    BY <1>1, <2>3 DEF Types, Variables
  <2> QED BY Zenon, <2>1, <2>2, <2>3 DEF ReadLast, ReadWait, ReadArg, ReadPause, ReadIndex
<1>4. \A u \in Threads : pc'[u] = IF u = t THEN p ELSE pc[u]
  BY <1>1, <1>2 DEF Types
<1>5. Types'
  BY <1>1, <1>2, <1>3 DEF Types, Points, InRead
<1> QED BY <1>1, <1>3, <1>4, <1>5, Calm

\* A reader that leaves gives the lock back: nobody else is inside, or Control-C released it.
LEMMA ReadReleaseKeeps ==
  ASSUME Inv, NEW t \in Threads, ReadRelease(t), UNCHANGED <<add, irq, signalled, events>>
  PROVE  Inv'
<1>1. /\ hazard = "none" /\ pc[t] = "release" /\ buffer' = buffer /\ g' = g /\ add' = add /\ irq' = irq
      /\ pc' = [pc EXCEPT ![t] = "user"] /\ c' = [c EXCEPT !.reader_lock = FALSE]
      /\ hazard' = hazard /\ Types /\ Excludes
  BY DEF ReadRelease, Runs, Goto, Inv
<1>2. /\ c' \in Variables /\ c'.key_buffer = c.key_buffer /\ c'.key_buffer_size = c.key_buffer_size
  BY <1>1 DEF Types, Variables
<1>3. Types'
  BY <1>1, <1>2 DEF Types, Points
<1>4. \A u \in Threads : pc'[u] = IF u = t THEN "user" ELSE pc[u]
  BY <1>1 DEF Types
<1>5. Inside' = {}
  <2>1. \A u \in Inside' : u \in Inside /\ u # t
    BY <1>4 DEF Inside, InRead
  <2>2. t \in Inside
    BY <1>1 DEF Inside, InRead
  <2> HIDE DEF Inside
  <2> QED BY <1>1, <2>1, <2>2 DEF Excludes
<1>6. Excludes'
  BY <1>1, <1>4, <1>5, ReadersStay DEF InRead
<1>7. hazard' = "none" => Holds' /\ Copies'
  BY <1>1, <1>2, <1>4, KeysStay DEF Inv
<1> QED BY <1>3, <1>6, <1>7 DEF Inv

\* A reader finds keys, or wakes up, and starts to copy.
LEMMA ReadStartKeeps ==
  ASSUME Inv, NEW t \in Threads, ReadTest(t) \/ ReadResume(t),
         UNCHANGED <<add, irq, signalled, events>>
  PROVE  Inv'
<1>1. /\ hazard = "none" /\ pc[t] \in InRead /\ c' = c /\ g' = g /\ add' = add /\ irq' = irq
      /\ hazard' = hazard /\ Types /\ Excludes /\ Holds /\ Copies
  BY DEF ReadTest, ReadResume, Runs, Inv, InRead
<1>2. \/ pc' = [pc EXCEPT ![t] = "wait"] /\ buffer' = buffer
      \/ pc' = [pc EXCEPT ![t] = "copy"] /\ buffer' = [buffer EXCEPT ![t] = <<>>]
  BY DEF ReadTest, ReadResume, Goto, StartCopy
<1>3. /\ \A u \in Threads : u # t => pc'[u] = pc[u] /\ buffer'[u] = buffer[u]
      /\ pc'[t] = "wait" \/ (pc'[t] = "copy" /\ buffer'[t] = <<>>)
  BY <1>1, <1>2 DEF Types
<1>4. Types'
  <2>1. <<>> \in Seq(Nat)
    OBVIOUS
  <2>2. buffer' \in [Threads -> Seq(Nat)]
    BY Zenon, <1>1, <1>2, <2>1 DEF Types
  <2>3. pc' \in [Threads -> Points]
    BY <1>1, <1>2 DEF Types, Points, InRead
  <2> QED BY <1>1, <2>2, <2>3 DEF Types
<1>5. Excludes'
  BY <1>1, <1>3, ReadersStay
<1>6. Holds'
  BY <1>1 DEF Holds, Taken
<1>7. Copies'
  <2>1. Taken' = Taken /\ c.key_buffer_size \in Nat
    BY <1>1, ConsoleAssumption DEF Taken, Types, Variables, Where
  <2> QED BY <1>1, <1>3, <2>1 DEF Copies
<1> QED BY <1>4, <1>5, <1>6, <1>7 DEF Inv

\* The loop copies the next key, or ends when it has as many as the buffer holds now.
LEMMA ReadCopyKeeps ==
  ASSUME Inv, NEW t \in Threads, ReadCopy(t), UNCHANGED <<add, irq, signalled, events>>
  PROVE  Inv'
<1>1. /\ hazard = "none" /\ pc[t] = "copy" /\ c' = c /\ g' = g /\ add' = add /\ irq' = irq
      /\ hazard' = hazard /\ Types /\ Excludes /\ Holds /\ Copies
  BY DEF ReadCopy, Runs, Inv
<1>2. CASE pc' = [pc EXCEPT ![t] = "size"] /\ buffer' = buffer
  <2>1. Types'
    BY <1>1, <1>2 DEF Types, Points, InRead
  <2>2. \A u \in Threads : pc'[u] = IF u = t THEN "size" ELSE pc[u]
    BY <1>1, <1>2 DEF Types
  <2> QED BY <1>1, <1>2, <2>1, <2>2, Calm DEF InRead
<1>3. CASE /\ Len(buffer[t]) < c.key_buffer_size /\ pc' = pc
           /\ buffer' = [buffer EXCEPT ![t] = Append(@, c.key_buffer[Len(@)])]
  <2> DEFINE b == buffer[t]
             m == Len(b)
             d == Append(b, c.key_buffer[m])
  <2>1. b \in Seq(Nat) /\ m \in Nat /\ m \in Where /\ c.key_buffer_size \in Nat /\ m < c.key_buffer_size
    BY <1>1, <1>3, ConsoleAssumption DEF Types, Variables, Where
  <2>2. c.key_buffer[m] \in Nat /\ c.key_buffer[m] = Taken + m + 1 /\ Taken \in Int
    BY <1>1, <2>1 DEF Holds, Taken, Types, Variables, Counts
  <2>3. /\ d \in Seq(Nat) /\ Len(d) = m + 1 /\ d[m + 1] = Taken + m + 1
        /\ \A j \in 1..m : d[j] = b[j]
    BY <2>1, <2>2
  <2>4. /\ \A u \in Threads : u # t => buffer'[u] = buffer[u]
        /\ buffer'[t] = d /\ buffer' \in [Threads -> Seq(Nat)]
    BY <1>1, <1>3, <2>3 DEF Types
  <2> HIDE DEF d
  <2>5. Types'
    BY <1>1, <1>3, <2>4 DEF Types
  <2>6. Excludes'
    BY <1>1, <1>3, ReadersStay
  <2>7. Holds'
    BY <1>1 DEF Holds, Taken
  <2>8. Copies'
    <3>1. \A j \in 1..m : b[j] = Taken + j
      BY <1>1 DEF Copies
    <3>2. \A j \in 1..(m + 1) : d[j] = Taken + j
      <4> HIDE DEF b, m
      <4> TAKE j \in 1..(m + 1)
      <4>1. j = m + 1 \/ j \in 1..m
        BY <2>1
      <4>2. Taken + (m + 1) = Taken + m + 1
        BY <2>1, <2>2
      <4> QED BY Zenon, <2>3, <3>1, <4>1, <4>2
    <3>3. Taken' = Taken
      BY <1>1 DEF Taken
    <3>4. ASSUME NEW u \in Threads, pc'[u] \in {"copy", "size"}
          PROVE  /\ Len(buffer'[u]) <= c'.key_buffer_size
                 /\ \A j \in 1..Len(buffer'[u]) : buffer'[u][j] = Taken' + j
      <4>1. CASE u = t
        BY <1>1, <2>1, <2>3, <2>4, <3>2, <3>3, <4>1
      <4>2. CASE u # t
        BY <1>1, <1>3, <2>4, <3>3, <3>4, <4>2 DEF Copies
      <4> QED BY <4>1, <4>2
    <3> QED BY <3>4 DEF Copies
  <2> QED BY <2>5, <2>6, <2>7, <2>8 DEF Inv
<1> QED BY <1>2, <1>3 DEF ReadCopy, Goto

\* Numbers that follow each other make one sequence.
LEMMA Follow ==
  ASSUME NEW k \in Nat, NEW n \in Nat, NEW b \in Seq(Nat), Len(b) = n, \A j \in 1..n : b[j] = k + j
  PROVE  Upto(k) \o b = Upto(k + n)
<1>1. Upto(k) \in Seq(Nat) /\ Len(Upto(k)) = k /\ Upto(k + n) \in Seq(Nat) /\ Len(Upto(k + n)) = k + n
  BY DEF Upto
<1> DEFINE u == Upto(k)
           w == Upto(k + n)
<1>2. /\ u \o b \in Seq(Nat) /\ Len(u \o b) = k + n
      /\ \A i \in 1..(k + n) : (u \o b)[i] = IF i <= k THEN u[i] ELSE b[i - k]
  <2> HIDE DEF u
  <2>1. /\ u \o b \in Seq(Nat) /\ Len(u \o b) = Len(u) + Len(b)
        /\ \A i \in 1..Len(u) + Len(b) : (u \o b)[i] = IF i <= Len(u) THEN u[i] ELSE b[i - Len(u)]
    BY <1>1, ConcatProperties, Zenon DEF u
  <2> QED BY Zenon, <1>1, <2>1 DEF u
<1>3. /\ \A i \in 1..k : u[i] = i
      /\ \A i \in 1..(k + n) : w[i] = i
  BY DEF Upto
<1> HIDE DEF u, w
<1>4. ASSUME NEW i \in 1..(k + n) PROVE (u \o b)[i] = w[i]
  <2>1. CASE i <= k
    BY <1>2, <1>3, <2>1
  <2>2. CASE i > k
    <3>1. i - k \in 1..n /\ k + (i - k) = i /\ ~(i <= k)
      BY <2>2
    <3>2. (u \o b)[i] = b[i - k]
      BY <1>2, <2>2
    <3>3. b[i - k] = k + (i - k)
      BY Zenon, <3>1
    <3> QED BY Zenon, <1>3, <3>1, <3>2, <3>3
  <2>3. i <= k \/ i > k
    OBVIOUS
  <2> QED BY Zenon, <2>1, <2>2, <2>3
<1> QED BY Zenon, <1>1, <1>2, <1>4, SeqEqual DEF u, w

\* The reader takes what it copied and empties the buffer: these are the same keys unless
\* one came since its last look, or is half added, which is a clash.
LEMMA ReadSizeKeeps ==
  ASSUME Inv, NEW t \in Threads, ReadSize(t), UNCHANGED <<add, irq, signalled, events>>
  PROVE  Inv'
<1> DEFINE n == c.key_buffer_size
           b == buffer[t]
<1>1. /\ hazard = "none" /\ pc[t] = "size" /\ pc' = [pc EXCEPT ![t] = "index"]
      /\ c' = [c EXCEPT !.key_buffer_size = 0] /\ g' = [g EXCEPT !.delivered = @ \o b]
      /\ hazard' = (IF n # Len(b) \/ add.at = "count" THEN "clash" ELSE hazard)
      /\ add' = add /\ irq' = irq /\ buffer' = buffer
      /\ Types /\ Excludes /\ Holds /\ Copies
  BY DEF ReadSize, Runs, Goto, Bad, Inv
<1>2. \A u \in Threads : pc'[u] = IF u = t THEN "index" ELSE pc[u]
  BY <1>1 DEF Types
<1>3. /\ c' \in Variables /\ c'.key_buffer = c.key_buffer /\ c'.key_buffer_size = 0
      /\ c'.reader_lock = c.reader_lock
  <2>1. 0 \in Where
    BY ConsoleAssumption DEF Where
  <2> QED BY <1>1, <2>1 DEF Types, Variables
<1>4. b \in Seq(Nat) /\ g.delivered \in Seq(Nat) /\ g.accepted \in Nat /\ n \in Nat /\ n <= g.accepted
  BY <1>1, ConsoleAssumption DEF Types, Counts, Holds, Variables, Where
<1>5. /\ g' \in Counts /\ g'.accepted = g.accepted /\ g'.delivered = g.delivered \o b
      /\ g'.released = g.released
  <2>1. g.delivered \o b \in Seq(Nat)
    BY <1>4
  <2> QED BY Zenon, <1>1, <2>1 DEF Types, Counts
<1>6. Types'
  BY <1>1, <1>3, <1>5 DEF Types, Points, InRead
<1>7. Excludes'
  BY <1>1, <1>2, <1>3, <1>5, ReadersStay DEF InRead
<1>8. ASSUME hazard' = "none" PROVE Holds' /\ Copies'
  <2>1. Len(b) = n /\ add.at # "count"
    BY <1>1, <1>8
  <2>2. Taken \in Nat /\ Taken + n = g.accepted /\ g.delivered = Upto(Taken)
    BY <1>1, <1>4 DEF Taken, Holds
  <2>3. \A j \in 1..n : b[j] = Taken + j
    BY <1>1, <2>1 DEF Copies
  <2>4. g.delivered \o b = Upto(g.accepted)
    <3> HIDE DEF b, n
    <3>1. Upto(Taken) \o b = Upto(Taken + n)
      BY <1>4, <2>1, <2>2, <2>3, Follow
    <3> QED BY Zenon, <2>2, <3>1
  <2>5. Taken' = g.accepted
    BY <1>3, <1>4, <1>5 DEF Taken
  <2>6. Holds'
    BY <1>1, <1>3, <1>4, <1>5, <2>1, <2>4, <2>5 DEF Holds
  <2>7. \A u \in Threads : pc'[u] \notin {"copy", "size"}
    <3>1. \A u, v \in Inside : u = v
      BY <1>1 DEF Excludes
    <3> QED BY <1>1, <1>2, <3>1 DEF Inside, InRead
  <2> QED BY <2>6, <2>7 DEF Copies
<1> QED BY <1>6, <1>7, <1>8 DEF Inv

\* The steps of console_interface_read, together.
LEMMA ReadKeeps ==
  ASSUME Inv, NEW t \in Threads, console_interface_read(t)
  PROVE  Inv'
<1>1. UNCHANGED <<add, irq, signalled, events>>
  BY Zenon DEF console_interface_read
<1> QED
  BY Zenon, <1>1, ReadTryKeeps, ReadWaitsKeep, ReadStartKeeps, ReadCopyKeeps, ReadSizeKeeps,
     ReadReleaseKeeps DEF console_interface_read

-----------------------------------------------------------------------------
(* Signals, writes and the whole.                                          *)

\* A thread that a signal ends leaves console_interface_read, with the lock taken.
LEMMA SignalKeeps ==
  ASSUME Inv, NEW t \in Threads, scheduler_handle_signal(t)
  PROVE  Inv'
<1>1. /\ hazard = "none" /\ c' = c /\ add' = add /\ irq' = irq /\ buffer' = buffer /\ g' = g /\ Types
      /\ pc' = pc \/ pc' = [pc EXCEPT ![t] = "dead"]
  BY DEF scheduler_handle_signal, Goto, Inv
<1>2. /\ pc' \in [Threads -> Points]
      /\ \A u \in Threads : pc'[u] \in {pc[u], "dead"}
  BY <1>1 DEF Types, Points
<1>3. Types'
  BY <1>1, <1>2 DEF Types
<1> QED BY <1>1, <1>2, <1>3, Calm DEF InRead

\* Writing and closing take and release key_handler_lock; a report is added like a key.
LEMMA WriteKeeps ==
  ASSUME Inv, NEW t \in Threads, console_interface_write(t)
  PROVE  Inv'
<1>1. /\ hazard = "none" /\ hazard' = hazard /\ irq' = irq /\ buffer' = buffer /\ g' = g /\ Types
  BY DEF console_interface_write, OutputCall, OutputAcquire, OutputLast, Call, Runs, Inv
<1>2. \E p \in {"w_acquire", "c_acquire", "r_acquire", "w_last", "c_last", "print", "report", "user"} :
        pc' = [pc EXCEPT ![t] = p]
  BY DEF console_interface_write, OutputCall, OutputAcquire, OutputLast, Goto
<1>3. /\ pc' \in [Threads -> Points]
      /\ \A u \in Threads : pc'[u] = pc[u] \/ pc'[u] \notin InRead
  BY <1>1, <1>2 DEF Types, Points, InRead
<1>4. add' = add \/ add' = [at |-> "store", left |-> Report, thread |-> NULL]
  BY Zenon DEF console_interface_write, OutputCall, OutputAcquire, OutputLast
<1>5. add' \in Additions /\ (add'.at = "count" => add.at = "count")
  BY <1>1, <1>4, ConsoleAssumption DEF Types, Additions, AddPoints, ThreadOrNull
<1>6. \/ c' = c
      \/ c' = [c EXCEPT !.key_handler_lock = t]
      \/ c' = [c EXCEPT !.last_thread_output = t, !.key_handler_lock = NULL]
      \/ c' = [c EXCEPT !.last_thread_output = NULL, !.key_handler_lock = NULL]
  BY Zenon DEF console_interface_write, OutputCall, OutputAcquire, OutputLast
<1>7. /\ c' \in Variables /\ c'.key_buffer = c.key_buffer /\ c'.key_buffer_size = c.key_buffer_size
      /\ c'.reader_lock = c.reader_lock
  BY <1>1, <1>6 DEF Types, Variables, ThreadOrNull
<1>8. Types'
  BY <1>1, <1>3, <1>5, <1>7 DEF Types
<1>9. \A u \in Threads : /\ pc'[u] \in InRead => pc[u] \in InRead
                         /\ pc'[u] \in {"copy", "size"} => pc[u] \in {"copy", "size"}
  BY <1>3 DEF InRead
<1> QED BY <1>1, <1>5, <1>7, <1>8, <1>9, Calm

\* The console starts with an empty buffer and nobody inside a read.
LEMMA InitInv == Init => Inv
<1> SUFFICES ASSUME Init PROVE Inv
  OBVIOUS
<1>1. /\ c.key_buffer = [i \in Where |-> 0] /\ c.key_buffer_size = 0 /\ c.reader_lock = FALSE
      /\ g.accepted = 0 /\ g.delivered = <<>> /\ g.released = FALSE /\ add.at = "none"
      /\ \A t \in Threads : pc[t] = "user"
  BY DEF Init
<1>2. Types
  <2>1. c \in Variables
    BY ConsoleAssumption DEF Init, Variables, ThreadOrNull, Where
  <2>2. add \in Additions /\ irq \in Interrupts /\ pc \in [Threads -> Points]
    BY DEF Init, Additions, AddPoints, ThreadOrNull, Interrupts, IrqPoints, Points
  <2>3. <<>> \in Seq(Nat)
    OBVIOUS
  <2>4. g \in Counts /\ buffer \in [Threads -> Seq(Nat)]
    BY <2>3 DEF Init, Counts
  <2> QED BY <2>1, <2>2, <2>4 DEF Types
<1>3. Inside = {}
  BY <1>1 DEF Inside, InRead
<1>4. Holds
  BY <1>1 DEF Holds, Taken, Upto
<1> QED BY <1>1, <1>2, <1>3, <1>4 DEF Inv, Excludes, Copies

\* Every step of the handlers and of the threads keeps the invariant.
LEMMA NextInv ==
  ASSUME Inv, [Next]_vars
  PROVE  Inv'
<1>1. ASSUME AddKey PROVE Inv'
  BY <1>1, AddStoreKeeps, AddCountKeeps, AddOthersKeep DEF AddKey
<1>2. ASSUME key_handler PROVE Inv'
  BY <1>2, HandlerKeeps, KeyFreeKeeps DEF key_handler
<1>3. ASSUME UNCHANGED vars PROVE Inv'
  BY <1>3 DEF vars, Inv, Types, Excludes, Holds, Copies, Inside, Taken
<1> QED
  BY Zenon, <1>1, <1>2, <1>3, InterruptKeeps, ReadKeeps, WriteKeeps, SignalKeeps DEF Next, Stopped

\* Every key accepted from the keyboard or a cursor report reaches a reader once and in
\* order, or is in the buffer, for a buffer of any size, any threads and any keys, until
\* one of the situations named by `hazard' is met.
THEOREM KeysDelivered == Spec => []Delivery
<1>1. Inv => Delivery
  <2> SUFFICES ASSUME Inv, hazard = "none"
               PROVE  g.delivered \o [i \in 1..c.key_buffer_size |-> c.key_buffer[i - 1]] =
                        [i \in 1..g.accepted |-> i]
    BY DEF Delivery
  <2> DEFINE n == c.key_buffer_size
             b == [i \in 1..n |-> c.key_buffer[i - 1]]
  <2>1. n \in Nat /\ g.accepted \in Nat /\ n <= g.accepted /\ Holds
    BY ConsoleAssumption DEF Inv, Types, Variables, Counts, Where, Holds
  <2>2. Taken \in Nat /\ Taken + n = g.accepted /\ g.delivered = Upto(Taken)
    BY <2>1 DEF Taken, Holds
  <2>3. \A j \in 1..n : c.key_buffer[j - 1] = Taken + j
    BY <2>1, <2>2 DEF Holds
  <2>4. b \in Seq(Nat) /\ Len(b) = n /\ \A j \in 1..n : b[j] = Taken + j
    <3>1. \A j \in 1..n : b[j] = Taken + j /\ b[j] \in Nat
      BY <2>1, <2>2, <2>3
    <3>2. b \in [1..n -> Nat]
      BY Zenon, <3>1
    <3> HIDE DEF b, n
    <3>3. b \in Seq(Nat) /\ Len(b) = n
      BY <2>1, <3>2
    <3> QED BY Zenon, <3>1, <3>3
  <2> HIDE DEF b, n
  <2>5. Upto(Taken) \o b = Upto(Taken + n)
    BY <2>1, <2>2, <2>4, Follow
  <2> QED BY Zenon, <2>2, <2>5 DEF Upto, b, n
<1> QED BY InitInv, NextInv, <1>1, PTL DEF Spec

\* Two threads are inside console_interface_read only after Control-C has released the
\* readers' lock over one of them.
THEOREM ReadersExclude == Spec => []OneReader
<1>1. Inv => OneReader
  <2> SUFFICES ASSUME Inv, ~g.released PROVE ~(Cardinality(Inside) > 1)
    BY DEF OneReader
  <2>1. \A t, u \in Inside : t = u
    BY DEF Inv, Excludes
  <2> HIDE DEF Inside
  <2>2. CASE Inside = {}
    BY <2>2, FS_EmptySet
  <2>3. ASSUME NEW t \in Inside PROVE ~(Cardinality(Inside) > 1)
    <3>1. Inside = {t}
      BY <2>1
    <3> QED BY <3>1, FS_Singleton
  <2> QED BY <2>2, <2>3
<1> QED BY InitInv, NextInv, <1>1, PTL DEF Spec
=============================================================================
