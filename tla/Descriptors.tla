----------------------------- MODULE Descriptors -----------------------------
(***************************************************************************)
(* File descriptors: global/resources.c and the system calls of            *)
(* global/syscall.c that fill and empty the tables, with the standard      *)
(* descriptors of global/exec.c, fork and exit.                            *)
(*                                                                         *)
(* A process has a table of MAX_DESCRIPTORS pointers to descriptor_t.      *)
(* Fork copies the pointers: parent and child share each descriptor_t, and *)
(* its is_parent flag, cleared then, tells close whether this is the only  *)
(* holder, which closes the file behind it and frees the descriptor_t.     *)
(* A process has one thread, so a system call is one step.                 *)
(***************************************************************************)
EXTENDS Integers, FiniteSets, TLC

CONSTANTS
  MAX_DESCRIPTORS,  \* entries of a table (256 in the code, the range of uint8_t)
  Procs,            \* process slots
  First,            \* the process create_exec starts
  Objs,             \* the memory of descriptor_t objects (bounds how many live at once)
  NULL              \* the null pointer

VARIABLES
  descriptors,         \* descriptors[p][i]: the pointer in entry i of p's table
  index_search_begin,  \* where p's search for a free entry starts
  obj,                 \* obj[o]: the descriptor_t at o, or NULL: not allocated
  open,                \* the files, directories and sockets that are open; the one
                       \* made for the descriptor_t at o is called o as well
  phase                \* "none", "run", "spin": in allocate_index for ever, "exited"

vars == <<descriptors, index_search_begin, obj, open, phase>>

Index == 0..(MAX_DESCRIPTORS - 1)
Kinds == {"file", "dir", "socket"}

ASSUME DescriptorsAssumption ==
  /\ MAX_DESCRIPTORS \in Nat /\ MAX_DESCRIPTORS >= 3
  /\ First \in Procs
  /\ NULL \notin Objs \cup [type : Kinds, data : Objs, is_parent : BOOLEAN]

-----------------------------------------------------------------------------
\* allocate_index: the entries its loop can return.  The loop variable is a uint8_t and
\* its bound 256, so that from index_search_begin it visits that entry and all after it,
\* wraps, and visits the others; with no free entry it never ends.
Searched(p) ==
  LET at_or_after == {i \in Index : descriptors[p][i] = NULL /\ i >= index_search_begin[p]}
      before == {i \in Index : descriptors[p][i] = NULL /\ i < index_search_begin[p]}
  IN  IF at_or_after # {} THEN at_or_after ELSE before

allocate_index(p) == CHOOSE i \in Searched(p) : \A j \in Searched(p) : i <= j

free_index(p, i) ==
  /\ descriptors' = [descriptors EXCEPT ![p][i] = NULL]
  /\ index_search_begin' =
       [index_search_begin EXCEPT ![p] = IF i < @ THEN i ELSE @]

\* A new descriptor_t at o for `data`, put in p's table by add_descriptor.
add_descriptor(p, o, type, data) ==
  IF Searched(p) = {}
  THEN /\ phase' = [phase EXCEPT ![p] = "spin"]
       /\ UNCHANGED <<descriptors, index_search_begin>>
       /\ obj' = [obj EXCEPT ![o] = [type |-> type, data |-> data, is_parent |-> FALSE]]
  ELSE /\ descriptors' = [descriptors EXCEPT ![p][allocate_index(p)] = o]
       /\ index_search_begin' = [index_search_begin EXCEPT ![p] = allocate_index(p)]
       /\ obj' = [obj EXCEPT ![o] = [type |-> type, data |-> data, is_parent |-> TRUE]]
       /\ UNCHANGED phase

\* create_exec: the first process starts with three descriptors of /dev/tty, which
\* create_std_file_descriptor asserts to be 0, 1 and 2 (std[i] is the i-th).
Init ==
  \E std \in [0..2 -> Objs] :
    /\ \A i, j \in 0..2 : i # j => std[i] # std[j]
    /\ descriptors = [p \in Procs |-> [i \in Index |->
                        IF p = First /\ i \in 0..2 THEN std[i] ELSE NULL]]
    /\ index_search_begin = [p \in Procs |-> IF p = First THEN 2 ELSE 0]
    /\ obj = [o \in Objs |-> IF \E i \in 0..2 : o = std[i]
                             THEN [type |-> "file", data |-> o, is_parent |-> TRUE] ELSE NULL]
    /\ open = {std[i] : i \in 0..2}
    /\ phase = [p \in Procs |-> IF p = First THEN "run" ELSE "none"]

\* open, socket and accept: the file, directory or socket exists by now.
Open(p, o, type) ==
  /\ phase[p] = "run" /\ obj[o] = NULL /\ type \in Kinds
  /\ open' = open \cup {o}
  /\ add_descriptor(p, o, type, o)

\* socketpair makes two sockets, s and o, and two descriptors, at s and at o; both are
\* given the first socket.  (Modelled when both calls of add_descriptor return.)
syscall_handler_socket_pair(p, s, o) ==
  LET free == {i \in Index : descriptors[p][i] = NULL}
      first == allocate_index(p)
  IN  /\ phase[p] = "run" /\ s # o /\ obj[s] = NULL /\ obj[o] = NULL
      /\ Cardinality(free) >= 2
      /\ \E second \in free \ {first} :
           /\ \A j \in free \ {first} : second <= j
           /\ descriptors' = [descriptors EXCEPT ![p][first] = s, ![p][second] = o]
           /\ index_search_begin' = [index_search_begin EXCEPT ![p] = second]
      /\ obj' = [obj EXCEPT ![s] = [type |-> "socket", data |-> s, is_parent |-> TRUE],
                            ![o] = [type |-> "socket", data |-> s, is_parent |-> TRUE]]
      /\ open' = open \cup {s, o}
      /\ UNCHANGED phase

\* close.  A directory is refused; a sole holder closes the file or socket, which may
\* report an error (ok = FALSE): the descriptor then stays.  The only sockets there are,
\* those of the net module, always report one: every case of socket_close_handler falls
\* through to `default: return EINVAL`.
socket_close_handler == FALSE
syscall_handler_close_Mutant(p, i, ok) ==   \* is_parent is not looked at
  LET o == descriptors[p][i]
  IN  /\ phase[p] = "run" /\ o # NULL /\ obj[o].type # "dir" /\ ok
      /\ free_index(p, i)
      /\ obj' = [obj EXCEPT ![o] = NULL]
      /\ open' = open \ {obj[o].data}
      /\ UNCHANGED phase
syscall_handler_close_Leak(p, i, ok) ==   \* the file is not closed
  LET o == descriptors[p][i]
  IN  /\ phase[p] = "run" /\ o # NULL /\ obj[o].type # "dir" /\ ok
      /\ free_index(p, i)
      /\ obj' = IF obj[o].is_parent THEN [obj EXCEPT ![o] = NULL] ELSE obj
      /\ UNCHANGED <<open, phase>>
syscall_handler_close(p, i, ok) ==
  LET o == descriptors[p][i]
  IN  /\ phase[p] = "run" /\ o # NULL
      /\ IF /\ obj[o].type # "dir"
            /\ obj[o].is_parent => IF obj[o].type = "socket" THEN socket_close_handler ELSE ok
         THEN /\ free_index(p, i)
              /\ obj' = IF obj[o].is_parent THEN [obj EXCEPT ![o] = NULL] ELSE obj
              /\ open' = IF obj[o].is_parent THEN open \ {obj[o].data} ELSE open
              /\ UNCHANGED phase
         ELSE UNCHANGED vars

\* copy_process_descriptors, in fork: the child's table is a copy, and the descriptors
\* it shares are no longer their holder's alone.
copy_process_descriptors_Mutant(p, q) ==   \* is_parent stays
  /\ phase[p] = "run" /\ phase[q] = "none"
  /\ descriptors' = [descriptors EXCEPT ![q] = descriptors[p]]
  /\ phase' = [phase EXCEPT ![q] = "run"]
  /\ UNCHANGED <<obj, open, index_search_begin>>
copy_process_descriptors(p, q) ==
  /\ phase[p] = "run" /\ phase[q] = "none"
  /\ descriptors' = [descriptors EXCEPT ![q] = descriptors[p]]
  /\ obj' = [o \in Objs |-> IF \E i \in Index : descriptors[p][i] = o
                            THEN [obj[o] EXCEPT !.is_parent = FALSE] ELSE obj[o]]
  /\ phase' = [phase EXCEPT ![q] = "run"]
  /\ UNCHANGED <<open, index_search_begin>>

\* exit: scheduler_free_process is a stub, the table is dropped as it is.
scheduler_exit_process(p) ==
  /\ phase[p] = "run"
  /\ phase' = [phase EXCEPT ![p] = "exited"]
  /\ UNCHANGED <<descriptors, index_search_begin, obj, open>>

Next ==
  \/ \E p \in Procs :
       \/ \E o \in Objs, type \in Kinds : Open(p, o, type)
       \/ \E s, o \in Objs : syscall_handler_socket_pair(p, s, o)
       \/ \E i \in Index, ok \in BOOLEAN : syscall_handler_close(p, i, ok)
       \/ \E q \in Procs : copy_process_descriptors(p, q)
       \/ scheduler_exit_process(p)
  \/ (\A p \in Procs : phase[p] # "run") /\ UNCHANGED vars

Spec == Init /\ [][Next]_vars

-----------------------------------------------------------------------------

\* Every entry of every table leads to a descriptor_t that was not freed and a file or
\* socket that was not closed: close acts only when no other table can lead there,
\* through any sequence of opens, forks and closes in parents and children.
NoDangling ==
  \A p \in Procs, i \in Index :
    LET o == descriptors[p][i]
    IN  o # NULL => obj[o] # NULL /\ obj[o].data \in open

\* is_parent means sole holder: a descriptor_t with is_parent set is in one entry of
\* one table (close trusts it to free).
SoleHolder ==
  \A p, q \in Procs : \A i, j \in Index :
    LET o == descriptors[p][i]
    IN  /\ o # NULL /\ o = descriptors[q][j] /\ <<p, i>> # <<q, j>>
        => ~obj[o].is_parent

\* No open file is lost: it can be reached through the table of some process, or its
\* descriptor_t was shared by a fork (such a file is never closed), or the descriptor_t
\* waits for ever for an entry.  (Not so for sockets: socketpair gives both descriptors the
\* first socket and drops the second.)
Reachable(o) ==
  \/ \E p \in Procs, i \in Index : descriptors[p][i] # NULL /\ obj[descriptors[p][i]].data = o
  \/ obj[o] # NULL /\ ~obj[o].is_parent
Kept == \A o \in open : (obj[o] # NULL /\ obj[o].type = "socket") \/ Reachable(o)

Perms == Permutations(Objs) \cup Permutations(Procs \ {First})
=============================================================================
