-------------------------- MODULE DescriptorsProofs --------------------------
(***************************************************************************)
(* The tables of descriptors never dangle and is_parent is to be trusted,  *)
(* for any number of processes and entries: DescInv is inductive.          *)
(*                                                                         *)
(* close frees what is_parent says no one else holds.  That this never     *)
(* takes a file from another table needs more than NoDangling and          *)
(* SoleHolder: which file a descriptor_t leads to (DataSound), that the     *)
(* slot fork fills is empty (FreshTable), and that an open file whose       *)
(* descriptor_t was never shared is still in some table (Held).             *)
(***************************************************************************)
EXTENDS Descriptors, WellFoundedInduction, TLAPS

Descriptor == [type : Kinds, data : Objs, is_parent : BOOLEAN]

TypeOK ==
  /\ descriptors \in [Procs -> [Index -> Objs \cup {NULL}]]
  /\ index_search_begin \in [Procs -> Index]
  /\ obj \in [Objs -> Descriptor \cup {NULL}]
  /\ open \in SUBSET Objs
  /\ phase \in [Procs -> {"none", "run", "spin", "exited"}]

\* A descriptor_t leads to something open, made for a descriptor_t of the same kind that
\* still exists; only a socket is shared by two descriptor_t (socketpair).
DataSound ==
  \A o \in Objs : obj[o] # NULL =>
    /\ obj[o].data \in open
    /\ obj[obj[o].data] # NULL /\ obj[obj[o].data].type = obj[o].type
    /\ obj[o].type # "socket" => obj[o].data = o

\* A slot that no fork filled yet has an empty table.
FreshTable == \A p \in Procs : phase[p] = "none" => \A i \in Index : descriptors[p][i] = NULL

\* What is open still has its descriptor_t; it is a socket, or was shared (or never got
\* an entry), or is in the table of some process.
Held ==
  \A o \in open :
    /\ obj[o] # NULL
    /\ \/ obj[o].type = "socket"
       \/ ~obj[o].is_parent
       \/ \E p \in Procs, i \in Index : descriptors[p][i] = o

DescInv == TypeOK /\ NoDangling /\ SoleHolder /\ DataSound /\ FreshTable /\ Held
-----------------------------------------------------------------------------
\* A non-empty set of naturals has a least element: the first entry a search meets.
LEMMA LeastExists ==
  ASSUME NEW T \in SUBSET Nat, T # {}
  PROVE  \E x \in T : \A y \in T : x <= y
<1> DEFINE R == {ss \in Nat \X Nat : ss[1] < ss[2]}
<1>1. IsWellFoundedOn(R, Nat)
  BY NatLessThanWellFounded DEF OpToRel
<1>2. PICK x \in T : \A y \in T : ~ (<<y, x>> \in R)
  <2> HIDE DEF R
  <2> QED BY Zenon, <1>1, WFMin
<1>3. \A y \in T : x <= y
  <2> TAKE y \in T
  <2>1. <<y, x>> \in Nat \X Nat /\ ~ (<<y, x>> \in R)
    BY <1>2
  <2> QED BY <2>1
<1> QED BY <1>3

\* allocate_index, when there is anything to find, returns a free entry of the table.
LEMMA FreeEntry ==
  ASSUME TypeOK, NEW p \in Procs, Searched(p) # {}
  PROVE  allocate_index(p) \in Index /\ descriptors[p][allocate_index(p)] = NULL
<1>1. Searched(p) \in SUBSET Nat /\ \A i \in Searched(p) : i \in Index /\ descriptors[p][i] = NULL
  BY DescriptorsAssumption DEF Searched, Index
<1>2. \E i \in Searched(p) : \A j \in Searched(p) : i <= j
  BY <1>1, LeastExists
<1>3. allocate_index(p) \in Searched(p)
  BY Zenon, <1>2 DEF allocate_index
<1> QED BY <1>1, <1>3

\* The search visits the whole table: when an entry is free it finds one.
LEMMA FoundWhenFree ==
  ASSUME TypeOK, NEW p \in Procs, NEW i \in Index, descriptors[p][i] = NULL
  PROVE  Searched(p) # {}
<1>1. index_search_begin[p] \in Int /\ i \in Int
  BY DescriptorsAssumption DEF TypeOK, Index
<1>2. i >= index_search_begin[p] \/ i < index_search_begin[p]
  BY <1>1
<1> QED BY <1>2 DEF Searched

\* The null pointer is neither an object nor a descriptor_t.
LEMMA NullApart ==
  /\ NULL \notin Objs /\ NULL \notin Descriptor
  /\ 0..2 \subseteq Index
BY DescriptorsAssumption DEF Descriptor, Index

\* create_exec's three standard descriptors are a good start.
LEMMA InitInv == Init => DescInv
<1> SUFFICES ASSUME Init PROVE DescInv
  OBVIOUS
<1>1. PICK std \in [0..2 -> Objs] :
        /\ \A i, j \in 0..2 : i # j => std[i] # std[j]
        /\ descriptors = [p \in Procs |-> [i \in Index |->
                            IF p = First /\ i \in 0..2 THEN std[i] ELSE NULL]]
        /\ index_search_begin = [p \in Procs |-> IF p = First THEN 2 ELSE 0]
        /\ obj = [o \in Objs |-> IF \E i \in 0..2 : o = std[i]
                                 THEN [type |-> "file", data |-> o, is_parent |-> TRUE] ELSE NULL]
        /\ open = {std[i] : i \in 0..2}
        /\ phase = [p \in Procs |-> IF p = First THEN "run" ELSE "none"]
  BY DEF Init
<1>2. \A o \in Objs : (\E i \in 0..2 : o = std[i]) =>
        obj[o] = [type |-> "file", data |-> o, is_parent |-> TRUE] /\ o \in open /\ obj[o] # NULL
  <2> TAKE o \in Objs
  <2>1. [type |-> "file", data |-> o, is_parent |-> TRUE] \in Descriptor
    BY DEF Descriptor, Kinds
  <2> QED BY Zenon, <1>1, <2>1, NullApart
<1>3. TypeOK
  BY <1>1, NullApart, DescriptorsAssumption DEF TypeOK, Descriptor, Kinds, Index
<1>4. \A p \in Procs, i \in Index : descriptors[p][i] # NULL =>
        p = First /\ i \in 0..2 /\ descriptors[p][i] = std[i]
  BY <1>1
<1>5. NoDangling /\ SoleHolder
  BY <1>1, <1>2, <1>4 DEF NoDangling, SoleHolder
<1>6. DataSound /\ FreshTable
  BY <1>1, <1>2, NullApart DEF DataSound, FreshTable
<1>7. Held
  BY <1>1, <1>2, NullApart, DescriptorsAssumption DEF Held
<1> QED BY <1>3, <1>5, <1>6, <1>7 DEF DescInv

-----------------------------------------------------------------------------
\* open, socket and accept: the new descriptor_t is in no table yet.
LEMMA OpenInv ==
  ASSUME DescInv, NEW p \in Procs, NEW o \in Objs, NEW type \in Kinds, Open(p, o, type)
  PROVE  DescInv'
<1> USE DEF DescInv
<1>1. \A q \in Procs, i \in Index : descriptors[q][i] # o
  BY NullApart DEF Open, NoDangling
<1>2. CASE Searched(p) = {}
  <2> DEFINE d == [type |-> type, data |-> o, is_parent |-> FALSE]
  <2>1. d \in Descriptor /\ d # NULL
    <3>1. d \in Descriptor  BY DEF Descriptor
    <3> HIDE DEF d
    <3> QED BY <3>1, NullApart
  <2>2. /\ obj' = [obj EXCEPT ![o] = d] /\ phase' = [phase EXCEPT ![p] = "spin"]
        /\ UNCHANGED <<descriptors, index_search_begin>> /\ open' = open \cup {o}
        /\ obj[o] = NULL
    BY <1>2 DEF Open, add_descriptor
  <2>3. TypeOK'
    BY <2>1, <2>2 DEF TypeOK
  <2>4. NoDangling' /\ SoleHolder'
    BY <1>1, <2>2 DEF NoDangling, SoleHolder, TypeOK
  <2>5. DataSound'
    BY <2>1, <2>2 DEF DataSound, TypeOK, Descriptor
  <2>6. FreshTable' /\ Held'
    BY <2>1, <2>2 DEF FreshTable, Held, TypeOK
  <2> QED BY <2>3, <2>4, <2>5, <2>6
<1>3. CASE Searched(p) # {}
  <2> DEFINE d == [type |-> type, data |-> o, is_parent |-> TRUE]
             k == allocate_index(p)
  <2>1. d \in Descriptor /\ d # NULL
    <3>1. d \in Descriptor  BY DEF Descriptor
    <3> HIDE DEF d
    <3> QED BY <3>1, NullApart
  <2>2. /\ obj' = [obj EXCEPT ![o] = d] /\ UNCHANGED phase
        /\ descriptors' = [descriptors EXCEPT ![p][k] = o]
        /\ index_search_begin' = [index_search_begin EXCEPT ![p] = k]
        /\ open' = open \cup {o} /\ obj[o] = NULL /\ phase[p] = "run"
    BY <1>3 DEF Open, add_descriptor
  <2>3. k \in Index /\ descriptors[p][k] = NULL
    BY <1>3, FreeEntry
  <2> HIDE DEF k
  <2>4. TypeOK'
    BY <2>1, <2>2, <2>3 DEF TypeOK
  <2>5. NoDangling' /\ SoleHolder'
    BY <1>1, <2>1, <2>2, <2>3 DEF NoDangling, SoleHolder, TypeOK
  <2>6. DataSound'
    BY <2>1, <2>2 DEF DataSound, TypeOK, Descriptor
  <2>7. FreshTable'
    BY <2>2, <2>3 DEF FreshTable, TypeOK
  <2>8. Held'
    <3>1. descriptors'[p][k] = o /\ obj'[o] # NULL
      BY <2>1, <2>2, <2>3 DEF TypeOK
    <3>2. \A q \in Procs, i \in Index :
            descriptors[q][i] \in Objs => descriptors'[q][i] = descriptors[q][i]
      BY <2>2, <2>3, NullApart DEF TypeOK
    <3>3. ASSUME NEW x \in open
          PROVE  x \in Objs /\ obj'[x] = obj[x]
      BY <2>2, <3>3 DEF TypeOK, Held
    <3> QED BY <2>2, <2>3, <3>1, <3>2, <3>3 DEF Held
  <2> QED BY <2>4, <2>5, <2>6, <2>7, <2>8
<1> QED BY <1>2, <1>3

\* socketpair: two new descriptor_t in two different free entries, one socket for both.
LEMMA SocketPairInv ==
  ASSUME DescInv, NEW p \in Procs, NEW s \in Objs, NEW o \in Objs,
         syscall_handler_socket_pair(p, s, o)
  PROVE  DescInv'
<1> USE DEF DescInv
<1> DEFINE d == [type |-> "socket", data |-> s, is_parent |-> TRUE]
           k == allocate_index(p)
<1>1. PICK m \in Index :
        /\ descriptors[p][m] = NULL /\ m # k
        /\ descriptors' = [descriptors EXCEPT ![p][k] = s, ![p][m] = o]
        /\ index_search_begin' = [index_search_begin EXCEPT ![p] = m]
  BY Zenon DEF syscall_handler_socket_pair
<1>2. /\ obj' = [obj EXCEPT ![s] = d, ![o] = d] /\ open' = open \cup {s, o}
      /\ s # o /\ obj[s] = NULL /\ obj[o] = NULL /\ UNCHANGED phase /\ phase[p] = "run"
  BY DEF syscall_handler_socket_pair
<1>3. k \in Index /\ descriptors[p][k] = NULL
  BY <1>1, FoundWhenFree, FreeEntry
<1>4. d \in Descriptor /\ d # NULL
  <2>1. d \in Descriptor  BY DEF Descriptor, Kinds
  <2> HIDE DEF d
  <2> QED BY <2>1, NullApart
<1>5. \A q \in Procs, i \in Index : descriptors[q][i] \notin {s, o}
  BY <1>2, NullApart DEF NoDangling
<1> HIDE DEF k
<1>6. TypeOK'
  BY Zenon, <1>1, <1>2, <1>3, <1>4 DEF TypeOK
<1>7. \A q \in Procs, i \in Index : descriptors'[q][i] =
        IF q = p /\ i = k THEN s ELSE IF q = p /\ i = m THEN o ELSE descriptors[q][i]
  BY <1>1, <1>3 DEF TypeOK
<1>8. NoDangling' /\ SoleHolder'
  <2>1. \A x \in Objs : obj'[x] = IF x \in {s, o} THEN d ELSE obj[x]
    BY Zenon, <1>2 DEF TypeOK
  <2>2. NoDangling'
    BY <1>2, <1>4, <1>7, <2>1 DEF NoDangling, TypeOK
  <2>3. SoleHolder'
    BY <1>2, <1>3, <1>5, <1>7, <2>1 DEF SoleHolder, TypeOK
  <2> QED BY <2>2, <2>3
<1>9. DataSound'
  BY <1>2, <1>4 DEF DataSound, TypeOK, Descriptor
<1>10. FreshTable'
  BY <1>2, <1>7 DEF FreshTable, TypeOK
<1>11. Held'
  <2> SUFFICES ASSUME NEW x \in open'
               PROVE  /\ obj'[x] # NULL
                      /\ \/ obj'[x].type = "socket"
                         \/ ~obj'[x].is_parent
                         \/ \E q \in Procs, i \in Index : descriptors'[q][i] = x
    BY DEF Held
  <2>1. CASE x \in {s, o}
    <3>1. obj'[x] = d
      BY Zenon, <1>2, <2>1 DEF TypeOK
    <3> QED BY <1>4, <3>1
  <2>2. CASE x \notin {s, o}
    <3>1. x \in open /\ x \in Objs /\ obj'[x] = obj[x]
      BY Zenon, <1>2, <2>2 DEF TypeOK
    <3>2. \A q \in Procs, i \in Index : descriptors[q][i] = x => descriptors'[q][i] = x
      <4> TAKE q \in Procs, i \in Index
      <4>1. x # NULL
        BY <3>1, NullApart
      <4> QED BY ZenonT(30), <1>1, <1>3, <1>7, <4>1
    <3> QED BY ZenonT(30), <3>1, <3>2 DEF Held
  <2> QED BY <2>1, <2>2
<1> QED BY <1>6, <1>8, <1>9, <1>10, <1>11

\* close: what it frees and closes was in this one entry of this one table, and no
\* other descriptor_t leads to the file it closes.
LEMMA CloseInv ==
  ASSUME DescInv, NEW p \in Procs, NEW i \in Index, NEW ok \in BOOLEAN,
         syscall_handler_close(p, i, ok)
  PROVE  DescInv'
<1> USE DEF DescInv
<1> DEFINE o == descriptors[p][i]
<1>1. o \in Objs /\ o # NULL /\ obj[o] # NULL /\ obj[o] \in Descriptor
  BY DEF syscall_handler_close, NoDangling, TypeOK
<1>2. CASE UNCHANGED vars
  BY <1>2 DEF vars, TypeOK, NoDangling, SoleHolder, DataSound, FreshTable, Held
<1>3. CASE free_index(p, i) /\ UNCHANGED <<obj, open, phase>> /\ ~obj[o].is_parent
  <2>1. \A q \in Procs, j \in Index :
          descriptors'[q][j] = IF q = p /\ j = i THEN NULL ELSE descriptors[q][j]
    BY <1>3 DEF free_index, TypeOK
  <2>2. TypeOK'
    BY <1>3 DEF free_index, TypeOK
  <2>3. NoDangling' /\ SoleHolder' /\ DataSound' /\ FreshTable'
    BY <1>3, <2>1 DEF NoDangling, SoleHolder, DataSound, FreshTable
  <2>4. Held'
    BY <1>3, <2>1 DEF Held
  <2> QED BY <2>2, <2>3, <2>4
<1>4. CASE /\ free_index(p, i) /\ UNCHANGED phase /\ obj[o].is_parent
           /\ obj[o].type \notin {"socket", "dir"}
           /\ obj' = [obj EXCEPT ![o] = NULL] /\ open' = open \ {obj[o].data}
  <2>1. \A q \in Procs, j \in Index :
          descriptors'[q][j] = IF q = p /\ j = i THEN NULL ELSE descriptors[q][j]
    BY <1>4 DEF free_index, TypeOK
  <2>2. obj[o].data = o
    BY <1>1, <1>4 DEF DataSound
  <2>3. \A x \in Objs : obj'[x] = IF x = o THEN NULL ELSE obj[x]
    BY <1>1, <1>4 DEF TypeOK
  <2> HIDE DEF o
  <2>4. \A x \in Objs : x # o /\ obj[x] # NULL => obj[x].data # o
    BY <1>1, <1>4 DEF DataSound
  <2>5. \A q \in Procs, j \in Index : descriptors'[q][j] # o
    <3> USE DEF o
    <3> QED BY <1>1, <1>4, <2>1 DEF SoleHolder
  <2>6. TypeOK'
    BY Zenon, <1>4 DEF free_index, TypeOK
  <2>7. NoDangling' /\ SoleHolder'
    BY <1>4, <2>1, <2>2, <2>3, <2>4, <2>5, <2>6, NullApart DEF NoDangling, SoleHolder, TypeOK
  <2>8. DataSound'
    BY <1>4, <2>2, <2>3, <2>4 DEF DataSound, TypeOK, Descriptor
  <2>9. FreshTable'
    BY <1>4, <2>1 DEF FreshTable
  <2>10. Held'
    <3>1. \A q \in Procs, j \in Index : descriptors[q][j] # o => descriptors'[q][j] = descriptors[q][j]
      BY <2>1 DEF o
    <3>2. \A x \in open' : x \in open /\ x # o /\ x \in Objs /\ obj'[x] = obj[x]
      BY Zenon, <1>4, <2>2, <2>3 DEF TypeOK
    <3> SUFFICES ASSUME NEW x \in open'
                 PROVE  /\ obj'[x] # NULL
                        /\ \/ obj'[x].type = "socket"
                           \/ ~obj'[x].is_parent
                           \/ \E q \in Procs, j \in Index : descriptors'[q][j] = x
      BY DEF Held
    <3>3. \A q \in Procs, j \in Index : descriptors[q][j] = x => descriptors'[q][j] = x
      BY Zenon, <3>1, <3>2
    <3>4. Held /\ x \in open /\ obj'[x] = obj[x]
      BY <3>2
    <3>5. /\ obj[x] # NULL
          /\ \/ obj[x].type = "socket"
             \/ ~obj[x].is_parent
             \/ \E q \in Procs, j \in Index : descriptors[q][j] = x
      BY Zenon, <3>4 DEF Held
    <3> HIDE DEF DescInv
    <3> QED BY <3>3, <3>4, <3>5
  <2> QED BY <2>6, <2>7, <2>8, <2>9, <2>10
<1> QED
  BY <1>1, <1>2, <1>3, <1>4 DEF syscall_handler_close, socket_close_handler

\* fork: every descriptor_t the child's table now leads to lost its is_parent.
LEMMA ForkInv ==
  ASSUME DescInv, NEW p \in Procs, NEW q \in Procs, copy_process_descriptors(p, q)
  PROVE  DescInv'
<1> USE DEF DescInv
<1>1. /\ \A r \in Procs : descriptors'[r] = IF r = q THEN descriptors[p] ELSE descriptors[r]
      /\ p # q /\ \A i \in Index : descriptors[q][i] = NULL
  BY DEF copy_process_descriptors, TypeOK, FreshTable
<1> DEFINE Shared(o) == \E i \in Index : descriptors[p][i] = o
<1>2. \A o \in Objs : obj'[o] = IF Shared(o) THEN [obj[o] EXCEPT !.is_parent = FALSE] ELSE obj[o]
  BY DEF copy_process_descriptors
<1>3. \A o \in Objs : Shared(o) => obj[o] # NULL /\ obj[o] \in Descriptor
  BY NullApart DEF NoDangling, TypeOK
<1> HIDE DEF Shared
<1>4. \A o \in Objs : /\ obj[o] = NULL <=> obj'[o] = NULL
                      /\ obj'[o] \in Descriptor \cup {NULL}
                      /\ obj[o] # NULL => /\ obj'[o].type = obj[o].type
                                          /\ obj'[o].data = obj[o].data
                                          /\ Shared(o) => ~obj'[o].is_parent
                                          /\ ~Shared(o) => obj'[o] = obj[o]
  <2> TAKE o \in Objs
  <2>1. CASE Shared(o)
    <3>1. obj'[o] \in Descriptor /\ obj'[o].is_parent = FALSE
          /\ obj'[o].type = obj[o].type /\ obj'[o].data = obj[o].data
      BY Zenon, <1>2, <1>3, <2>1 DEF Descriptor
    <3> QED BY <1>3, <2>1, <3>1, NullApart
  <2>2. CASE ~Shared(o)
    BY Zenon, <1>2, <2>2 DEF TypeOK
  <2> QED BY <2>1, <2>2
<1>5. TypeOK'
  <2>1. obj' \in [Objs -> Descriptor \cup {NULL}]
    BY Zenon, <1>4 DEF copy_process_descriptors
  <2> QED BY <2>1 DEF copy_process_descriptors, TypeOK
<1>6. UNCHANGED open
  BY DEF copy_process_descriptors
<1>7. NoDangling'
  BY <1>1, <1>4, <1>6, NullApart DEF NoDangling, TypeOK
<1>8. SoleHolder'
  <2> SUFFICES ASSUME NEW r1 \in Procs, NEW r2 \in Procs, NEW i \in Index, NEW j \in Index,
                      descriptors'[r1][i] # NULL, descriptors'[r1][i] = descriptors'[r2][j],
                      <<r1, i>> # <<r2, j>>
               PROVE  ~obj'[descriptors'[r1][i]].is_parent
    BY DEF SoleHolder
  <2> DEFINE o == descriptors'[r1][i]
  <2>1. o \in Objs /\ obj[o] # NULL
    <3>1. o \in Objs /\ o = IF r1 = q THEN descriptors[p][i] ELSE descriptors[r1][i]
      BY <1>1, <1>5 DEF TypeOK
    <3> QED BY <3>1 DEF NoDangling
  <2>2. CASE r1 = q \/ r2 = q
    BY <1>1, <1>4, <2>1, <2>2 DEF Shared
  <2>3. CASE r1 # q /\ r2 # q
    BY <1>1, <1>4, <2>1, <2>3 DEF SoleHolder
  <2> QED BY <2>2, <2>3
<1>9. DataSound'
  BY <1>4, <1>6 DEF DataSound, TypeOK, Descriptor
<1>10. FreshTable'
  BY <1>1 DEF copy_process_descriptors, FreshTable, TypeOK
<1>11. Held'
  BY <1>1, <1>4, <1>6, NullApart DEF Held, TypeOK
<1> QED BY <1>5, <1>7, <1>8, <1>9, <1>10, <1>11

-----------------------------------------------------------------------------
\* Every system call keeps the tables of descriptors sound: DescInv is an invariant for
\* every size of a table and every number of processes and of descriptor_t.
THEOREM DescriptorsSound == Spec => []DescInv
<1>1. Init => DescInv
  BY InitInv
<1>2. DescInv /\ [Next]_vars => DescInv'
  <2> SUFFICES ASSUME DescInv, [Next]_vars PROVE DescInv'
    OBVIOUS
  <2>1. ASSUME NEW p \in Procs, NEW o \in Objs, NEW type \in Kinds, Open(p, o, type)
        PROVE  DescInv'
    BY <2>1, OpenInv
  <2>2. ASSUME NEW p \in Procs, NEW s \in Objs, NEW o \in Objs,
               syscall_handler_socket_pair(p, s, o)
        PROVE  DescInv'
    BY <2>2, SocketPairInv
  <2>3. ASSUME NEW p \in Procs, NEW i \in Index, NEW ok \in BOOLEAN,
               syscall_handler_close(p, i, ok)
        PROVE  DescInv'
    BY <2>3, CloseInv
  <2>4. ASSUME NEW p \in Procs, NEW q \in Procs, copy_process_descriptors(p, q)
        PROVE  DescInv'
    BY <2>4, ForkInv
  <2>5. ASSUME NEW p \in Procs, scheduler_exit_process(p)
        PROVE  DescInv'
    <3>1. TypeOK' /\ FreshTable'
      BY <2>5 DEF scheduler_exit_process, DescInv, TypeOK, FreshTable
    <3> QED BY <2>5, <3>1 DEF scheduler_exit_process, DescInv, NoDangling, SoleHolder,
                              DataSound, Held
  <2>6. CASE UNCHANGED vars
    BY <2>6 DEF vars, DescInv, TypeOK, NoDangling, SoleHolder, DataSound, FreshTable, Held
  <2> QED BY <2>1, <2>2, <2>3, <2>4, <2>5, <2>6 DEF Next
<1> QED BY <1>1, <1>2, PTL DEF Spec

\* No entry of any table ever leads to a freed descriptor_t or to a closed file or socket,
\* whatever parents and children open, fork and close.
THEOREM NeverDangling == Spec => []NoDangling
<1>1. DescInv => NoDangling
  BY DEF DescInv
<1> QED BY <1>1, DescriptorsSound, PTL

\* The is_parent that close trusts before it frees is set only in a descriptor_t with a
\* single holder.
THEOREM ParentIsSole == Spec => []SoleHolder
<1>1. DescInv => SoleHolder
  BY DEF DescInv
<1> QED BY <1>1, DescriptorsSound, PTL

\* No open file is lost by close and fork: a table leads to it, or it was shared.
THEOREM OpenFilesKept == Spec => []Kept
<1>1. DescInv => Kept
  <2> SUFFICES ASSUME DescInv, NEW o \in open
               PROVE  (obj[o] # NULL /\ obj[o].type = "socket") \/ Reachable(o)
    BY DEF Kept
  <2> USE DEF DescInv
  <2>1. o \in Objs /\ obj[o] # NULL
    BY DEF TypeOK, Held
  <2>2. CASE obj[o].type # "socket" /\ \E p \in Procs, i \in Index : descriptors[p][i] = o
    <3>1. PICK p \in Procs, i \in Index : descriptors[p][i] = o
      BY <2>2
    <3>2. descriptors[p][i] # NULL /\ obj[descriptors[p][i]].data = o
      BY <2>1, <2>2, <3>1, NullApart DEF DataSound
    <3> QED BY <3>2 DEF Reachable
  <2> QED BY <2>1, <2>2 DEF Held, Reachable
<1> QED BY <1>1, DescriptorsSound, PTL
=============================================================================
