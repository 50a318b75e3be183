------------------------------- MODULE Fat32 -------------------------------
(***************************************************************************)
(* The FAT32 file system, modules/fat32/source/core.c: clusters and chains, *)
(* directory entries, the calls of its interface, and a power failure       *)
(* followed by a mount.                                                    *)
(*                                                                         *)
(* A cluster holds E units.  A unit is a directory slot of ENTRY_SIZE bytes *)
(* or a piece of file data, so one routine writes both, as in the code.     *)
(* Processes interleave between writes to the disk and around               *)
(* fat_allocate_cluster_lock; a lookup is one step with the write it leads  *)
(* to.  Files, sizes and positions count units.                            *)
(*                                                                         *)
(* `files' is what the finished calls promised.  `hazard' names the first   *)
(* situation the code does not handle (see Hazards); the model stops there. *)
(***************************************************************************)
EXTENDS Integers, FiniteSets, SequencesExt

CONSTANTS
  E,            \* units of a cluster (entries_per_cluster)
  LastCluster,  \* the last entry of the FAT
  DirLimit,     \* DIR_MINIMUM_SIZE * ENTRY_SIZE, in slots
  Hint,         \* FSInfo's next_free_cluster, never written by the code
  Volumes,      \* the volumes in the beginning: fat, data and files (below)
  Procs,
  Workload,     \* Procs -> the calls a process may make
  Paths,        \* the paths looked at
  LongNames,    \* the names that take a long-name slot
  Sizes,        \* sizes written
  MaxCalls, MaxCrashes   \* bounds

Root == 2
Cluster == Root..LastCluster
Eoc == LastCluster + 1
IsEnd(c) == c = 0 \/ c > LastCluster

ASSUME FatAssumption ==
  /\ E \in Nat \ {0, 1} /\ LastCluster \in Nat /\ LastCluster >= 4
  /\ DirLimit \in Nat /\ DirLimit >= 2 /\ Hint \in 0..LastCluster

Zero == [k |-> "zero"]
Data(path) == [k |-> "data", of |-> path]
Lfn(name) == [k |-> "lfn", name |-> name]
Entry(name, dir, cluster, size) ==
  [k |-> "sfn", name |-> name, dir |-> dir, cluster |-> cluster, size |-> size]
Zeros == [i \in 1..E |-> Zero]

VARIABLES
  fat, data,      \* the disk: the FAT (the copy in memory never differs) and the clusters
  count,          \* FSInfo's free_cluster_count
  next_free,      \* next_free_cluster
  lock,           \* the holder of fat_allocate_cluster_lock, or "free"
  call,           \* process -> its call
  file,           \* process -> the file it has open: path, cached entry, seek_position
  files, unsure,  \* what finished calls promised; the paths a power failure interrupted
  hazard, calls, crashes

vars == <<fat, data, count, next_free, lock, call, file, files, unsure, hazard, calls, crashes>>
disk == <<fat, data>>
ghost == <<files, unsure, calls, crashes>>

Idle == [pc |-> "idle"]
Closed == [path |-> <<>>]

Init ==
  /\ \E v \in Volumes : fat = v.fat /\ data = v.data /\ files = v.files
  /\ count = Cardinality({c \in Cluster : fat[c] = 0}) /\ next_free = Hint /\ lock = "free"
  /\ call = [p \in Procs |-> Idle] /\ file = [p \in Procs |-> Closed]
  /\ unsure = {} /\ hazard = "none" /\ calls = 0 /\ crashes = 0

-----------------------------------------------------------------------------
(* Chains and lookups *)

\* The clusters of the chain that starts at c, in order.
After(c) == IF IsEnd(c) THEN Eoc ELSE fat[c]
Chain(c) ==
  LET at[i \in 0..LastCluster] == IF i = 0 THEN c ELSE After(at[i - 1])
      S == {i \in 0..LastCluster : ~IsEnd(at[i])}
  IN  [i \in 1..Cardinality(S) |-> at[i - 1]]

\* The units of a chain, in order: unit i is at Slot(chain, i).
Slot(chain, i) == << chain[((i - 1) \div E) + 1], ((i - 1) % E) + 1 >>
At(slot) == data[slot[1]][slot[2]]
UnitsOf(chain) == [i \in 1..(Len(chain) * E) |-> At(Slot(chain, i))]
Units(c) == UnitsOf(Chain(c))

\* A long name holds for the next valid short entry, over any number of invalid slots:
\* the slot of the long name that holds at each slot, or 0.
NextPending(unit, i, pending) ==
  CASE unit.k = "lfn" -> i [] unit.k = "zero" -> pending [] OTHER -> 0
Pending(slots) ==
  LET at[i \in 0..Len(slots)] == IF i = 0 THEN 0 ELSE NextPending(slots[i], i, at[i - 1])
  IN  [i \in 1..Len(slots) |-> at[i - 1]]

\* fat_find_entry_info: the indexes of the entry, and of its long name or of itself; and
\* fat_find_entry: the entry.
NoEntry == Entry("", FALSE, 0, 0)
NotFound == [sfn |-> 0, first |-> 0, entry |-> NoEntry]
Info(slots, lfn, i) ==
  [sfn |-> i, first |-> IF lfn[i] = 0 THEN i ELSE lfn[i], entry |-> slots[i]]
Matches(slots, lfn, name) ==
  {i \in 1..Len(slots) : /\ slots[i].k = "sfn"
                         /\ name = slots[IF lfn[i] = 0 THEN i ELSE lfn[i]].name}
FirstOf(slots, lfn, found) == IF found = {} THEN NotFound ELSE Info(slots, lfn, Min(found))
FindIn(slots, lfn, name) == FirstOf(slots, lfn, Matches(slots, lfn, name))
Search(slots, name) == FindIn(slots, Pending(slots), name)
fat_find_entry_info(c, name) == Search(Units(c), name)
fat_find_entry(c, name) == fat_find_entry_info(c, name).entry

\* fat_get_cluster_entry: cluster 0 stands for the root.
fat_get_cluster_entry(e) == IF e.cluster = 0 THEN Root ELSE e.cluster

\* fat_find_last_directory: the first cluster of the directory that holds path's last
\* component, starting at the directory from; 0 if a component is missing or no directory.
DirCluster(e) == IF e.dir THEN fat_get_cluster_entry(e) ELSE 0
fat_find_last_directory(from, path) ==
  LET at[i \in 0..(Len(path) - 1)] ==
        IF i = 0 THEN from ELSE DirCluster(fat_find_entry(at[i - 1], path[i]))
  IN  at[Len(path) - 1]

fat_find_entry_with_path(path) ==
  fat_find_entry(fat_find_last_directory(Root, path), Last(path))

\* fat_get_dir_size, in slots: up to the last valid one.
SizeOf(slots) == Max({0} \cup {i \in 1..Len(slots) : slots[i].k # "zero"})
fat_get_dir_size(c) == SizeOf(Units(c))

-----------------------------------------------------------------------------
(* The parts of a call *)

\* A call in progress: where it is, what it was asked, the directories it works in, the
\* state w of fat_write_cluster_chain and the place to go to after it, the cluster that
\* fat_allocate_cluster found, the next cluster to free, and the places these two return to.
Start(op, path, to, dirs) ==
  [pc |-> "start", op |-> op, path |-> path, to |-> to, dirs |-> dirs,
   w |-> [done |-> 0, fwz |-> FALSE, buf |-> <<>>], after |-> "", entry |-> NoEntry,
   got |-> 0, ret |-> "", x |-> 0, fret |-> ""]

\* The tests of fat_write_cluster_chain that follow its loop and its zero fill.
Truncated(c) ==
  IF c.w.eoc /\ ~IsEnd(c.w.next)
    THEN [c EXCEPT !.pc = "free", !.x = c.w.next, !.fret = "cut"]
    ELSE [c EXCEPT !.pc = c.after]
ChainStep(c) ==
  CASE (c.w.buf # <<>> \/ c.w.at > 0) /\ IsEnd(c.w.next) -> [c EXCEPT !.pc = "alloc", !.ret = "link"]
    [] (c.w.buf # <<>> \/ c.w.at > 0) /\ ~IsEnd(c.w.next) -> [c EXCEPT !.pc = "put"]
    [] c.w.buf = <<>> /\ c.w.at = 0 /\ c.w.fwz -> [c EXCEPT !.pc = "fill"]
    [] OTHER -> Truncated(c)

fat_write_cluster_chain(c, cluster, alignement, buf, fwz, after) ==
  ChainStep([c EXCEPT !.after = after,
                      !.w = [cur |-> cluster, next |-> cluster, at |-> alignement, buf |-> buf,
                             last |-> 0, done |-> 0, eoc |-> TRUE, fwz |-> fwz]])

\* fat_add_entry_with_path in the directory at cluster dir: a new entry follows the last.
EntryUnits(name, e) ==
  IF name \in LongNames THEN << Lfn(name), [e EXCEPT !.name = "~1"] >>
                        ELSE << [e EXCEPT !.name = name] >>
fat_add_entry(c, dir, name, e, after) ==
  fat_write_cluster_chain(c, dir, fat_get_dir_size(dir), EntryUnits(name, e), FALSE, after)

\* fat_remove_entry_with_path in the directory at cluster dir: the entries after the removed
\* one move down over it.  As many slots are moved as the directory keeps, whatever the
\* index, so the copy may read past the chain, where the buffer is not initialised (Junk).
Junk == Data(<<>>)
Moved_Mutant(slots, i) ==  \* bug: first_index_to_move is sfn_index
  [j \in 1..(SizeOf(slots) - (i.sfn + 1 - i.first)) |->
     IF i.sfn + j - 1 <= Len(slots) THEN slots[i.sfn + j - 1] ELSE Junk]
Moved(slots, i) ==
  [j \in 1..(SizeOf(slots) - (i.sfn + 1 - i.first)) |->
     IF i.sfn + j <= Len(slots) THEN slots[i.sfn + j] ELSE Junk]
fat_remove_entry(c, dir, i, after) ==
  fat_write_cluster_chain(c, dir, i.first - 1, Moved(Units(dir), i), TRUE, after)

-----------------------------------------------------------------------------
(* Hazards: situations the code does not handle.  Each is decided before the write that  *)
(* does the harm.                                                                       *)

\* The moved slots end up past the chain's end, or past what the zero fill cleans.
Overrun(cap, n, i) == i.sfn + n > cap /\ ~(cap = E /\ (i.first - 1) + n <= E)
\* The only entry of the root goes: the write loop does not run, the root is freed.
Sole(n) == n = 0
DangerOf(cap, n, i) == IF Overrun(cap, n, i) THEN "overrun" ELSE IF Sole(n) THEN "sole" ELSE hazard
RemoveHazard(dir, i) == DangerOf(Len(Units(dir)), Len(Moved(Units(dir), i)), i)

\* fat_remove_dir of a directory that holds an entry.
NonEmpty(dir) ==
  \E u \in ToSet(Units(dir)) : u.k = "sfn" /\ u.name \notin {".", ".."}

\* A directory grows into a cluster whose old contents are not zero.
Dirty(c) ==
  /\ c.ret = "link" /\ c.op # "write"
  /\ \E i \in (Len(c.w.buf) + 1)..E : data[c.got][i] # Zero

\* The cached entry of an open file is no longer the one on the disk.
Stale(f) == fat_find_entry_with_path(f.path) # f.entry

\* A directory another call works in.
Race(p, dirs) == \E q \in Procs \ {p} : call[q] # Idle /\ call[q].dirs \cap dirs # {}

\* A power failure in the middle of a change that takes several writes: a freed tail not
\* yet cut off, a directory half moved, a renamed entry in two places, a long name whose
\* entry goes to the next cluster.
InWindow(c) ==
  \/ c.pc \in {"free", "freed", "cut"} /\ c.fret = "cut"
  \/ c.pc \in {"put", "fill", "alloc", "mark", "fsi", "link"} /\ c.w.done > 0
        /\ (c.w.fwz \/ c.op # "write")
  \/ c.pc \notin {"idle", "dotdot", "done"} /\ c.op = "rename" /\ (c.w.done > 0 \/ c.w.fwz)

-----------------------------------------------------------------------------
(* Steps.  Go(p, c) continues p's call with c. *)

Go(p, c) == call' = [call EXCEPT ![p] = c]

\* fat_allocate_cluster: the scan under the lock, the mark, FSInfo.
FreeFrom(n) == {i \in Cluster : i >= n /\ fat[i] = 0}
AllocScan(p) ==
  LET c == call[p] IN
  /\ c.pc = "alloc" /\ lock = "free" /\ FreeFrom(next_free) # {}
  /\ lock' = p
  /\ Go(p, [c EXCEPT !.pc = "mark", !.got = Min(FreeFrom(next_free))])
  /\ UNCHANGED <<disk, count, next_free, file, ghost, hazard>>
AllocMark_Mutant(p) ==  \* bug: the cluster is taken without END_OF_CLUSTERCHAIN
  LET c == call[p] IN
  /\ c.pc = "mark"
  /\ next_free' = c.got
  /\ hazard' = IF Dirty(c) THEN "dirty" ELSE hazard
  /\ Go(p, [c EXCEPT !.pc = "fsi"])
  /\ UNCHANGED <<disk, count, lock, file, ghost>>
AllocMark(p) ==
  LET c == call[p] IN
  /\ c.pc = "mark"
  /\ fat' = [fat EXCEPT ![c.got] = Eoc]
  /\ next_free' = c.got
  /\ hazard' = IF Dirty(c) THEN "dirty" ELSE hazard
  /\ Go(p, [c EXCEPT !.pc = "fsi"])
  /\ UNCHANGED <<data, count, lock, file, ghost>>
AllocCount(p) ==
  LET c == call[p] IN
  /\ c.pc = "fsi"
  /\ count' = count - 1 /\ lock' = "free"
  /\ Go(p, [c EXCEPT !.pc = c.ret])
  /\ UNCHANGED <<disk, next_free, file, ghost, hazard>>

\* No free cluster at or after next_free_cluster.  A file keeps what was written of it,
\* fat_create_dir gives up; a directory that cannot grow is ignored (hazard), and the first
\* write of an empty file returns with *size_write not set (hazard).
AllocFail(p) ==
  LET c == call[p] IN
  /\ c.pc = "alloc" /\ lock = "free" /\ FreeFrom(next_free) = {}
  /\ hazard' = IF (c.op = "write" /\ c.ret = "link") \/ c.ret = "zero" THEN hazard ELSE "full"
  /\ Go(p, IF c.ret = "link" THEN [c EXCEPT !.pc = c.after] ELSE Idle)
  /\ UNCHANGED <<disk, count, next_free, lock, file, ghost>>

\* fat_free_cluster and the loop of fat_free_all_following_clusters.
FreeMark(p) ==
  LET c == call[p] IN
  /\ c.pc = "free" /\ lock = "free"
  /\ lock' = p
  /\ fat' = [fat EXCEPT ![c.x] = 0]
  /\ Go(p, [c EXCEPT !.pc = "freed", !.x = fat[c.x]])
  /\ UNCHANGED <<data, count, next_free, file, ghost, hazard>>
FreeCount(p) ==
  LET c == call[p] IN
  /\ c.pc = "freed"
  /\ count' = count + 1 /\ lock' = "free"
  /\ Go(p, [c EXCEPT !.pc = IF IsEnd(c.x) THEN c.fret ELSE "free"])
  /\ UNCHANGED <<disk, next_free, file, ghost, hazard>>

\* fat_write_cluster_chain: the link to a new cluster, one turn of the loop, the zero fill
\* from the end of the last piece counted from the start of its cluster, the new end.
Link(p) ==
  LET c == call[p] IN
  /\ c.pc = "link"
  /\ fat' = [fat EXCEPT ![c.w.cur] = c.got]
  /\ Go(p, [c EXCEPT !.pc = "put", !.w.next = c.got])
  /\ UNCHANGED <<data, count, next_free, lock, file, ghost, hazard>>
Put(p) ==
  LET c == call[p]
      w == c.w
      n == IF w.at >= E THEN w.last ELSE Min({Len(w.buf), E - w.at})
  IN
  /\ c.pc = "put"
  /\ data' = IF w.at >= E THEN data
             ELSE [data EXCEPT ![w.next] =
                     [i \in 1..E |-> IF i - w.at \in 1..n THEN w.buf[i - w.at] ELSE @[i]]]
  /\ Go(p, ChainStep([c EXCEPT
             !.w = [w EXCEPT !.cur = w.next, !.next = fat[w.next], !.last = n,
                             !.at = IF w.at >= E THEN w.at - E ELSE 0,
                             !.buf = SubSeq(w.buf, n + 1, Len(w.buf)), !.done = w.done + n]]))
  /\ UNCHANGED <<fat, count, next_free, lock, file, ghost, hazard>>
Fill(p) ==
  LET c == call[p] IN
  /\ c.pc = "fill"
  /\ data' = [data EXCEPT ![c.w.cur] =
                [i \in 1..E |-> IF i > c.w.last THEN Zero ELSE @[i]]]
  /\ Go(p, Truncated(c))
  /\ UNCHANGED <<fat, count, next_free, lock, file, ghost, hazard>>
Cut(p) ==
  LET c == call[p] IN
  /\ c.pc = "cut"
  /\ fat' = [fat EXCEPT ![c.w.cur] = Eoc]
  /\ Go(p, [c EXCEPT !.pc = c.after])
  /\ UNCHANGED <<data, count, next_free, lock, file, ghost, hazard>>

\* fat_update_file_entry: the entry is found by its path, then written.
Locate(p) ==
  LET c == call[p]
      dir == fat_find_last_directory(Root, c.path)
      i == IF dir = 0 THEN NotFound ELSE fat_find_entry_info(dir, Last(c.path))
  IN
  /\ c.pc = "locate"
  /\ file' = IF c.op = "write" THEN [file EXCEPT ![p].entry.size = file[p].pos + c.w.done] ELSE file
  /\ Go(p, IF i = NotFound THEN [c EXCEPT !.pc = "done"]
           ELSE LET at == Slot(Chain(dir), i.sfn)
                IN  [c EXCEPT !.pc = "store", !.got = at[1], !.x = at[2]])
  /\ UNCHANGED <<disk, count, next_free, lock, ghost, hazard>>
Store(p) ==
  LET c == call[p] IN
  /\ c.pc = "store"
  /\ data' = [data EXCEPT ![c.got][c.x] = file[p].entry]
  /\ Go(p, [c EXCEPT !.pc = "done"])
  /\ UNCHANGED <<fat, count, next_free, lock, file, ghost, hazard>>

-----------------------------------------------------------------------------
(* The calls.  Asked(p, op, path, to) holds when process p may make this call.  A call    *)
(* that only returns an error changes nothing and is left out.                           *)

Asked(p, op, path, to) ==
  /\ call[p] = Idle /\ calls < MaxCalls
  /\ << op, path, to >> \in Workload[p]
Begin(p, c, danger) ==
  /\ calls' = calls + 1
  /\ hazard' = IF Race(p, c.dirs) THEN "race" ELSE danger
  /\ Go(p, c)

\* fat_open_file of a file that exists; its access date is brought up to date or not.
OpenFile(p, path) ==
  LET e == fat_find_entry_with_path(path)
      dir == fat_find_last_directory(Root, path)
  IN
  /\ Asked(p, "open", path, <<>>) /\ file[p] = Closed /\ e # NoEntry /\ ~e.dir
  /\ file' = [file EXCEPT ![p] = [path |-> path, entry |-> e, pos |-> 0]]
  /\ \E c \in {Idle, [Start("open", path, <<>>, {dir}) EXCEPT !.pc = "locate"]} :
       IF c = Idle THEN calls' = calls + 1 /\ UNCHANGED <<hazard, call>> ELSE Begin(p, c, hazard)
  /\ UNCHANGED <<disk, count, next_free, lock, files, unsure, crashes>>

\* fat_open_file with O_CREAT of a file that does not exist, in two parts.
CreateFile(p, path) ==
  LET dir == fat_find_last_directory(Root, path)
      c == Start("create", path, <<>>, {dir})
  IN
  /\ Asked(p, "open", path, <<>>) /\ file[p] = Closed
  /\ dir # 0 /\ fat_find_entry(dir, Last(path)) = NoEntry
  /\ Begin(p, fat_add_entry(c, dir, Last(path), NoEntry, "opened"), hazard)
  /\ UNCHANGED <<disk, count, next_free, lock, file, files, unsure, crashes>>
Opened(p) ==
  LET c == call[p]
      e == fat_find_entry_with_path(c.path)
  IN
  /\ c.pc = "opened"
  /\ hazard' = IF e = NoEntry THEN "assert" ELSE hazard
  /\ file' = [file EXCEPT ![p] = [path |-> c.path, entry |-> e, pos |-> 0]]
  /\ Go(p, [c EXCEPT !.pc = "done"])
  /\ UNCHANGED <<disk, count, next_free, lock, ghost>>

\* fat_file_write with is_end_of_file, as its only caller passes it.
WriteFile(p, n) ==
  LET f == file[p]
      c == Start("write", f.path, <<>>, {fat_find_last_directory(Root, f.path)})
      buf == [i \in 1..n |-> Data(f.path)]
  IN
  /\ f # Closed /\ Asked(p, "write", f.path, <<>>)
  /\ Begin(p, IF f.entry.cluster = 0
                THEN [c EXCEPT !.pc = "alloc", !.ret = "first", !.w.buf = buf]
                ELSE fat_write_cluster_chain(c, f.entry.cluster, f.pos, buf, FALSE, "locate"),
           IF Stale(f) THEN "stale" ELSE hazard)
  /\ UNCHANGED <<disk, count, next_free, lock, file, files, unsure, crashes>>
FirstCluster(p) ==
  LET c == call[p] IN
  /\ c.pc = "first"
  /\ file' = [file EXCEPT ![p].entry.cluster = c.got]
  /\ Go(p, fat_write_cluster_chain(c, c.got, file[p].pos, c.w.buf, FALSE, "locate"))
  /\ UNCHANGED <<disk, count, next_free, lock, ghost, hazard>>

\* fat_file_read, fat_interface_file_seek and fat_interface_file_close.
ReadFile(p, n) ==
  LET f == file[p]
      room == IF f.entry.cluster = 0 THEN 0 ELSE Len(Units(f.entry.cluster)) - f.pos
      read == Min({n, room, f.entry.size - f.pos})
  IN
  /\ f # Closed /\ call[p] = Idle
  /\ file' = [file EXCEPT ![p].pos = f.pos + read]
  /\ UNCHANGED <<disk, count, next_free, lock, call, ghost, hazard>>
Seek(p) ==
  /\ file[p] # Closed /\ call[p] = Idle
  /\ \E pos \in {0, file[p].entry.size} : file' = [file EXCEPT ![p].pos = pos]
  /\ UNCHANGED <<disk, count, next_free, lock, call, ghost, hazard>>
Close(p) ==
  /\ file[p] # Closed /\ call[p] = Idle
  /\ file' = [file EXCEPT ![p] = Closed]
  /\ UNCHANGED <<disk, count, next_free, lock, call, ghost, hazard>>

\* fat_remove_and_clear_entry_with_path: the entry goes first, the clusters after it.
RemoveAndClear(p, op, path, e, dirs, danger) ==
  LET dir == fat_find_last_directory(Root, path)
      i == fat_find_entry_info(dir, Last(path))
      c == [Start(op, path, <<>>, {dir} \cup dirs) EXCEPT !.entry = e]
  IN
  /\ Begin(p, fat_remove_entry(c, dir, i, "clear"),
           IF danger = "none" THEN RemoveHazard(dir, i) ELSE danger)
  /\ UNCHANGED <<disk, count, next_free, lock, file, files, unsure, crashes>>
RemoveFile(p, path) ==
  LET e == fat_find_entry_with_path(path) IN
  /\ Asked(p, "remove", path, <<>>) /\ e # NoEntry /\ ~e.dir
  /\ RemoveAndClear(p, "remove", path, e, {}, "none")
\* fat_remove_dir takes a directory of up to DirLimit slots for empty.
RemoveDir(p, path) ==
  LET e == fat_find_entry_with_path(path) IN
  /\ Asked(p, "rmdir", path, <<>>) /\ e.dir
  /\ fat_get_dir_size(e.cluster) <= DirLimit
  /\ RemoveAndClear(p, "rmdir", path, e, {e.cluster},
                    IF NonEmpty(e.cluster) THEN "nonempty" ELSE "none")
ClearData(p) ==
  LET c == call[p] IN
  /\ c.pc = "clear"
  /\ Go(p, IF IsEnd(c.entry.cluster) THEN [c EXCEPT !.pc = "done"]
           ELSE [c EXCEPT !.pc = "free", !.x = c.entry.cluster, !.fret = "done"])
  /\ UNCHANGED <<disk, count, next_free, lock, file, ghost, hazard>>
\* fat_remove_dir and fat_rename_entry_with_path use the entry without asking whether it was
\* found; the latter also takes the length of a NULL name when the new path has no slash.
NullPointer(p, op, path, to) ==
  /\ Asked(p, op, path, to)
  /\ \/ op \in {"rmdir", "rename"} /\ fat_find_entry_with_path(path) = NoEntry
     \/ op = "rename" /\ Len(to) = 1 /\ fat_find_entry_with_path(path).cluster # 0
  /\ hazard' = "null" /\ calls' = calls + 1
  /\ UNCHANGED <<disk, count, next_free, lock, call, file, files, unsure, crashes>>

\* fat_create_dir: a zeroed cluster, the entry in the parent, then "." and "..".
CreateDir(p, path) ==
  LET c == Start("mkdir", path, <<>>, {fat_find_last_directory(Root, path)}) IN
  /\ Asked(p, "mkdir", path, <<>>)
  /\ Begin(p, [c EXCEPT !.pc = "alloc", !.ret = "zero"], hazard)
  /\ UNCHANGED <<disk, count, next_free, lock, file, files, unsure, crashes>>
ZeroDir(p) ==
  LET c == call[p] IN
  /\ c.pc = "zero"
  /\ data' = [data EXCEPT ![c.got] = Zeros]
  /\ Go(p, [c EXCEPT !.pc = "enter", !.entry = Entry("", TRUE, c.got, 0)])
  /\ UNCHANGED <<fat, count, next_free, lock, file, ghost, hazard>>
EnterDir_Mutant(p) ==  \* bug: the error path keeps the new cluster
  LET c == call[p]
      dir == fat_find_last_directory(Root, c.path)
  IN
  /\ c.pc = "enter"
  /\ Go(p, IF dir = 0 \/ fat_find_entry(dir, Last(c.path)) # NoEntry
             THEN [c EXCEPT !.pc = "undone"]
             ELSE fat_add_entry(c, dir, Last(c.path), c.entry, "dot"))
  /\ UNCHANGED <<disk, count, next_free, lock, file, ghost, hazard>>
EnterDir(p) ==
  LET c == call[p]
      dir == fat_find_last_directory(Root, c.path)
  IN
  /\ c.pc = "enter"
  /\ Go(p, IF dir = 0 \/ fat_find_entry(dir, Last(c.path)) # NoEntry
             THEN [c EXCEPT !.pc = "free", !.x = c.entry.cluster, !.fret = "undone"]
             ELSE fat_add_entry(c, dir, Last(c.path), c.entry, "dot"))
  /\ UNCHANGED <<disk, count, next_free, lock, file, ghost, hazard>>
Dots(p) ==
  LET c == call[p]
      own == c.entry.cluster
      dir == fat_find_last_directory(Root, c.path)
      parent == IF dir = Root THEN 0 ELSE dir
  IN
  /\ \/ c.pc = "dot" /\ Go(p, fat_add_entry(c, own, ".", c.entry, "dots"))
     \/ c.pc = "dots"
        /\ Go(p, fat_add_entry(c, own, "..", [c.entry EXCEPT !.cluster = parent], "done"))
  /\ UNCHANGED <<disk, count, next_free, lock, file, ghost, hazard>>

\* fat_rename_entry_with_path: the new entry, the removal of the old one, the ".." of a moved
\* directory.  An entry without clusters is taken for the root and refused.
Rename(p, old, new) ==
  LET e == fat_find_entry_with_path(old)
      from == fat_find_last_directory(Root, old)
      dir == fat_find_last_directory(Root, new)
      own == IF e.dir THEN {e.cluster} ELSE {}
      c == [Start("rename", old, new, {from, dir} \cup own) EXCEPT !.entry = e]
  IN
  /\ Asked(p, "rename", old, new) /\ e # NoEntry /\ e.cluster # 0 /\ Len(new) > 1
  /\ dir # 0 /\ fat_find_entry(dir, Last(new)) = NoEntry
  /\ Begin(p, fat_add_entry(c, dir, Last(new), e, "unlink"), hazard)
  /\ UNCHANGED <<disk, count, next_free, lock, file, files, unsure, crashes>>

\* The old path is looked up as a whole, but from its last directory.
Unlink(p) ==
  LET c == call[p]
      dir == fat_find_last_directory(Root, c.path)
      again == fat_find_last_directory(dir, c.path)
      i == fat_find_entry_info(again, Last(c.path))
  IN
  /\ c.pc = "unlink"
  /\ IF i = NotFound
       THEN hazard' = "nested" /\ Go(p, [c EXCEPT !.pc = "done"])
       ELSE hazard' = RemoveHazard(dir, i) /\ Go(p, fat_remove_entry(c, dir, i, "dotdot"))
  /\ UNCHANGED <<disk, count, next_free, lock, file, ghost>>
DotDot(p) ==
  LET c == call[p]
      own == c.entry.cluster
      i == fat_find_entry_info(own, "..").sfn
      at == Slot(Chain(own), i)
      parent == fat_find_last_directory(Root, c.to)
  IN
  /\ c.pc = "dotdot"
  /\ data' = IF c.entry.dir /\ i # 0
               THEN [data EXCEPT ![at[1]][at[2]] = Entry("..", TRUE, parent, c.entry.size)]
               ELSE data
  /\ Go(p, [c EXCEPT !.pc = "done"])
  /\ UNCHANGED <<fat, count, next_free, lock, file, ghost, hazard>>

\* The call returns.  files becomes what it promised: a write replaces the rest of the file.
Below(dir, path) == IsPrefix(dir, path)
NewName(c, q) ==
  IF c.op = "rename" /\ Below(c.path, q) THEN c.to \o SubSeq(q, Len(c.path) + 1, Len(q)) ELSE q
Promise(c, f) ==
  CASE c.op = "create" -> (c.path :> [dir |-> FALSE, content |-> <<>>]) @@ files
    [] c.op = "mkdir" -> (c.path :> [dir |-> TRUE, content |-> <<>>]) @@ files
    [] c.op \in {"remove", "rmdir"} -> Restrict(files, DOMAIN files \ {c.path})
    [] c.op = "write" /\ c.path \in DOMAIN files ->
         [files EXCEPT ![c.path].content =
            SubSeq(@, 1, f.pos) \o [i \in 1..c.w.done |-> Data(c.path)]]
    [] c.op = "rename" -> [q \in {NewName(c, r) : r \in DOMAIN files} |->
                             files[CHOOSE r \in DOMAIN files : NewName(c, r) = q]]
    [] OTHER -> files
Return(p) ==
  LET c == call[p] IN
  /\ c.pc \in {"done", "undone"}
  /\ files' = IF c.pc = "done" THEN Promise(c, file[p]) ELSE files
  /\ file' = IF c.op = "write" THEN [file EXCEPT ![p].pos = @ + c.w.done] ELSE file
  /\ unsure' = unsure \cup {NewName(c, u) : u \in unsure}
  /\ Go(p, Idle)
  /\ UNCHANGED <<disk, count, next_free, lock, hazard, calls, crashes>>

\* A power failure, and fat_mount.
Crash ==
  LET cut == {call[p] : p \in {q \in Procs : call[q] # Idle}} IN
  /\ crashes < MaxCrashes /\ crashes' = crashes + 1
  /\ call' = [p \in Procs |-> Idle] /\ file' = [p \in Procs |-> Closed]
  /\ lock' = "free" /\ next_free' = Hint
  /\ unsure' = unsure \cup ((UNION {{c.path, c.to} : c \in cut}) \ {<<>>})
  /\ hazard' = IF \E c \in cut : InWindow(c) THEN "torn" ELSE hazard
  /\ files' = Restrict(files, {q \in DOMAIN files : \A u \in unsure' : ~Below(u, q)})
  /\ UNCHANGED <<disk, count, calls>>

Part(p) ==
  \/ AllocScan(p) \/ AllocMark(p) \/ AllocCount(p) \/ AllocFail(p) \/ FreeMark(p) \/ FreeCount(p)
  \/ Link(p) \/ Put(p) \/ Fill(p) \/ Cut(p) \/ Locate(p) \/ Store(p)
  \/ Opened(p) \/ FirstCluster(p) \/ ClearData(p) \/ ZeroDir(p) \/ EnterDir(p) \/ Dots(p)
  \/ Unlink(p) \/ DotDot(p) \/ Return(p)
NewCall(p) ==
  \/ \E path \in Paths :
       \/ OpenFile(p, path) \/ CreateFile(p, path) \/ CreateDir(p, path)
       \/ RemoveFile(p, path) \/ RemoveDir(p, path)
  \/ \E a \in Workload[p] : NullPointer(p, a[1], a[2], a[3]) \/ Rename(p, a[2], a[3])
  \/ \E n \in Sizes : WriteFile(p, n) \/ ReadFile(p, n)
  \/ Seek(p) \/ Close(p)
Resting == hazard = "none" /\ \A p \in Procs : call[p] = Idle
Stopped == (hazard # "none" \/ (Resting /\ calls = MaxCalls)) /\ UNCHANGED vars

Next ==
  \/ hazard = "none" /\ ((\E p \in Procs : Part(p) \/ NewCall(p)) \/ Crash)
  \/ Stopped

Spec == Init /\ [][Next]_vars

-----------------------------------------------------------------------------
(* Properties *)

\* Outside the named hazards the volume holds what the calls promised: every path is found
\* exactly if it should be, as a file or a directory, and a file's chain holds its contents.
\* After a power failure this is so of every path that was not being changed, wherever the
\* failure came; and the assert of fat_open_file that a created file is found never fails.
Content(e) == IF e.cluster = 0 THEN <<>> ELSE SubSeq(Units(e.cluster), 1, e.size)
Kept ==
  /\ hazard # "assert"
  /\ Resting =>
       \A path \in Paths : (\A u \in unsure : ~Below(u, path)) =>
         LET e == fat_find_entry_with_path(path)
         IN  /\ path \in DOMAIN files <=> e # NoEntry
             /\ e # NoEntry => /\ e.dir = files[path].dir
                               /\ ~e.dir => Content(e) = files[path].content

\* The entries of the directory at cluster d that have clusters, each with its place; the
\* chains all entries of the volume lead to.
EntriesIn(d, slots) ==
  {<< d, i, slots[i].cluster >> : i \in {j \in 1..Len(slots) :
     slots[j].k = "sfn" /\ slots[j].cluster # 0 /\ slots[j].name \notin {".", ".."}}}
Dirs == {Root} \cup ({DirCluster(fat_find_entry_with_path(q)) : q \in Paths} \ {0})
Heads == {<< 0, 0, Root >>} \cup UNION {EntriesIn(d, Units(d)) : d \in Dirs}
Chains == {<< h, Chain(h[3]) >> : h \in Heads}
Clusters(chains) == UNION {ToSet(c[2]) : c \in chains}

\* At every moment outside the windows of InWindow, and so also after a power failure at such
\* a moment, every entry leads to a chain of allocated clusters that ends, and no two entries
\* share a cluster: truncation, removal and growth by two processes, each interrupted
\* anywhere, lose clusters at worst and never hand one to two owners.
EachSound(chains) == \A c \in chains : c[2] # <<>> /\ fat[Last(c[2])] = Eoc
Disjoint(chains) ==
  Cardinality(Clusters(chains)) = MapThenSumSet(LAMBDA c : Len(c[2]), chains)
BothSound(chains) == EachSound(chains) /\ Disjoint(chains)
ChainsSound ==
  (hazard = "none" /\ \A p \in Procs : ~InWindow(call[p])) => BothSound(Chains)

\* Between calls, as long as the power held, no allocated cluster is lost, and FSInfo counts
\* the free ones.
NoLeak ==
  (Resting /\ crashes = 0) =>
    /\ {c \in Cluster : fat[c] # 0} = Clusters(Chains)
    /\ count = Cardinality({c \in Cluster : fat[c] = 0})
=============================================================================
