------------------------------ MODULE MCFat32 ------------------------------
(* Process p changes the root, process q writes d/b: two directories, one FAT. *)
EXTENDS Fat32

a == << "a" >>
long == << "long name" >>
d == << "d" >>
e == << "e" >>
b == << "d", "b" >>
da == << "d", "a" >>
ed == << "e", "d" >>
SmallPaths == {a, long, d, e, b, da, ed, << "e", "d", "b" >>}
SmallWorkload ==
  [p \in Procs |->
     IF p = "p"
       THEN { << op, path, <<>> >> : op \in {"open", "write", "remove"}, path \in {a, long} }
            \cup { << op, e, <<>> >> : op \in {"open", "mkdir", "rmdir"} }
            \cup { << "rename", a, da >>, << "rename", d, ed >>, << "rename", b, ed >> }
       ELSE { << "open", b, <<>> >>, << "write", b, <<>> >> }]

Units4(u1, u2, u3, u4) == << u1, u2, u3, u4 >>
File(content) == [dir |-> FALSE, content |-> content]
Directory == [dir |-> TRUE, content |-> <<>>]
Full(path) == [i \in 1..E |-> Data(path)]

\* A root whose cluster is full, a directory with a file, a file of two clusters, and two
\* free clusters of which the first holds the data of a removed file.
Used ==
  [fat |-> [c \in Cluster |-> CASE c <= 4 -> Eoc [] c = 5 -> 6 [] c = 6 -> Eoc [] OTHER -> 0],
   data |-> [c \in Cluster |->
     CASE c = Root -> Units4(Entry("d", TRUE, 3, 0), Entry("a", FALSE, 5, E + 1),
                             Lfn("long name"), Entry("~1", FALSE, 0, 0))
       [] c = 3 -> Units4(Entry(".", TRUE, 3, 0), Entry("..", TRUE, 0, 0), Entry("b", FALSE, 4, 1), Zero)
       [] c = 4 -> [Zeros EXCEPT ![1] = Data(b)]
       [] c = 5 -> Full(a)
       [] c = 6 -> [Zeros EXCEPT ![1] = Data(a)]
       [] c = 7 -> Full(e)
       [] OTHER -> Zeros],
   files |-> (d :> Directory) @@ (b :> File(<<Data(b)>>)) @@ (a :> File([i \in 1..(E + 1) |-> Data(a)]))
             @@ (long :> File(<<>>))]

\* A fresh volume with one file.
Fresh ==
  [fat |-> [c \in Cluster |-> IF c = Root THEN Eoc ELSE 0],
   data |-> [c \in Cluster |-> IF c = Root THEN [Zeros EXCEPT ![1] = Entry("a", FALSE, 0, 0)] ELSE Zeros],
   files |-> (a :> File(<<>>))]
SmallVolumes == {Used, Fresh}
=============================================================================
