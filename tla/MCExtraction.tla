---------------------------- MODULE MCExtraction ----------------------------
(* Small instances of Extraction: the evidence, and what is selected. *)
EXTENDS Extraction

DirectoryRecord(name, inode) ==
  [name |-> name, dir |-> TRUE, inode |-> inode, size |-> 0, deleted |-> FALSE]
FileRecord(name, inode, size, deleted) ==
  [name |-> name, dir |-> FALSE, inode |-> inode, size |-> size, deleted |-> deleted]

(* Directories 1 and 2 contain each other; "x" is there deleted and again; *)
(* "b?" and "b*" are the same name on the host.  Directories 3 to 5 are    *)
(* nested deeper than MaxDepth.                                            *)
Evidence ==
  << <<DirectoryRecord("s", 2), FileRecord("a", 10, 3, FALSE), FileRecord("z", 0, 1, TRUE)>>,
     <<DirectoryRecord("up", 1), FileRecord("x", 11, 1, TRUE), FileRecord("x", 12, 1, FALSE),
       FileRecord("b?", 13, 0, FALSE), FileRecord("b*", 14, 1, FALSE)>>,
     <<DirectoryRecord("d", 4)>>, <<DirectoryRecord("d", 5)>>, <<FileRecord("a", 10, 3, FALSE)>> >>

HostName ==
  [n \in {"r", "s", "d", "a", "up", "x", "z", "b?", "b*"} |-> IF n \in {"b?", "b*"} THEN "b_" ELSE n]

One     == {"first"}
AllModes == {"SkipExisting", "Overwrite", "VersionedCopy"}

Root == Entry(<<>>, DirectoryRecord("r", 1))
Same == Entry(<<>>, FileRecord("a", 10, 1, FALSE))

TreeOrChain == {<<Root, Entry(<<"r">>, FileRecord("a", 10, 3, FALSE))>>,
                <<Same, Entry(<<>>, DirectoryRecord("d", 3))>>}

(* One is in the way of a file, one in the way of a directory. *)
OldFiles == {<<"r", "s", "b_">>, <<"r", "s", "up">>}
=============================================================================
