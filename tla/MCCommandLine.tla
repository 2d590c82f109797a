---------------------------- MODULE MCCommandLine ----------------------------
EXTENDS CommandLine

Dir(name, to)    == [name |-> name, folder |-> TRUE, node |-> to, kind |-> "other"]
File(name, kind) == [name |-> name, folder |-> FALSE, node |-> "none", kind |-> kind]

\* The folders every disk has: two profiles (one that is skipped), the parents
\* of Recent, Tasks, WER and Logs, and what the caller puts into those.
Kids(recent, tasks, wer, logs) ==
  [ root |-> <<Dir("Windows", "windows"), Dir("ProgramData", "programdata"), Dir("Users", "users")>>,
    users |-> <<Dir("Public", "bob"), Dir("public", "bob"), Dir("ann", "ann"), File("desktop.ini", "other")>>,
    ann |-> <<Dir("AppData", "appdata"), File("NTUSER.DAT", "other")>>, bob |-> <<>>,
    appdata |-> <<Dir("Roaming", "roaming")>>, roaming |-> <<Dir("Microsoft", "ms1")>>,
    ms1 |-> <<Dir("Windows", "mswin1")>>, mswin1 |-> <<Dir("Recent", "recent")>>, recent |-> recent,
    programdata |-> <<Dir("Microsoft", "ms2")>>, ms2 |-> <<Dir("Windows", "mswin2")>>,
    mswin2 |-> <<Dir("WER", "wer")>>, wer |-> wer,
    windows |-> <<Dir("System32", "sys32")>>,
    sys32 |-> <<Dir("Tasks", "tasks"), Dir("config", "config"), Dir("winevt", "winevt")>>,
    config |-> <<File("SYSTEM", "other")>>, tasks |-> tasks,
    winevt |-> <<Dir("Logs", "logs")>>, logs |-> logs,
    sub |-> <<File("a.lnk", "lnk"), File("b.auto", "auto"), File("c.wer", "wer"), File("e.evtx", "evtx")>>,
    deep |-> <<Dir("sub", "sub"), File("d.custom", "custom")>>,
    loop |-> <<Dir("loop", "loop"), File("x.evtx", "evtx"), File("y.lnk", "lnk"), File("z.wer", "wer"),
               File("j.auto", "auto")>> ]

Plain == Kids(<<Dir("deep", "deep"), File("r.lnk", "lnk")>>, <<Dir("sub", "sub"), Dir("deep", "deep")>>,
              <<File("q.txt", "other"), Dir("deep", "deep")>>, <<Dir("sub", "sub"), File("s.evtx", "evtx")>>)
Loops == Kids(<<Dir("loop", "loop")>>, <<Dir("loop", "loop")>>, <<Dir("loop", "loop")>>, <<Dir("loop", "loop")>>)
Twice == Kids(<<Dir("sub", "sub"), Dir("sub", "sub")>>, <<File("t", "other"), File("t", "other")>>, <<>>, <<>>)

ManyDisks ==
  {[kids |-> Plain, unreadable |-> u] :
     u \in {{}, {"sub"}, {"deep"}, {"sub", "deep"}, {"users"}, {"recent"}, {"tasks", "sub"}, {"logs"}, {"root"}, {"config"}}}
  \union {[kids |-> Loops, unreadable |-> {}], [kids |-> Twice, unreadable |-> {}]}

----------------------------------------------------------------------------

Segment(family, index, spelling) == [base |-> "disk", family |-> family, index |-> index, spelling |-> spelling]
Seg == [i \in 1 .. 4 |-> Segment("e", i, i)]
Other == [Segment("e", 2, 9) EXCEPT !.base = "other"]
Neighbours == {Segment("ex", 2, 5), Other, [NoName EXCEPT !.base = "notes"], Segment("e", 3, 8)}
FewDirectories == {{Seg[1]} \union s \union n : s \in SUBSET {Seg[2], Seg[3], Seg[4]}, n \in {{}, Neighbours}}

\* A valid command line, and what may be wrong with one.
Base == [count |-> 3, help |-> FALSE, known |-> TRUE, positional |-> <<"inspect">>, image |-> Seg[1],
         partition |-> [kind |-> "id", n |-> 1], path |-> "/", source |-> "/", dest |-> "out",
         catalogOut |-> "file", catalogFormat |-> "json", outputFormat |-> "json",
         overwrite |-> "skip", fallback |-> TRUE, details |-> TRUE]
Commands == {<<"inspect">>, <<"list">>, <<"extract">>, <<"catalog">>, <<"artifacts", "scan">>, <<"artifacts", "timeline">>}
Wrong(b) ==
  {[b EXCEPT !.count = 0], [b EXCEPT !.help = TRUE], [b EXCEPT !.known = FALSE], [b EXCEPT !.positional = <<>>],
   [b EXCEPT !.positional = <<"artifacts">>], [b EXCEPT !.image = NoName], [b EXCEPT !.path = ""],
   [b EXCEPT !.source = ""], [b EXCEPT !.dest = ""], [b EXCEPT !.catalogOut = ""],
   [b EXCEPT !.catalogFormat = "xml"], [b EXCEPT !.outputFormat = "xml"], [b EXCEPT !.overwrite = "never"],
   [b EXCEPT !.partition.kind = "empty"]}
Right(b) ==
  {b, [b EXCEPT !.fallback = FALSE], [b EXCEPT !.source = "/Users"], [b EXCEPT !.details = FALSE],
   [b EXCEPT !.partition = [kind |-> "number", n |-> 2]], [b EXCEPT !.partition = [kind |-> "id", n |-> 0]],
   [b EXCEPT !.partition.kind = "text"]}
Lines(c) == Right([Base EXCEPT !.positional = c]) \union Wrong([Base EXCEPT !.positional = c])
DataTable == <<"meta", "data", "data">>
Case(d, a, n, t) == [disk |-> d, args |-> a, names |-> n, table |-> t]

\* Every command line, against a table with a slot that is left out; the valid
\* ones also against other tables, inspect beside every set of segments, and the
\* artifact commands on disks whose targets, roots, walked folders or profiles
\* cannot be listed.
AllCases ==
  {Case([kids |-> Plain, unreadable |-> {"deep"}], a, {Seg[1]}, DataTable) : a \in UNION {Lines(c) : c \in Commands}}
  \union {Case([kids |-> Twice, unreadable |-> {}], a, {Seg[1]}, t) :
            a \in UNION {Right([Base EXCEPT !.positional = c]) : c \in Commands}, t \in {NoTable, <<"meta">>}}
  \union {Case([kids |-> Twice, unreadable |-> {}], Base, n, DataTable) : n \in FewDirectories}
  \union {Case([kids |-> Plain, unreadable |-> u], [Base EXCEPT !.positional = c], {Seg[1]}, DataTable) :
            u \in {{"config"}, {"logs"}, {"sys32"}, {"sys32", "deep"}, {"users"}, {"windows", "sub"}},
            c \in {<<"artifacts", "scan">>, <<"artifacts", "timeline">>}}
=============================================================================
