------------------------------ MODULE Discovery ------------------------------
(***************************************************************************)
(* Artifact discovery (forensics/ArtifactDiscoveryService): the profiles   *)
(* under /Users, twenty fixed targets looked up per profile or once, then  *)
(* depth-bounded walks for shell links, jump lists, tasks, error reports   *)
(* and event logs, over a listing callback that may fail for any folder.   *)
(*                                                                         *)
(* A disk is a graph of folders: kids gives the entries of each, in the    *)
(* order they are listed, and unreadable the folders whose listing fails.  *)
(* A damaged file system may hold a folder inside itself, and a deleted    *)
(* and a live entry may share a name.  A path is a sequence of names; the  *)
(* code compares names without regard to case, so a name stands for all    *)
(* its spellings.  kind is what the name of a file ends with.              *)
(***************************************************************************)
EXTENDS Integers, Sequences, SequencesExt

VARIABLES
  disk,       \* the file system behind the listing callback
  cancelled,  \* what isCancelledFn answers
  pc,         \* "profiles", "rules", "walks" or "done"
  profiles,   \* the profiles found
  todo,       \* lookups or walks still ahead
  walk,       \* the walk under way
  stack,      \* its stack of listed folders, top last
  node,       \* the folder popped, with the entries still to visit
  pending,    \* the record being made, or NoRecord
  out,        \* the records appended
  warnings,   \* the folders warned of
  late        \* records appended since cancelled became true

discoveryVars ==
  <<disk, cancelled, pc, profiles, todo, walk, stack, node, pending, out, warnings, late>>

Nowhere  == "nowhere"
Failure  == <<[name |-> "", folder |-> FALSE, node |-> Nowhere, kind |-> "error"]>>
NoRecord == [artifact |-> "none"]
NoWalk   == [artifact |-> "none", profile |-> "none", root |-> <<>>, kinds |-> {}, maxDepth |-> 0]
NoNode   == [path |-> <<>>, depth |-> 0, entries |-> <<>>]

\* What a listing may hold.
AnyKind == {"lnk", "auto", "custom", "wer", "evtx", "other"}
Entry == [name : STRING, folder : BOOLEAN, node : STRING, kind : AnyKind]
TypedDisk(d) == \A n \in DOMAIN d.kids : d.kids[n] \in Seq(Entry)

\* Step(d, name)[n] is where the folder n leads under that name, if it can be listed.
Entries(d, n) == IF n = Nowhere \/ n \in d.unreadable THEN <<>> ELSE d.kids[n]
Step(d, name) ==
  [n \in DOMAIN d.kids \union {Nowhere} |->
     LET at == SelectSeq(Entries(d, n), LAMBDA e : e.folder /\ e.name = name)
     IN  IF at = <<>> THEN Nowhere ELSE Head(at).node]

\* Opening a folder walks its path from the root; any folder on it may fail.
Resolve(d, path) ==
  LET at[i \in 0 .. Len(path)] == IF i = 0 THEN "root" ELSE Step(d, path[i])[at[i - 1]]
  IN  at[Len(path)]

ListingOn(d, path) ==
  LET n == Resolve(d, path) IN IF n \in DOMAIN d.kids \ d.unreadable THEN d.kids[n] ELSE Failure
Listing(path) == ListingOn(disk, path)

\* An error of the listing is no warning here: the target counts as missing.
FindEntry(path) ==
  LET list == Listing(Front(path))
  IN  list # Failure /\ \E i \in 1 .. Len(list) : list[i].name = Last(path)

NotProfiles == {"all users", "default", "default user", "defaultuser0", "public"}
EnumerateProfiles(users) ==
  LET found[i \in 0 .. Len(users)] ==
        IF i = 0 THEN <<>>
        ELSE IF users[i].folder /\ users[i].name \notin NotProfiles
               THEN Append(found[i - 1], users[i].name) ELSE found[i - 1]
  IN  found[Len(users)]

Home       == <<"Users", "{user}">>
Local      == Home \o <<"AppData", "Local">>
ChromeData == Local \o <<"Google", "Chrome", "User Data", "Default">>
Shell      == Home \o <<"AppData", "Roaming", "Microsoft", "Windows">>
System32   == <<"Windows", "System32">>
SystemHive == System32 \o <<"config", "SYSTEM">>
Profile(artifact, path) == [artifact |-> artifact, perProfile |-> TRUE, path |-> path]
Machine(artifact, path) == [artifact |-> artifact, perProfile |-> FALSE, path |-> path]

Rules == <<
  Profile("Chrome History", Append(ChromeData, "History")),
  Profile("Edge History", Local \o <<"Microsoft", "Edge", "User Data", "Default", "History">>),
  Profile("Downloads", Append(Home, "Downloads")),
  Profile("Cookies", Append(ChromeData, "Cookies")),
  Profile("Login Data", Append(ChromeData, "Login Data")),
  Machine("Prefetch", <<"Windows", "Prefetch">>),
  Machine("Amcache", <<"Windows", "AppCompat", "Programs", "Amcache.hve">>),
  Profile("RecentDocs resolver", Append(Home, "NTUSER.DAT")),
  Profile("UserAssist resolver", Append(Home, "NTUSER.DAT")),
  Profile("Run/RunOnce resolver", Append(Home, "NTUSER.DAT")),
  Profile("Startup folder", Shell \o <<"Start Menu", "Programs", "Startup">>),
  Machine("Scheduled Tasks", Append(System32, "Tasks")),
  Machine("Services hive resolver", SystemHive),
  Machine("BAM/DAM resolver", SystemHive),
  Machine("AppCompatCache resolver", SystemHive),
  Machine("Recycle Bin", <<"$Recycle.Bin">>),
  Machine("USB registry resolver", SystemHive),
  Machine("EVTX root", System32 \o <<"winevt", "Logs">>),
  Machine("SRUM metadata probe", System32 \o <<"sru", "SRUDB.dat">>),
  Machine("WER", <<"ProgramData", "Microsoft", "Windows", "WER">>) >>

ForUser(path, user) == [i \in 1 .. Len(path) |-> IF path[i] = "{user}" THEN user ELSE path[i]]

\* What a loop appends in all its rounds.
Joined(parts) ==
  LET upto[i \in 0 .. Len(parts)] == IF i = 0 THEN <<>> ELSE upto[i - 1] \o parts[i]
  IN  upto[Len(parts)]

\* The calls of appendRecord, in order: rule by rule, under it profile by profile.
Lookup(rule, user) == [artifact |-> rule.artifact, profile |-> user, path |-> ForUser(rule.path, user)]
LookupsOf(rule, users) ==
  IF rule.perProfile THEN [u \in 1 .. Len(users) |-> Lookup(rule, users[u])]
  ELSE << Lookup(rule, "SYSTEM") >>
Lookups(users) == Joined([r \in 1 .. Len(Rules) |-> LookupsOf(Rules[r], users)])

Record(artifact, profile, path, status) ==
  [artifact |-> artifact, profile |-> profile, path |-> path, status |-> status]
LookedUp(l) == Record(l.artifact, l.profile, l.path, IF FindEntry(l.path) THEN "Present" ELSE "Missing")

Walk(artifact, profile, root, kinds, maxDepth) ==
  [artifact |-> artifact, profile |-> profile, root |-> root, kinds |-> kinds, maxDepth |-> maxDepth]

WalksOf(user) ==
  LET recent == ForUser(Append(Shell, "Recent"), user)
  IN  << Walk("LNK files", user, recent, {"lnk"}, 2), Walk("Jump Lists", user, recent, {"auto", "custom"}, 3) >>
MachineWalks ==
  << Walk("Scheduled Task definitions", "SYSTEM", Append(System32, "Tasks"), AnyKind, 8),
     Walk("WER report files", "SYSTEM", <<"ProgramData", "Microsoft", "Windows", "WER">>, {"wer"}, 8),
     Walk("EVTX files", "SYSTEM", System32 \o <<"winevt", "Logs">>, {"evtx"}, 6) >>
Walks(users) == Joined([u \in 1 .. Len(users) |-> WalksOf(users[u])]) \o MachineWalks

\* The disk is the caller's.
DiscoveryInit ==
  /\ cancelled = FALSE
  /\ pc = "profiles" /\ profiles = <<>> /\ todo = <<>>
  /\ walk = NoWalk /\ stack = <<>> /\ node = NoNode /\ pending = NoRecord
  /\ out = <<>> /\ warnings = <<>> /\ late = 0

Idle == node.entries = <<>> /\ stack = <<>> /\ pending = NoRecord

----------------------------------------------------------------------------
(* discover(), one step between two looks at isCancelledFn *)

FindProfiles ==
  /\ pc = "profiles"
  /\ LET users == Listing(<<"Users">>) IN
     /\ profiles' = IF cancelled \/ users = Failure THEN <<>> ELSE EnumerateProfiles(users)
     /\ warnings' = IF ~cancelled /\ users = Failure THEN <<<<"Users">>>> ELSE warnings
  /\ pc' = "rules" /\ todo' = Lookups(profiles')
  /\ UNCHANGED <<disk, cancelled, walk, stack, node, pending, out, late>>

\* The record is made from a listing taken after the check, and appended without another.
LookUp ==
  /\ pc = "rules" /\ pending = NoRecord /\ todo # <<>> /\ ~cancelled
  /\ pending' = LookedUp(Head(todo)) /\ todo' = Tail(todo)
  /\ UNCHANGED <<disk, cancelled, pc, profiles, walk, stack, node, out, warnings, late>>

AppendRecord ==
  /\ pending # NoRecord
  /\ out' = Append(out, pending) /\ pending' = NoRecord
  /\ late' = IF cancelled THEN late + 1 ELSE late
  /\ UNCHANGED <<disk, cancelled, pc, profiles, todo, walk, stack, node, warnings>>

RulesDone ==
  /\ pc = "rules" /\ pending = NoRecord /\ todo = <<>> /\ ~cancelled
  /\ pc' = "walks" /\ todo' = Walks(profiles)
  /\ UNCHANGED <<disk, cancelled, profiles, walk, stack, node, pending, out, warnings, late>>

BeginWalk ==
  /\ pc = "walks" /\ Idle /\ todo # <<>> /\ ~cancelled
  /\ walk' = Head(todo) /\ todo' = Tail(todo)
  /\ LET list == Listing(walk'.root)
     IN  stack' = IF list = Failure THEN <<>>
                  ELSE <<[path |-> walk'.root, depth |-> 0, entries |-> list]>>
  /\ UNCHANGED <<disk, cancelled, pc, profiles, node, pending, out, warnings, late>>

PopFolder ==
  /\ node.entries = <<>> /\ pending = NoRecord /\ stack # <<>> /\ ~cancelled
  /\ node' = Last(stack) /\ stack' = Front(stack)
  /\ UNCHANGED <<disk, cancelled, pc, profiles, todo, walk, pending, out, warnings, late>>

DescendsOneMore(entry) == entry.folder /\ node.depth <= walk.maxDepth
Descends(entry) == entry.folder /\ node.depth < walk.maxDepth
WarnedNever(path) == warnings
Warned(path) == Append(warnings, path)

\* One entry: a folder above the bound is listed and pushed, a folder below it
\* is dropped, a file whose name matches becomes a record.
VisitEntry ==
  /\ node.entries # <<>> /\ pending = NoRecord /\ ~cancelled
  /\ node' = [node EXCEPT !.entries = Tail(@)]
  /\ LET entry == Head(node.entries)
         path  == Append(node.path, entry.name)
         list  == IF Descends(entry) THEN Listing(path) ELSE Failure
     IN  /\ warnings' = IF Descends(entry) /\ list = Failure THEN Warned(path) ELSE warnings
         /\ stack' = IF list = Failure THEN stack
                     ELSE Append(stack, [path |-> path, depth |-> node.depth + 1, entries |-> list])
         /\ pending' = IF ~entry.folder /\ entry.kind \in walk.kinds
                       THEN Record(walk.artifact, walk.profile, path, "Present") ELSE NoRecord
  /\ UNCHANGED <<disk, cancelled, pc, profiles, todo, walk, out, late>>

\* Every look at isCancelledFn that answers yes leads straight out.
ReturnWhenThrough == cancelled /\ Idle /\ todo = <<>>
ReturnEarly == cancelled /\ pending = NoRecord
Return ==
  /\ pc \in {"rules", "walks"}
  /\ \/ ReturnEarly
     \/ pc = "walks" /\ Idle /\ todo = <<>>
  /\ pc' = "done" /\ todo' = <<>> /\ stack' = <<>> /\ node' = NoNode
  /\ UNCHANGED <<disk, cancelled, profiles, walk, pending, out, warnings, late>>

Discover ==
  FindProfiles \/ LookUp \/ AppendRecord \/ RulesDone \/ BeginWalk \/ PopFolder \/ VisitEntry \/ Return

RequestCancel ==
  /\ ~cancelled /\ pc # "done" /\ cancelled' = TRUE
  /\ UNCHANGED <<disk, pc, profiles, todo, walk, stack, node, pending, out, warnings, late>>

----------------------------------------------------------------------------
(* What the report should say, level by level instead of by a stack *)

Elements(s) == {s[i] : i \in 1 .. Len(s)}
Readable(path) == Listing(path) # Failure
Folders(path) == {e \in Elements(Listing(path)) : e.folder}
Matches(path, kinds) == {e \in Elements(Listing(path)) : ~e.folder /\ e.kind \in kinds}

\* Level(w)[d]: the folders d below the root that a walk may open.
Level(w) ==
  LET level[d \in 0 .. w.maxDepth] ==
        IF d = 0 THEN {w.root}
        ELSE UNION {{Append(p, e.name) : e \in Folders(p)} : p \in {q \in level[d - 1] : Readable(q)}}
  IN  level

Opened(w) == UNION {Level(w)[d] : d \in 0 .. w.maxDepth}
Files(w) ==
  UNION {{Record(w.artifact, w.profile, Append(p, e.name), "Present") : e \in Matches(p, w.kinds)} :
           p \in {q \in Opened(w) : Readable(q)}}
Unlisted(w) == {p \in Opened(w) : p # w.root /\ ~Readable(p)}

TheWalks == Elements(Walks(profiles))
Expected == {LookedUp(l) : l \in Elements(Lookups(profiles))} \union UNION {Files(w) : w \in TheWalks}
Unread   == UNION {Unlisted(w) : w \in TheWalks}

DistinctNames ==
  \A n \in DOMAIN disk.kids : \A i, j \in 1 .. Len(disk.kids[n]) :
    disk.kids[n][i].name = disk.kids[n][j].name => i = j

\* A discovery that was not cancelled reports every target and every file
\* within the depth of its walk, and nothing else, whatever folders fail,
\* repeat a name or contain themselves; where no folder lists a name twice,
\* nothing is reported twice.  After a cancellation at most the record being
\* made is still appended (discover, appendRecursiveBySuffix).
ReportIsComplete ==
  /\ pc = "done" /\ ~cancelled => Elements(out) = Expected
  /\ DistinctNames => \A i, j \in 1 .. Len(out) : out[i] = out[j] => i = j
  /\ late <= 1

\* Every folder below the root of a walk that could not be listed is warned of,
\* and no other but /Users is (ARCHITECTURE, recursive-discovery warnings).
FailedFoldersWarned ==
  pc = "done" /\ ~cancelled =>
    Elements(warnings) = Unread \union (IF Readable(<<"Users">>) THEN {} ELSE {<<"Users">>})
=============================================================================
