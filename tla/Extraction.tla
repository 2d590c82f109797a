------------------------------ MODULE Extraction ------------------------------
(***************************************************************************)
(* Extraction tasks (forensics/ExtractionService, utils/ExtractionPlanner, *)
(* workers/ExtractionWorker): collecting a selection's subtrees into a     *)
(* work list, then, entry by entry, choosing a destination under the       *)
(* overwrite policy and copying the file chunk by chunk.                   *)
(*                                                                         *)
(* The evidence is a set of directories, each a sequence of name records;  *)
(* a record names an inode, so directories may contain each other and a    *)
(* name may occur twice (a deleted and an allocated one).  Bytes are       *)
(* counted in units.  The GUI may run several tasks at once: they share    *)
(* the host's file system only.                                            *)
(***************************************************************************)
EXTENDS Integers, Sequences, SequencesExt, FiniteSets

CONSTANTS
  Workers,   \* names of extraction tasks
  Selections, \* what a task may be given: sequences of entries
  Contents,  \* Contents[inode]: the name records of a directory, in order
  Clean,     \* sanitizePathComponent, on the names that occur
  Modes,     \* the overwrite policies of this instance
  Existing,  \* destination paths of files on the host before any task
  MaxDepth,  \* kMaxRecursionDepth
  Chunk      \* kChunkSize

(* A name record of a directory, and an entry of a selection or work list. *)
Records == [name : DOMAIN Clean, dir : BOOLEAN, inode : Nat, size : Nat, deleted : BOOLEAN]
Paths   == Seq(DOMAIN Clean)
Entries == [path : Paths, dir : BOOLEAN, inode : Nat, size : Nat, deleted : BOOLEAN]

(* The names of every directory are known. *)
Known(record) == record.dir => record.inode \in DOMAIN Contents

(* The rows of a listing are siblings and artifacts are files: nothing is  *)
(* selected in front of a directory it is in.                              *)
ASSUME ExtractionAssumption ==
  /\ Modes \subseteq {"SkipExisting", "Overwrite", "VersionedCopy"}
  /\ Workers \cap {"before", "mixed"} = {}
  /\ MaxDepth \in Nat /\ Chunk \in Nat \ {0}
  /\ IsFiniteSet(Existing)
  /\ \A n \in DOMAIN Contents :
       Contents[n] \in Seq(Records) /\ \A i \in DOMAIN Contents[n] : Known(Contents[n][i])
  /\ \A s \in Selections :
       /\ s \in Seq(Entries)
       /\ \A i \in DOMAIN s : Known(s[i])
       /\ \A i, j \in DOMAIN s : i < j => ~IsStrictPrefix(s[j].path, s[i].path)

VARIABLES
  run,   \* worker -> where its task stands, see Start
  host   \* destination -> what is there

vars == <<run, host>>

-----------------------------------------------------------------------------
Start(mode, selected) ==
  [mode      |-> mode,
   selected  |-> selected,
   phase     |-> "collect",  \* then "files", "open", "copy" and back, "answered"
   seed      |-> 1,          \* the next selected entry
   stack     |-> <<>>,       \* open directories, innermost first: path and records left
   paths     |-> {},         \* seenPaths
   inodes    |-> {},         \* seenDirInodes
   worklist  |-> <<>>,
   index     |-> 1,          \* of the work list
   dest      |-> <<>>,       \* the chosen destination
   decision  |-> "",
   offset    |-> 0,
   processed |-> 0,          \* totalBytesProcessed
   results   |-> <<>>,
   error     |-> "",
   token     |-> FALSE,      \* the cancellation token
   checked   |-> FALSE,      \* past a look at the token that found it unset
   answer    |-> "none"]

(* A destination is a path and a version; version 0 is the path itself. *)
Plain(path) == <<path, 0>>
Exists(d)   == d \in DOMAIN host

OldFile == [kind |-> "file", owner |-> "before", source |-> <<>>, bytes |-> 0]
Dir     == [kind |-> "dir", owner |-> "before", source |-> <<>>, bytes |-> 0]

Init ==
  /\ \E mode \in [Workers -> Modes], selected \in [Workers -> Selections] :
       run = [w \in Workers |-> Start(mode[w], selected[w])]
  /\ host = [d \in {Plain(path) : path \in Existing} |-> OldFile]

Update(w, r) == run' = [run EXCEPT ![w] = r]

(* requestCancel, called on the worker. *)
RequestCancel(w) ==
  /\ run[w].phase # "answered" /\ ~run[w].token
  /\ Update(w, [run[w] EXCEPT !.token = TRUE])
  /\ UNCHANGED host
-----------------------------------------------------------------------------
(* collectRecursive, its recursion on a stack of open directories. *)

Entry(path, record) ==
  [path |-> Append(path, record.name), dir |-> record.dir, inode |-> record.inode,
   size |-> record.size, deleted |-> record.deleted]

InDirectory(r) == r.stack # <<>>

(* The entry collectRecursive is called with next, and the call made. *)
HasCall(r) ==
  r.phase = "collect" /\ IF InDirectory(r) THEN Head(r.stack).left # <<>> ELSE r.seed <= Len(r.selected)

Callee(r) ==
  IF InDirectory(r) THEN Entry(Head(r.stack).path, Head(Head(r.stack).left)) ELSE r.selected[r.seed]

(* Fault: a selected entry is taken up again. *)
CalledAgain(r) ==
  IF InDirectory(r) THEN [r EXCEPT !.stack[1].left = Tail(@)] ELSE r

Called(r) ==
  IF InDirectory(r) THEN [r EXCEPT !.stack[1].left = Tail(@)] ELSE [r EXCEPT !.seed = @ + 1]

(* Fault: a path is collected as often as it is met. *)
SeenByInode(r, e) == e.dir /\ e.inode \in r.inodes

Seen(r, e) == e.path \in r.paths

(* A directory's inode is gone through once, inode 0 excepted. *)
Expands(r, e) == e.dir /\ (e.inode = 0 \/ e.inode \notin r.inodes)

Collected(r, e) ==
  [r EXCEPT !.paths = @ \union {e.path}, !.worklist = Append(@, e)]

(* Fault: the rest of the parent directory is left out. *)
OpenedInPlace(r, e) ==
  [r EXCEPT !.inodes = @ \union {e.inode},
            !.stack = <<[path |-> e.path, left |-> Contents[e.inode]]>> \o
                        (IF @ = <<>> THEN <<>> ELSE Tail(@))]

Opened(r, e) ==
  [r EXCEPT !.inodes = IF e.inode = 0 THEN @ ELSE @ \union {e.inode},
            !.stack = <<[path |-> e.path, left |-> Contents[e.inode]]>> \o @]

(* extract returns: an error leaves the work list unused. *)
Return(w, r, error) ==
  Update(w, [r EXCEPT !.phase = "returned", !.error = error]) /\ UNCHANGED host

Collect(w) ==
  /\ HasCall(run[w])
  /\ LET r == run[w]
         e == Callee(r)
         n == Called(r)
     IN  \/ r.token /\ Return(w, r, "cancelled")
         \/ ~r.token /\ Len(r.stack) > MaxDepth /\ Return(w, r, "depth")
         \/ /\ ~r.token /\ Len(r.stack) <= MaxDepth
            /\ \/ Seen(r, e) /\ Update(w, n)
               \/ ~Seen(r, e) /\ ~Expands(r, e) /\ Update(w, Collected(n, e))
               \/ ~Seen(r, e) /\ Expands(r, e) /\ Update(w, Opened(Collected(n, e), e))
            /\ UNCHANGED host
         \/ /\ ~r.token /\ Len(r.stack) <= MaxDepth
            /\ ~Seen(r, e) /\ Expands(r, e)
            /\ Return(w, r, "unreadable directory")

CloseDirectory(w) ==
  /\ run[w].phase = "collect" /\ InDirectory(run[w]) /\ Head(run[w].stack).left = <<>>
  /\ Update(w, [run[w] EXCEPT !.stack = Tail(@)])
  /\ UNCHANGED host

WorklistComplete(w) ==
  /\ run[w].phase = "collect" /\ ~InDirectory(run[w]) /\ run[w].seed > Len(run[w].selected)
  /\ Update(w, [run[w] EXCEPT !.phase = "files"])
  /\ UNCHANGED host
-----------------------------------------------------------------------------
(* The loop over the work list. *)

Current(r) == r.worklist[r.index]

(* composeDestinationPath *)
Requested(e) == [i \in DOMAIN e.path |-> Clean[e.path[i]]]

(* Directories a path runs through, the path itself left out. *)
Parents(path) == {Plain(SubSeq(path, 1, n)) : n \in 1 .. Len(path) - 1}

IsFile(d) == Exists(d) /\ host[d].kind = "file"
IsDir(d)  == Exists(d) /\ host[d].kind = "dir"

(* QDir::mkpath fails where a file is in the way. *)
CanMake(dirs)  == \A d \in dirs : ~IsFile(d)
With(dirs)     == [d \in DOMAIN host \union dirs |-> IF Exists(d) THEN host[d] ELSE Dir]

(* finalStatusFromOutcome *)
SuccessOutcomes == {"success", "success_overwrite", "success_versioned"}
FinalStatus(outcome, warned, failed) ==
  IF ~failed /\ warned /\ outcome \in SuccessOutcomes THEN "success_with_warning" ELSE outcome

Result(e, outcome, dest, written, warned, failed) ==
  [entry |-> e, outcome |-> outcome, status |-> FinalStatus(outcome, warned, failed),
   dest |-> dest, written |-> written, warned |-> warned, failed |-> failed]

(* A result ends the turn of the loop. *)
Done(r, result, bytes) ==
  [r EXCEPT !.results = Append(@, result), !.index = @ + 1, !.phase = "files",
            !.processed = @ + bytes, !.offset = 0, !.checked = FALSE]

AtEntry(w)    == run[w].phase = "files" /\ run[w].index <= Len(run[w].worklist)
Copying(w)    == run[w].phase = "copy"
Unfinished(w) == Copying(w) /\ run[w].offset < Current(run[w]).size

(* The token is looked at before each entry and before each chunk; what    *)
(* the look allows is a step of its own, so a request may come between.    *)
CheckToken(w) ==
  /\ AtEntry(w) \/ Unfinished(w)
  /\ ~run[w].checked /\ ~run[w].token
  /\ Update(w, [run[w] EXCEPT !.checked = TRUE])
  /\ UNCHANGED host

StopBetweenFiles(w) ==
  /\ AtEntry(w) /\ ~run[w].checked /\ run[w].token
  /\ Return(w, run[w], "cancelled")

LoopEnds(w) ==
  /\ run[w].phase = "files" /\ run[w].index > Len(run[w].worklist)
  /\ Return(w, run[w], "")

MakeDirectory(w) ==
  LET r == run[w]
      e == Current(r)
      d == Plain(Requested(e))
      path == Parents(Requested(e)) \union {d}
  IN  /\ AtEntry(w) /\ r.checked /\ e.dir
      /\ \/ /\ CanMake(path)
            /\ host' = With(path)
            /\ Update(w, Done(r, Result(e, "directory_created", d, 0, FALSE, FALSE), 0))
         \/ /\ ~CanMake(path)
            /\ UNCHANGED host
            /\ Update(w, Done(r, Result(e, "directory_create_failed", <<>>, 0, FALSE, TRUE), 0))

RejectInode(w) ==
  LET r == run[w]
      e == Current(r)
  IN  /\ AtEntry(w) /\ r.checked /\ ~e.dir /\ e.inode = 0
      /\ Update(w, Done(r, Result(e, "invalid_inode", <<>>, 0, FALSE, TRUE), 0))
      /\ UNCHANGED host

Skips(r, path) == Exists(Plain(path)) /\ r.mode = "SkipExisting"

(* Fault: versions are counted up from the number of versions taken. *)
VersionFromOne(path) == <<path, 1>>

(* The first version nothing has yet. *)
FreeVersion(path) ==
  LET Free(n) == ~Exists(<<path, n>>)
  IN  <<path, CHOOSE n \in 0 .. Cardinality(DOMAIN host) :
                Free(n) /\ \A k \in 0 .. n - 1 : ~Free(k)>>

(* resolveDestinationPath, but for the skipped ones. *)
ResolveDestination(r, path) ==
  IF ~Exists(Plain(path)) THEN [dest |-> Plain(path), decision |-> "new"]
  ELSE IF r.mode = "Overwrite" THEN [dest |-> Plain(path), decision |-> "overwrite"]
  ELSE [dest |-> FreeVersion(path), decision |-> "versioned_copy"]

SkipFile(w) ==
  LET r == run[w]
      e == Current(r)
  IN  /\ AtEntry(w) /\ r.checked /\ ~e.dir /\ e.inode # 0
      /\ Skips(r, Requested(e))
      /\ Update(w, Done(r, Result(e, "skipped_existing", Plain(Requested(e)), 0, FALSE, FALSE), e.size))
      /\ UNCHANGED host

DecideDestination(w) ==
  LET r == run[w]
      e == Current(r)
      choice == ResolveDestination(r, Requested(e))
      parents == Parents(Requested(e))
  IN  /\ AtEntry(w) /\ r.checked /\ ~e.dir /\ e.inode # 0
      /\ ~Skips(r, Requested(e))
      /\ Update(w, [r EXCEPT !.phase = "open", !.dest = choice.dest, !.decision = choice.decision])
      /\ host' = IF CanMake(parents) THEN With(parents) ELSE host

(* Opening the output truncates what is there by now. *)
OpenFile(w) ==
  LET r == run[w]
      e == Current(r)
      writable == ~IsDir(r.dest) /\ \A d \in Parents(r.dest[1]) : IsDir(d)
  IN  /\ r.phase = "open"
      /\ \/ /\ Update(w, Done(r, Result(e, "open_failed", <<>>, 0, FALSE, TRUE), 0))
            /\ UNCHANGED host
         \/ /\ Update(w, Done(r, Result(e, "write_open_failed", <<>>, 0, FALSE, TRUE), 0))
            /\ UNCHANGED host
         \/ /\ writable
            /\ Update(w, [r EXCEPT !.phase = "copy", !.offset = 0, !.checked = FALSE])
            /\ host' = [d \in DOMAIN host \union {r.dest} |->
                          IF d = r.dest
                            THEN [kind |-> "file", owner |-> w, source |-> <<e.path, e.inode>>, bytes |-> 0]
                            ELSE host[d]]
-----------------------------------------------------------------------------
(* Copying one file. *)

Least(a, b) == IF a < b THEN a ELSE b

(* Fault: a whole chunk is asked for at the end of the file, too. *)
AskWhole(r, e) == Chunk

Ask(r, e) == Least(e.size - r.offset, Chunk)

(* Bytes written by a task whose file another one has opened since make a  *)
(* file that is neither's.                                                 *)
Written(d, w, n) ==
  [host EXCEPT ![d].bytes = @ + n, ![d].owner = IF @ = w THEN w ELSE "mixed"]

StopInFile(w) ==
  /\ Unfinished(w) /\ ~run[w].checked /\ run[w].token
  /\ Return(w, run[w], "cancelled")

(* Fault: the token is not looked at while a file is copied. *)
CopyChunkUnchecked(w) ==
  LET r == run[w]
  IN  /\ Unfinished(w)
      /\ \E got \in 1 .. Ask(r, Current(r)) :
           /\ Update(w, [r EXCEPT !.offset = @ + got, !.checked = FALSE])
           /\ host' = Written(r.dest, w, got)

CopyChunk(w) ==
  LET r == run[w]
  IN  /\ Unfinished(w) /\ r.checked
      /\ \E got \in 1 .. Ask(r, Current(r)) :
           /\ Update(w, [r EXCEPT !.offset = @ + got, !.checked = FALSE])
           /\ host' = Written(r.dest, w, got)

(* A failed write may have written some of it. *)
CopyFails(w) ==
  LET r == run[w]
      Failed(outcome) == Result(Current(r), outcome, r.dest, r.offset, FALSE, TRUE)
  IN  /\ Unfinished(w) /\ r.checked
      /\ \/ Update(w, Done(r, Failed("read_failed"), r.offset)) /\ UNCHANGED host
         \/ /\ Update(w, Done(r, Failed("write_failed"), r.offset))
            /\ \E some \in 0 .. Ask(r, Current(r)) - 1 : host' = Written(r.dest, w, some)

(* successOutcomeFromDecision *)
SuccessOutcome(decision) ==
  CASE decision = "overwrite"      -> "success_overwrite"
    [] decision = "versioned_copy" -> "success_versioned"
    [] OTHER                       -> "success"

(* Fault: only the decision tells the outcome. *)
OutcomeOfDecision(r, e) == SuccessOutcome(r.decision)

Outcome(r, e) == IF r.offset # e.size THEN "short_read" ELSE SuccessOutcome(r.decision)

(* The end of the file, or a read that gives nothing; times of the host    *)
(* file may be refused.                                                    *)
FinishFile(w) ==
  LET r == run[w]
      e == Current(r)
      outcome == Outcome(r, e)
  IN  /\ Copying(w) /\ (Unfinished(w) => r.checked)
      /\ \E timesRefused \in BOOLEAN :
           Update(w, Done(r, Result(e, outcome, r.dest, r.offset,
                                    r.offset # e.size \/ e.deleted \/ timesRefused, FALSE), r.offset))
      /\ UNCHANGED host

(* Fault: what was extracted is delivered although the task was stopped. *)
AnswerWithoutToken(r) ==
  IF r.error # "" THEN "failed"
  ELSE IF \E i \in DOMAIN r.results : r.results[i].warned THEN "warning"
  ELSE "success"

(* resolveExtractionOutcome *)
Answer(r) ==
  IF r.token THEN "cancelled"
  ELSE IF r.error # "" THEN "failed"
  ELSE IF \E i \in DOMAIN r.results : r.results[i].warned THEN "warning"
  ELSE "success"

Payload(r) == IF Answer(r) \in {"success", "warning"} THEN r.results ELSE <<>>

AnswerTask(w) ==
  /\ run[w].phase = "returned"
  /\ Update(w, [run[w] EXCEPT !.phase = "answered", !.answer = Answer(run[w]),
                              !.results = Payload(run[w])])
  /\ UNCHANGED host

Extract(w) ==
  \/ Collect(w) \/ CloseDirectory(w) \/ WorklistComplete(w)
  \/ CheckToken(w) \/ StopBetweenFiles(w) \/ LoopEnds(w)
  \/ MakeDirectory(w) \/ RejectInode(w) \/ SkipFile(w) \/ DecideDestination(w) \/ OpenFile(w)
  \/ StopInFile(w) \/ CopyChunk(w) \/ CopyFails(w) \/ FinishFile(w)
  \/ AnswerTask(w)

Next == \E w \in Workers : Extract(w) \/ RequestCancel(w)

(* A started thread runs. *)
Spec == Init /\ [][Next]_vars /\ \A w \in Workers : WF_vars(Extract(w))
-----------------------------------------------------------------------------
Phases   == {"collect", "files", "open", "copy", "returned", "answered"}
Outcomes == SuccessOutcomes \union
  {"directory_created", "directory_create_failed", "invalid_inode", "skipped_existing", "open_failed",
   "write_open_failed", "read_failed", "write_failed", "short_read"}

(* The sums of the sizes up to each entry of a work list. *)
TotalSizes(list) ==
  LET total[n \in 0 .. Len(list)] ==
        IF n = 0 THEN 0 ELSE total[n - 1] + (IF list[n].dir THEN 0 ELSE list[n].size)
  IN  total

Estimated(r) == TotalSizes(r.worklist)[Len(r.worklist)]

(* Every variable stays in its type, and the bytes a progress signal       *)
(* reports within its estimate, over skipped, failed, short and finished   *)
(* files.                                                                  *)
TypeOK ==
  /\ \A w \in Workers :
       LET r == run[w]
       IN  /\ r.mode \in Modes /\ r.phase \in Phases
           /\ r.seed \in 1 .. Len(r.selected) + 1
           /\ Len(r.stack) <= MaxDepth + 1
           /\ r.index \in 1 .. Len(r.worklist) + 1
           /\ r.phase \in {"open", "copy"} => r.index <= Len(r.worklist)
           /\ r.decision \in {"", "new", "overwrite", "versioned_copy"}
           /\ \A i \in DOMAIN r.results :
                /\ r.results[i].outcome \in Outcomes
                /\ r.results[i].status \in Outcomes \union {"success_with_warning"}
                /\ r.results[i].written \in 0 .. r.results[i].entry.size
           /\ r.phase \in {"files", "open", "copy"} => r.processed + r.offset <= Estimated(r)
           /\ r.error \in {"", "cancelled", "depth", "unreadable directory"}
           /\ r.token \in BOOLEAN /\ r.checked \in BOOLEAN
           /\ r.answer \in {"none", "cancelled", "failed", "warning", "success"}
  /\ \A d \in DOMAIN host : host[d].kind \in {"file", "dir"} /\ host[d].bytes \in Nat

ListedPaths(r) == {r.worklist[i].path : i \in DOMAIN r.worklist}

(* No path of the evidence is extracted twice, and a directory comes       *)
(* before what is in it, however often the selection reaches it and        *)
(* however directories contain each other (collectRecursive).              *)
WorklistInOrder ==
  \A w \in Workers : \A i, j \in DOMAIN run[w].worklist :
    LET list == run[w].worklist
    IN  i < j => /\ list[i].path # list[j].path
                 /\ ~IsStrictPrefix(list[j].path, list[i].path)

(* Once collected, the work list leaves out nothing of the selection: each *)
(* selected path is there, and each directory inode that was reached is    *)
(* there under a path with all the names it holds.  Directories that       *)
(* contain each other do not exhaust the depth: only a nesting of that     *)
(* many different directories does, or of inode 0.                         *)
NothingLeftOut ==
  \A w \in Workers :
    LET r == run[w]
    IN  /\ r.error = "depth" =>
             \/ Cardinality(r.inodes) > MaxDepth
             \/ \E i \in DOMAIN r.worklist : r.worklist[i].dir /\ r.worklist[i].inode = 0
        /\ r.phase \in {"files", "open", "copy"} =>
          /\ \A i \in DOMAIN r.selected : r.selected[i].path \in ListedPaths(r)
          /\ \A i \in DOMAIN r.worklist :
               r.worklist[i].dir =>
                 \E k \in DOMAIN r.worklist :
                   /\ r.worklist[k].dir /\ r.worklist[k].inode = r.worklist[i].inode
                   /\ \A c \in ToSet(Contents[r.worklist[k].inode]) :
                        Append(r.worklist[k].path, c.name) \in ListedPaths(r)

(* What a task reports as extracted is on the host with every byte of its  *)
(* source, unless the task was told to overwrite and a later entry has the *)
(* same destination; what it skipped exists.                               *)
ResultsAreOnDisk ==
  \A w \in Workers :
    LET r == run[w]
        Later(i) == r.mode = "Overwrite" /\
          \/ r.phase = "copy" /\ r.dest = r.results[i].dest
          \/ \E j \in DOMAIN r.results : j > i /\ r.results[j].dest = r.results[i].dest
    IN  r.error = "" => \A i \in DOMAIN r.results :
          LET x == r.results[i]
          IN  /\ x.outcome \in SuccessOutcomes /\ ~Later(i) =>
                   host[x.dest] = [kind |-> "file", owner |-> w,
                                   source |-> <<x.entry.path, x.entry.inode>>, bytes |-> x.entry.size]
              /\ x.outcome = "skipped_existing" => Exists(x.dest)

(* Only a success delivers rows, one for each entry of the work list and   *)
(* in its order, and a task that was told to stop before it answered is    *)
(* cancelled, whatever it had extracted by then.                           *)
AnswerIsWhole ==
  \A w \in Workers :
    LET r == run[w]
    IN  r.phase = "answered" =>
          IF r.answer \in {"success", "warning"}
            THEN /\ r.error = "" /\ ~r.token
                 /\ Len(r.results) = Len(r.worklist)
                 /\ \A i \in DOMAIN r.results : r.results[i].entry = r.worklist[i]
            ELSE r.results = <<>> /\ (r.token <=> r.answer = "cancelled")

(* A policy that is not to overwrite never touches a file that is there:   *)
(* neither one from before nor one extracted by now.                       *)
NothingOverwritten ==
  [][(\A w \in Workers : run[w].mode # "Overwrite") =>
       \A d \in DOMAIN host :
         IsFile(d) /\ (\A w \in Workers : ~(run[w].phase = "copy" /\ run[w].dest = d))
           => host'[d] = host[d]]_vars

(* The writes the last look at the token still allows: the directories of  *)
(* an entry and its emptied output, or the output, or one chunk.           *)
WritesLeft(r) ==
  IF r.phase = "open" \/ (r.phase = "copy" /\ r.checked) THEN 1 ELSE IF r.checked THEN 2 ELSE 0

(* A task told to stop writes what its last look at the token allows and   *)
(* nothing more: the directories of the entry it is at and the emptied     *)
(* output, or one chunk of the file it copies; no request that comes       *)
(* between the look and the write can prevent those (extract, the two      *)
(* calls of cancelled in its loops).                                       *)
CancelledWritesNoMore ==
  [][\A w \in Workers : run[w].token /\ run'[w] # run[w] =>
       /\ WritesLeft(run'[w]) <= WritesLeft(run[w])
       /\ host' # host => WritesLeft(run'[w]) < WritesLeft(run[w])
       /\ \A d \in DOMAIN host : host'[d].bytes <= host[d].bytes + Chunk]_vars

(* Every task answers, whatever the directories look like. *)
RunEnds == \A w \in Workers : run[w].phase = "collect" ~> run[w].phase = "answered"
=============================================================================
