# Forensic Image Extractor: a TLA+ verification project

The program opens a disk image (raw or E01), enumerates its partitions through
libtsk, browses file systems, scans for Windows artifacts, parses their details
into a timeline and extracts files to the host.  It is a Qt GUI whose long
operations run in workers on their own threads, and a command line over the
same services.

This directory holds TLA+ modules translated from the C++ source, TLC
configurations that check them on small instances, and proofs checked by TLAPS.
`PROJECT.json` is the index: every definition with the source lines it models,
every run, a plausible bug (mutant) for each property, the findings, the
hazards and the theorems.

    tlc -workers 2 -config MCReadCache.cfg MCReadCache     # a model-checking run
    tlapm WorkerProofs.tla                                 # a proof module

## 1. Inventory

Paths are under `src/` of the repository; headers are in
`include/ForensicImageExtractor/`.

| Part | State | Operations | What is hard | What makes it correct |
|---|---|---|---|---|
| Reader bridge and cache (`core/TskReaderBridge`, `ReadCache`, `RawImageReader`) | reader, block hash and LRU list, lock | TSK read and close callbacks | evictions in the middle of a read, short device reads, errors after some blocks | a read returns exactly the image's bytes; the cache is invisible |
| E01 reader (`core/EwfImageReader`, `EwfSegmentResolver`) | libewf handle, segment list, warning | open, read, segment discovery | gaps, naming series, other sets beside this one | segments in order, none mixed, a gap warned of |
| Image adapter, file system handle (`core/TskImageHandleAdapter`, `forensics/FileSystemHandle`, `VolumeEnumerator`) | `TSK_IMG_INFO`, backend, warning | open with bridge, then fallback; close; enumerate | which backend is reported; re-opening while used; slots that are left out | warning kept, backend true |
| Workers (`workers/*`) | one task's input, a cancellation token | `process`, `requestCancel` | many return paths, cancellation against completion | one completion, true to what happened; cancelled work is discarded |
| GUI session (`gui/MainWindow`, `ArtifactDetailSession`, `ArtifactAnalysisSession`, `NavigationUtils`) | image, partitions, selection, listing, artifact rows, detail cache, timeline, request ids, Stop handle, catalog | handlers of menus, tables and tree; completions | completions in any order, overlapping tasks, nested event loops of dialogs, rows that share a path | what is shown, cached and recorded belongs to the image, partition and row it says |
| Extraction (`forensics/ExtractionService`, `utils/ExtractionPlanner`) | work list, seen sets, counters, files on the host | collect, decide, copy | cyclic directories, name collisions, cancellation in a file, two tasks | nothing lost or overwritten, outcomes true |
| Artifact discovery (`forensics/ArtifactDiscoveryService`) | stack of folders, warnings, records | profiles, fixed targets, walks | folders that fail, repeat a name or contain themselves; cancellation in a listing | everything within the depth reported once, failures warned of |
| Detail providers (`forensics/ArtifactDetailProviders`, `RegistryHive`, `detail_providers/*`) | none between calls | describe, parse | structures that are damaged, cut or looped | what is sound is read, what is not is said |
| Timeline (`forensics/ArtifactTimelineService`) | none | buildEvents | untimed events, ties, rows that failed | strict order, no made-up time, trouble shown |
| File system browsing (`forensics/FileSystemBrowser`, `NtfsBrowser`, `tsk/*`) | none | list, read | names that repeat | - |
| Tables (`gui/FileEntryTableModel`, ...) | rows, filters | set, filter, sort | - | filters agree with flags |
| Command line (`cli/main`, `CliOptions`) | none | one command | option checks, errors in the middle, warnings | an exit code and a payload that tell what happened |
| Export, hashes, logging (`utils/*`, `cli/*Json.h`) | none | serialise | - | formatting |

**Interaction.**  `MainWindow` owns an adapter (`shared_ptr`) and gives it to
each worker it starts.  A worker runs `process()` on its thread and emits
`completed`, which Qt queues to the GUI thread.  The GUI asks a worker to stop
by a *queued* call of `requestCancel`.  Workers call the forensic services,
these call libtsk, and libtsk calls back into the reader bridge.  The command
line calls the same services in one thread, without a token.  Nothing is
persisted between runs, so there is no crash recovery to model.

The hazards this gives rise to are listed, line by line, in `PROJECT.json`.

## 2. Modules

| Module | Models | Checked by | Proved in |
|---|---|---|---|
| `ImageRead` | what the bridge promises TSK, without a cache | (abstract) | `ReadCacheProofs` (that `ReadCache` keeps it) |
| `ReadCache` | bridge, cache and raw reader | `MCReadCache` | `ReadCacheProofs` |
| `Worker` | one worker, its thread and its cancellation | `MCWorker` | `WorkerProofs` |
| `MainWindow` | the GUI session with workers in flight | `MCMainWindow` | `MainWindowProofs` |
| `Extraction` | extraction tasks on a shared host file system | `MCExtraction` | `ExtractionProofs` |
| `Evidence` | segment files, opening an image, enumerating partitions | `MCCommandLine` | `CommandLineProofs` |
| `Discovery` | artifact discovery over a listing that may fail | `MCCommandLine` | `DiscoveryProofs` |
| `CommandLine` | one command of `fie_cli`, or one scan of the GUI's worker | `MCCommandLine` | `CommandLineProofs` |
| `Lists` | sequences joined, filtered and sorted, as loops and standard algorithms do it | `MCTriage` | `TriageProofs` |
| `Hive` | registry hives | `MCTriage` | `TriageProofs` |
| `Containers` | links, compound files and jump lists, event logs and binary XML, ESE pages | `MCTriage` | `TriageProofs` |
| `Providers` | the detail providers and their choice | `MCTriage` | `TriageProofs` |
| `Timeline` | events of details and their order | `MCTriage` | `TriageProofs` |
| `Triage` | details loaded by selection and by analysis, cache, panel, timeline | `MCTriage` | `TriageProofs` |
| `TriageProperties` | what all of these owe to the files | `MCTriage` | `TriageProofs` |

`DataLemmas` holds what several proofs need about sets of numbers, sequences and
prefixes.  Each of `Lists`, `Hive`, `Containers`, `Providers`, `Timeline`,
`Triage` and `TriageProperties` extends the one before; `CommandLine` extends
`Discovery` and `Evidence`.

The modules meet at these seams.  `ReadCache` is what stands behind every read
of a worker.  `Worker` establishes that a worker completes once and that a
queued cancellation request is not seen before the completion; `MainWindow`
therefore models a worker in flight as a slot that is answered once, and its
cancellation requests as no step, and `Triage` takes a cancel to reach a load
only when it is through.  `Extraction` refines the "extract" stage of `Worker`,
and `Discovery` under the driver "worker" its "discover" stage; there the token
may be set at any moment, as by the tests' direct call.  `MainWindow` knows
details by their provenance only and lets partitions and images change;
`Triage` keeps one partition and knows what the details are.

### ReadCache and ImageRead

An image is the sequence of positions `0 .. ImageSize-1`, a byte is its
position.  `damaged` is the set of positions the device withholds from now on:
`QFile::read` reports a failing device as fewer bytes, which is how a short
block comes about.  One action stands for one iteration of the loop in
`ReadCache::read`, so evictions and device failures happen between the blocks
of one callback.  The bridge's mutex makes callbacks atomic to each other;
`Close` is the close callback.

`ImageRead` is the promise: an answered read is an error, or the image's bytes
from the offset on, cut short only at a withheld position.  `MCReadCache` checks
that `ReadCache`, with the bytes gathered so far hidden, implements it,
including its liveness: a read that was asked is answered.  The safety part is
also proved.

### Worker

`process()` is a sequence of stages per worker kind, as in the code: `check`
(look at the token), `given`/`open` (adapter present, open), `adapter`
(`TskImageHandleAdapter::open` with fallback), `filesystem`, the long call, and
`answer` (the outcome policy).  A stage that fails emits and returns. `delivery`
says how the worker's owner sends `requestCancel`: `"direct"`, as the tests of
the workers call it, or `"queued"`, as `MainWindow` does.  With the latter the
request waits in the event queue of a thread that is inside `process()`;
`HandleMail` needs the thread to be back in its event loop.

Left out: the checks inside the detail service's callback (they make a long
call shorter, and its result is decided by the check behind it), and progress
signals.

### MainWindow

Every variable is a member of the class (the comments name them).  Data are
reduced to their provenance: a listing, an artifact table or a cached detail is
the disk it was read from and the partition entry it was read with.  One scanned
partition has one artifact row, so the key `partitionIdentifier|path` is the
partition's number.

- **Tasks.**  `tasks[i]` is a worker in flight, with what its completion lambda
  captured.  The two workers that change the adapter (`ImageOpen`,
  `PartitionScan`) have a step on their own thread; the others only read, so
  their completion action reads at the moment it is handled.
- **Dialogs.**  A message box or file dialog runs an event loop: completions
  are handled while it is up, user actions on the window are not.  `modal` is
  the stack of suspended handlers; the part of a handler behind the dialog is an
  action of its own, with exactly the locals the handler holds.
- **Adapters.**  `heap` holds the adapters that the window or a worker still
  shares.
- `QPointer<QTreeWidgetItem>` is modelled as a guarded pointer, which is what
  its use in the code says (`QTreeWidgetItem` is not a `QObject`).
- The tree has the image's own node, whose index is no partition's, a node for
  each partition, and the directories that a first listing adds.  The jumps from
  an artifact and to a file's parent directory both load a directory of the
  partition selected at that moment.
- An index that went stale behind a dialog is undefined behaviour; the model
  lets it yield a partition entry that is none of the window's (`Wild`).

Left out: `m_currentLogicalPath` and the address of a jump, the preview,
labels, warnings shown once, column profiles, export of the timeline and catalog
to files, and the details of which artifact row a file selection picks (any row
or none).  Two workers inside `TskImageHandleAdapter::open` of one adapter at
the same moment are a data race that the model does not break down; the model
makes one worker's open a single step.

### Extraction

The evidence is a set of directories, each a sequence of name records;
directories may contain each other, a name may occur twice, and sanitising may
map two names to one (`Clean`).  `collectRecursive` is modelled with its
recursion on an explicit stack, `extract` as a loop with one action per exit of
its body, and the copy of a file chunk by chunk with short reads, errors and
cancellation between them.  `host` maps destinations to what is there.  A
destination is a path and a version number, so `applyVersionSuffix` is
injective, which it is up to files whose own name ends in such a suffix. The
code looks at the token before each entry and before each chunk
(`ExtractionService.cpp:220`, `:315`) and acts afterwards: `CheckToken` is the
look, and making a directory, deciding a destination and its folders, and
reading and writing a chunk are steps of their own behind it, so a request may
come between the look and the write.  `DecideDestination` and `OpenFile` are two
steps for the like reason: another task may run in between.  Hashes and host
timestamps are left out, but for the warning the latter may add.

A consequence of `visitedPaths` that no property objects to: where a deleted and
an allocated file have the same path, only the first name record is extracted.

### Evidence, Discovery, CommandLine

`Evidence` has the definitions that take a file name to an open image with
partitions.  A file name is its parse: base, family (`e`, `ex`, `s` or none),
number, and a rank of its spelling.  `OpenAdapter` is
`TskImageHandleAdapter::open` by what libtsk answers, `Enumerate` leaves out the
slots of a volume system that are no partitions, and `ResolvePartition` is the
command line's.

`Discovery` walks a disk that is a graph of folders: `kids` gives each folder's
entries in order, `unreadable` the folders whose listing fails.  A folder may
contain itself and may list a name twice.  The code compares names without
regard to case; a name stands for all its spellings.  Actions are the code's
loop bodies: a target is looked up and its record appended in two steps, because
the token may be set in between; a walk pops a folder, then visits its entries
one by one.  Of the twenty rules all are in the model, each a path below a
profile or the root.  The report is compared with `Expected`, which is defined
level by level and never mentions a stack.

`CommandLine` runs one command from its arguments to its exit code.  An option's
value is empty or any valid one, unless the code tells values apart; each call
into a service may fail, and `faults`, a history variable, remembers that it
did.  What went wrong for the discovery is read off the disk and not off the
program's warnings: `DiscoveryFaults` asks which folders of the walks, and which
folders of targets and roots, cannot be listed, whether the code says so or not.
With the driver `"worker"` the same walk runs for `ArtifactScanWorker`,
cancellable at any point; the command line gives no token.  The records of an
extraction are reduced to whether one failed or warned.

### Hive, Containers, Providers, Timeline, Triage

A file is a record of what its bytes say where the code looks: numbers where
the code compares, adds or bounds them, texts only as far as they are told
apart.  A hive maps offsets to cells; an offset that is not there, or a cell
that is cut, is one `cellBody` or `parseKey` refuses.  What a value holds is a
sequence of numbers.  Times are numbers; `NoTime` is 0 and `Epoch` (2) is the
first one that is a date of ours, so that 1 is a raw time before 1970, and in a
text one that is no date.  Sectors
and their tables are exact, `readFatChain` with its seen-set and bounds among
them.  An event's binary XML is its tokens, with substitutions; the nesting, the
pending name and what closes it are as in the parser.

A row's `marks` are the tests on its path that it passes (how it begins or
ends), from which `takers` gives the providers that claim it.  Each provider is
an operator from a file to a state (`parsed`, `partial`, `unsupported`,
`failed`), warnings, an error and entries; an entry keeps its kind, its time and
what in the file it was made of, so that properties can ask for the file's
cells instead of the parser's steps.

`Timeline` turns entries into events, adds the status event of a row with
trouble, and sorts with the code's comparator under `std::stable_sort`.

`Triage` is the session around them: rows are selected, loaded, analysed, the
evidence may become unreadable meanwhile (`Detach`), and answers come in any
order.  Every new request first resets the request number, so the active key
alone decides, as `shouldApplyArtifactDetailResult` does.  Two loads of one row
bring the same answer, so loads in flight are a set.

## 3. Runs

| Run | Question | Instance |
|---|---|---|
| `read_cache` | is the cache invisible, and does every read return | image of 5, blocks of 2 (a short last block), room for 2 of 3 blocks, every offset and length up to one past the image |
| `worker` | does every worker answer once and truthfully, cancelled anywhere; when does a queued request take effect | all 7 kinds, 2 rows to analyse, direct and queued requests |
| `worker_stop` | does Stop, as the GUI sends it, stop anything | same; violated |
| `session` | ids paired with keys, Stop points at a live task, timeline rebuilt | 1 image, 1 partition, all operations, 2 tasks |
| `details` | do overtaken loads and analyses leave foreign details or show them, and does the window become idle again | 2 partitions, 2 tasks, with liveness |
| `meta_listing` | is a node listed from its partition | slots 1, 2 after a table; violated |
| `catalog` | is what is kept, details and catalog records, kept under the image it is of | 2 images; violated |
| `extraction` | work list, destinations, outcomes, answer, cancellation | a cyclic tree of 2 directories, 7 records with a duplicate, a collision, inode 0 and an empty file, or a chain deeper than the bound; files in the way of a file and of a directory; 3 policies; chunks of 2 |
| `command_line` | are reports complete and exit codes true, does everything end | 6 commands with 7 valid and 14 wrong command lines each, 3 volume systems, 16 sets of segment files; 12 disks for the worker's scan |
| `silent_gap` | does 0 mean that nothing has warned | same; violated |
| `artifacts` | do cache, panel and timeline say what the files say, and does an analysis cover every file that was found | 36 thousand states over the files described below, among them rows of one path with different providers |
| `shared_key` | does an analysis keep every row's own details | the rows every scan makes of one profile; violated |

**Why the bounds are enough.**  An overtaking needs two tasks, a wrong
attribution two partitions or two images, an eviction one block more than the
cache holds; each instance has these and no more.  The runs of `MainWindow`
divide the user's operations among them (`Operations`) because the product of
all of them with two tasks and two partitions is too large; `session` has all of
them on one partition.  `Folders` are the directories a partition's root has: one,
and none in `details`, where the shape of the tree makes no difference.
`MaxRuns` bounds the analyses started without a context switch in between (the
id then starts again at 0).  `MaxAdapters` bounds adapters alive at a time,
`MaxTasks` workers in flight.  In `Extraction`, sizes up to 3 with chunks of 2
give a file of two chunks, of one partial chunk, and an empty one; the code's
bound of 256 levels is `MaxDepth`, 2 here, which one selection exceeds and which
in the other only cycles could reach.

*Disks of `command_line`.*  The depth bounds of the walks are the code's own (2
to 8).  Below each walk's root are a folder, a folder in it, a folder that holds
itself, or a name that is listed twice, and files of every kind; any one of the
interesting folders, and two at a time, cannot be listed.

*Files of `artifacts`.*  Of each hive: the whole one, every one with a single
cell gone, and every one with a key cell cut at either of the two lengths that
matter.  The user's hive has every kind of index list, one of them with lists in
it (nested up to `MaxNesting`), lists of recent use with a slot that is missing
and one that is not named, and values away from their cell.  Every `Current`
value of a SYSTEM hive that the code tells apart.  Of links: every body of up to
four items under nine sets of flags.  Of jump lists: every table of three
sectors, every mini table of three, both layouts and each of the lengths they
are told apart by. Of event logs: every data of up to four tokens, every system
data of up to two (among them a creation time that is no date), every three
records of one chunk with sizes from -1 to 2, chunks that are followed by
damaged or empty ones.  Of SRUM databases: pages of no tags, of 504 and 505 tags
where the page is 2048 bytes long (the directory of the latter would begin
before offset 32), of 1024 and 1025 in one of 8192, beside sound pages and pages
with a tag that points out of the page.  `RecordCap` (4; 1000 in the code) and
`RowLimit` (2; 200) are reached.  Two rows and one between them that is missing
or a folder give the orders of loads and analysis; rows are selected only in
those worlds (`SelectFrom`), and at most two loads are in flight (`MaxLoads`).
In the worlds `Sharing` several rows have one path with different providers, as
`ArtifactDiscoveryService.cpp:278-287` makes them of every `NTUSER.DAT` and
`SYSTEM`.

**Deadlock** is checked for `ReadCache`, `MainWindow` and `Triage`, which never
stop.  A worker, an extraction and a command that have ended do stop.

**Fairness.**  `Worker` and `Extraction`: weak fairness of the thread's steps (a
started thread runs; libtsk calls return) and of the GUI event loop.
`MainWindow`: each task in flight proceeds, also while a dialog is up, because
the dialog's event loop delivers completions; the user reads message boxes.  The
user owes nothing else: no operation and no file dialog is fair.
`ReadCache`: a read callback that started goes on.  `CommandLine`: the program
goes on and its calls return (`WF` of `Main` and of `Walking`); nobody is
obliged to cancel.  `Triage` has safety properties only.

### What the violated runs show

Each is one property that the documentation or a message of the program states,
and a behaviour of the code that breaks it; `PROJECT.json` quotes the line.

1. *Stop does not stop* (`worker_stop`).  The request is queued to the thread
   that is busy in `process()`.
2. *Wrong partition* (`meta_listing`).  `PartitionInfo::index` is TSK's slot
   number, used as an index into a vector that leaves slots out.
3. *Kept under the wrong image* (`catalog`): opening an image replaces the
   adapter at once and everything that describes it later, when the worker
   answers.  With a second image chosen before the first has answered, rows of
   the second are shown under the first's information, and what is extracted
   from them is recorded with the first image as its source.
4. *A gap nobody hears of* (`silent_gap`).  The reader of a segment set keeps a
   warning of the missing segments, `openImage` asks the adapter only
   (`cli/main.cpp:68`), and the command ends with 0, "success, no warnings".
5. *One provider's details for another's row* (`shared_key`).  The key of the
   detail cache is a path; several rows of a scan have one path with different
   providers, so an analysis keeps the last one's details for all of them, and
   the timeline has these twice and the others' not at all.

### Also seen

The models have these behaviours, for which no run is kept.  In the session:
- request ids start at 1 again after every cancel (`MainWindow.cpp:1620`), so a
  late answer about a row of the image before is taken for the current request
  and cached under the new image's key: with `Extract` taken out of `Keeping`,
  the operations of `catalog`, TLC finds the first half of its property
  (`CacheIsOfCurrentImage`) violated in a trace of 20 states;
- an index is checked before the destination dialog and used behind it
  (`MainWindow.cpp:1010`);
- children of a tree node are given the partition selected when the listing
  returns, not the node's own (`Populated`, `ChildIndex`);
- an analysis started with another partition selected than the one the rows were
  scanned on caches the one's data under the other's keys (`AnalysisAnswered`);
- a detail load of such a row is answered under another key than it was asked
  for, the answer is dropped and the panel goes on saying "loading"
  (`DetailAnswered`);
- Analyze Artifacts cancels the load of the selected row; its answer is dropped
  and the panel goes on saying "loading" although the analysis brings the
  details (`Analyze`, `DropAnswer`);
- Close Image empties the rows and leaves the timeline, unless a node was
  selected (`CloseImage`); `TimelineFollows` therefore speaks of an open image;
- the window has no destructor that waits for its threads.

In extraction:
- two tasks choose the same free destination and both open it with `Truncate`
  (`ExtractionPlanner.cpp:37`, `ExtractionService.cpp:295`): with two members of
  `Workers`, TLC finds `NothingOverwritten` violated in a few steps;
- files that could not be opened, read or written leave an extraction a plain
  success (`Answer` looks at warnings only);
- a deleted and an allocated file of one path: only the first is extracted.

In discovery and the command line:
- a target whose folder cannot be listed is reported missing, and a walk whose
  root cannot be listed reports nothing, both without a warning
  (`ArtifactDiscoveryService.cpp:53-59`, `:148-151`, where a comment calls it
  expected); a command over such a disk may end with 0.  `ExitTellsTheFaults`
  knows this fault and the segment gap as `Unsaid`, and allows no other;
- where a live and a deleted folder have one name, both walks go into the first
  of them: its files are reported twice, the other's not;
- rows that end in `.pf` or name a `$I` file are never made, so two providers are
  never asked;
- a set's first segment missing goes unsaid (for a gap see `silent_gap`);
- warnings collected before an error are lost with it.

In the details:
- a detail is read from the first mebibyte of its file
  (`ForensicsWorkers.cpp:239`, `:325`; `cli/main.cpp:214`, `:258`), which for a
  hive goes unsaid, as does a last page of SRUM that is cut; so does the limit
  of 200 rows of a browser's database;
- a row found unsupported keeps its warnings from the timeline (a SYSTEM hive
  whose control set is guessed and that has no BAM among them);
- a link that ends right where its link information should begin, a list of
  destinations whose chain ends before its size, and a SRUM database with a page
  whose count of tags is zero, above 1024 or leaves the tag directory no room
  behind offset 32 (`SrumEsentParser.cpp:62-65`) are parsed without a warning;
- a list of index lists that contains itself is expanded without a bound
  (`RegistryHive.cpp:173`); the model's hives have no such list;
- selecting a row that is missing caches a state for it, which adds a status
  event the command line's timeline does not have; the properties of an analysis
  leave such rows out (`OfScan`);
- rows that share a path share what is cached (`shared_key`), so the panel may
  show one provider's details under another's row; `PanelIsTheRows` promises the
  row's own details where no other row has its path, and else those of some row of
  that path;
- a load asked for before an analysis, whose file system handle was gone by the
  time it was read, is answered after it and replaces the details the analysis
  had brought by a failure (`TakeAnswer`); the properties speak of
  analyses without such a load (`analysed`).

What holds where one might doubt it: however completions overtake each other,
the Stop button never refers to a worker that has answered (`StopButtonLive`;
it may be disabled while a newer worker runs, which the property does not
exclude), details shown on demand are those of the selected row
(`DetailsShownAreTheRows`, and, with what they contain, `PanelIsTheRows`), a
stale analysis is never applied (`AnalysisStaysWithItsPartition`); an analysis
comes to what the command line says of each file, whatever was loaded by hand
before, meanwhile or after (`AnalysisCoversTheScan`; of rows that share a path,
the one whose details are kept);
and no single damaged cell, record or sector hides more than itself, or passes
as whole, but for the cases named.

## 4. Proofs

Proofs are checked by TLAPS for every value of the constants, under named
assumptions, which TLC evaluates in the runs.

### Assumptions, and why the code justifies them

| Assumption | Says | Because |
|---|---|---|
| `ReadCacheAssumption` | sizes are natural numbers, blocks are not empty | `kBlockSize`, a file's size |
| `WorkerAssumption` | the kinds are some of the seven | there are seven worker classes |
| `ExtractionAssumption` | directories hold name records, chunks are not empty, finitely many files exist; nothing is selected in front of a directory it is in | `kChunkSize` is positive; the GUI selects rows of one listing, which are siblings, or artifacts, which are files, and the command line has one source |
| `MainWindowAssumption` | slot numbers ascend, `/` is no folder's name, the bounds are numbers | TSK numbers its slots in order |
| `TriageAssumption` | rows are artifact records; what is behind a row's path is a file (`IsFile`): a record of its format whose offsets, lengths and times are numbers, damaged in any way | `ArtifactRecord`; a parser reads unsigned fields of fixed width |
| `ContainersAssumption`, `ProvidersAssumption` | caps are positive, names of the alphabet are strings | `kRecordCap`, the limit of the browser's query |
| `TimelineAssumption` | `evtx_event` is in the alphabet, so that the order of event types tells it from what is not | it is a literal of `ArtifactTimelineService` |
| `SystemHives`, hypothesis of one theorem | a path that ends in `/SYSTEM` passes no other test of a provider; a hive there that opens has no cell at 0, the place that stands for none, one key `Select` and in it one value `Current` that can be read | the tests are on how a path begins and ends; the first bytes of a hive's data are the header of a bin, never a cell; names of a registry's keys and values are unique. A lookup takes the first of a name, so with two the hive itself does not say which set is meant. All worlds of `MCTriage` satisfy it |
| `CommandLineAssumption` | a directory lists finitely many names, a number has two digits, slots are partitions or not, listings hold entries | `EwfSegmentResolver` matches two digits; `FileSystemBrowser::listDirectory` returns `FileEntry` values |

The types of `DataLemmas` are those of its callers; it has no assumption.

### What is proved, and along which argument

Hardly one of the properties is inductive as it stands.  Each proof module
begins with the invariant that is, shows that every action preserves it, one
step per action, and draws the property from it.

**`ReadCacheProofs`**: `CacheTypes`, `LruMirrorsBlocksAlways`,
`CacheCoherentAlways`, `ReadsAreExact`, `CacheIsInvisible`.  That a read gathers
the image's bytes needs that each cached block is the image's, which needs that
the block being fetched starts on a block boundary, which needs the types; and
that the eviction removes a block the hash knows needs that the LRU list and the
hash have the same members without repetition.  The inductive invariant is the
conjunction.  `ReadsAreExact` also has `CompleteUnlessDamaged`, that a read
stops early only at a withheld position.  `CacheIsInvisible` is the refinement:
every step of `ReadCache`, with the bytes gathered so far hidden, is a step of
`ImageRead` or a stutter.

**`WorkerProofs`**: the lemma `ProcessStep` reduces the seven kinds of steps of
`process()` to three: it *passes* a stage, *completes* with a result true to the
token and the error, or *looks at a row*.  With it
- `WorkerTypes`, `WorkerCompletesOnce` and `WorkerOutcomeIsTruthful` follow from
  one inductive invariant (`Outcomes`);
- `QueuedCancelIsTooLate` adds that, with queued requests, a set token means an
  emitted result;
- `DirectCancelIsObserved` proves `DirectCancelStops`.  Its invariant (`Stops`,
  for workers asked directly) says that an active task
  that was asked in time has a checkpoint ahead of it: the check before the
  answer, or a row of the analysis.  It rests on the shape of the stage lists
  (`StageLists`);
- `WorkerBackendIsTruthful` relates the backend and the warning of the adapter
  to what was tried.

**`ExtractionProofs`**: `ExtractionTypeOK`, `ExtractionAnswerIsWhole`,
`ExtractionCancelledWritesNoMore` hold for any number of tasks, from one
invariant of each task alone (`Local`).  The last says what a task does after a
request that overtakes its look at the token: `WritesLeft` counts the writes the
look still allows (the directories of an entry and its emptied output, or one
chunk), a write uses one up, and none is added.  `ExtractionResultsAreOnDisk` and
`ExtractionNothingOverwritten` are proved for a task that runs alone (`Alone`).
The hypothesis cannot be dropped: two tasks choose the same free destination
before either opens it (`ExtractionPlanner.cpp:37`), and TLC finds the
counterexample.  Their invariant (`DiskInv`) says what the host has for each
result, that a chosen destination stays free until it is opened, and that the
file being copied has as many bytes as the offset says.

Of the collection there are `ExtractionWorklistInOrder` (`OrderedInv`: the work list
is exactly the set of seen paths; every path leads over listed directories from
a selected one) and `ExtractionNothingLeftOut` (`CompleteInv`: of each name of a
directory that was opened, either it is listed or some frame of the stack still
has it).  Both are for every evidence, with directories that contain each
other, and every depth.

**`MainWindowProofs`**: `SessionTypeOK`, `SessionStopButtonLive`,
`SessionAnalysisStaysWithItsPartition`, and the action properties
`SessionDetailsShownAreTheRows` and `SessionTimelineFollows`.  `Inv` adds what
only the interleavings need: an adapter lives as long as the window or a worker
holds it; a handler suspended behind a dialog keeps the image it checked; the
handle that Stop uses is never the slot of a detail load, which completes without
touching it; the index of a selected partition may outlive the partitions, but
the cache does not hold what another partition owns.

**`CommandLineProofs`**: `CommandExitTellsTheFaults`, by the stage a command has
reached (`CommandInv` says which faults are possible there and which of error,
warnings, payload and record they left).  Where the walks are done it rests on
`DiscoveryFailedFoldersWarned`: a folder below a root that cannot be listed has
a warning, so that only faults of `Unsaid` are left without one
(`SilentDiscovery`).  And `CommandSegmentsAreTheSet`: the loop
that collects segment files, over a directory of any size, opens the selected
set's files in ascending number and warns of exactly the missing numbers.

**`DiscoveryProofs`**: `DiscoveryReportIsComplete` and
`DiscoveryFailedFoldersWarned`, over every disk, cyclic ones included.  The code
walks with a stack, the property is told level by level, so both are compared
with a third description: `Under` gives, from the bottom up, what can be found
below a folder within a number of levels.  The invariant is
- `Stages`, what the variables hold in each phase;
- `Covered`: what was made, what the folders on the stack still give (`Ahead`)
  and what the walks to come will find (`Coming`) make up the whole report at
  every step, and so for the warnings;
- `Single`: on a disk where no folder has a name twice, what was made and the
  layers of the stack are pairwise disjoint, because a record's path tells the
  folder it came through and its artifact and profile tell the walk;
- `LateOnce`: after a cancellation at most the record in the making is appended.

`AllByLevel` shows that at the end this is what `Expected` and `Unread` say
level by level.

**`TriageProofs`** has nine theorems, for any scan and any files, whole or
damaged, over two invariants.

`Inv` is about the session.  The panel may be filled from the cache, so every
cached detail must be what the provider of *some* row of that path says of its
file, whole or gone (`Describing`); rows that share a path find each other's
there.  From it comes `TriagePanelIsTheRows`.  After an analysis the cache has
for every row the details of a row of its path as the command line would
describe it (`Complete`), the same for all rows of the path; the choice of that
row is the `teller` of `TriageAnalysisCoversTheScan`, and the timeline is the one
built of what they tell (`CompleteTimeline`).  Neither theorem has a hypothesis
about rows: they hold of the scans every profile gives, where several rows have
one path.

`TimelineInv` says that the timeline is always the one built of the
cache, and every cached detail is *fair* to the file it came from: its entries
are records, their dates are in the file and dates of ours, and its state hides
no error and no warning.  There is a lemma for each of the seventeen
providers that it is fair, by induction over its loops, and from them
`DescribeIsFair`.  From it:
- `TriageTimelineInOrder`: `eventLess` and the stable sort's ties make a strict
  order (`EventLessIsWeak`, `PlaceOrderIsStrict`), a sort by it arranges the
  events of all rows, and an entry has exactly its events (`EventCount`).
- `TriageTroubleIsOnTheTimeline` and `TriageTimesComeFromTheFile`, by the origin
  of each event.

Four more theorems look into a parser:
- `TriageChainIsTheStream`: `Walked` says that what `readFatChain` has read is a
  chain without repetition from the start to where it is; so it ends within one
  more step than the table has sectors, and where there is a chain it is that
  one (`WalkIsOnTheChain`).
- `TriageKeysAreTheirOwn`: `Owns` says of the parser's state between two tokens
  that a pending name was given by an attribute since which nothing was closed,
  and `Quoted` of each value already read that it met such a name.
- `TriageRecentFirst`: the entries of a program list are sorted by the slot that
  the order names (`SortedIsInOrder`, `MruEntriesArePrograms`), no earlier slot
  names the same program (`EarlierIsNamedFirst`).  The property asks which provider
  made the details, as the row that shows them may be another of the hive's.
- `TriageActiveSetIsRead`, over `TimelineInv` and with the hypothesis
  `SystemHives`.  The property speaks of sets of cells, the parser of lists and
  of first matches, so the proof says what each lookup finds: the expanded
  subkey lists hold what is listed (`SubkeysAreListed`), a key found by a path is
  on the way of that path (`KeyIsOnTheWay`) and lies under the path's first name
  (`FoundIsUnder`), the control set taken is the one the hive names or the first
  with a warning (`ControlSetIsActive`).  Each of the four providers then keeps
  to keys below that set through its sorts and joins, and passes the warning on
  (`BamDamOfSet`, `AppCompatCacheOfSet`, `ServicesOfSet`, `UsbOfSet`), and no
  other provider takes the row (`SystemRowIsTaken`).

The module takes about fifteen minutes to check.

**Induction over data.**  A recursive function over a sequence or a range of
numbers can be reasoned about when induction is stated over a *set* of numbers
(`SetInduction`, `RangeInduction`) and the function is shown to be defined
(`LoopDefined`).  That is how the totals, the segment loop, the slots of a volume
system and the walks of any depth are done.  It is also why some loops are
written as functions where the community modules have an operator: `SelectSeq`,
`FlattenSeq`, `SetToSortSeq` and the `@@` of module TLC cannot be expanded by the
provers.  `Where`, `Concat` and `Arranged` of module `Lists` are what stands for
the first three, and `DataLemmas` proves what they return: an `Arranged` set has
each of its members once, in order, whenever the relation is a strict total
order on it.

### Only model-checked

- Liveness: `ThreadFinishes`, `BusyEnds`, `RunEnds`, `CommandEnds`, and the
  liveness part of `ImplementsImageRead`.  Liveness under fairness and `ENABLED`
  are outside the prover's reach.
- `DamageHidesOnlyItself` and `ParsedIsWhole`.  The first does not hold for every
  hive: a lookup takes the first key of a name and a value lookup the first
  value, so it needs that names are unique along each path that any of the eight
  hive readers takes, which holds of a registry's hives and of those of the run.
  The second has a different reason in each format.  They are compared with
  reference definitions over the files of the run.
- The properties of runs that expect a violation.

No module here uses a recursive operator.

## 5. Not modelled

- *Tables* (`gui/FileEntryTableModel`, `CorrelationUtils`,
  `ArtifactDetailsText`): pure functions of rows, filters and text.  The reset
  of the artifact table, which changes the selection, is in `MainWindow`.
- *Export, hashing, logging* (`utils/*`, `cli/ArtifactJson.h`,
  `cli/ArtifactTimelineJson.h`): formatting and plain output.  Whether a
  catalog was written is in `CommandLine`, whether host timestamps add a warning
  in `Extraction`.
- *Texts and byte order*: what a name, a path or a message is beyond what some
  test in the code tells apart; widths beyond a sign (sizes near 2^32 are not in
  the instances, so the sum of a record's offset and size is exact).
- *File system browsing* beyond the walk along a path: the fields of an entry,
  NTFS attributes and streams.
- *E01 reading* itself, libtsk, libewf, SQLite and Qt: external, modelled by how
  the code uses them.
- *A cached failure* as distinct from cached details of no entries: `Triage`
  has the failed state of a file that cannot be read, but not the load that
  could not open the image.
- *The end of the process.*

## 6. Plan

What would come next, in this order:

1. The hive part of `DamageHidesOnlyItself`, for hives whose keys have names of
   their own.  `TriageActiveSetIsRead` needed that what is found is below the
   set; this one needs that all of it is found, for each of eight readers.
2. `ParsedIsWhole`, one format at a time; the loop lemmas of `TriageProofs`
   already say what each parser keeps.
3. The seam between `Worker` and `Extraction`: that an extraction task implements
   the "extract" stage of a worker, as a refinement that is checked and proved.
4. The filters of the file table, and cached failures in `Triage`.
