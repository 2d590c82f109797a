----------------------------- MODULE CommandLine -----------------------------
(***************************************************************************)
(* fie_cli (cli/main, cli/CliOptions): one command from its arguments to   *)
(* its exit code.  Everything the command asks of the disk may fail; the   *)
(* artifact commands run Discovery, whose token nobody cancels.  With the  *)
(* driver "worker" the same discovery runs for ArtifactScanWorker instead  *)
(* and may be cancelled at any point.                                      *)
(*                                                                         *)
(* An option's value is "" or stands for any valid one, unless the code    *)
(* tells values apart.  faults is a history variable: what went wrong.     *)
(***************************************************************************)
EXTENDS Discovery, Evidence

CONSTANTS
  Workers,  \* the disks a scan worker walks
  Cases     \* a command line each, with its disk, volume system and the files beside the image

ASSUME CommandLineAssumption ==
  /\ \A d \in Workers : TypedDisk(d)
  /\ \A c \in Cases :
    /\ TypedDisk(c.disk)
    /\ c.names \subseteq FileNames /\ IsFiniteSet(c.names)   \* what a directory lists
    /\ c.table = NoTable \/ c.table \in Seq({"meta", "data"})

VARIABLES
  driver, args, stage, names, table,
  backend,     \* of the open adapter, or "none"
  partitions, partition,
  error,       \* the error main ends with, or ""
  warned,      \* warnings collected
  rc,          \* what the command returned
  printed,     \* the payload is on stdout
  catalogued,  \* the catalog file is written
  code,        \* the exit code, or -1
  faults

commandVars == <<driver, args, stage, names, table, backend, partitions, partition,
                 error, warned, rc, printed, catalogued, code, faults>>
vars == <<commandVars, discoveryVars>>

Ok      == 0
Failed  == 1
Warning == 2
Usage   == 64

----------------------------------------------------------------------------
(* parseOptions *)

ParseCommand(positional) ==
  CASE positional = <<"artifacts", "scan">>     -> "scan"
    [] positional = <<"artifacts", "timeline">> -> "timeline"
    [] Len(positional) = 1 /\ positional[1] \in {"inspect", "list", "extract", "catalog"} -> positional[1]
    [] OTHER -> "none"

Extracts(command)  == command \in {"extract", "catalog"}
NeedsDest(command) == Extracts(command)
Artifacts(command) == command \in {"scan", "timeline"}
Formats == {"json", "csv"}

\* The error of parseOptions is that of the first check that fails.
ParseErrors(a) ==
  LET command == ParseCommand(a.positional) IN
  << <<~a.known, "parser">>,
     <<command = "none", "command">>,
     <<a.overwrite \notin {"skip", "overwrite", "versioned"}, "overwrite">>,
     <<a.image = NoName, "image">>,
     <<command # "inspect" /\ a.partition.kind = "empty", "partition">>,
     <<command = "timeline" /\ a.outputFormat \notin Formats, "output format">>,
     <<command = "list" /\ a.path = "", "path">>,
     <<Extracts(command) /\ a.source = "", "source">>,
     <<NeedsDest(command) /\ a.dest = "", "dest">>,
     <<command = "catalog" /\ a.catalogOut = "", "catalog out">>,
     <<command = "catalog" /\ a.catalogFormat \notin Formats, "catalog format">> >>

ParseError(a) ==
  LET raised == SelectSeq(ParseErrors(a), LAMBDA check : check[1])
  IN  IF raised = <<>> THEN "" ELSE Head(raised)[2]

Command == ParseCommand(args.positional)

----------------------------------------------------------------------------

Init ==
  /\ DiscoveryInit
  /\ \/ /\ driver = "cli" /\ stage = "arguments"
        /\ \E c \in Cases : disk = c.disk /\ args = c.args /\ names = c.names /\ table = c.table
     \/ /\ driver = "worker" /\ stage = "discover" /\ disk \in Workers
        /\ args = [positional |-> <<"artifacts", "scan">>] /\ names = {} /\ table = NoTable
  /\ backend = "none" /\ partitions = <<>> /\ partition = -1
  /\ error = "" /\ warned = {} /\ rc = Failed /\ printed = FALSE /\ catalogued = FALSE
  /\ code = -1 /\ faults = {}

\* A step of main or of run*(), which leaves the walk alone.
At(s, next) == stage = s /\ stage' = next /\ UNCHANGED <<driver, args, names, table>>
Untouched == UNCHANGED discoveryVars
KeepImage == UNCHANGED <<backend, partitions, partition>>
KeepEnd   == UNCHANGED <<rc, printed, catalogued, code>>
Fault(f)  == faults' = faults \union {f}

\* run*() sets the error and returns ExitFailure; main prints it and ends.
Fail(s, what) ==
  At(s, "exit") /\ error' = what /\ Fault(what) /\ rc' = Failed
  /\ KeepImage /\ Untouched /\ UNCHANGED <<warned, printed, catalogued, code>>

ReadArguments ==
  LET usage == args.count < 1 /\ ~args.help
      wrong == ParseError(args)
  IN  /\ IF usage \/ args.help \/ wrong # ""
         THEN /\ At("arguments", "ended")
              /\ code' = (IF args.help THEN Ok ELSE Usage)
              /\ error' = (IF usage \/ args.help THEN "" ELSE wrong)
         ELSE At("arguments", "reader") /\ UNCHANGED <<code, error>>
      /\ KeepImage /\ Untouched /\ UNCHANGED <<warned, rc, printed, catalogued, faults>>

\* A gap between segments is a warning of the reader; openImage asks the adapter only.
OpenReader ==
  \/ /\ At("reader", "adapter")
     /\ faults' = (IF GapWarning(args.image, names) = {} THEN faults ELSE faults \union {"segment gap"})
     /\ KeepImage /\ KeepEnd /\ Untouched /\ UNCHANGED <<error, warned>>
  \/ Fail("reader", "reader open")

OpenImage ==
  \E bridge, path \in BOOLEAN :
    LET opened == OpenAdapter(TRUE, bridge, path, args.fallback) IN
    /\ At("adapter", IF opened.ok THEN "partitions" ELSE "exit")
    /\ backend' = (IF opened.ok THEN opened.backend ELSE "none")
    /\ warned' = (IF opened.warning = {} THEN {} ELSE {"path fallback"})
    /\ error' = (IF opened.error = {} THEN "" ELSE "adapter open")
    /\ faults' = (IF bridge THEN faults ELSE faults \union {"bridge"})
    /\ KeepEnd /\ Untouched /\ UNCHANGED <<partitions, partition>>

LoadPartitions ==
  LET found == Enumerate(table) IN
  \/ /\ found # <<>> /\ At("partitions", IF Command = "inspect" THEN "print" ELSE "resolve")
     /\ partitions' = found
     /\ KeepEnd /\ Untouched /\ UNCHANGED <<backend, partition, error, warned, faults>>
  \/ found = <<>> /\ Fail("partitions", "no partitions")

FindPartition ==
  LET p == ResolvePartition(args.partition, partitions) IN
  \/ /\ p # -1 /\ At("resolve", "filesystem") /\ partition' = p
     /\ KeepEnd /\ Untouched /\ UNCHANGED <<backend, partitions, error, warned, faults>>
  \/ p = -1 /\ Fail("resolve", "unknown partition")

AfterOpen == CASE Command = "list" -> "list" [] Extracts(Command) -> "source" [] OTHER -> "discover"
OpenFileSystem ==
  \/ /\ At("filesystem", AfterOpen)
     /\ KeepImage /\ KeepEnd /\ Untouched /\ UNCHANGED <<error, warned, faults>>
  \/ Fail("filesystem", "filesystem open")

ListDirectory ==
  \/ /\ At("list", "print")
     /\ KeepImage /\ KeepEnd /\ Untouched /\ UNCHANGED <<error, warned, faults>>
  \/ Fail("list", "listing")

\* The root needs no listing; any other source is looked for in its parent.
ResolveEntry ==
  \/ /\ At("source", "extract")
     /\ KeepImage /\ KeepEnd /\ Untouched /\ UNCHANGED <<error, warned, faults>>
  \/ args.source # "/" /\ \E what \in {"listing", "source not found"} : Fail("source", what)

\* The records of an extraction; a failed one fails the command without an error line.
Extract ==
  \/ \E failed, warns \in BOOLEAN :
       /\ At("extract", IF Command = "catalog" THEN "catalog" ELSE "print")
       /\ rc' = (IF failed THEN Failed ELSE IF warns THEN Warning ELSE Ok)
       /\ warned' = (IF warns THEN warned \union {"record"} ELSE warned)
       /\ faults' = faults \union (IF failed THEN {"record failed"} ELSE {})
                           \union (IF warns THEN {"record warns"} ELSE {})
       /\ KeepImage /\ Untouched /\ UNCHANGED <<error, printed, catalogued, code>>
  \/ Fail("extract", "extraction")

WriteCatalog ==
  \/ /\ At("catalog", "print") /\ catalogued' = TRUE
     /\ KeepImage /\ Untouched /\ UNCHANGED <<error, warned, rc, printed, code, faults>>
  \/ Fail("catalog", "catalog write")

\* What the disk did to the discovery: a listing fails where a folder on the
\* way, or the folder itself, cannot be read; one that is missing is no fault.
Blocked(path) == \E k \in 0 .. Len(path) : Resolve(disk, SubSeq(path, 1, k)) \in disk.unreadable
Targets == {Front(l.path) : l \in Elements(Lookups(profiles))} \union {w.root : w \in TheWalks}
DiscoveryFaults ==
  (IF Unread = {} /\ Readable(<<"Users">>) THEN {} ELSE {"unlisted folder"})
  \union (IF \E path \in Targets : Blocked(path) THEN {"unlisted target"} ELSE {})

\* Warnings of the walk, then a Failed detail of any present file.
DiscoveryWarnings == IF warnings = <<>> THEN {} ELSE {"discovery"}
HasFile == \E i \in 1 .. Len(out) : out[i].status = "Present"
Populates == Command = "timeline" \/ args.details
Describe ==
  /\ pc = "done" /\ At("discover", "print")
  /\ \E parseFails \in BOOLEAN :
       /\ parseFails => HasFile /\ Populates
       /\ warned' = warned \union DiscoveryWarnings \union (IF parseFails THEN {"details"} ELSE {})
       /\ faults' = faults \union DiscoveryFaults \union (IF parseFails THEN {"parse failed"} ELSE {})
  /\ KeepImage /\ KeepEnd /\ Untouched /\ UNCHANGED error

PrintPayload ==
  /\ At("print", "exit") /\ printed' = TRUE
  /\ rc' = (IF Extracts(Command) THEN rc ELSE Ok)
  /\ KeepImage /\ Untouched /\ UNCHANGED <<error, warned, catalogued, code, faults>>

\* main's last lines: an error hides the warnings; warnings turn success into 2.
ExitCodeOfCommand == IF error # "" THEN Failed ELSE rc
ExitCode == IF error # "" THEN Failed ELSE IF rc = Ok /\ warned # {} THEN Warning ELSE rc
Exit ==
  /\ At("exit", "ended") /\ code' = ExitCode
  /\ KeepImage /\ Untouched /\ UNCHANGED <<error, warned, rc, printed, catalogued, faults>>

Main ==
  /\ driver = "cli"
  /\ \/ ReadArguments \/ OpenReader \/ OpenImage \/ LoadPartitions \/ FindPartition
     \/ OpenFileSystem \/ ListDirectory \/ ResolveEntry \/ Extract \/ WriteCatalog
     \/ Describe \/ PrintPayload \/ Exit

Walking == stage = "discover" /\ Discover /\ UNCHANGED commandVars
Cancel  == driver = "worker" /\ RequestCancel /\ UNCHANGED commandVars
Next == Main \/ Walking \/ Cancel

Fairness == WF_vars(Main) /\ WF_vars(Walking)
Spec == Init /\ [][Next]_vars /\ Fairness

----------------------------------------------------------------------------

Ended == stage = "ended"

\* The faults nothing tells of: a gap between segments, and a listing that
\* failed at the folder of a target or the root of a walk, whose artifacts are
\* then reported missing or not at all (openImage, findEntry,
\* appendRecursiveBySuffix).
Unsaid == {"segment gap", "unlisted target"}

\* The exit code tells what happened: 0 only when nothing but an unsaid fault
\* did, 2 only with a payload and a warning, 1 only with an error line or a
\* failed record.  Every other failure of the disk, wherever a walk meets it,
\* ends with 2 or 1.  A payload and an error line exclude each other, success
\* without a payload is only --help, and the payload is of the partition the
\* user named, also when slots of the table are left out (main,
\* resolvePartition).
ExitTellsTheFaults ==
  Ended =>
    /\ code = Ok      => error = "" /\ warned = {} /\ faults \subseteq Unsaid
    /\ code = Warning => error = "" /\ warned # {} /\ printed
    /\ code = Failed  => error # "" \/ "record failed" \in faults
    /\ code = Usage   => backend = "none" /\ ~printed
    /\ ~(printed /\ error # "")
    /\ code \in {Ok, Warning} => printed \/ args.help
    /\ printed /\ Command # "inspect" =>
         partition = args.partition.n /\ (table = NoTable \/ table[partition + 1] # "meta")

\* "`0`: success, no warnings" (README.md:73, "Exit codes"): no part of the
\* program that read the image has warned, the reader of its segments included.
ZeroMeansNoWarning ==
  Ended /\ code = Ok => warned = {} /\ "segment gap" \notin faults

\* The reader is given the files of the selected file's set and no others, in
\* ascending number, and warns of exactly the numbers missing in between.
SegmentsAreTheSet ==
  stage = "adapter" =>
    LET segments == DiscoverSegments(args.image, names)
        ours == {n \in names : n.base = args.image.base /\ n.family = args.image.family}
        numbers == {n.index : n \in ours}
    IN  IsSegment(args.image) /\ args.image \in names =>
          /\ Elements(segments) = ours /\ Len(segments) = Cardinality(ours)
          /\ \A i, j \in 1 .. Len(segments) : i < j => segments[i].index <= segments[j].index
          /\ GapWarning(args.image, names) =
               {k \in 1 .. 99 : k \notin numbers /\ (\E a \in numbers : a < k) /\ (\E b \in numbers : k < b)}

\* Every command, and every scan of the worker, comes to its end: walks are
\* bounded even where a folder contains itself.
CommandEnds == <>(IF driver = "cli" THEN Ended ELSE pc = "done")
=============================================================================
