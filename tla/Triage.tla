-------------------------------- MODULE Triage --------------------------------
(***************************************************************************)
(* How the main window fills the details of the artifact rows of one scan  *)
(* (gui/MainWindow with ArtifactDetailSession, ArtifactAnalysisSession and *)
(* the two detail workers of workers/ForensicsWorkers): one row at a time  *)
(* when it is selected, or all of them by Analyze Artifacts, both through  *)
(* a cache of details, from which the timeline is built.                   *)
(*                                                                         *)
(* The partition stays the same here and the scan is over; a change of     *)
(* either, and runs that overlap, are in MainWindow.  A cache key is then  *)
(* a path.  Every new request first sets the request number back to 0, so  *)
(* it is number 1 whenever there is one, and a request is known by its key *)
(* alone.  Two loads of one row bring the same answer: loading is a set.   *)
(* A cancel reaches a worker only when it is through.                      *)
(***************************************************************************)
EXTENDS Timeline

CONSTANTS
  Worlds,     \* the rows of a scan and the files behind their paths
  SelectFrom, \* bound: rows are selected only where there are so many of them
  MaxLoads    \* bound: loads in flight

ArtifactRows ==
  [artifact : STRING, path : STRING, profile : STRING, marks : SUBSET STRING,
   status : {"Present", "Missing"}, directory : BOOLEAN]

ASSUME TriageAssumption ==
  /\ \A w \in Worlds : /\ w.rows \in Seq(ArtifactRows)
                       /\ \A i \in DOMAIN w.rows : IsFile(w.disk[w.rows[i].path])
  /\ SelectFrom \in Nat /\ MaxLoads \in Nat \ {0}

VARIABLES
  rows,       \* m_artifacts
  disk,       \* path -> the file there
  mounts,     \* the file system can be opened
  cache,      \* m_artifactDetailCache: path -> details, or NoDetails
  selected,   \* the selected row, or 0
  active,     \* m_activeArtifactDetailKey and its request, or NoKey
  loading,    \* rows whose load is in flight
  panel,      \* the metadata panel: the row and the state it shows
  analysing,  \* an analysis is in flight
  analysed,   \* an analysis came back complete, and no load without the evidence since
  timeline    \* m_timelineEvents

evidence == <<rows, disk, mounts>>
request  == <<selected, active, loading, panel>>
results  == <<cache, analysing, analysed, timeline>>
vars     == <<evidence, request, results>>

NoKey      == "none"
PathOf(i)  == rows[i].path
CacheOf(c) == [i \in DOMAIN rows |-> IF PathOf(i) \in DOMAIN c THEN c[PathOf(i)] ELSE NoDetails]

(* ArtifactDetailSessionCache::put. *)
Inserted(c, key, d) == [k \in DOMAIN c \union {key} |-> IF k = key THEN d ELSE c[k]]

PanelState(d) == IF d = NoDetails THEN "unsupported" ELSE d.state
Empty         == [row |-> 0, state |-> "empty", details |-> NoDetails]
Panel(i, d)   == [row |-> i, state |-> PanelState(d), details |-> d]
Loading(i)    == [row |-> i, state |-> "loading", details |-> NoDetails]

FileOf(row) == IF mounts THEN disk[row.path] ELSE [disk[row.path] EXCEPT !.read = "not mounted"]

\* Mutant: the timeline is rebuilt before the details are put.
RebuildBeforePut == timeline' = buildEvents(rows, CacheOf(cache))

(* rebuildTimelineView with the cache as it is now.                         *)
Rebuild == timeline' = buildEvents(rows, CacheOf(cache'))

Init ==
  /\ \E w \in Worlds : rows = w.rows /\ disk = w.disk
  /\ mounts = TRUE
  /\ cache = [p \in {} |-> NoDetails]
  /\ selected = 0 /\ active = NoKey /\ loading = {} /\ panel = Empty
  /\ analysing = FALSE /\ analysed = FALSE
  /\ timeline = <<>>

Selectable == Len(rows) >= SelectFrom

(* The evidence can go away under the running program.                      *)
Detach ==
  /\ Selectable /\ mounts
  /\ mounts' = FALSE
  /\ UNCHANGED <<rows, disk, request, results>>

(* onArtifactSelectionChanged: a cached row is shown and an earlier load     *)
(* stays active; any other cancels it.                                       *)
Deselect ==
  /\ selected # 0
  /\ selected' = 0 /\ active' = NoKey /\ panel' = Empty
  /\ UNCHANGED <<evidence, loading, results>>

SelectCached(i) ==
  /\ Selectable /\ i # selected
  /\ PathOf(i) \in DOMAIN cache
  /\ selected' = i
  /\ panel' = Panel(i, cache[PathOf(i)])
  /\ UNCHANGED <<evidence, active, loading, results>>

SelectToLoad(i) ==
  /\ Selectable /\ i # selected
  /\ PathOf(i) \notin DOMAIN cache
  /\ i \in loading \/ Cardinality(loading) < MaxLoads
  /\ selected' = i
  /\ active' = PathOf(i)
  /\ loading' = loading \union {i}
  /\ panel' = Loading(i)
  /\ UNCHANGED <<evidence, results>>

\* Mutant: the request alone decides.
shouldApplyByRequest(key) == active = key /\ selected # 0

(* The answer of a load, taken only if its key is the active one and that of *)
(* the row selected now.                                                     *)
shouldApplyArtifactDetailResult(key) ==
  /\ active = key
  /\ selected # 0 /\ PathOf(selected) = key

TakeAnswer(i) ==
  /\ i \in loading
  /\ shouldApplyArtifactDetailResult(PathOf(i))
  /\ loading' = loading \ {i}
  /\ \E d \in {describe(rows[i], FileOf(rows[i]))} :
       cache' = Inserted(cache, PathOf(i), d) /\ panel' = Panel(selected, d)
  /\ active' = NoKey
  /\ analysed' = (analysed /\ mounts)
  /\ Rebuild
  /\ UNCHANGED <<evidence, selected, analysing>>

DropAnswer(i) ==
  /\ i \in loading
  /\ ~shouldApplyArtifactDetailResult(PathOf(i))
  /\ loading' = loading \ {i}
  /\ UNCHANGED <<evidence, selected, active, panel, results>>

(* onAnalyzeArtifacts cancels the load under way, and the panel stays as it  *)
(* is.  Its answer puts one entry per row in the cache, by the row's key.    *)
Analyze ==
  /\ ~analysing
  /\ analysing' = TRUE
  /\ active' = NoKey
  /\ UNCHANGED <<evidence, selected, loading, panel, cache, analysed, timeline>>

Put(c, described) ==
  LET put[i \in 0 .. Len(rows)] ==
        IF i = 0 THEN c
        ELSE IF ToDescribe(rows[i]) THEN Inserted(put[i - 1], PathOf(i), described[i])
        ELSE put[i - 1]
  IN  put[Len(rows)]

Analysed ==
  /\ analysing /\ mounts
  /\ analysing' = FALSE
  /\ analysed' = TRUE
  /\ cache' = Put(cache, populate(rows, [i \in DOMAIN rows |-> FileOf(rows[i])]))
  /\ Rebuild
  /\ UNCHANGED <<evidence, request>>

AnalysisFails ==
  /\ analysing /\ ~mounts
  /\ analysing' = FALSE
  /\ UNCHANGED cache
  /\ Rebuild
  /\ UNCHANGED <<evidence, request, analysed>>

Next ==
  \/ Detach \/ Deselect
  \/ \E i \in DOMAIN rows :
       SelectCached(i) \/ SelectToLoad(i) \/ TakeAnswer(i) \/ DropAnswer(i)
  \/ Analyze \/ Analysed \/ AnalysisFails

Spec == Init /\ [][Next]_vars
=============================================================================
