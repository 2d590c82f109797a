------------------------------ MODULE MainWindow ------------------------------
(***************************************************************************)
(* The GUI session (gui/MainWindow, gui/ArtifactDetailSession,             *)
(* gui/ArtifactAnalysisSession): the window's shared state, every handler  *)
(* that changes it, and the background workers whose completions come back *)
(* to the GUI thread in any order.                                         *)
(*                                                                         *)
(* The GUI thread runs one handler at a time, but a file dialog or message *)
(* box runs a nested event loop: completions are handled while it is up,   *)
(* and the handler that opened it goes on when it is dismissed.  modal is  *)
(* the stack of handlers waiting so.                                       *)
(*                                                                         *)
(* Data are reduced to where they came from: a listing, an artifact row or *)
(* a parsed detail is the partition and image it was read from.  A scanned *)
(* partition has one artifact, so the cache key partitionIdentifier|path   *)
(* is the partition's number.  Cancellation requests change nothing here:  *)
(* Worker shows that a queued one is seen only after the answer.           *)
(***************************************************************************)
EXTENDS Integers, Sequences

CONSTANTS
  Images,       \* paths of image files
  Numbers,      \* the TSK numbers of an image's listed partitions, in order
  Folders,      \* paths of the directories in a partition's root directory
  Operations,   \* what the user does in this instance
  MaxAdapters,  \* bound: image adapters alive at a time
  MaxTasks,     \* bound: workers in flight at a time
  MaxRuns,      \* bound: analyses started without a context switch
  None          \* no image, no key, nothing

AllOperations == {"Open", "Close", "Select", "Jump", "Scan", "Analyze", "Row", "Extract"}

ASSUME MainWindowAssumption ==
  /\ Numbers \in Seq(Nat) /\ Len(Numbers) > 0
  /\ \A i, j \in 1 .. Len(Numbers) : i < j => Numbers[i] < Numbers[j]
  /\ "/" \notin Folders
  /\ Operations \subseteq AllOperations
  /\ MaxAdapters \in Nat /\ MaxTasks \in Nat /\ MaxRuns \in Nat
  /\ None \notin Images \union Nat

VARIABLES
  heap,        \* the adapters (with their readers): path, reader open, open in TSK
  image,       \* m_tskImage: the current adapter, or 0
  imageInfo,   \* m_imageInfo: the image named in the evidence summary
  partitions,  \* m_partitions: the image they were enumerated from, or None
  selected,    \* m_selectedPartitionIndex
  tree,        \* m_partitionTree: node -> its RolePartition and RoleLoaded
  treeSel,     \* the selected node, or None
  files,       \* m_files: where the listing was read, or None
  artifacts,   \* m_artifacts: the partition scanned, or None
  row,         \* an artifact row is selected
  cache,       \* m_artifactDetailCache: key -> where the details were read
  detailId, detailKey,  \* m_artifactDetailRequestId, m_activeArtifactDetailKey
  runId, runContext,    \* m_artifactAnalysisRunId, m_activeArtifactAnalysisContext
  timeline,    \* m_timelineEvents: the details the events come from
  panel,       \* the metadata panel: "other", or the state of an artifact's details
  pending,     \* m_pendingFileSelectionPath is set
  handle,      \* m_cancelCurrentTask: the slot of the task it cancels, or 0
  stop,        \* m_stopAction is enabled
  catalog,     \* m_catalog
  tasks,       \* slot -> worker in flight
  modal        \* handlers waiting in a dialog, the topmost first

evidence == <<imageInfo, partitions, selected>>
browser  == <<tree, treeSel, files, pending>>
session  == <<cache, detailId, detailKey, runId, runContext, timeline>>
triage   == <<artifacts, row, panel>>
busy     == <<handle, stop>>
vars == <<heap, image, evidence, browser, session, triage, busy, catalog, tasks, modal>>

Adapters == 1 .. MaxAdapters
Slots    == 1 .. MaxTasks
Unused   == [path |-> None, reader |-> FALSE, open |-> FALSE]
NoTask   == [kind |-> "none", adapter |-> 0]
NoDetail == [n \in {} |-> None]
Other    == [state |-> "other", key |-> None]

-----------------------------------------------------------------------------
Count == IF partitions = None THEN 0 ELSE Len(Numbers)

(* The bounds check every handler makes before it uses the index. *)
InRange(i) == 0 <= i /\ i < Count

PartAt(i)   == [image |-> partitions, number |-> Numbers[i + 1]]
IsOpen(a)   == a # 0 /\ heap[a].open
Ready       == IsOpen(image) /\ InRange(selected)

(* Where data of a partition entry really come from: the disk behind the   *)
(* adapter, at the offset the entry carries.                               *)
Source(a, part) == [disk |-> heap[a].path, part |-> part]

FreeSlots == {i \in Slots : tasks[i] = NoTask}
Slot      == CHOOSE i \in FreeSlots : \A j \in FreeSlots : i <= j

(* Adapters live as long as the window or a worker holds them. *)
Collected(h, current, ts) ==
  [a \in Adapters |-> IF a = current \/ \E i \in Slots : ts[i].adapter = a
                        THEN h[a] ELSE Unused]

Launch(task) == FreeSlots # {} /\ tasks' = [tasks EXCEPT ![Slot] = task]

(* Faults: a completion leaves the handle behind; or Stop enabled. *)
SetIdleKeepingHandle == stop' = FALSE /\ UNCHANGED handle
SetIdleKeepingStop   == handle' = 0 /\ UNCHANGED stop

(* setBusy(false) and, once a handle is stored, setBusy(true). *)
SetIdle    == stop' = FALSE /\ handle' = 0
SetBusy(i) == handle' = i /\ stop' = (i # 0)

(* The timeline has events of an artifact's details only. *)
Events(rows, details) ==
  IF rows # None /\ rows.part.number \in DOMAIN details THEN details[rows.part.number] ELSE None

(* Fault: the request id is reset and the key is not. *)
CancelDetailKeepingKey == detailId' = 0 /\ UNCHANGED detailKey

CancelDetail == detailId' = 0 /\ detailKey' = None

(* Fault: details of the partition left behind stay cached. *)
ContextSwitchKeepingCache ==
  CancelDetail /\ runId' = 0 /\ runContext' = None /\ UNCHANGED <<cache, timeline>>

(* How onOpenImage, onPartitionSelected and onScanArtifacts begin. *)
ContextSwitch ==
  /\ CancelDetail
  /\ runId' = 0 /\ runContext' = None
  /\ cache' = NoDetail
  /\ timeline' = None

(* QTreeWidget::clear drops the selection first, which runs                *)
(* onPartitionSelected with nothing selected; guarded pointers to nodes    *)
(* become null.                                                            *)
ClearTree ==
  /\ treeSel' = None
  /\ IF treeSel # None THEN ContextSwitch ELSE UNCHANGED session

Forget(ts) ==
  [i \in Slots |-> IF ts[i].kind = "DirectoryList" THEN [ts[i] EXCEPT !.node = None] ELSE ts[i]]

NoTree == [n \in {} |-> None]

(* The image's own node is not a partition's: its index is out of range. *)
ImageNode == <<-1, "/">>

Roots(path) ==
  LET listed == IF path = None THEN {} ELSE {<<Numbers[i], "/">> : i \in 1 .. Len(Numbers)}
  IN  [n \in listed \union {ImageNode} |-> [index |-> n[1], loaded |-> FALSE]]

(* populatePartitions, for the partitions of the given image. *)
ShowPartitions(path, ts) ==
  /\ partitions' = path
  /\ tree' = Roots(path)
  /\ ClearTree
  /\ tasks' = Forget(ts)

-----------------------------------------------------------------------------
Init ==
  /\ heap = [a \in Adapters |-> Unused]
  /\ image = 0 /\ imageInfo = None /\ partitions = None /\ selected = -1
  /\ tree = NoTree /\ treeSel = None /\ files = None /\ pending = FALSE
  /\ artifacts = None /\ row = FALSE /\ panel = Other
  /\ cache = NoDetail /\ detailId = 0 /\ detailKey = None
  /\ runId = 0 /\ runContext = None /\ timeline = None
  /\ handle = 0 /\ stop = FALSE /\ catalog = {}
  /\ tasks = [i \in Slots |-> NoTask]
  /\ modal = <<>>

(* The user reaches the window when no dialog is up. *)
User(operation) == operation \in Operations /\ modal = <<>>

Ask(dialog)  == modal' = <<dialog>> \o modal
Up(tag)      == modal # <<>> /\ Head(modal).tag = tag
Dismiss(tag) == Up(tag) /\ modal' = Tail(modal)
-----------------------------------------------------------------------------
(* Images. *)

(* onOpenImage up to its file dialog: results are invalidated first. *)
OpenImage ==
  /\ User("Open")
  /\ ContextSwitch
  /\ Ask([tag |-> "chooseImage"])
  /\ UNCHANGED <<heap, image, evidence, browser, triage, busy, catalog, tasks>>

ChooseNoImage ==
  /\ Dismiss("chooseImage")
  /\ UNCHANGED <<heap, image, evidence, browser, session, triage, busy, catalog, tasks>>

(* The rest of onOpenImage: a reader and an adapter of its own, and a      *)
(* worker that opens the reader.  The old partitions stay on screen.       *)
ChooseImage(path) ==
  /\ Dismiss("chooseImage")
  /\ \E a \in Adapters :
       /\ heap[a] = Unused
       /\ \A b \in 1 .. a - 1 : heap[b] # Unused
       /\ image' = a
       /\ Launch([kind |-> "ImageOpen", adapter |-> a, done |-> "running"])
       /\ heap' = Collected([heap EXCEPT ![a] = [path |-> path, reader |-> FALSE, open |-> FALSE]],
                            a, tasks')
       /\ SetBusy(Slot)
  /\ UNCHANGED <<evidence, browser, session, triage, catalog>>

(* ImageOpenWorker on its thread. *)
WorkImageOpen(i) ==
  /\ tasks[i].kind = "ImageOpen" /\ tasks[i].done = "running"
  /\ \E ok \in BOOLEAN :
       /\ tasks' = [tasks EXCEPT ![i].done = IF ok THEN "ok" ELSE "failed"]
       /\ heap' = [heap EXCEPT ![tasks[i].adapter].reader = ok]
  /\ UNCHANGED <<image, evidence, browser, session, triage, busy, catalog, modal>>

(* Its completion starts the partition scan on whatever adapter is current *)
(* by then.                                                                *)
ImageOpened(i) ==
  /\ tasks[i].kind = "ImageOpen" /\ tasks[i].done = "ok"
  /\ imageInfo' = heap[tasks[i].adapter].path
  /\ tasks' = [tasks EXCEPT ![i] = [kind |-> "PartitionScan", adapter |-> image, done |-> "running"]]
  /\ heap' = Collected(heap, image, tasks')
  /\ SetBusy(i)
  /\ UNCHANGED <<image, partitions, selected, browser, session, triage, catalog, modal>>

ImageOpenFailed(i) ==
  /\ tasks[i].kind = "ImageOpen" /\ tasks[i].done = "failed"
  /\ tasks' = [tasks EXCEPT ![i] = NoTask]
  /\ heap' = Collected(heap, image, tasks')
  /\ SetIdle
  /\ Ask([tag |-> "notice"])
  /\ UNCHANGED <<image, evidence, browser, session, triage, catalog>>

NoticeRead ==
  /\ Dismiss("notice")
  /\ UNCHANGED <<heap, image, evidence, browser, session, triage, busy, catalog, tasks>>

(* PartitionScanWorker on its thread: the adapter is closed and opened     *)
(* again; that needs an open reader, and the enumeration may fail as well. *)
WorkPartitionScan(i) ==
  LET a == tasks[i].adapter
  IN  /\ tasks[i].kind = "PartitionScan" /\ tasks[i].done = "running"
      /\ \E opened, listed \in BOOLEAN :
           /\ opened => a # 0 /\ heap[a].reader
           /\ listed => opened
           /\ heap' = IF a = 0 THEN heap ELSE [heap EXCEPT ![a].open = opened]
           /\ tasks' = [tasks EXCEPT ![i].done = IF listed THEN "ok" ELSE "failed"]
      /\ UNCHANGED <<image, evidence, browser, session, triage, busy, catalog, modal>>

PartitionsListed(i) ==
  /\ tasks[i].kind = "PartitionScan" /\ tasks[i].done = "ok"
  /\ ShowPartitions(heap[tasks[i].adapter].path, [tasks EXCEPT ![i] = NoTask])
  /\ heap' = Collected(heap, image, tasks')
  /\ SetIdle
  /\ UNCHANGED <<image, imageInfo, selected, files, pending, triage, catalog, modal>>

(* A failed scan empties the partitions, but behind its message box. *)
PartitionScanFailed(i) ==
  /\ tasks[i].kind = "PartitionScan" /\ tasks[i].done = "failed"
  /\ tasks' = [tasks EXCEPT ![i] = NoTask]
  /\ heap' = Collected(heap, image, tasks')
  /\ SetIdle
  /\ Ask([tag |-> "scanFailed"])
  /\ UNCHANGED <<image, evidence, browser, session, triage, catalog>>

PartitionScanFailedRead ==
  /\ Dismiss("scanFailed")
  /\ ShowPartitions(None, tasks)
  /\ UNCHANGED <<heap, image, imageInfo, selected, files, pending, triage, busy, catalog>>

(* The Close Image menu entry.  Tasks run on, and m_imageInfo stays. *)
CloseImage ==
  /\ User("Close")
  /\ image' = 0
  /\ partitions' = None /\ selected' = -1
  /\ tree' = NoTree /\ ClearTree
  /\ files' = None
  /\ artifacts' = None /\ row' = FALSE
  /\ tasks' = Forget(tasks)
  /\ heap' = Collected(heap, 0, tasks')
  /\ UNCHANGED <<imageInfo, pending, panel, busy, catalog, modal>>
-----------------------------------------------------------------------------
(* Partitions and directories. *)

(* onPartitionSelected for a node of the tree (or Refresh with that node   *)
(* selected): the node's RolePartition is used as an index.                *)
SelectNode(node) ==
  /\ User("Select")
  /\ treeSel' = node
  /\ ContextSwitch
  /\ IF IsOpen(image) /\ InRange(tree[node].index)
       THEN /\ selected' = tree[node].index
            /\ Launch([kind |-> "DirectoryList", adapter |-> image,
                       part |-> PartAt(tree[node].index), node |-> node, shown |-> node[1]])
            /\ SetBusy(Slot)
       ELSE UNCHANGED <<selected, tasks, busy>>
  /\ UNCHANGED <<heap, image, imageInfo, partitions, tree, files, pending, triage, catalog, modal>>

SelectNoNode ==
  /\ User("Select")
  /\ treeSel' = None
  /\ ContextSwitch
  /\ UNCHANGED <<heap, image, evidence, tree, files, pending, triage, busy, catalog, tasks, modal>>

(* loadDirectoryAtPath, which stores no cancel handle of its own. *)
LoadDirectory ==
  /\ IF Ready
       THEN /\ Launch([kind |-> "DirectoryList", adapter |-> image,
                       part |-> PartAt(selected), node |-> None, shown |-> None])
            /\ SetBusy(handle)
       ELSE UNCHANGED <<tasks, busy>>
  /\ UNCHANGED <<heap, image, evidence, tree, treeSel, files, session, triage, catalog, modal>>

(* onArtifactJumpToFileSystem, for a directory or a file to be selected.   *)
JumpToArtifact ==
  /\ User("Jump") /\ row
  /\ pending' \in BOOLEAN
  /\ LoadDirectory

(* "Jump to parent directory" in the file table's menu. *)
JumpToParent ==
  /\ User("Jump") /\ files # None
  /\ LoadDirectory
  /\ UNCHANGED pending

(* A new child node is given the partition selected by then. *)
ChildIndex(node) == selected

(* populateFiles: the first listing of a node adds its directories. *)
Populated(node, found) ==
  IF node = None \/ node \notin DOMAIN tree \/ tree[node].loaded THEN tree
  ELSE LET children == IF found /\ node[2] = "/" THEN {node[1]} \X Folders ELSE {}
       IN  [n \in DOMAIN tree \union children |->
              IF n = node THEN [tree[n] EXCEPT !.loaded = TRUE]
              ELSE IF n \in DOMAIN tree THEN tree[n]
              ELSE [index |-> ChildIndex(node), loaded |-> FALSE]]

(* onFileSelected selects the best related artifact row with the table's   *)
(* signals blocked, or clears that selection, and takes over the panel.    *)
TouchArtifactRow ==
  /\ row' \in IF artifacts = None THEN {FALSE} ELSE BOOLEAN
  /\ panel' = Other

(* loadDirectoryAtPath's completion brings the Files tab to the front: if  *)
(* it was not there already, onFileSelected runs, with no file selected.   *)
FilesTab(shown) ==
  /\ UNCHANGED row
  /\ panel' \in IF shown = None THEN {panel, Other} ELSE {panel}

DirectoryListed(i) ==
  LET t == tasks[i]
  IN  /\ t.kind = "DirectoryList" /\ IsOpen(t.adapter)
      /\ files' = Source(t.adapter, t.part)
      /\ tree' = Populated(t.node, TRUE)
      /\ pending' = FALSE
      /\ (pending /\ TouchArtifactRow) \/ FilesTab(t.shown)
      /\ tasks' = [tasks EXCEPT ![i] = NoTask]
      /\ heap' = Collected(heap, image, tasks')
      /\ SetIdle
      /\ UNCHANGED <<image, evidence, treeSel, session, artifacts, catalog, modal>>

DirectoryListFailed(i) ==
  /\ tasks[i].kind = "DirectoryList"
  /\ Ask([tag |-> "listFailed", node |-> tasks[i].node, shown |-> tasks[i].shown])
  /\ tasks' = [tasks EXCEPT ![i] = NoTask]
  /\ heap' = Collected(heap, image, tasks')
  /\ SetIdle
  /\ UNCHANGED <<image, evidence, browser, session, triage, catalog>>

DirectoryListFailedRead ==
  /\ Dismiss("listFailed")
  /\ files' = None
  /\ tree' = Populated(Head(modal).node, FALSE)
  /\ pending' = FALSE
  /\ FilesTab(Head(modal).shown)
  /\ UNCHANGED <<heap, image, evidence, treeSel, session, artifacts, busy, catalog, tasks>>

(* onFileSelected for a row of the listing, or for none. *)
SelectFile ==
  /\ User("Row")
  /\ \/ files # None /\ TouchArtifactRow
     \/ UNCHANGED row /\ panel' = Other
  /\ UNCHANGED <<heap, image, evidence, browser, session, artifacts, busy, catalog, tasks, modal>>
-----------------------------------------------------------------------------
(* Artifacts: scanning, details on demand, full analysis. *)

(* onScanArtifacts: no partition, no Windows, or a worker. *)
ScanArtifacts ==
  /\ User("Scan")
  /\ ContextSwitch
  /\ \/ ~Ready /\ UNCHANGED <<tasks, busy, modal>>
     \/ Ready /\ Ask([tag |-> "notWindows"]) /\ UNCHANGED <<tasks, busy>>
     \/ /\ Ready
        /\ Launch([kind |-> "ArtifactScan", adapter |-> image, part |-> PartAt(selected)])
        /\ SetBusy(Slot)
        /\ UNCHANGED modal
  /\ UNCHANGED <<heap, image, evidence, browser, triage, catalog>>

(* setArtifacts resets the table's selection without a signal. *)
ShowArtifacts(rows) ==
  /\ artifacts' = rows
  /\ row' = FALSE
  /\ timeline' = Events(rows, cache)

NotWindowsRead ==
  /\ Dismiss("notWindows")
  /\ ShowArtifacts(None)
  /\ UNCHANGED <<heap, image, evidence, browser, cache, detailId, detailKey, runId, runContext,
                 panel, busy, catalog, tasks>>

(* The Artifacts tab comes to the front: if it was not there already,      *)
(* onArtifactSelectionChanged runs, with no row selected.                  *)
ArtifactTab ==
  \/ CancelDetail /\ panel' = Other
  \/ UNCHANGED <<detailId, detailKey, panel>>

ArtifactsScanned(i) ==
  LET t == tasks[i]
  IN  /\ t.kind = "ArtifactScan" /\ IsOpen(t.adapter)
      /\ ShowArtifacts(Source(t.adapter, t.part))
      /\ ArtifactTab
      /\ tasks' = [tasks EXCEPT ![i] = NoTask]
      /\ heap' = Collected(heap, image, tasks')
      /\ SetIdle
      /\ UNCHANGED <<image, evidence, browser, cache, runId, runContext, catalog, modal>>

ArtifactScanFailed(i) ==
  /\ tasks[i].kind = "ArtifactScan"
  /\ Ask([tag |-> "artifactScanFailed"])
  /\ tasks' = [tasks EXCEPT ![i] = NoTask]
  /\ heap' = Collected(heap, image, tasks')
  /\ SetIdle
  /\ UNCHANGED <<image, evidence, browser, session, triage, catalog>>

ArtifactScanFailedRead ==
  /\ Dismiss("artifactScanFailed")
  /\ ShowArtifacts(None)
  /\ ArtifactTab
  /\ UNCHANGED <<heap, image, evidence, browser, cache, runId, runContext, busy, catalog, tasks>>

RowKey == IF row THEN artifacts.part.number ELSE None

(* onArtifactSelectionChanged with a row: from the cache, or by            *)
(* requestArtifactDetails, whose id starts at 1 again every time.          *)
SelectArtifact ==
  /\ User("Row") /\ artifacts # None
  /\ row' = TRUE
  /\ LET key == artifacts.part.number
     IN  \/ /\ key \in DOMAIN cache
            /\ panel' = [state |-> "details", key |-> key]
            /\ UNCHANGED <<tasks, detailId, detailKey>>
         \/ /\ key \notin DOMAIN cache
            /\ panel' = [state |-> "loading", key |-> key]
            /\ IF Ready
                 THEN /\ Launch([kind |-> "ArtifactDetail", adapter |-> image, part |-> PartAt(selected),
                                 id |-> 1])
                      /\ detailId' = 1 /\ detailKey' = key
                 ELSE CancelDetail /\ UNCHANGED tasks
  /\ UNCHANGED <<heap, image, evidence, browser, cache, runId, runContext, timeline, artifacts,
                 busy, catalog, modal>>

(* Without a row, or when the Artifacts tab comes up with none selected.   *)
SelectNoArtifact ==
  /\ User("Row")
  /\ row' = FALSE
  /\ CancelDetail
  /\ panel' = Other
  /\ UNCHANGED <<heap, image, evidence, browser, cache, runId, runContext, timeline, artifacts,
                 busy, catalog, tasks, modal>>

(* Fault: the answer's key is not compared with the request's. *)
ApplyDetailById(id, key) == detailId # 0 /\ id = detailId /\ RowKey # None

(* shouldApplyArtifactDetailResult. *)
ApplyDetail(id, key) ==
  detailId # 0 /\ id = detailId /\ key = detailKey /\ key = RowKey

Put(key, source, via) ==
  [k \in DOMAIN cache \union {key} |->
     IF k = key THEN [disk |-> source.disk, part |-> source.part, via |-> via] ELSE cache[k]]

(* The completion of ArtifactDetailWorker, whose key names the partition   *)
(* it reads; a failed load is cached as well, as "no details".             *)
DetailAnswered(i) ==
  LET t   == tasks[i]
      key == t.part.number
  IN  /\ t.kind = "ArtifactDetail"
      /\ IF ApplyDetail(t.id, key)
           THEN /\ cache' = Put(key, Source(t.adapter, t.part), "demand")
                /\ panel' = [state |-> "details", key |-> RowKey]
                /\ timeline' = Events(artifacts, cache')
                /\ CancelDetail
           ELSE UNCHANGED <<cache, panel, timeline, detailId, detailKey>>
      /\ tasks' = [tasks EXCEPT ![i] = NoTask]
      /\ heap' = Collected(heap, image, tasks')
      /\ UNCHANGED <<image, evidence, browser, runId, runContext, artifacts, row, busy, catalog, modal>>

(* analysisContextKey *)
Context == IF InRange(selected) THEN Numbers[selected + 1] ELSE None

(* onAnalyzeArtifacts; a running task's handle is overwritten. *)
AnalyzeArtifacts ==
  /\ User("Analyze") /\ Ready /\ artifacts # None
  /\ runId < MaxRuns
  /\ CancelDetail
  /\ runId' = runId + 1 /\ runContext' = Context
  /\ Launch([kind |-> "ArtifactAnalysis", adapter |-> image, part |-> PartAt(selected),
             rows |-> artifacts, id |-> runId + 1])
  /\ SetBusy(Slot)
  /\ UNCHANGED <<heap, image, evidence, browser, cache, timeline, triage, catalog, modal>>

(* shouldApplyAnalysisResult. *)
ApplyAnalysis(id, context) ==
  runId # 0 /\ id = runId /\ context = runContext /\ context = Context

(* Fault: the timeline is not rebuilt. *)
KeepTimeline == UNCHANGED timeline

RebuildTimeline == timeline' = Events(artifacts, cache')

FinishAnalysis == RebuildTimeline /\ runId' = 0 /\ runContext' = None

(* The completion of ArtifactAnalysisWorker: the rows' keys name the       *)
(* partition they were scanned on, the details are read from the worker's. *)
AnalysisAnswered(i) ==
  LET t == tasks[i]
  IN  /\ t.kind = "ArtifactAnalysis"
      /\ IF ApplyAnalysis(t.id, t.part.number)
           THEN \/ /\ IsOpen(t.adapter)
                   /\ cache' = Put(t.rows.part.number, Source(t.adapter, t.part), "analysis")
                   /\ FinishAnalysis
                   /\ UNCHANGED modal
                \/ /\ Ask([tag |-> "analysisFailed"])
                   /\ UNCHANGED <<cache, timeline, runId, runContext>>
           ELSE UNCHANGED <<cache, timeline, runId, runContext, modal>>
      /\ tasks' = [tasks EXCEPT ![i] = NoTask]
      /\ heap' = Collected(heap, image, tasks')
      /\ SetIdle
      /\ UNCHANGED <<image, evidence, browser, detailId, detailKey, triage, catalog>>

AnalysisFailedRead ==
  /\ Dismiss("analysisFailed")
  /\ UNCHANGED cache
  /\ FinishAnalysis
  /\ UNCHANGED <<heap, image, evidence, browser, detailId, detailKey, triage, busy, catalog, tasks>>
-----------------------------------------------------------------------------
(* Extraction. *)

(* onExtractSelected checks the index before the directory dialog. *)
ExtractFiles ==
  /\ User("Extract") /\ image # 0 /\ InRange(selected)
  /\ Ask([tag |-> "destination"])
  /\ UNCHANGED <<heap, image, evidence, browser, session, triage, busy, catalog, tasks>>

(* onArtifactExtractSelected builds the whole task before the dialog. *)
ExtractArtifact ==
  /\ User("Extract") /\ Ready /\ row
  /\ Ask([tag |-> "artifactDestination", info |-> imageInfo, part |-> PartAt(selected),
          entries |-> Source(image, PartAt(selected))])
  /\ UNCHANGED <<heap, image, evidence, browser, session, triage, busy, catalog, tasks>>

(* m_partitions[index] behind the dialog; an index that has gone stale     *)
(* reads past the vector, and anything may come of it.                     *)
Wild        == [image |-> None, number |-> -1]
UncheckedPart == IF InRange(selected) THEN PartAt(selected) ELSE Wild

StartExtraction(info, part, entries) ==
  /\ Launch([kind |-> "Extraction", adapter |-> image, info |-> info, part |-> part,
             entries |-> entries])
  /\ SetBusy(Slot)
  /\ UNCHANGED <<heap, image, evidence, browser, session, triage, catalog>>

ChooseDestination ==
  \/ Dismiss("destination") /\ files # None /\ StartExtraction(imageInfo, UncheckedPart, files)
  \/ Dismiss("artifactDestination")
     /\ StartExtraction(Head(modal).info, Head(modal).part, Head(modal).entries)

ChooseNoDestination ==
  /\ Dismiss("destination") \/ Dismiss("artifactDestination")
  /\ UNCHANGED <<heap, image, evidence, browser, session, triage, busy, catalog, tasks>>

(* A catalog record names the image and partition the task was given. *)
Extracted(i) ==
  LET t == tasks[i]
  IN  /\ t.kind = "Extraction"
      /\ \/ /\ IsOpen(t.adapter)
            /\ catalog' = catalog \union
                 {[info |-> t.info, part |-> t.part, entries |-> t.entries, disk |-> heap[t.adapter].path]}
         \/ UNCHANGED catalog
      /\ tasks' = [tasks EXCEPT ![i] = NoTask]
      /\ heap' = Collected(heap, image, tasks')
      /\ SetIdle
      /\ UNCHANGED <<image, evidence, browser, session, triage, modal>>
-----------------------------------------------------------------------------
UserStep ==
  \/ OpenImage \/ CloseImage
  \/ \E node \in DOMAIN tree : SelectNode(node)
  \/ SelectNoNode \/ JumpToArtifact \/ JumpToParent \/ SelectFile
  \/ ScanArtifacts \/ SelectArtifact \/ SelectNoArtifact \/ AnalyzeArtifacts
  \/ ExtractFiles \/ ExtractArtifact

Choose ==
  \/ ChooseNoImage
  \/ \E path \in Images : ChooseImage(path)
  \/ ChooseDestination \/ ChooseNoDestination

BoxRead ==
  \/ NoticeRead \/ PartitionScanFailedRead \/ DirectoryListFailedRead
  \/ NotWindowsRead \/ ArtifactScanFailedRead \/ AnalysisFailedRead

(* What the worker in slot i does next: work, or be answered for. *)
Task(i) ==
  \/ WorkImageOpen(i) \/ ImageOpened(i) \/ ImageOpenFailed(i)
  \/ WorkPartitionScan(i) \/ PartitionsListed(i) \/ PartitionScanFailed(i)
  \/ DirectoryListed(i) \/ DirectoryListFailed(i)
  \/ ArtifactsScanned(i) \/ ArtifactScanFailed(i)
  \/ DetailAnswered(i) \/ AnalysisAnswered(i) \/ Extracted(i)

Next == UserStep \/ Choose \/ BoxRead \/ \E i \in Slots : Task(i)

(* Workers finish and the event loop delivers what they answer, dialogs    *)
(* included (nested loops); the user reads message boxes.                  *)
Fairness == WF_vars(BoxRead) /\ \A i \in Slots : WF_vars(Task(i))

Spec == Init /\ [][Next]_vars /\ Fairness
-----------------------------------------------------------------------------
Parts   == [image : Images, number : {Numbers[i] : i \in 1 .. Len(Numbers)}]
Keys    == {part.number : part \in Parts}
Nodes   == (Keys \X ({"/"} \union Folders)) \union {ImageNode}
Sources == [disk : Images, part : Parts]

Waiting(kinds) == [kind : kinds, adapter : Adapters \union {0}, done : {"running", "ok", "failed"}]

TaskRecords ==
  {NoTask}
    \union Waiting({"ImageOpen", "PartitionScan"})
    \union [kind : {"DirectoryList"}, adapter : Adapters, part : Parts,
            node : Nodes \union {None}, shown : Keys \union {None}]
    \union [kind : {"ArtifactScan"}, adapter : Adapters, part : Parts]
    \union [kind : {"ArtifactDetail"}, adapter : Adapters, part : Parts, id : {1}]
    \union [kind : {"ArtifactAnalysis"}, adapter : Adapters, part : Parts, rows : Sources,
            id : 1 .. MaxRuns]
    \union [kind : {"Extraction"}, adapter : Adapters, info : Images \union {None},
            part : Parts \union {Wild}, entries : Sources]

(* Every variable stays in its type.  A request or run id and its key live *)
(* and die together: no completion finds an id without the key it must be  *)
(* compared with.                                                          *)
TypeOK ==
  /\ heap \in [Adapters -> [path : Images \union {None}, reader : BOOLEAN, open : BOOLEAN]]
  /\ image \in Adapters \union {0}
  /\ imageInfo \in Images \union {None} /\ partitions \in Images \union {None}
  /\ selected \in -1 .. Len(Numbers)
  /\ DOMAIN tree \subseteq Nodes
  /\ \A n \in DOMAIN tree : tree[n].loaded \in BOOLEAN /\ tree[n].index \in Int
  /\ treeSel \in DOMAIN tree \union {None}
  /\ files \in Sources \union {None} /\ artifacts \in Sources \union {None}
  /\ row \in BOOLEAN /\ (row => artifacts # None)
  /\ DOMAIN cache \subseteq Keys
  /\ \A k \in DOMAIN cache : cache[k].disk \in Images /\ cache[k].part \in Parts
                               /\ cache[k].via \in {"demand", "analysis"}
  /\ detailId \in 0 .. 1 /\ detailKey \in Keys \union {None}
  /\ runId \in 0 .. MaxRuns /\ runContext \in Keys \union {None}
  /\ timeline = None \/ timeline.disk \in Images
  /\ panel.state \in {"other", "loading", "details"} /\ panel.key \in Keys \union {None}
  /\ pending \in BOOLEAN /\ stop \in BOOLEAN
  /\ handle \in Slots \union {0}
  /\ tasks \in [Slots -> TaskRecords]
  /\ detailId = 0 <=> detailKey = None
  /\ runId = 0 <=> runContext = None

(* The Stop button never cancels into the void: while it is enabled there  *)
(* is a handle, and a handle always belongs to a worker that has not been  *)
(* answered for (setBusy, and each handler that stores m_cancelCurrentTask *)
(* against completions in any order).                                      *)
StopButtonLive ==
  /\ stop => handle # 0
  /\ handle # 0 => tasks[handle] # NoTask

(* Details come on the panel for the selected row only, and they are the   *)
(* ones cached for it; loaded on demand, they were read from the partition *)
(* the row's key names (shouldApplyArtifactDetailResult).                  *)
DetailsShownAreTheRows ==
  [][panel' # panel /\ panel'.state = "details" =>
       /\ row' /\ panel'.key = artifacts'.part.number
       /\ panel'.key \in DOMAIN cache'
       /\ cache'[panel'.key].via = "demand" => cache'[panel'.key].part.number = panel'.key]_vars

(* Details from a full analysis are in the cache only while the partition  *)
(* they were read from is the selected one (or none is): switching clears  *)
(* the cache, and an analysis overtaken by a switch is not applied.        *)
AnalysisStaysWithItsPartition ==
  \A k \in DOMAIN cache :
    cache[k].via = "analysis" => Context \in {None, cache[k].part.number}

(* While an image is open, whatever changes the artifact rows or the cache *)
(* leaves a timeline built from the new ones.                              *)
TimelineFollows ==
  [][image' # 0 /\ (artifacts' # artifacts \/ cache' # cache) =>
       timeline' = Events(artifacts', cache')]_vars

(* The window does not stay busy: an enabled Stop button is disabled       *)
(* again, whichever workers overtake each other.                           *)
BusyEnds == stop ~> ~stop

(* What the documentation promises, and the code does not keep.            *)

(* README.md: the filesystem is opened at the selected partition's offset: *)
(* a node's listing is read from the partition the node is shown under.    *)
ListsShownPartition ==
  \A i \in Slots :
    tasks[i].kind = "DirectoryList" /\ tasks[i].node # None =>
      tasks[i].part.number = tasks[i].shown

(* ARCHITECTURE.md: the detail cache is invalidated when the image         *)
(* changes, and stale results are suppressed: no detail of another image   *)
(* is cached while an open image is shown.                                 *)
CacheIsOfCurrentImage ==
  IsOpen(image) => \A k \in DOMAIN cache : cache[k].disk = heap[image].path

(* README.md: a catalog record tells where a file came from: the image     *)
(* named, the disk read, the partition and the listed entry agree.         *)
CatalogIsTruthful ==
  \A r \in catalog :
    r.info = r.disk /\ r.part.image = r.disk /\ r.entries = [disk |-> r.disk, part |-> r.part]

(* What is kept belongs to the source it is kept under, while images,        *)
(* partitions and rows change between a request and its answer: details to   *)
(* the image that is open, catalog records to the image they name            *)
(* (ARCHITECTURE.md:158-159; README.md:35-36).                               *)
KeptUnderItsSource == CacheIsOfCurrentImage /\ CatalogIsTruthful
=============================================================================
