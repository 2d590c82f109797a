--------------------------- MODULE MainWindowProofs ---------------------------
(***************************************************************************)
(* The window's session, for every number of images, partitions, folders,  *)
(* adapters, tasks and runs.                                               *)
(*                                                                         *)
(* The properties of MainWindow are not inductive: that a completion reads *)
(* from a disk needs that the adapter it captured is alive, that a closed  *)
(* window is never extracted from needs what the suspended handlers hold,  *)
(* and that the Stop handle is a task's needs that it is never the one of  *)
(* a detail load, which completes without touching it.  Inv has these.     *)
(***************************************************************************)
EXTENDS MainWindow, DataLemmas, TLAPS

(* The nodes of partitions and their directories, without the image's own. *)
PartNodes == Keys \X ({"/"} \union Folders)

(* A worker in flight holds an adapter, but for a partition scan started   *)
(* after the image was closed, which cannot succeed; and no listing is     *)
(* asked for the image's own node.                                         *)
SoundTask(t) ==
  /\ t \in TaskRecords
  /\ t.kind = "ImageOpen" => t.adapter # 0
  /\ t.kind = "PartitionScan" /\ t.done = "ok" => t.adapter # 0
  /\ t.kind = "DirectoryList" => t.node \in PartNodes \union {None}

TasksSound == tasks \in [Slots -> TaskRecords] /\ \A i \in Slots : SoundTask(tasks[i])

HeapTyped == heap \in [Adapters -> [path : Images \union {None}, reader : BOOLEAN, open : BOOLEAN]]

(* An adapter lives as long as the window or a worker holds it.            *)
Alive ==
  \A a \in Adapters :
    a = image \/ (\E i \in Slots : tasks[i].adapter = a) => heap[a].path \in Images

EvidenceTyped ==
  /\ image \in Adapters \union {0}
  /\ imageInfo \in Images \union {None} /\ partitions \in Images \union {None}
  /\ selected \in -1 .. Len(Numbers)

(* The image's own node never gets a partition's index.                    *)
BrowserTyped ==
  /\ DOMAIN tree \subseteq Nodes
  /\ \A n \in DOMAIN tree : tree[n] \in [index : Int, loaded : BOOLEAN]
  /\ ImageNode \in DOMAIN tree => tree[ImageNode].index = -1
  /\ treeSel \in DOMAIN tree \union {None}
  /\ files \in Sources \union {None} /\ pending \in BOOLEAN

TriageTyped ==
  /\ artifacts \in Sources \union {None}
  /\ row \in BOOLEAN /\ (row => artifacts # None)
  /\ panel.state \in {"other", "loading", "details"} /\ panel.key \in Keys \union {None}

Details == [disk : Images, part : Parts, via : {"demand", "analysis"}]

SessionTyped ==
  /\ DOMAIN cache \subseteq Keys
  /\ \A k \in DOMAIN cache : cache[k] \in Details
  /\ detailId \in 0 .. 1 /\ detailKey \in Keys \union {None}
  /\ runId \in 0 .. MaxRuns /\ runContext \in Keys \union {None}
  /\ detailId = 0 <=> detailKey = None
  /\ runId = 0 <=> runContext = None
  /\ timeline \in Details \union {None}

(* Details loaded on demand are under the key of the partition they were   *)
(* read from, those of an analysis are the selected partition's, shown or  *)
(* not: the index outlives the partitions it was chosen among.             *)
CacheOwned ==
  \A k \in DOMAIN cache :
    /\ cache[k].via = "demand" => cache[k].part.number = k
    /\ cache[k].via = "analysis" /\ selected \in 0 .. Len(Numbers) - 1 =>
         Numbers[selected + 1] = cache[k].part.number

(* A handle is the slot of a task whose completion takes it back.          *)
HandleLive ==
  /\ handle \in Slots \union {0} /\ stop \in BOOLEAN
  /\ stop => handle # 0
  /\ handle # 0 => tasks[handle].kind \notin {"none", "ArtifactDetail"}

Dialogs ==
  [tag : {"chooseImage", "notice", "scanFailed", "notWindows", "artifactScanFailed",
          "analysisFailed", "destination"}]
    \union [tag : {"listFailed"}, node : PartNodes \union {None}, shown : Keys \union {None}]
    \union [tag : {"artifactDestination"}, info : Images \union {None}, part : Parts,
            entries : Sources]

(* While a handler waits for an extraction's destination, the image it     *)
(* checked for stays: Close Image is out of reach.                         *)
HandlersSound ==
  /\ modal \in Seq(Dialogs)
  /\ \A j \in 1 .. Len(modal) : modal[j].tag \in {"destination", "artifactDestination"} => image # 0

Inv ==
  /\ TasksSound /\ HeapTyped /\ Alive /\ EvidenceTyped /\ BrowserTyped /\ TriageTyped
  /\ SessionTyped /\ CacheOwned /\ HandleLive /\ HandlersSound
-----------------------------------------------------------------------------
(* The constants. *)

LEMMA NumberFacts ==
  /\ Len(Numbers) \in Nat \ {0}
  /\ \A i \in 1 .. Len(Numbers) : Numbers[i] \in Nat
  /\ MaxRuns \in Nat /\ MaxTasks \in Nat /\ MaxAdapters \in Nat
BY MainWindowAssumption

(* A partition of an image is a part, and its number a key.                *)
LEMMA PartOfImage ==
  ASSUME NEW path \in Images, NEW i \in 1 .. Len(Numbers)
  PROVE  /\ [image |-> path, number |-> Numbers[i]] \in Parts
         /\ Numbers[i] \in Keys
<1>1. [image |-> path, number |-> Numbers[i]] \in Parts
  BY DEF Parts
<1>2. [image |-> path, number |-> Numbers[i]].number \in Keys
  BY <1>1 DEF Keys
<1> QED
  BY <1>1, <1>2

LEMMA KeyOfPart ==
  ASSUME NEW part \in Parts
  PROVE  part.number \in Keys /\ part.number \in Nat /\ part.image \in Images
<1>1. part.number \in {Numbers[i] : i \in 1 .. Len(Numbers)} /\ part.image \in Images
  BY DEF Parts
<1> QED
  BY <1>1, NumberFacts DEF Keys

LEMMA KeysAreNumbers == Keys \subseteq Nat /\ None \notin Keys
<1>1. \A key \in Keys : key \in Nat
  BY KeyOfPart DEF Keys
<1> QED
  BY <1>1, MainWindowAssumption

(* The image's own node is no partition's.                                 *)
LEMMA NodeFacts ==
  /\ ImageNode \notin PartNodes
  /\ \A n \in Nodes : n # ImageNode => n \in PartNodes
  /\ PartNodes \subseteq Nodes /\ ImageNode \in Nodes
  /\ \A n \in PartNodes : n[1] \in Keys /\ n[2] \in {"/"} \union Folders
<1>1. -1 \notin Keys
  BY KeysAreNumbers
<1> QED
  BY <1>1 DEF Nodes, PartNodes, ImageNode
-----------------------------------------------------------------------------
(* The records of workers. *)

LEMMA NoTaskSound == SoundTask(NoTask)
BY DEF SoundTask, NoTask, TaskRecords

LEMMA WaitingSound ==
  ASSUME NEW kind \in {"ImageOpen", "PartitionScan"}, NEW a \in Adapters \union {0},
         NEW done \in {"running", "ok", "failed"},
         kind = "ImageOpen" \/ done = "ok" => a # 0
  PROVE  SoundTask([kind |-> kind, adapter |-> a, done |-> done])
<1> DEFINE t == [kind |-> kind, adapter |-> a, done |-> done]
<1>1. t \in Waiting({"ImageOpen", "PartitionScan"})
  BY DEF Waiting
<1>2. t \in TaskRecords
  BY <1>1 DEF TaskRecords
<1> QED
  BY <1>2 DEF SoundTask

LEMMA ListingSound ==
  ASSUME NEW a \in Adapters, NEW part \in Parts, NEW node \in PartNodes \union {None},
         NEW shown \in Keys \union {None}
  PROVE  SoundTask([kind |-> "DirectoryList", adapter |-> a, part |-> part, node |-> node,
                    shown |-> shown])
<1> DEFINE t == [kind |-> "DirectoryList", adapter |-> a, part |-> part, node |-> node,
                 shown |-> shown]
<1>1. t \in [kind : {"DirectoryList"}, adapter : Adapters, part : Parts,
             node : Nodes \union {None}, shown : Keys \union {None}]
  BY NodeFacts
<1>2. t \in TaskRecords
  BY <1>1 DEF TaskRecords
<1> QED
  BY <1>2 DEF SoundTask

LEMMA ScanSound ==
  ASSUME NEW a \in Adapters, NEW part \in Parts
  PROVE  SoundTask([kind |-> "ArtifactScan", adapter |-> a, part |-> part])
<1> DEFINE t == [kind |-> "ArtifactScan", adapter |-> a, part |-> part]
<1>1. t \in TaskRecords
  BY DEF TaskRecords
<1> QED
  BY <1>1 DEF SoundTask

LEMMA DetailSound ==
  ASSUME NEW a \in Adapters, NEW part \in Parts
  PROVE  SoundTask([kind |-> "ArtifactDetail", adapter |-> a, part |-> part, id |-> 1])
<1> DEFINE t == [kind |-> "ArtifactDetail", adapter |-> a, part |-> part, id |-> 1]
<1>1. t \in TaskRecords
  BY DEF TaskRecords
<1> QED
  BY <1>1 DEF SoundTask

LEMMA AnalysisSound ==
  ASSUME NEW a \in Adapters, NEW part \in Parts, NEW rows \in Sources, NEW id \in 1 .. MaxRuns
  PROVE  SoundTask([kind |-> "ArtifactAnalysis", adapter |-> a, part |-> part, rows |-> rows,
                    id |-> id])
<1> DEFINE t == [kind |-> "ArtifactAnalysis", adapter |-> a, part |-> part, rows |-> rows,
                 id |-> id]
<1>1. t \in TaskRecords
  BY DEF TaskRecords
<1> QED
  BY <1>1 DEF SoundTask

LEMMA ExtractionSound ==
  ASSUME NEW a \in Adapters, NEW info \in Images \union {None}, NEW part \in Parts \union {Wild},
         NEW entries \in Sources
  PROVE  SoundTask([kind |-> "Extraction", adapter |-> a, info |-> info, part |-> part,
                    entries |-> entries])
<1> DEFINE t == [kind |-> "Extraction", adapter |-> a, info |-> info, part |-> part,
                 entries |-> entries]
<1>1. t \in TaskRecords
  BY DEF TaskRecords
<1> QED
  BY <1>1 DEF SoundTask

(* What a completion finds in its task.                                    *)
LEMMA TaskFacts ==
  ASSUME NEW t, SoundTask(t)
  PROVE  /\ t.adapter \in Adapters \union {0}
         /\ t.kind = "ImageOpen" => t.adapter \in Adapters
         /\ t.kind = "PartitionScan" /\ t.done = "ok" => t.adapter \in Adapters
         /\ t.kind \in {"DirectoryList", "ArtifactScan", "ArtifactDetail", "ArtifactAnalysis"} =>
              t.adapter \in Adapters /\ t.part \in Parts
         /\ t.kind = "DirectoryList" =>
              t.node \in PartNodes \union {None} /\ t.shown \in Keys \union {None}
         /\ t.kind = "ArtifactAnalysis" => t.rows \in Sources
         /\ t.kind = "Extraction" => t.adapter \in Adapters
<1>1. t \in TaskRecords
  BY DEF SoundTask
<1>2. CASE t = NoTask
  BY <1>2 DEF NoTask
<1>3. CASE t \in Waiting({"ImageOpen", "PartitionScan"})
  <2>1. t.kind \in {"ImageOpen", "PartitionScan"} /\ t.adapter \in Adapters \union {0}
    BY <1>3 DEF Waiting
  <2> QED
    BY <2>1 DEF SoundTask
<1>4. CASE t \in [kind : {"DirectoryList"}, adapter : Adapters, part : Parts,
                  node : Nodes \union {None}, shown : Keys \union {None}]
  BY <1>4 DEF SoundTask
<1>5. CASE t \in [kind : {"ArtifactScan"}, adapter : Adapters, part : Parts]
  BY <1>5
<1>6. CASE t \in [kind : {"ArtifactDetail"}, adapter : Adapters, part : Parts, id : {1}]
  BY <1>6
<1>7. CASE t \in [kind : {"ArtifactAnalysis"}, adapter : Adapters, part : Parts, rows : Sources,
                  id : 1 .. MaxRuns]
  BY <1>7
<1>8. CASE t \in [kind : {"Extraction"}, adapter : Adapters, info : Images \union {None},
                  part : Parts \union {Wild}, entries : Sources]
  BY <1>8
<1> QED
  BY <1>1, <1>2, <1>3, <1>4, <1>5, <1>6, <1>7, <1>8 DEF TaskRecords

(* A finished step of a worker, and a listing whose node is forgotten.     *)
LEMMA WorkedSound ==
  ASSUME NEW t, SoundTask(t), t.kind \in {"ImageOpen", "PartitionScan"},
         NEW done \in {"ok", "failed"}, done = "ok" => t.adapter # 0
  PROVE  SoundTask([t EXCEPT !.done = done]) /\ [t EXCEPT !.done = done].adapter = t.adapter
<1>1. t \in Waiting({"ImageOpen", "PartitionScan"})
  BY DEF SoundTask, TaskRecords, NoTask
<1>2. t = [kind |-> t.kind, adapter |-> t.adapter, done |-> t.done]
      /\ t.adapter \in Adapters \union {0}
  BY <1>1 DEF Waiting
<1>3. [t EXCEPT !.done = done] = [kind |-> t.kind, adapter |-> t.adapter, done |-> done]
  BY <1>2
<1>4. t.kind = "ImageOpen" => t.adapter # 0
  BY DEF SoundTask
<1>5. SoundTask([kind |-> t.kind, adapter |-> t.adapter, done |-> done])
  BY <1>2, <1>4, WaitingSound
<1> QED
  BY <1>3, <1>5

LEMMA ForgottenSound ==
  ASSUME NEW t, SoundTask(t), t.kind = "DirectoryList"
  PROVE  /\ SoundTask([t EXCEPT !.node = None])
         /\ [t EXCEPT !.node = None].adapter = t.adapter
         /\ [t EXCEPT !.node = None].kind = t.kind
<1>1. t \in [kind : {"DirectoryList"}, adapter : Adapters, part : Parts,
             node : Nodes \union {None}, shown : Keys \union {None}]
  BY DEF SoundTask, TaskRecords, NoTask, Waiting
<1>2. [t EXCEPT !.node = None] =
        [kind |-> "DirectoryList", adapter |-> t.adapter, part |-> t.part, node |-> None,
         shown |-> t.shown]
  BY <1>1
<1>3. SoundTask([kind |-> "DirectoryList", adapter |-> t.adapter, part |-> t.part,
                 node |-> None, shown |-> t.shown])
  BY <1>1, ListingSound
<1> QED
  BY <1>1, <1>2, <1>3
-----------------------------------------------------------------------------
(* Slots and adapters. *)

LEMMA SlotIsFree ==
  ASSUME FreeSlots # {}
  PROVE  Slot \in Slots /\ tasks[Slot] = NoTask
<1>1. FreeSlots \in SUBSET Nat
  BY NumberFacts DEF FreeSlots, Slots
<1>2. \E i \in FreeSlots : \A j \in FreeSlots : i <= j
  BY <1>1, LeastNatural
<1>3. Slot \in FreeSlots
  BY <1>2 DEF Slot
<1> QED
  BY <1>3 DEF FreeSlots

LEMMA SlotsFilled ==
  ASSUME NEW ts, ts = [i \in Slots |-> ts[i]], \A i \in Slots : SoundTask(ts[i])
  PROVE  ts \in [Slots -> TaskRecords]
BY DEF SoundTask

(* A worker started, in a slot that was free.                              *)
LEMMA Launched ==
  ASSUME TasksSound, NEW task, SoundTask(task), Launch(task)
  PROVE  /\ TasksSound'
         /\ Slot \in Slots /\ tasks[Slot] = NoTask
         /\ tasks'[Slot] = task
         /\ \A j \in Slots : j # Slot => tasks'[j] = tasks[j]
<1>1. FreeSlots # {} /\ tasks' = [tasks EXCEPT ![Slot] = task]
  BY DEF Launch
<1>2. Slot \in Slots /\ tasks[Slot] = NoTask
  BY <1>1, SlotIsFree
<1>3. DOMAIN tasks' = Slots /\ tasks'[Slot] = task
      /\ \A j \in Slots : j # Slot => tasks'[j] = tasks[j]
  BY <1>1, <1>2 DEF TasksSound
<1>4. \A j \in Slots : SoundTask(tasks'[j])
  BY <1>3 DEF TasksSound
<1>5. tasks' = [i \in Slots |-> tasks'[i]]
  BY <1>1 DEF TasksSound
<1>6. tasks' \in [Slots -> TaskRecords]
  BY <1>4, <1>5, SlotsFilled
<1> QED
  BY <1>2, <1>3, <1>4, <1>6 DEF TasksSound

(* A slot's record replaced.                                               *)
LEMMA Replaced ==
  ASSUME TasksSound, NEW i \in Slots, NEW task, SoundTask(task),
         tasks' = [tasks EXCEPT ![i] = task]
  PROVE  /\ TasksSound'
         /\ tasks'[i] = task
         /\ \A j \in Slots : j # i => tasks'[j] = tasks[j]
<1>1. DOMAIN tasks' = Slots /\ tasks'[i] = task
      /\ \A j \in Slots : j # i => tasks'[j] = tasks[j]
  BY DEF TasksSound
<1>2. \A j \in Slots : SoundTask(tasks'[j])
  BY <1>1 DEF TasksSound
<1>3. tasks' = [j \in Slots |-> tasks'[j]]
  BY DEF TasksSound
<1>4. tasks' \in [Slots -> TaskRecords]
  BY <1>2, <1>3, SlotsFilled
<1> QED
  BY <1>1, <1>2, <1>4 DEF TasksSound

LEMMA Forgotten ==
  ASSUME NEW ts, DOMAIN ts = Slots, \A i \in Slots : SoundTask(ts[i])
  PROVE  /\ DOMAIN Forget(ts) = Slots
         /\ \A i \in Slots : /\ SoundTask(Forget(ts)[i])
                             /\ Forget(ts)[i].adapter = ts[i].adapter
                             /\ Forget(ts)[i].kind = ts[i].kind
<1>1. ASSUME NEW i \in Slots, ts[i].kind = "DirectoryList"
      PROVE  Forget(ts)[i] = [ts[i] EXCEPT !.node = None]
  BY <1>1 DEF Forget
<1>2. ASSUME NEW i \in Slots, ts[i].kind # "DirectoryList"
      PROVE  Forget(ts)[i] = ts[i]
  BY <1>2 DEF Forget
<1>3. DOMAIN Forget(ts) = Slots
  BY DEF Forget
<1>4. ASSUME NEW i \in Slots
      PROVE  /\ SoundTask(Forget(ts)[i]) /\ Forget(ts)[i].adapter = ts[i].adapter
             /\ Forget(ts)[i].kind = ts[i].kind
  <2>1. CASE ts[i].kind = "DirectoryList"
    <3>1. Forget(ts)[i] = [ts[i] EXCEPT !.node = None]
      BY <1>1, <2>1
    <3> QED
      BY <2>1, <3>1, ForgottenSound
  <2>2. CASE ts[i].kind # "DirectoryList"
    BY <1>2, <2>2
  <2> QED
    BY <2>1, <2>2
<1> QED
  BY <1>3, <1>4

(* No adapter that is used is taken away: whatever a step does to the      *)
(* tasks, as long as it gives them no adapter but the window's.            *)
HeldBefore(ts, current) ==
  \A j \in Slots : ts[j].adapter \in {tasks[j].adapter, 0, current}

LEMMA StillAlive ==
  ASSUME HeapTyped, Alive, EvidenceTyped, image' \in {image, 0}, HeldBefore(tasks', image),
         heap' = heap \/ heap' = Collected(heap, image', tasks')
  PROVE  HeapTyped' /\ Alive'
<1> DEFINE UsedNow(a) == a = image' \/ \E i \in Slots : tasks'[i].adapter = a
<1>1. \A a \in Adapters : a # 0
  BY NumberFacts DEF Adapters
<1>2. ASSUME NEW a \in Adapters, UsedNow(a) PROVE heap[a].path \in Images
  <2>1. a = image \/ \E i \in Slots : tasks[i].adapter = a
    BY <1>1, <1>2 DEF HeldBefore
  <2> QED
    BY <2>1 DEF Alive
<1>3. CASE heap' = heap
  BY <1>2, <1>3 DEF HeapTyped, Alive
<1>4. CASE heap' = Collected(heap, image', tasks')
  <2>1. DOMAIN heap' = Adapters /\ heap' = [a \in Adapters |-> heap'[a]]
    BY <1>4 DEF Collected
  <2>2. ASSUME NEW a \in Adapters PROVE heap'[a] = IF UsedNow(a) THEN heap[a] ELSE Unused
    BY <1>4 DEF Collected
  <2>3. Unused \in [path : Images \union {None}, reader : BOOLEAN, open : BOOLEAN]
    BY DEF Unused
  <2>4. \A a \in Adapters : heap'[a] \in [path : Images \union {None}, reader : BOOLEAN, open : BOOLEAN]
    BY <2>2, <2>3 DEF HeapTyped
  <2>5. HeapTyped'
    BY <2>1, <2>4 DEF HeapTyped
  <2>6. \A a \in Adapters : UsedNow(a) => heap'[a].path \in Images
    BY <1>2, <2>2
  <2> QED
    BY <2>5, <2>6 DEF Alive
<1> QED
  BY <1>3, <1>4

(* A worker started on the window's adapter.                               *)
LEMMA LaunchedHere ==
  ASSUME HeapTyped, Alive, EvidenceTyped, TasksSound, NEW task, SoundTask(task),
         task.adapter = image, Launch(task), UNCHANGED <<heap, image>>
  PROVE  HeapTyped' /\ Alive'
<1>1. /\ Slot \in Slots /\ tasks'[Slot] = task
      /\ \A j \in Slots : j # Slot => tasks'[j] = tasks[j]
  BY Launched
<1>2. HeldBefore(tasks', image)
  BY <1>1 DEF HeldBefore
<1> QED
  BY <1>2, StillAlive

(* A worker answered for.                                                  *)
LEMMA Answered ==
  ASSUME HeapTyped, Alive, EvidenceTyped, TasksSound, NEW i \in Slots,
         tasks' = [tasks EXCEPT ![i] = NoTask], image' = image,
         heap' = Collected(heap, image, tasks')
  PROVE  HeapTyped' /\ Alive' /\ TasksSound'
<1>1. TasksSound' /\ tasks'[i] = NoTask /\ \A j \in Slots : j # i => tasks'[j] = tasks[j]
  BY Replaced, NoTaskSound
<1>2. HeldBefore(tasks', image)
  BY <1>1 DEF HeldBefore, NoTask
<1>3. heap' = Collected(heap, image', tasks')
  OBVIOUS
<1> QED
  BY <1>1, <1>2, <1>3, StillAlive

(* What a worker's adapter was opened for.                                 *)
LEMMA SourceOfTask ==
  ASSUME Alive, TasksSound, NEW i \in Slots, tasks[i].adapter \in Adapters
  PROVE  heap[tasks[i].adapter].path \in Images
BY DEF Alive
-----------------------------------------------------------------------------
(* Parts of handlers. *)

(* An index in range belongs to a listed partition.                        *)
LEMMA PartAtIndex ==
  ASSUME EvidenceTyped, NEW i \in Int, InRange(i)
  PROVE  /\ partitions \in Images /\ i \in 0 .. Len(Numbers) - 1
         /\ PartAt(i) \in Parts /\ Numbers[i + 1] \in Keys
         /\ PartAt(i).number = Numbers[i + 1]
<1>1. partitions \in Images /\ i \in 0 .. Len(Numbers) - 1
  BY NumberFacts DEF InRange, Count, EvidenceTyped
<1>2. i + 1 \in 1 .. Len(Numbers)
  BY <1>1, NumberFacts
<1> QED
  BY <1>1, <1>2, PartOfImage DEF PartAt

LEMMA ReadyFacts ==
  ASSUME EvidenceTyped, Alive, Ready
  PROVE  /\ image \in Adapters /\ heap[image].path \in Images
         /\ InRange(selected) /\ selected \in 0 .. Len(Numbers) - 1
         /\ PartAt(selected) \in Parts /\ Numbers[selected + 1] \in Keys
         /\ PartAt(selected).number = Numbers[selected + 1]
<1>1. image # 0 /\ InRange(selected) /\ selected \in Int
  BY DEF Ready, IsOpen, EvidenceTyped
<1>2. image \in Adapters
  BY <1>1 DEF EvidenceTyped
<1> QED
  BY <1>1, <1>2, PartAtIndex DEF Alive

(* A change of context leaves nothing of the session.                      *)
LEMMA SwitchClears ==
  ASSUME ContextSwitch
  PROVE  SessionTyped' /\ CacheOwned'
<1>1. DOMAIN NoDetail = {}
  BY DEF NoDetail
<1>2. cache' = NoDetail /\ detailId' = 0 /\ detailKey' = None /\ runId' = 0 /\ runContext' = None
      /\ timeline' = None
  BY DEF ContextSwitch, CancelDetail
<1> QED
  BY <1>1, <1>2, NumberFacts DEF SessionTyped, CacheOwned

LEMMA SessionKept ==
  ASSUME SessionTyped, CacheOwned, UNCHANGED session, selected' \in {selected, -1}
  PROVE  SessionTyped' /\ CacheOwned'
<1>1. UNCHANGED <<cache, detailId, detailKey, runId, runContext, timeline>>
  BY DEF session
<1>2. selected' \in 0 .. Len(Numbers) - 1 => selected' = selected
  BY NumberFacts
<1> QED
  BY <1>1, <1>2 DEF SessionTyped, CacheOwned

LEMMA TreeCleared ==
  ASSUME SessionTyped, CacheOwned, ClearTree, selected' \in {selected, -1}
  PROVE  SessionTyped' /\ CacheOwned' /\ treeSel' = None
BY SwitchClears, SessionKept DEF ClearTree

LEMMA DialogUp ==
  ASSUME HandlersSound, NEW d \in Dialogs, Ask(d), image' = image,
         d.tag \in {"destination", "artifactDestination"} => image # 0
  PROVE  HandlersSound'
<1>1. modal' = <<d>> \o modal /\ modal \in Seq(Dialogs)
  BY DEF Ask, HandlersSound
<1>2. modal' \in Seq(Dialogs) /\ Len(modal') = Len(modal) + 1
      /\ modal'[1] = d /\ \A j \in 2 .. Len(modal') : modal'[j] = modal[j - 1] /\ j - 1 \in 1 .. Len(modal)
  BY <1>1
<1>3. ASSUME NEW j \in 1 .. Len(modal'), modal'[j].tag \in {"destination", "artifactDestination"}
      PROVE  image' # 0
  <2>1. CASE j = 1
    BY <1>2, <1>3, <2>1
  <2>2. CASE j # 1
    <3>1. j \in 2 .. Len(modal')
      BY <1>2, <2>2
    <3> QED
      BY <1>2, <1>3, <3>1 DEF HandlersSound
  <2> QED
    BY <2>1, <2>2
<1> QED
  BY <1>2, <1>3 DEF HandlersSound

LEMMA DialogDown ==
  ASSUME HandlersSound, NEW tag, Dismiss(tag), image' # 0 \/ image' = image
  PROVE  HandlersSound' /\ Head(modal) \in Dialogs /\ Head(modal).tag = tag
         /\ (tag \in {"destination", "artifactDestination"} => image # 0)
<1>1. modal # <<>> /\ modal \in Seq(Dialogs) /\ modal' = Tail(modal) /\ Head(modal).tag = tag
  BY DEF Dismiss, Up, HandlersSound
<1>2. modal' \in Seq(Dialogs) /\ Len(modal') = Len(modal) - 1 /\ Head(modal) = modal[1]
      /\ 1 \in 1 .. Len(modal) /\ modal[1] \in Dialogs
      /\ \A j \in 1 .. Len(modal') : modal'[j] = modal[j + 1] /\ j + 1 \in 1 .. Len(modal)
  BY <1>1
<1> QED
  BY <1>1, <1>2 DEF HandlersSound

LEMMA HandlersKept ==
  ASSUME HandlersSound, UNCHANGED modal, image' # 0 \/ image' = image \/ modal = <<>>
  PROVE  HandlersSound'
BY DEF HandlersSound

(* The records of dialogs.                                                 *)
LEMMA PlainDialog ==
  ASSUME NEW tag \in {"chooseImage", "notice", "scanFailed", "notWindows", "artifactScanFailed",
                      "analysisFailed", "destination"}
  PROVE  [tag |-> tag] \in Dialogs /\ [tag |-> tag].tag = tag
BY DEF Dialogs

LEMMA ListFailedDialog ==
  /\ \A node \in PartNodes \union {None}, shown \in Keys \union {None} :
       [tag |-> "listFailed", node |-> node, shown |-> shown] \in Dialogs
  /\ \A d \in Dialogs : d.tag = "listFailed" =>
       d.node \in PartNodes \union {None} /\ d.shown \in Keys \union {None}
BY DEF Dialogs

LEMMA ArtifactDialog ==
  /\ \A info \in Images \union {None}, part \in Parts, entries \in Sources :
       [tag |-> "artifactDestination", info |-> info, part |-> part, entries |-> entries] \in Dialogs
  /\ \A d \in Dialogs : d.tag = "artifactDestination" =>
       d.info \in Images \union {None} /\ d.part \in Parts /\ d.entries \in Sources
BY DEF Dialogs
-----------------------------------------------------------------------------
(* What a step leaves alone. *)

LEMMA EvidenceKept ==
  ASSUME EvidenceTyped, UNCHANGED <<image, evidence>>
  PROVE  EvidenceTyped'
BY DEF EvidenceTyped, evidence

LEMMA BrowserKept ==
  ASSUME BrowserTyped, UNCHANGED browser
  PROVE  BrowserTyped'
BY DEF BrowserTyped, browser

LEMMA TriageKept ==
  ASSUME TriageTyped, UNCHANGED triage
  PROVE  TriageTyped'
BY DEF TriageTyped, triage

LEMMA SessionStays ==
  ASSUME SessionTyped, CacheOwned, UNCHANGED <<session, evidence>>
  PROVE  SessionTyped' /\ CacheOwned'
BY SessionKept DEF evidence

LEMMA HeapKept ==
  ASSUME HeapTyped, Alive, TasksSound, UNCHANGED <<heap, image, tasks>>
  PROVE  HeapTyped' /\ Alive' /\ TasksSound'
BY DEF HeapTyped, Alive, TasksSound

LEMMA HandleKept ==
  ASSUME HandleLive, UNCHANGED busy,
         \A j \in Slots : tasks[j].kind \notin {"none", "ArtifactDetail"} =>
                            tasks'[j].kind \notin {"none", "ArtifactDetail"}
  PROVE  HandleLive'
BY DEF HandleLive, busy

LEMMA HandleIdle ==
  ASSUME SetIdle
  PROVE  HandleLive'
BY DEF HandleLive, SetIdle

LEMMA HandleBusy ==
  ASSUME NEW i \in Slots, SetBusy(i), tasks'[i].kind \notin {"none", "ArtifactDetail"}
  PROVE  HandleLive'
<1>1. i # 0
  BY NumberFacts DEF Slots
<1> QED
  BY <1>1 DEF HandleLive, SetBusy

(* A dialog dismissed, and nothing else.                                   *)
LEMMA OnlyDismissed ==
  ASSUME Inv, NEW tag, Dismiss(tag),
         UNCHANGED <<heap, image, evidence, browser, session, triage, busy, catalog, tasks>>
  PROVE  Inv'
<1>1. HandlersSound'
  BY DialogDown DEF Inv
<1>2. EvidenceTyped' /\ BrowserTyped' /\ TriageTyped'
  BY EvidenceKept, BrowserKept, TriageKept DEF Inv
<1>3. SessionTyped' /\ CacheOwned' /\ HeapTyped' /\ Alive' /\ TasksSound'
  BY SessionStays, HeapKept DEF Inv
<1>4. HandleLive'
  BY HandleKept DEF Inv
<1> QED
  BY <1>1, <1>2, <1>3, <1>4 DEF Inv

(* A worker answered for by a message box.                                 *)
LEMMA AnsweredByBox ==
  ASSUME Inv, NEW i \in Slots, NEW d \in Dialogs, Ask(d),
         d.tag \notin {"destination", "artifactDestination"},
         tasks' = [tasks EXCEPT ![i] = NoTask], heap' = Collected(heap, image, tasks'),
         SetIdle, UNCHANGED <<image, evidence, browser, session, triage>>
  PROVE  Inv'
<1>1. HandlersSound'
  BY DialogUp DEF Inv
<1>2. EvidenceTyped' /\ BrowserTyped' /\ TriageTyped'
  BY EvidenceKept, BrowserKept, TriageKept DEF Inv
<1>3. SessionTyped' /\ CacheOwned'
  BY SessionStays DEF Inv
<1>4. HeapTyped' /\ Alive' /\ TasksSound'
  BY Answered DEF Inv
<1>5. HandleLive'
  BY HandleIdle
<1> QED
  BY <1>1, <1>2, <1>3, <1>4, <1>5 DEF Inv

(* An adapter opened or closed by the worker that holds it.                *)
LEMMA AdapterChanged ==
  ASSUME HeapTyped, Alive, EvidenceTyped, NEW a \in Adapters,
         NEW new \in [path : Images \union {None}, reader : BOOLEAN, open : BOOLEAN],
         new.path = heap[a].path, heap' = [heap EXCEPT ![a] = new],
         image' = image, HeldBefore(tasks', image)
  PROVE  HeapTyped' /\ Alive'
<1>1. HeapTyped' /\ \A b \in Adapters : heap'[b].path = heap[b].path
  BY DEF HeapTyped
<1>2. \A b \in Adapters : b # 0
  BY NumberFacts DEF Adapters
<1>3. \A b \in Adapters :
        b = image' \/ (\E i \in Slots : tasks'[i].adapter = b)
          => b = image \/ (\E i \in Slots : tasks[i].adapter = b)
  BY <1>2 DEF HeldBefore
<1> QED
  BY <1>1, <1>3 DEF Alive
-----------------------------------------------------------------------------
(* Images. *)

LEMMA OpenImageStep ==
  ASSUME Inv, OpenImage
  PROVE  Inv'
<1>1. /\ ContextSwitch /\ Ask([tag |-> "chooseImage"])
      /\ UNCHANGED <<heap, image, evidence, browser, triage, busy, catalog, tasks>>
  BY DEF OpenImage
<1>2. HandlersSound'
  <2>1. [tag |-> "chooseImage"] \in Dialogs /\ [tag |-> "chooseImage"].tag = "chooseImage"
    BY PlainDialog
  <2> QED
    BY <1>1, <2>1, DialogUp DEF Inv
<1>3. EvidenceTyped' /\ BrowserTyped' /\ TriageTyped'
  BY <1>1, EvidenceKept, BrowserKept, TriageKept DEF Inv
<1>4. SessionTyped' /\ CacheOwned'
  BY <1>1, SwitchClears
<1>5. HeapTyped' /\ Alive' /\ TasksSound'
  BY <1>1, HeapKept DEF Inv
<1>6. HandleLive'
  BY <1>1, HandleKept DEF Inv
<1> QED
  BY <1>2, <1>3, <1>4, <1>5, <1>6 DEF Inv

LEMMA ChooseImageStep ==
  ASSUME Inv, NEW path \in Images, ChooseImage(path)
  PROVE  Inv'
<1>1. PICK a \in Adapters :
        /\ heap[a] = Unused /\ image' = a
        /\ Launch([kind |-> "ImageOpen", adapter |-> a, done |-> "running"])
        /\ heap' = Collected([heap EXCEPT ![a] = [path |-> path, reader |-> FALSE, open |-> FALSE]],
                             a, tasks')
        /\ SetBusy(Slot)
  BY DEF ChooseImage
<1>2. Dismiss("chooseImage") /\ UNCHANGED <<evidence, browser, session, triage, catalog>>
  BY DEF ChooseImage
<1> DEFINE task == [kind |-> "ImageOpen", adapter |-> a, done |-> "running"]
           fresh == [path |-> path, reader |-> FALSE, open |-> FALSE]
           Rec == [path : Images \union {None}, reader : BOOLEAN, open : BOOLEAN]
           used(b) == b = a \/ \E i \in Slots : tasks'[i].adapter = b
<1>3. a # 0
  BY NumberFacts DEF Adapters
<1>4. SoundTask(task)
  BY <1>3, WaitingSound
<1>5. /\ TasksSound' /\ Slot \in Slots /\ tasks'[Slot] = task
      /\ \A j \in Slots : j # Slot => tasks'[j] = tasks[j]
  BY <1>1, <1>4, Launched DEF Inv
<1>6. fresh \in Rec /\ Unused \in Rec
  BY DEF Unused
<1>7. ASSUME NEW b \in Adapters
      PROVE  heap'[b] = IF used(b) THEN (IF b = a THEN fresh ELSE heap[b]) ELSE Unused
  BY <1>1 DEF Collected, Inv, HeapTyped
<1>8. HeapTyped'
  <2>1. heap' = [b \in Adapters |-> heap'[b]]
    BY <1>1 DEF Collected
  <2>2. \A b \in Adapters : heap'[b] \in Rec
    BY <1>6, <1>7 DEF Inv, HeapTyped
  <2> QED
    BY <2>1, <2>2 DEF HeapTyped
<1>9. Alive'
  <2>1. fresh.path = path
    OBVIOUS
  <2>2. ASSUME NEW b \in Adapters, used(b) PROVE heap'[b].path \in Images
    <3>1. CASE b = a
      BY <1>7, <2>1, <3>1
    <3>2. CASE b # a
      <4>1. PICK i \in Slots : tasks'[i].adapter = b
        BY <2>2, <3>2
      <4>2. i # Slot
        BY <1>5, <3>2, <4>1
      <4>3. heap[b].path \in Images
        BY <1>5, <4>1, <4>2 DEF Inv, Alive
      <4> QED
        BY <1>7, <2>2, <3>2, <4>3
    <3> QED
      BY <3>1, <3>2
  <2> QED
    BY <1>1, <2>2 DEF Alive
<1>10. EvidenceTyped'
  BY <1>1, <1>2 DEF Inv, EvidenceTyped, evidence
<1>11. BrowserTyped' /\ TriageTyped' /\ SessionTyped' /\ CacheOwned'
  BY <1>2, BrowserKept, TriageKept, SessionStays DEF Inv
<1>12. HandleLive'
  <2>1. tasks'[Slot].kind = "ImageOpen"
    BY <1>5
  <2> QED
    BY <1>1, <1>5, <2>1, HandleBusy
<1>13. HandlersSound'
  BY <1>1, <1>2, <1>3, DialogDown DEF Inv
<1> QED
  BY <1>5, <1>8, <1>9, <1>10, <1>11, <1>12, <1>13 DEF Inv

LEMMA WorkImageOpenStep ==
  ASSUME Inv, NEW i \in Slots, WorkImageOpen(i)
  PROVE  Inv'
<1>1. PICK ok \in BOOLEAN :
        /\ tasks' = [tasks EXCEPT ![i].done = IF ok THEN "ok" ELSE "failed"]
        /\ heap' = [heap EXCEPT ![tasks[i].adapter].reader = ok]
  BY DEF WorkImageOpen
<1>2. tasks[i].kind = "ImageOpen"
      /\ UNCHANGED <<image, evidence, browser, session, triage, busy, catalog, modal>>
  BY DEF WorkImageOpen
<1> DEFINE a == tasks[i].adapter
           done == IF ok THEN "ok" ELSE "failed"
<1>3. SoundTask(tasks[i])
  BY DEF Inv, TasksSound
<1>4. a \in Adapters /\ a # 0
  BY <1>2, <1>3, TaskFacts DEF SoundTask
<1>5. /\ SoundTask([tasks[i] EXCEPT !.done = done])
      /\ [tasks[i] EXCEPT !.done = done].adapter = a
  BY <1>2, <1>3, <1>4, WorkedSound
<1>6. [tasks[i] EXCEPT !.done = done].kind = tasks[i].kind
  OBVIOUS
<1>7. tasks' = [tasks EXCEPT ![i] = [tasks[i] EXCEPT !.done = done]]
  BY <1>1
<1>8. /\ TasksSound' /\ tasks'[i] = [tasks[i] EXCEPT !.done = done]
      /\ \A j \in Slots : j # i => tasks'[j] = tasks[j]
  BY <1>5, <1>7, Replaced DEF Inv
<1>9. HeldBefore(tasks', image)
  BY <1>5, <1>8 DEF HeldBefore
<1>10. HeapTyped' /\ Alive'
  <2>1. heap[a] \in [path : Images \union {None}, reader : BOOLEAN, open : BOOLEAN]
    BY <1>4 DEF Inv, HeapTyped
  <2>2. /\ [heap[a] EXCEPT !.reader = ok] \in [path : Images \union {None}, reader : BOOLEAN, open : BOOLEAN]
        /\ [heap[a] EXCEPT !.reader = ok].path = heap[a].path
    BY <2>1
  <2>3. heap' = [heap EXCEPT ![a] = [heap[a] EXCEPT !.reader = ok]]
    BY <1>1
  <2> QED
    BY <1>2, <1>4, <1>9, <2>2, <2>3, AdapterChanged DEF Inv
<1>11. HandleLive'
  BY <1>2, <1>6, <1>8, HandleKept DEF Inv
<1>12. EvidenceTyped' /\ BrowserTyped' /\ TriageTyped' /\ SessionTyped' /\ CacheOwned'
  BY <1>2, EvidenceKept, BrowserKept, TriageKept, SessionStays DEF Inv
<1>13. HandlersSound'
  BY <1>2, HandlersKept DEF Inv
<1> QED
  BY <1>8, <1>10, <1>11, <1>12, <1>13 DEF Inv

LEMMA ImageOpenedStep ==
  ASSUME Inv, NEW i \in Slots, ImageOpened(i)
  PROVE  Inv'
<1> DEFINE task == [kind |-> "PartitionScan", adapter |-> image, done |-> "running"]
<1>1. /\ tasks[i].kind = "ImageOpen"
      /\ imageInfo' = heap[tasks[i].adapter].path
      /\ tasks' = [tasks EXCEPT ![i] = task]
      /\ heap' = Collected(heap, image, tasks')
      /\ SetBusy(i)
      /\ UNCHANGED <<image, partitions, selected, browser, session, triage, catalog, modal>>
  BY DEF ImageOpened
<1>2. SoundTask(tasks[i])
  BY DEF Inv, TasksSound
<1>3. heap[tasks[i].adapter].path \in Images
  BY <1>1, <1>2, TaskFacts, SourceOfTask DEF Inv
<1>4. SoundTask(task)
  BY WaitingSound DEF Inv, EvidenceTyped
<1>5. TasksSound' /\ tasks'[i] = task /\ \A j \in Slots : j # i => tasks'[j] = tasks[j]
  BY <1>1, <1>4, Replaced DEF Inv
<1>6. HeldBefore(tasks', image)
  BY <1>5 DEF HeldBefore
<1>7. heap' = Collected(heap, image', tasks')
  BY <1>1
<1>8. HeapTyped' /\ Alive'
  BY <1>1, <1>6, <1>7, StillAlive DEF Inv
<1>9. EvidenceTyped'
  BY <1>1, <1>3 DEF Inv, EvidenceTyped
<1>10. HandleLive'
  <2>1. tasks'[i].kind = "PartitionScan"
    BY <1>5
  <2> QED
    BY <1>1, <2>1, HandleBusy
<1>11. BrowserTyped' /\ TriageTyped' /\ SessionTyped' /\ CacheOwned'
  BY <1>1, BrowserKept, TriageKept, SessionKept DEF Inv
<1>12. HandlersSound'
  BY <1>1, HandlersKept DEF Inv
<1> QED
  BY <1>5, <1>8, <1>9, <1>10, <1>11, <1>12 DEF Inv

LEMMA ImageOpenFailedStep ==
  ASSUME Inv, NEW i \in Slots, ImageOpenFailed(i)
  PROVE  Inv'
<1>1. [tag |-> "notice"] \in Dialogs /\ [tag |-> "notice"].tag = "notice"
  BY PlainDialog
<1>2. [tag |-> "notice"].tag \notin {"destination", "artifactDestination"}
  OBVIOUS
<1>3. /\ tasks' = [tasks EXCEPT ![i] = NoTask] /\ heap' = Collected(heap, image, tasks')
      /\ SetIdle /\ Ask([tag |-> "notice"])
      /\ UNCHANGED <<image, evidence, browser, session, triage>>
  BY DEF ImageOpenFailed
<1> QED
  BY <1>1, <1>2, <1>3, AnsweredByBox

LEMMA WorkPartitionScanStep ==
  ASSUME Inv, NEW i \in Slots, WorkPartitionScan(i)
  PROVE  Inv'
<1> DEFINE a == tasks[i].adapter
<1>1. PICK opened \in BOOLEAN, listed \in BOOLEAN :
        /\ opened => a # 0 /\ heap[a].reader
        /\ listed => opened
        /\ heap' = IF a = 0 THEN heap ELSE [heap EXCEPT ![a].open = opened]
        /\ tasks' = [tasks EXCEPT ![i].done = IF listed THEN "ok" ELSE "failed"]
  BY DEF WorkPartitionScan
<1>2. tasks[i].kind = "PartitionScan"
      /\ UNCHANGED <<image, evidence, browser, session, triage, busy, catalog, modal>>
  BY DEF WorkPartitionScan
<1> DEFINE done == IF listed THEN "ok" ELSE "failed"
<1>3. SoundTask(tasks[i]) /\ a \in Adapters \union {0}
  BY TaskFacts DEF Inv, TasksSound
<1>4. done = "ok" => a # 0
  BY <1>1
<1>5. /\ SoundTask([tasks[i] EXCEPT !.done = done])
      /\ [tasks[i] EXCEPT !.done = done].adapter = a
  BY <1>2, <1>3, <1>4, WorkedSound
<1>6. [tasks[i] EXCEPT !.done = done].kind = tasks[i].kind
  OBVIOUS
<1>7. tasks' = [tasks EXCEPT ![i] = [tasks[i] EXCEPT !.done = done]]
  BY <1>1
<1>8. /\ TasksSound' /\ tasks'[i] = [tasks[i] EXCEPT !.done = done]
      /\ \A j \in Slots : j # i => tasks'[j] = tasks[j]
  BY <1>5, <1>7, Replaced DEF Inv
<1>9. HeldBefore(tasks', image)
  BY <1>5, <1>8 DEF HeldBefore
<1>10. HeapTyped' /\ Alive'
  <2>1. CASE a = 0
    <3>1. heap' = heap
      BY <1>1, <2>1
    <3> QED
      BY <1>2, <1>9, <3>1, StillAlive DEF Inv
  <2>2. CASE a \in Adapters /\ a # 0
    <3>1. heap[a] \in [path : Images \union {None}, reader : BOOLEAN, open : BOOLEAN]
      BY <2>2 DEF Inv, HeapTyped
    <3>2. /\ [heap[a] EXCEPT !.open = opened] \in [path : Images \union {None}, reader : BOOLEAN, open : BOOLEAN]
          /\ [heap[a] EXCEPT !.open = opened].path = heap[a].path
      BY <3>1
    <3>3. heap' = [heap EXCEPT ![a] = [heap[a] EXCEPT !.open = opened]]
      BY <1>1, <2>2
    <3> QED
      BY <1>2, <1>9, <2>2, <3>2, <3>3, AdapterChanged DEF Inv
  <2> QED
    BY <1>3, <2>1, <2>2
<1>11. HandleLive'
  BY <1>2, <1>6, <1>8, HandleKept DEF Inv
<1>12. EvidenceTyped' /\ BrowserTyped' /\ TriageTyped' /\ SessionTyped' /\ CacheOwned'
  BY <1>2, EvidenceKept, BrowserKept, TriageKept, SessionStays DEF Inv
<1>13. HandlersSound'
  BY <1>2, HandlersKept DEF Inv
<1> QED
  BY <1>8, <1>10, <1>11, <1>12, <1>13 DEF Inv

(* The nodes a tree starts with.                                           *)
LEMMA RootsTyped ==
  ASSUME NEW path \in Images \union {None}
  PROVE  /\ DOMAIN Roots(path) \subseteq Nodes
         /\ \A n \in DOMAIN Roots(path) : Roots(path)[n] \in [index : Int, loaded : BOOLEAN]
         /\ ImageNode \in DOMAIN Roots(path) => Roots(path)[ImageNode].index = -1
<1> DEFINE listed == IF path = None THEN {} ELSE {<<Numbers[i], "/">> : i \in 1 .. Len(Numbers)}
<1>1. ASSUME NEW n \in listed PROVE n \in Nodes /\ n[1] \in Int
  <2>1. PICK i \in 1 .. Len(Numbers) : n = <<Numbers[i], "/">>
    BY <1>1
  <2>2. path \in Images
    BY <1>1
  <2>3. Numbers[i] \in Keys /\ Numbers[i] \in Nat
    BY <2>2, PartOfImage, NumberFacts
  <2> QED
    BY <2>1, <2>3 DEF Nodes
<1>2. Roots(path) = [n \in listed \union {ImageNode} |-> [index |-> n[1], loaded |-> FALSE]]
  BY DEF Roots
<1>3. ImageNode[1] = -1 /\ ImageNode \in Nodes
  BY NodeFacts DEF ImageNode
<1> HIDE DEF listed
<1> QED
  BY <1>1, <1>2, <1>3

LEMMA ForgottenTasks ==
  ASSUME TasksSound, NEW ts, DOMAIN ts = Slots, \A j \in Slots : ts[j] = tasks[j] \/ ts[j] = NoTask,
         tasks' = Forget(ts)
  PROVE  /\ TasksSound' /\ HeldBefore(tasks', image)
         /\ \A j \in Slots : tasks'[j].kind = ts[j].kind
<1>1. \A j \in Slots : SoundTask(ts[j])
  BY NoTaskSound DEF TasksSound
<1>2. DOMAIN tasks' = Slots
      /\ \A j \in Slots : /\ SoundTask(tasks'[j]) /\ tasks'[j].adapter = ts[j].adapter
                          /\ tasks'[j].kind = ts[j].kind
  BY <1>1, Forgotten
<1>3. \A j \in Slots : tasks'[j].adapter \in {tasks[j].adapter, 0, image}
  BY <1>2 DEF NoTask
<1>4. tasks' = [j \in Slots |-> tasks'[j]]
  BY DEF Forget
<1>5. tasks' \in [Slots -> TaskRecords]
  BY <1>2, <1>4, SlotsFilled
<1> QED
  BY <1>2, <1>3, <1>5 DEF TasksSound, HeldBefore

LEMMA PartitionsListedStep ==
  ASSUME Inv, NEW i \in Slots, PartitionsListed(i)
  PROVE  Inv'
<1> DEFINE path == heap[tasks[i].adapter].path
           ts == [tasks EXCEPT ![i] = NoTask]
<1>1. /\ tasks[i].kind = "PartitionScan" /\ tasks[i].done = "ok"
      /\ ShowPartitions(path, ts)
      /\ heap' = Collected(heap, image, tasks')
      /\ SetIdle
      /\ UNCHANGED <<image, imageInfo, selected, files, pending, triage, catalog, modal>>
  BY DEF PartitionsListed
<1>2. path \in Images
  BY <1>1, TaskFacts, SourceOfTask DEF Inv, TasksSound
<1>3. partitions' = path /\ tree' = Roots(path) /\ ClearTree /\ tasks' = Forget(ts)
  BY <1>1 DEF ShowPartitions
<1>4. DOMAIN ts = Slots /\ \A j \in Slots : ts[j] = tasks[j] \/ ts[j] = NoTask
  BY DEF Inv, TasksSound
<1>5. TasksSound' /\ HeldBefore(tasks', image)
  BY <1>3, <1>4, ForgottenTasks DEF Inv
<1>6. heap' = Collected(heap, image', tasks') /\ image' \in {image, 0}
  BY <1>1
<1>7. HeapTyped' /\ Alive'
  BY <1>5, <1>6, StillAlive DEF Inv
<1>8. SessionTyped' /\ CacheOwned' /\ treeSel' = None
  BY <1>1, <1>3, TreeCleared DEF Inv
<1>9. BrowserTyped'
  BY <1>1, <1>2, <1>3, <1>8, RootsTyped DEF Inv, BrowserTyped
<1>10. EvidenceTyped'
  BY <1>1, <1>2, <1>3 DEF Inv, EvidenceTyped
<1>11. TriageTyped' /\ HandleLive' /\ HandlersSound'
  BY <1>1, TriageKept, HandleIdle, HandlersKept DEF Inv
<1> QED
  BY <1>5, <1>7, <1>8, <1>9, <1>10, <1>11 DEF Inv

LEMMA PartitionScanFailedStep ==
  ASSUME Inv, NEW i \in Slots, PartitionScanFailed(i)
  PROVE  Inv'
<1>1. [tag |-> "scanFailed"] \in Dialogs /\ [tag |-> "scanFailed"].tag = "scanFailed"
  BY PlainDialog
<1>2. [tag |-> "scanFailed"].tag \notin {"destination", "artifactDestination"}
  OBVIOUS
<1>3. /\ tasks' = [tasks EXCEPT ![i] = NoTask] /\ heap' = Collected(heap, image, tasks')
      /\ SetIdle /\ Ask([tag |-> "scanFailed"])
      /\ UNCHANGED <<image, evidence, browser, session, triage>>
  BY DEF PartitionScanFailed
<1> QED
  BY <1>1, <1>2, <1>3, AnsweredByBox

LEMMA PartitionScanFailedReadStep ==
  ASSUME Inv, PartitionScanFailedRead
  PROVE  Inv'
<1>1. /\ Dismiss("scanFailed") /\ ShowPartitions(None, tasks)
      /\ UNCHANGED <<heap, image, imageInfo, selected, files, pending, triage, busy, catalog>>
  BY DEF PartitionScanFailedRead
<1>2. partitions' = None /\ tree' = Roots(None) /\ ClearTree /\ tasks' = Forget(tasks)
  BY <1>1 DEF ShowPartitions
<1>3. DOMAIN tasks = Slots
  BY DEF Inv, TasksSound
<1>4. /\ TasksSound' /\ HeldBefore(tasks', image)
      /\ \A j \in Slots : tasks'[j].kind = tasks[j].kind
  BY <1>2, <1>3, ForgottenTasks DEF Inv
<1>5. HeapTyped' /\ Alive'
  BY <1>1, <1>4, StillAlive DEF Inv
<1>6. SessionTyped' /\ CacheOwned' /\ treeSel' = None
  BY <1>1, <1>2, TreeCleared DEF Inv
<1>7. BrowserTyped'
  BY <1>1, <1>2, <1>6, RootsTyped DEF Inv, BrowserTyped
<1>8. EvidenceTyped'
  BY <1>1, <1>2 DEF Inv, EvidenceTyped
<1>9. TriageTyped' /\ HandleLive' /\ HandlersSound'
  BY <1>1, <1>4, TriageKept, HandleKept, DialogDown DEF Inv
<1> QED
  BY <1>4, <1>5, <1>6, <1>7, <1>8, <1>9 DEF Inv

LEMMA CloseImageStep ==
  ASSUME Inv, CloseImage
  PROVE  Inv'
<1>1. /\ modal = <<>> /\ image' = 0 /\ partitions' = None /\ selected' = -1
      /\ tree' = NoTree /\ ClearTree /\ files' = None
      /\ artifacts' = None /\ row' = FALSE
      /\ tasks' = Forget(tasks)
      /\ heap' = Collected(heap, 0, tasks')
      /\ UNCHANGED <<imageInfo, pending, panel, busy, catalog, modal>>
  BY DEF CloseImage, User
<1>2. DOMAIN tasks = Slots
  BY DEF Inv, TasksSound
<1>3. /\ TasksSound' /\ HeldBefore(tasks', image)
      /\ \A j \in Slots : tasks'[j].kind = tasks[j].kind
  BY <1>1, <1>2, ForgottenTasks DEF Inv
<1>4. heap' = Collected(heap, image', tasks') /\ image' \in {image, 0}
  BY <1>1
<1>5. HeapTyped' /\ Alive'
  BY <1>3, <1>4, StillAlive DEF Inv
<1>6. SessionTyped' /\ CacheOwned' /\ treeSel' = None
  BY <1>1, TreeCleared DEF Inv
<1>7. DOMAIN tree' = {}
  BY <1>1 DEF NoTree
<1>8. BrowserTyped'
  BY <1>1, <1>6, <1>7 DEF Inv, BrowserTyped
<1>9. EvidenceTyped'
  BY <1>1, NumberFacts DEF Inv, EvidenceTyped
<1>10. TriageTyped'
  BY <1>1 DEF Inv, TriageTyped
<1>11. HandleLive' /\ HandlersSound'
  BY <1>1, <1>3, HandleKept, HandlersKept DEF Inv
<1> QED
  BY <1>3, <1>5, <1>6, <1>8, <1>9, <1>10, <1>11 DEF Inv
-----------------------------------------------------------------------------
(* Partitions and directories. *)

LEMMA SelectNodeStep ==
  ASSUME Inv, NEW node \in DOMAIN tree, SelectNode(node)
  PROVE  Inv'
<1> DEFINE index == tree[node].index
           task == [kind |-> "DirectoryList", adapter |-> image, part |-> PartAt(index),
                    node |-> node, shown |-> node[1]]
<1>1. /\ treeSel' = node /\ ContextSwitch
      /\ IF IsOpen(image) /\ InRange(index)
           THEN selected' = index /\ Launch(task) /\ SetBusy(Slot)
           ELSE UNCHANGED <<selected, tasks, busy>>
      /\ UNCHANGED <<heap, image, imageInfo, partitions, tree, files, pending, triage, catalog, modal>>
  BY DEF SelectNode
<1>2. SessionTyped' /\ CacheOwned'
  BY <1>1, SwitchClears
<1>3. BrowserTyped' /\ TriageTyped' /\ HandlersSound'
  <2>1. BrowserTyped'
    BY <1>1 DEF Inv, BrowserTyped
  <2> QED
    BY <1>1, <2>1, TriageKept, HandlersKept DEF Inv
<1>4. CASE ~(IsOpen(image) /\ InRange(index))
  <2>1. UNCHANGED <<selected, tasks, busy>>
    BY <1>1, <1>4
  <2>2. EvidenceTyped'
    BY <1>1, <2>1 DEF Inv, EvidenceTyped
  <2>3. HeapTyped' /\ Alive' /\ TasksSound' /\ HandleLive'
    BY <1>1, <2>1, HeapKept, HandleKept DEF Inv
  <2> QED
    BY <1>2, <1>3, <2>2, <2>3 DEF Inv
<1>5. CASE IsOpen(image) /\ InRange(index)
  <2>1. selected' = index /\ Launch(task) /\ SetBusy(Slot)
    BY <1>1, <1>5
  <2>2. image \in Adapters
    BY <1>5 DEF IsOpen, Inv, EvidenceTyped
  <2>3. index \in Int /\ node \in Nodes
    BY DEF Inv, BrowserTyped
  <2>4. index \in 0 .. Len(Numbers) - 1 /\ PartAt(index) \in Parts
    BY <1>5, <2>3, PartAtIndex DEF Inv
  <2>5. node # ImageNode
    BY <2>4 DEF Inv, BrowserTyped
  <2>6. node \in PartNodes /\ node[1] \in Keys
    BY <2>3, <2>5, NodeFacts
  <2>7. SoundTask(task)
    BY <2>2, <2>4, <2>6, ListingSound
  <2>8. TasksSound' /\ Slot \in Slots /\ tasks'[Slot] = task
    BY <2>1, <2>7, Launched DEF Inv
  <2>9. HeapTyped' /\ Alive'
    BY <1>1, <2>1, <2>7, LaunchedHere DEF Inv
  <2>10. tasks'[Slot].kind = "DirectoryList"
    BY <2>8
  <2>11. HandleLive'
    BY <2>1, <2>8, <2>10, HandleBusy
  <2>12. EvidenceTyped'
    BY <1>1, <2>1, <2>4, NumberFacts DEF Inv, EvidenceTyped
  <2> QED
    BY <1>2, <1>3, <2>8, <2>9, <2>11, <2>12 DEF Inv
<1> QED
  BY <1>4, <1>5

LEMMA SelectNoNodeStep ==
  ASSUME Inv, SelectNoNode
  PROVE  Inv'
<1>1. /\ treeSel' = None /\ ContextSwitch
      /\ UNCHANGED <<heap, image, evidence, tree, files, pending, triage, busy, catalog, tasks, modal>>
  BY DEF SelectNoNode
<1>2. SessionTyped' /\ CacheOwned'
  BY <1>1, SwitchClears
<1>3. BrowserTyped'
  BY <1>1 DEF Inv, BrowserTyped
<1>4. EvidenceTyped' /\ TriageTyped' /\ HandleLive' /\ HandlersSound'
  BY <1>1, EvidenceKept, TriageKept, HandleKept, HandlersKept DEF Inv
<1>5. HeapTyped' /\ Alive' /\ TasksSound'
  BY <1>1, HeapKept DEF Inv
<1> QED
  BY <1>2, <1>3, <1>4, <1>5 DEF Inv

LEMMA LoadDirectoryStep ==
  ASSUME Inv, LoadDirectory, pending' \in BOOLEAN
  PROVE  Inv'
<1> DEFINE task == [kind |-> "DirectoryList", adapter |-> image, part |-> PartAt(selected),
                    node |-> None, shown |-> None]
<1>1. /\ IF Ready THEN Launch(task) /\ SetBusy(handle) ELSE UNCHANGED <<tasks, busy>>
      /\ UNCHANGED <<heap, image, evidence, tree, treeSel, files, session, triage, catalog, modal>>
  BY DEF LoadDirectory
<1>2. EvidenceTyped' /\ TriageTyped' /\ SessionTyped' /\ CacheOwned' /\ HandlersSound'
  BY <1>1, EvidenceKept, TriageKept, SessionStays, HandlersKept DEF Inv
<1>3. BrowserTyped'
  BY <1>1 DEF Inv, BrowserTyped
<1>4. CASE ~Ready
  <2>1. UNCHANGED <<tasks, busy>>
    BY <1>1, <1>4
  <2>2. HeapTyped' /\ Alive' /\ TasksSound' /\ HandleLive'
    BY <1>1, <2>1, HeapKept, HandleKept DEF Inv
  <2> QED
    BY <1>2, <1>3, <2>2 DEF Inv
<1>5. CASE Ready
  <2>1. Launch(task) /\ SetBusy(handle)
    BY <1>1, <1>5
  <2>2. SoundTask(task)
    BY <1>5, ReadyFacts, ListingSound DEF Inv
  <2>3. /\ TasksSound' /\ Slot \in Slots /\ tasks[Slot] = NoTask
        /\ \A j \in Slots : j # Slot => tasks'[j] = tasks[j]
    BY <2>1, <2>2, Launched DEF Inv
  <2>4. HeapTyped' /\ Alive'
    BY <1>1, <2>1, <2>2, LaunchedHere DEF Inv
  <2>5. NoTask.kind = "none"
    BY DEF NoTask
  <2>6. HandleLive'
    BY <2>1, <2>3, <2>5 DEF Inv, HandleLive, SetBusy
  <2> QED
    BY <1>2, <1>3, <2>3, <2>4, <2>6 DEF Inv
<1> QED
  BY <1>4, <1>5

LEMMA JumpStep ==
  ASSUME Inv, JumpToArtifact \/ JumpToParent
  PROVE  Inv'
<1>1. pending' \in BOOLEAN /\ LoadDirectory
  BY DEF JumpToArtifact, JumpToParent, Inv, BrowserTyped
<1> QED
  BY <1>1, LoadDirectoryStep

(* The nodes a listing adds are the folders of a partition's root.         *)
LEMMA PopulatedTyped ==
  ASSUME BrowserTyped, EvidenceTyped, NEW node \in PartNodes \union {None}, NEW found \in BOOLEAN,
         tree' = Populated(node, found), treeSel' = treeSel
  PROVE  /\ DOMAIN tree' \subseteq Nodes
         /\ \A n \in DOMAIN tree' : tree'[n] \in [index : Int, loaded : BOOLEAN]
         /\ ImageNode \in DOMAIN tree' => tree'[ImageNode].index = -1
         /\ treeSel' \in DOMAIN tree' \union {None}
<1>1. CASE node = None \/ node \notin DOMAIN tree \/ tree[node].loaded
  <2>1. tree' = tree
    BY <1>1 DEF Populated
  <2> QED
    BY <2>1 DEF BrowserTyped
<1>2. CASE ~(node = None \/ node \notin DOMAIN tree \/ tree[node].loaded)
  <2> DEFINE children == IF found /\ node[2] = "/" THEN {node[1]} \X Folders ELSE {}
  <2>1. tree' = [n \in DOMAIN tree \union children |->
                   IF n = node THEN [tree[n] EXCEPT !.loaded = TRUE]
                   ELSE IF n \in DOMAIN tree THEN tree[n]
                   ELSE [index |-> selected, loaded |-> FALSE]]
    BY <1>2 DEF Populated, ChildIndex
  <2>2. node \in PartNodes /\ node # ImageNode /\ node[1] \in Keys
    BY <1>2, NodeFacts
  <2>3. \A n \in children : n \in PartNodes
    BY <2>2 DEF PartNodes
  <2> HIDE DEF children
  <2>4. ImageNode \notin children /\ children \subseteq Nodes
    BY <2>3, NodeFacts
  <2>5. DOMAIN tree' = DOMAIN tree \union children
    BY <2>1
  <2>6. selected \in Int
    BY DEF EvidenceTyped
  <2>7. ASSUME NEW n \in DOMAIN tree' PROVE tree'[n] \in [index : Int, loaded : BOOLEAN]
    <3>1. CASE n = node
      <4>1. n \in DOMAIN tree /\ tree[n] \in [index : Int, loaded : BOOLEAN]
        BY <1>2, <3>1 DEF BrowserTyped
      <4>2. tree'[n] = [tree[n] EXCEPT !.loaded = TRUE]
        BY <2>1, <2>5, <3>1
      <4> QED
        BY <4>1, <4>2
    <3>2. CASE n # node /\ n \in DOMAIN tree
      <4>1. tree'[n] = tree[n]
        BY <2>1, <2>5, <3>2
      <4> QED
        BY <3>2, <4>1 DEF BrowserTyped
    <3>3. CASE n # node /\ n \notin DOMAIN tree
      <4>1. tree'[n] = [index |-> selected, loaded |-> FALSE]
        BY <2>1, <2>5, <3>3
      <4> QED
        BY <2>6, <4>1
    <3> QED
      BY <3>1, <3>2, <3>3
  <2>8. ImageNode \in DOMAIN tree' => tree'[ImageNode].index = -1
    <3> SUFFICES ASSUME ImageNode \in DOMAIN tree' PROVE tree'[ImageNode].index = -1
      OBVIOUS
    <3>1. ImageNode \in DOMAIN tree
      BY <2>4, <2>5
    <3>2. tree'[ImageNode] = tree[ImageNode]
      BY <2>1, <2>2, <2>5, <3>1
    <3> QED
      BY <3>1, <3>2 DEF BrowserTyped
  <2> QED
    BY <2>4, <2>5, <2>7, <2>8 DEF BrowserTyped
<1> QED
  BY <1>1, <1>2

LEMMA OtherTyped == Other.state = "other" /\ Other.key = None
BY DEF Other

LEMMA TouchTyped ==
  ASSUME TriageTyped, artifacts' = artifacts,
         TouchArtifactRow \/ \E shown : FilesTab(shown)
  PROVE  TriageTyped'
<1>1. CASE TouchArtifactRow
  <2>1. row' \in (IF artifacts = None THEN {FALSE} ELSE BOOLEAN) /\ panel' = Other
    BY <1>1 DEF TouchArtifactRow
  <2>2. row' \in BOOLEAN /\ (row' => artifacts # None)
    BY <2>1
  <2>3. panel'.state = "other" /\ panel'.key = None
    BY <2>1, OtherTyped
  <2> QED
    BY <2>2, <2>3 DEF TriageTyped
<1>2. CASE \E shown : FilesTab(shown)
  <2>1. row' = row /\ panel' \in {panel, Other}
    BY <1>2 DEF FilesTab
  <2>2. panel'.state \in {"other", "loading", "details"} /\ panel'.key \in Keys \union {None}
    BY <2>1, OtherTyped DEF TriageTyped
  <2> QED
    BY <2>1, <2>2 DEF TriageTyped
<1> QED
  BY <1>1, <1>2

LEMMA DirectoryListedStep ==
  ASSUME Inv, NEW i \in Slots, DirectoryListed(i)
  PROVE  Inv'
<1> DEFINE t == tasks[i]
<1>1. /\ t.kind = "DirectoryList"
      /\ files' = Source(t.adapter, t.part)
      /\ tree' = Populated(t.node, TRUE) /\ pending' = FALSE
      /\ (pending /\ TouchArtifactRow) \/ FilesTab(t.shown)
      /\ tasks' = [tasks EXCEPT ![i] = NoTask]
      /\ heap' = Collected(heap, image, tasks')
      /\ SetIdle
      /\ UNCHANGED <<image, evidence, treeSel, session, artifacts, catalog, modal>>
  BY DEF DirectoryListed
<1>2. /\ t.adapter \in Adapters /\ t.part \in Parts
      /\ t.node \in PartNodes \union {None}
  BY <1>1, TaskFacts DEF Inv, TasksSound
<1>3. heap[t.adapter].path \in Images
  BY <1>2, SourceOfTask DEF Inv
<1>4. files' \in Sources
  BY <1>1, <1>2, <1>3 DEF Source, Sources
<1>5. BrowserTyped'
  <2> HIDE DEF t
  <2>1. /\ DOMAIN tree' \subseteq Nodes
        /\ \A n \in DOMAIN tree' : tree'[n] \in [index : Int, loaded : BOOLEAN]
        /\ ImageNode \in DOMAIN tree' => tree'[ImageNode].index = -1
        /\ treeSel' \in DOMAIN tree' \union {None}
    BY <1>1, <1>2, PopulatedTyped DEF Inv
  <2> QED
    BY <1>1, <1>4, <2>1 DEF BrowserTyped
<1>6. TriageTyped'
  BY <1>1, TouchTyped DEF Inv
<1>7. EvidenceTyped' /\ SessionTyped' /\ CacheOwned' /\ HandleLive' /\ HandlersSound'
  BY <1>1, EvidenceKept, SessionStays, HandleIdle, HandlersKept DEF Inv
<1>8. HeapTyped' /\ Alive' /\ TasksSound'
  BY <1>1, Answered DEF Inv
<1> QED
  BY <1>5, <1>6, <1>7, <1>8 DEF Inv

LEMMA DirectoryListFailedStep ==
  ASSUME Inv, NEW i \in Slots, DirectoryListFailed(i)
  PROVE  Inv'
<1> DEFINE d == [tag |-> "listFailed", node |-> tasks[i].node, shown |-> tasks[i].shown]
<1>1. /\ tasks[i].kind = "DirectoryList" /\ Ask(d)
      /\ tasks' = [tasks EXCEPT ![i] = NoTask] /\ heap' = Collected(heap, image, tasks')
      /\ SetIdle
      /\ UNCHANGED <<image, evidence, browser, session, triage>>
  BY DEF DirectoryListFailed
<1>2. tasks[i].node \in PartNodes \union {None} /\ tasks[i].shown \in Keys \union {None}
  BY <1>1, TaskFacts DEF Inv, TasksSound
<1>3. d \in Dialogs
  BY <1>2, ListFailedDialog
<1>4. d.tag \notin {"destination", "artifactDestination"}
  OBVIOUS
<1> HIDE DEF d
<1> QED
  BY <1>1, <1>3, <1>4, AnsweredByBox

LEMMA DirectoryListFailedReadStep ==
  ASSUME Inv, DirectoryListFailedRead
  PROVE  Inv'
<1>1. /\ Dismiss("listFailed") /\ files' = None
      /\ tree' = Populated(Head(modal).node, FALSE) /\ pending' = FALSE
      /\ FilesTab(Head(modal).shown)
      /\ UNCHANGED <<heap, image, evidence, treeSel, session, artifacts, busy, catalog, tasks>>
  BY DEF DirectoryListFailedRead
<1>2. HandlersSound' /\ Head(modal) \in Dialogs /\ Head(modal).tag = "listFailed"
  BY <1>1, DialogDown DEF Inv
<1>3. Head(modal).node \in PartNodes \union {None}
  BY <1>2, ListFailedDialog
<1>4. BrowserTyped'
  <2>1. /\ DOMAIN tree' \subseteq Nodes
        /\ \A n \in DOMAIN tree' : tree'[n] \in [index : Int, loaded : BOOLEAN]
        /\ ImageNode \in DOMAIN tree' => tree'[ImageNode].index = -1
        /\ treeSel' \in DOMAIN tree' \union {None}
    BY <1>1, <1>3, PopulatedTyped DEF Inv
  <2> QED
    BY <1>1, <2>1 DEF BrowserTyped
<1>5. TriageTyped'
  BY <1>1, TouchTyped DEF Inv
<1>6. EvidenceTyped' /\ SessionTyped' /\ CacheOwned' /\ HandleLive'
  BY <1>1, EvidenceKept, SessionStays, HandleKept DEF Inv
<1>7. HeapTyped' /\ Alive' /\ TasksSound'
  BY <1>1, HeapKept DEF Inv
<1> QED
  BY <1>2, <1>4, <1>5, <1>6, <1>7 DEF Inv

LEMMA SelectFileStep ==
  ASSUME Inv, SelectFile
  PROVE  Inv'
<1>1. /\ TouchArtifactRow \/ (UNCHANGED row /\ panel' = Other)
      /\ UNCHANGED <<heap, image, evidence, browser, session, artifacts, busy, catalog, tasks, modal>>
  BY DEF SelectFile
<1>2. TouchArtifactRow \/ \E shown : FilesTab(shown)
  <2>1. UNCHANGED row /\ panel' = Other => FilesTab(None)
    BY DEF FilesTab
  <2> QED
    BY <1>1, <2>1
<1>3. TriageTyped'
  BY <1>1, <1>2, TouchTyped DEF Inv
<1>4. EvidenceTyped' /\ BrowserTyped' /\ SessionTyped' /\ CacheOwned' /\ HandleLive' /\ HandlersSound'
  BY <1>1, EvidenceKept, BrowserKept, SessionStays, HandleKept, HandlersKept DEF Inv
<1>5. HeapTyped' /\ Alive' /\ TasksSound'
  BY <1>1, HeapKept DEF Inv
<1> QED
  BY <1>3, <1>4, <1>5 DEF Inv
-----------------------------------------------------------------------------
(* Artifacts. *)

LEMMA EventsTyped ==
  ASSUME NEW rows, NEW details, \A k \in DOMAIN details : details[k] \in Details
  PROVE  Events(rows, details) \in Details \union {None}
BY DEF Events

LEMMA CacheKept ==
  ASSUME CacheOwned, UNCHANGED <<cache, selected>>
  PROVE  CacheOwned'
BY DEF CacheOwned

LEMMA ShownArtifacts ==
  ASSUME SessionTyped, TriageTyped, NEW rows \in Sources \union {None}, ShowArtifacts(rows),
         UNCHANGED <<cache, runId, runContext>>,
         UNCHANGED <<detailId, detailKey, panel>> \/ ArtifactTab
  PROVE  SessionTyped' /\ TriageTyped'
<1>1. artifacts' = rows /\ row' = FALSE /\ timeline' = Events(rows, cache)
  BY DEF ShowArtifacts
<1>2. timeline' \in Details \union {None}
  BY <1>1, EventsTyped DEF SessionTyped
<1>3. \/ UNCHANGED <<detailId, detailKey, panel>>
      \/ detailId' = 0 /\ detailKey' = None /\ panel' = Other
  BY DEF ArtifactTab, CancelDetail
<1>4. SessionTyped'
  BY <1>2, <1>3 DEF SessionTyped
<1>5. panel'.state \in {"other", "loading", "details"} /\ panel'.key \in Keys \union {None}
  BY <1>3, OtherTyped DEF TriageTyped
<1> QED
  BY <1>1, <1>4, <1>5 DEF TriageTyped

LEMMA ScanArtifactsStep ==
  ASSUME Inv, ScanArtifacts
  PROVE  Inv'
<1> DEFINE task == [kind |-> "ArtifactScan", adapter |-> image, part |-> PartAt(selected)]
<1>1. /\ ContextSwitch
      /\ \/ ~Ready /\ UNCHANGED <<tasks, busy, modal>>
         \/ Ready /\ Ask([tag |-> "notWindows"]) /\ UNCHANGED <<tasks, busy>>
         \/ Ready /\ Launch(task) /\ SetBusy(Slot) /\ UNCHANGED modal
      /\ UNCHANGED <<heap, image, evidence, browser, triage, catalog>>
  BY DEF ScanArtifacts
<1>2. SessionTyped' /\ CacheOwned'
  BY <1>1, SwitchClears
<1>3. EvidenceTyped' /\ BrowserTyped' /\ TriageTyped'
  BY <1>1, EvidenceKept, BrowserKept, TriageKept DEF Inv
<1>4. CASE ~Ready /\ UNCHANGED <<tasks, busy, modal>>
  <2>1. HeapTyped' /\ Alive' /\ TasksSound' /\ HandleLive' /\ HandlersSound'
    BY <1>1, <1>4, HeapKept, HandleKept, HandlersKept DEF Inv
  <2> QED
    BY <1>2, <1>3, <2>1 DEF Inv
<1>5. CASE Ready /\ Ask([tag |-> "notWindows"]) /\ UNCHANGED <<tasks, busy>>
  <2>1. [tag |-> "notWindows"] \in Dialogs /\ [tag |-> "notWindows"].tag = "notWindows"
    BY PlainDialog
  <2>2. HandlersSound'
    BY <1>1, <1>5, <2>1, DialogUp DEF Inv
  <2>3. HeapTyped' /\ Alive' /\ TasksSound' /\ HandleLive'
    BY <1>1, <1>5, HeapKept, HandleKept DEF Inv
  <2> QED
    BY <1>2, <1>3, <2>2, <2>3 DEF Inv
<1>6. CASE Ready /\ Launch(task) /\ SetBusy(Slot) /\ UNCHANGED modal
  <2>1. SoundTask(task)
    BY <1>6, ReadyFacts, ScanSound DEF Inv
  <2>2. TasksSound' /\ Slot \in Slots /\ tasks'[Slot] = task
    BY <1>6, <2>1, Launched DEF Inv
  <2>3. HeapTyped' /\ Alive'
    BY <1>1, <1>6, <2>1, LaunchedHere DEF Inv
  <2>4. tasks'[Slot].kind = "ArtifactScan"
    BY <2>2
  <2>5. HandleLive' /\ HandlersSound'
    BY <1>1, <1>6, <2>2, <2>4, HandleBusy, HandlersKept DEF Inv
  <2> QED
    BY <1>2, <1>3, <2>2, <2>3, <2>5 DEF Inv
<1> QED
  BY <1>1, <1>4, <1>5, <1>6

LEMMA NotWindowsReadStep ==
  ASSUME Inv, NotWindowsRead
  PROVE  Inv'
<1>1. /\ Dismiss("notWindows") /\ ShowArtifacts(None)
      /\ UNCHANGED <<heap, image, evidence, browser, cache, detailId, detailKey, runId, runContext,
                     panel, busy, catalog, tasks>>
  BY DEF NotWindowsRead
<1>2. SessionTyped' /\ TriageTyped'
  BY <1>1, ShownArtifacts DEF Inv
<1>3. EvidenceTyped' /\ BrowserTyped' /\ CacheOwned' /\ HandleLive' /\ HandlersSound'
  BY <1>1, EvidenceKept, BrowserKept, CacheKept, HandleKept, DialogDown DEF Inv, evidence
<1>4. HeapTyped' /\ Alive' /\ TasksSound'
  BY <1>1, HeapKept DEF Inv
<1> QED
  BY <1>2, <1>3, <1>4 DEF Inv

LEMMA ArtifactsScannedStep ==
  ASSUME Inv, NEW i \in Slots, ArtifactsScanned(i)
  PROVE  Inv'
<1> DEFINE t == tasks[i]
<1>1. /\ t.kind = "ArtifactScan"
      /\ ShowArtifacts(Source(t.adapter, t.part)) /\ ArtifactTab
      /\ tasks' = [tasks EXCEPT ![i] = NoTask]
      /\ heap' = Collected(heap, image, tasks')
      /\ SetIdle
      /\ UNCHANGED <<image, evidence, browser, cache, runId, runContext, catalog, modal>>
  BY DEF ArtifactsScanned
<1>2. t.adapter \in Adapters /\ t.part \in Parts
  BY <1>1, TaskFacts DEF Inv, TasksSound
<1>3. Source(t.adapter, t.part) \in Sources
  BY <1>2, SourceOfTask DEF Inv, Source, Sources
<1>4. SessionTyped' /\ TriageTyped'
  BY <1>1, <1>3, ShownArtifacts DEF Inv
<1>5. EvidenceTyped' /\ BrowserTyped' /\ CacheOwned' /\ HandleLive' /\ HandlersSound'
  BY <1>1, EvidenceKept, BrowserKept, CacheKept, HandleIdle, HandlersKept DEF Inv, evidence
<1>6. HeapTyped' /\ Alive' /\ TasksSound'
  BY <1>1, Answered DEF Inv
<1> QED
  BY <1>4, <1>5, <1>6 DEF Inv

LEMMA ArtifactScanFailedStep ==
  ASSUME Inv, NEW i \in Slots, ArtifactScanFailed(i)
  PROVE  Inv'
<1>1. [tag |-> "artifactScanFailed"] \in Dialogs
      /\ [tag |-> "artifactScanFailed"].tag = "artifactScanFailed"
  BY PlainDialog
<1>2. [tag |-> "artifactScanFailed"].tag \notin {"destination", "artifactDestination"}
  OBVIOUS
<1>3. /\ tasks' = [tasks EXCEPT ![i] = NoTask] /\ heap' = Collected(heap, image, tasks')
      /\ SetIdle /\ Ask([tag |-> "artifactScanFailed"])
      /\ UNCHANGED <<image, evidence, browser, session, triage>>
  BY DEF ArtifactScanFailed
<1> QED
  BY <1>1, <1>2, <1>3, AnsweredByBox

LEMMA ArtifactScanFailedReadStep ==
  ASSUME Inv, ArtifactScanFailedRead
  PROVE  Inv'
<1>1. /\ Dismiss("artifactScanFailed") /\ ShowArtifacts(None) /\ ArtifactTab
      /\ UNCHANGED <<heap, image, evidence, browser, cache, runId, runContext, busy, catalog, tasks>>
  BY DEF ArtifactScanFailedRead
<1>2. SessionTyped' /\ TriageTyped'
  BY <1>1, ShownArtifacts DEF Inv
<1>3. EvidenceTyped' /\ BrowserTyped' /\ CacheOwned' /\ HandleLive' /\ HandlersSound'
  BY <1>1, EvidenceKept, BrowserKept, CacheKept, HandleKept, DialogDown DEF Inv, evidence
<1>4. HeapTyped' /\ Alive' /\ TasksSound'
  BY <1>1, HeapKept DEF Inv
<1> QED
  BY <1>2, <1>3, <1>4 DEF Inv

LEMMA RowsAreKeyed ==
  ASSUME TriageTyped, artifacts # None
  PROVE  artifacts.part \in Parts /\ artifacts.part.number \in Keys /\ artifacts \in Sources
<1>1. artifacts \in Sources
  BY DEF TriageTyped
<1>2. artifacts.part \in Parts
  BY <1>1 DEF Sources
<1> QED
  BY <1>1, <1>2, KeyOfPart

LEMMA SelectArtifactStep ==
  ASSUME Inv, SelectArtifact
  PROVE  Inv'
<1> DEFINE key == artifacts.part.number
           task == [kind |-> "ArtifactDetail", adapter |-> image, part |-> PartAt(selected), id |-> 1]
<1>1. /\ artifacts # None /\ row' = TRUE
      /\ UNCHANGED <<heap, image, evidence, browser, cache, runId, runContext, timeline, artifacts,
                     busy, catalog, modal>>
  BY DEF SelectArtifact
<1>2. \/ panel' = [state |-> "details", key |-> key] /\ UNCHANGED <<tasks, detailId, detailKey>>
      \/ /\ panel' = [state |-> "loading", key |-> key]
         /\ IF Ready THEN Launch(task) /\ detailId' = 1 /\ detailKey' = key
                     ELSE CancelDetail /\ UNCHANGED tasks
  BY DEF SelectArtifact
<1>3. key \in Keys /\ key # None
  BY <1>1, RowsAreKeyed, KeysAreNumbers DEF Inv
<1> HIDE DEF key
<1>4. TriageTyped'
  <2>1. panel'.state \in {"other", "loading", "details"} /\ panel'.key \in Keys \union {None}
    BY <1>2, <1>3
  <2> QED
    BY <1>1, <2>1 DEF Inv, TriageTyped
<1>5. EvidenceTyped' /\ BrowserTyped' /\ CacheOwned' /\ HandlersSound'
  BY <1>1, EvidenceKept, BrowserKept, CacheKept, HandlersKept DEF Inv, evidence
<1>6. CASE UNCHANGED tasks /\ (UNCHANGED <<detailId, detailKey>> \/ CancelDetail)
  <2>1. SessionTyped'
    BY <1>1, <1>6 DEF Inv, SessionTyped, CancelDetail
  <2>2. HeapTyped' /\ Alive' /\ TasksSound' /\ HandleLive'
    BY <1>1, <1>6, HeapKept, HandleKept DEF Inv
  <2> QED
    BY <1>4, <1>5, <2>1, <2>2 DEF Inv
<1>7. CASE Ready /\ Launch(task) /\ detailId' = 1 /\ detailKey' = key
  <2>1. SessionTyped'
    BY <1>1, <1>3, <1>7 DEF Inv, SessionTyped
  <2>2. SoundTask(task)
    BY <1>7, ReadyFacts, DetailSound DEF Inv
  <2>3. /\ TasksSound' /\ tasks[Slot] = NoTask
        /\ \A j \in Slots : j # Slot => tasks'[j] = tasks[j]
    BY <1>7, <2>2, Launched DEF Inv
  <2>4. HeapTyped' /\ Alive'
    BY <1>1, <1>7, <2>2, LaunchedHere DEF Inv
  <2>5. NoTask.kind = "none"
    BY DEF NoTask
  <2>6. \A j \in Slots : tasks[j].kind \notin {"none", "ArtifactDetail"} =>
                           tasks'[j].kind \notin {"none", "ArtifactDetail"}
    BY <2>3, <2>5
  <2>7. HandleLive'
    BY <1>1, <2>6, HandleKept DEF Inv
  <2> QED
    BY <1>4, <1>5, <2>1, <2>3, <2>4, <2>7 DEF Inv
<1> QED
  BY <1>2, <1>6, <1>7

LEMMA SelectNoArtifactStep ==
  ASSUME Inv, SelectNoArtifact
  PROVE  Inv'
<1>1. /\ row' = FALSE /\ CancelDetail /\ panel' = Other
      /\ UNCHANGED <<heap, image, evidence, browser, cache, runId, runContext, timeline, artifacts,
                     busy, catalog, tasks, modal>>
  BY DEF SelectNoArtifact
<1>2. TriageTyped'
  BY <1>1, OtherTyped DEF Inv, TriageTyped
<1>3. SessionTyped'
  BY <1>1 DEF Inv, SessionTyped, CancelDetail
<1>4. EvidenceTyped' /\ BrowserTyped' /\ CacheOwned' /\ HandleLive' /\ HandlersSound'
  BY <1>1, EvidenceKept, BrowserKept, CacheKept, HandleKept, HandlersKept DEF Inv, evidence
<1>5. HeapTyped' /\ Alive' /\ TasksSound'
  BY <1>1, HeapKept DEF Inv
<1> QED
  BY <1>2, <1>3, <1>4, <1>5 DEF Inv

(* What is put into the cache is somebody's details.                       *)
LEMMA PutTyped ==
  ASSUME SessionTyped, NEW key \in Keys, NEW source \in Sources, NEW via \in {"demand", "analysis"},
         cache' = Put(key, source, via)
  PROVE  /\ DOMAIN cache' = DOMAIN cache \union {key} /\ DOMAIN cache' \subseteq Keys
         /\ \A k \in DOMAIN cache' : cache'[k] \in Details
         /\ cache'[key] = [disk |-> source.disk, part |-> source.part, via |-> via]
         /\ \A k \in DOMAIN cache : k # key => cache'[k] = cache[k]
<1> DEFINE new == [disk |-> source.disk, part |-> source.part, via |-> via]
<1>1. new \in Details
  BY DEF Details, Sources
<1>2. cache' = [k \in DOMAIN cache \union {key} |-> IF k = key THEN new ELSE cache[k]]
  BY DEF Put
<1> HIDE DEF new
<1>3. \A k \in DOMAIN cache' : cache'[k] \in Details
  BY <1>1, <1>2 DEF SessionTyped
<1>4. cache'[key] = new
  BY <1>2
<1>5. DOMAIN cache' = DOMAIN cache \union {key} /\ \A k \in DOMAIN cache : k # key => cache'[k] = cache[k]
  BY <1>2
<1> QED
  BY <1>3, <1>4, <1>5 DEF SessionTyped, new

LEMMA DetailAnsweredStep ==
  ASSUME Inv, NEW i \in Slots, DetailAnswered(i)
  PROVE  Inv'
<1> DEFINE t == tasks[i]
           key == t.part.number
<1>1. /\ t.kind = "ArtifactDetail"
      /\ tasks' = [tasks EXCEPT ![i] = NoTask]
      /\ heap' = Collected(heap, image, tasks')
      /\ UNCHANGED <<image, evidence, browser, runId, runContext, artifacts, row, busy, catalog, modal>>
  BY DEF DetailAnswered
<1>2. \/ /\ ApplyDetail(t.id, key)
         /\ cache' = Put(key, Source(t.adapter, t.part), "demand")
         /\ panel' = [state |-> "details", key |-> RowKey]
         /\ timeline' = Events(artifacts, cache')
         /\ CancelDetail
      \/ UNCHANGED <<cache, panel, timeline, detailId, detailKey>>
  BY DEF DetailAnswered
<1>3. /\ t.adapter \in Adapters /\ t.part \in Parts
      /\ heap[t.adapter].path \in Images
  BY <1>1, TaskFacts, SourceOfTask DEF Inv, TasksSound
<1>4. Source(t.adapter, t.part) \in Sources /\ Source(t.adapter, t.part).part = t.part
  BY <1>3 DEF Source, Sources
<1>5. key \in Keys
  BY <1>3, KeyOfPart
<1>6. SessionTyped' /\ CacheOwned' /\ TriageTyped'
  <2>1. CASE UNCHANGED <<cache, panel, timeline, detailId, detailKey>>
    BY <1>1, <2>1, CacheKept DEF Inv, SessionTyped, TriageTyped, evidence
  <2>2. CASE /\ ApplyDetail(t.id, key)
             /\ cache' = Put(key, Source(t.adapter, t.part), "demand")
             /\ panel' = [state |-> "details", key |-> RowKey]
             /\ timeline' = Events(artifacts, cache')
             /\ CancelDetail
    <3> DEFINE source == Source(t.adapter, t.part)
    <3>1. source \in Sources /\ source.part = t.part
      BY <1>4
    <3>2. cache' = Put(key, source, "demand")
      BY <2>2
    <3> HIDE DEF source
    <3>3. /\ DOMAIN cache' = DOMAIN cache \union {key} /\ DOMAIN cache' \subseteq Keys
          /\ \A k \in DOMAIN cache' : cache'[k] \in Details
          /\ cache'[key] = [disk |-> source.disk, part |-> source.part, via |-> "demand"]
          /\ \A k \in DOMAIN cache : k # key => cache'[k] = cache[k]
      BY <1>5, <3>1, <3>2, PutTyped DEF Inv
    <3>4. timeline' \in Details \union {None}
      BY <2>2, <3>3, EventsTyped
    <3>5. SessionTyped'
      BY <1>1, <2>2, <3>3, <3>4 DEF Inv, SessionTyped, CancelDetail
    <3>6. cache'[key].via = "demand" /\ cache'[key].part.number = key
      BY <3>1, <3>3
    <3>7. selected' = selected
      BY <1>1 DEF evidence
    <3>8. CacheOwned'
      BY <3>3, <3>6, <3>7 DEF Inv, CacheOwned
    <3>9. RowKey \in Keys
      BY <1>5, <2>2 DEF ApplyDetail
    <3>10. panel'.state = "details" /\ panel'.key \in Keys
      BY <2>2, <3>9
    <3>11. TriageTyped'
      BY <1>1, <3>10 DEF Inv, TriageTyped
    <3> QED
      BY <3>5, <3>8, <3>11
  <2> QED
    BY <1>2, <2>1, <2>2
<1>7. HeapTyped' /\ Alive' /\ TasksSound'
  BY <1>1, Answered DEF Inv
<1>8. HandleLive'
  <2>1. \A j \in Slots : j # i => tasks'[j] = tasks[j]
    BY <1>1 DEF Inv, TasksSound
  <2> QED
    BY <1>1, <2>1, HandleKept DEF Inv
<1>9. EvidenceTyped' /\ BrowserTyped' /\ HandlersSound'
  BY <1>1, EvidenceKept, BrowserKept, HandlersKept DEF Inv
<1> QED
  BY <1>6, <1>7, <1>8, <1>9 DEF Inv

LEMMA AnalyzeArtifactsStep ==
  ASSUME Inv, AnalyzeArtifacts
  PROVE  Inv'
<1> DEFINE task == [kind |-> "ArtifactAnalysis", adapter |-> image, part |-> PartAt(selected),
                    rows |-> artifacts, id |-> runId + 1]
<1>1. /\ Ready /\ artifacts # None /\ runId < MaxRuns /\ CancelDetail
      /\ runId' = runId + 1 /\ runContext' = Context
      /\ Launch(task) /\ SetBusy(Slot)
      /\ UNCHANGED <<heap, image, evidence, browser, cache, timeline, triage, catalog, modal>>
  BY DEF AnalyzeArtifacts
<1>2. /\ image \in Adapters /\ InRange(selected)
      /\ PartAt(selected) \in Parts /\ Numbers[selected + 1] \in Keys
  BY <1>1, ReadyFacts DEF Inv
<1>3. Context \in Keys /\ Context # None
  BY <1>2, KeysAreNumbers DEF Context
<1>4. runId + 1 \in 1 .. MaxRuns
  BY <1>1, NumberFacts DEF Inv, SessionTyped
<1>5. SessionTyped'
  BY <1>1, <1>3, <1>4 DEF Inv, SessionTyped, CancelDetail
<1>6. SoundTask(task)
  BY <1>1, <1>2, <1>4, RowsAreKeyed, AnalysisSound DEF Inv
<1>7. TasksSound' /\ Slot \in Slots /\ tasks'[Slot] = task
  BY <1>1, <1>6, Launched DEF Inv
<1>8. HeapTyped' /\ Alive'
  BY <1>1, <1>6, LaunchedHere DEF Inv
<1>9. tasks'[Slot].kind = "ArtifactAnalysis"
  BY <1>7
<1>10. HandleLive'
  BY <1>1, <1>7, <1>9, HandleBusy
<1>11. EvidenceTyped' /\ BrowserTyped' /\ TriageTyped' /\ CacheOwned' /\ HandlersSound'
  BY <1>1, EvidenceKept, BrowserKept, TriageKept, CacheKept, HandlersKept DEF Inv, evidence
<1> QED
  BY <1>5, <1>7, <1>8, <1>10, <1>11 DEF Inv

LEMMA AnalysisAnsweredStep ==
  ASSUME Inv, NEW i \in Slots, AnalysisAnswered(i)
  PROVE  Inv'
<1> DEFINE t == tasks[i]
           key == t.rows.part.number
<1>1. /\ t.kind = "ArtifactAnalysis"
      /\ tasks' = [tasks EXCEPT ![i] = NoTask]
      /\ heap' = Collected(heap, image, tasks')
      /\ SetIdle
      /\ UNCHANGED <<image, evidence, browser, detailId, detailKey, triage, catalog>>
  BY DEF AnalysisAnswered
<1>2. \/ /\ ApplyAnalysis(t.id, t.part.number)
         /\ cache' = Put(key, Source(t.adapter, t.part), "analysis")
         /\ FinishAnalysis /\ UNCHANGED modal
      \/ Ask([tag |-> "analysisFailed"]) /\ UNCHANGED <<cache, timeline, runId, runContext>>
      \/ UNCHANGED <<cache, timeline, runId, runContext, modal>>
  BY DEF AnalysisAnswered
<1>3. /\ t.adapter \in Adapters /\ t.part \in Parts /\ t.rows \in Sources
      /\ heap[t.adapter].path \in Images
  BY <1>1, TaskFacts, SourceOfTask DEF Inv, TasksSound
<1>4. Source(t.adapter, t.part) \in Sources /\ Source(t.adapter, t.part).part = t.part
  BY <1>3 DEF Source, Sources
<1>5. key \in Keys /\ t.part.number \in Nat
  BY <1>3, KeyOfPart DEF Sources
<1>6. EvidenceTyped' /\ BrowserTyped' /\ TriageTyped' /\ HandleLive' /\ selected' = selected
  BY <1>1, EvidenceKept, BrowserKept, TriageKept, HandleIdle DEF Inv, evidence
<1>7. HeapTyped' /\ Alive' /\ TasksSound'
  BY <1>1, Answered DEF Inv
<1>8. CASE UNCHANGED <<cache, timeline, runId, runContext>>
  <2>1. SessionTyped' /\ CacheOwned'
    BY <1>1, <1>6, <1>8, CacheKept DEF Inv, SessionTyped
  <2>2. [tag |-> "analysisFailed"] \in Dialogs /\ [tag |-> "analysisFailed"].tag = "analysisFailed"
    BY PlainDialog
  <2>3. UNCHANGED modal \/ Ask([tag |-> "analysisFailed"])
    BY <1>2
  <2>4. HandlersSound'
    BY <1>1, <2>2, <2>3, DialogUp, HandlersKept DEF Inv
  <2> QED
    BY <1>6, <1>7, <2>1, <2>4 DEF Inv
<1>9. CASE /\ ApplyAnalysis(t.id, t.part.number)
           /\ cache' = Put(key, Source(t.adapter, t.part), "analysis")
           /\ FinishAnalysis /\ UNCHANGED modal
  <2> DEFINE source == Source(t.adapter, t.part)
  <2>1. source \in Sources /\ source.part = t.part
    BY <1>4
  <2>2. cache' = Put(key, source, "analysis")
    BY <1>9
  <2> HIDE DEF source
  <2>3. /\ DOMAIN cache' = DOMAIN cache \union {key} /\ DOMAIN cache' \subseteq Keys
        /\ \A k \in DOMAIN cache' : cache'[k] \in Details
        /\ cache'[key] = [disk |-> source.disk, part |-> source.part, via |-> "analysis"]
        /\ \A k \in DOMAIN cache : k # key => cache'[k] = cache[k]
    BY <1>5, <2>1, <2>2, PutTyped DEF Inv
  <2>4. timeline' = Events(artifacts, cache') /\ runId' = 0 /\ runContext' = None
    BY <1>9 DEF FinishAnalysis, RebuildTimeline
  <2>5. timeline' \in Details \union {None}
    BY <2>3, <2>4, EventsTyped
  <2>6. SessionTyped'
    BY <1>1, <2>3, <2>4, <2>5, NumberFacts DEF Inv, SessionTyped
  <2>7. Context = t.part.number
    BY <1>9 DEF ApplyAnalysis
  <2>8. t.part.number # None
    BY <1>5, MainWindowAssumption
  <2>9. Numbers[selected + 1] = t.part.number
    BY <2>7, <2>8 DEF Context
  <2>10. cache'[key].via = "analysis" /\ cache'[key].part.number = t.part.number
    BY <2>1, <2>3
  <2>11. CacheOwned'
    BY <1>6, <2>3, <2>9, <2>10 DEF Inv, CacheOwned
  <2>12. HandlersSound'
    BY <1>1, <1>9, HandlersKept DEF Inv
  <2> QED
    BY <1>6, <1>7, <2>6, <2>11, <2>12 DEF Inv
<1> QED
  BY <1>2, <1>8, <1>9

LEMMA AnalysisFailedReadStep ==
  ASSUME Inv, AnalysisFailedRead
  PROVE  Inv'
<1>1. /\ Dismiss("analysisFailed") /\ UNCHANGED cache /\ FinishAnalysis
      /\ UNCHANGED <<heap, image, evidence, browser, detailId, detailKey, triage, busy, catalog, tasks>>
  BY DEF AnalysisFailedRead
<1>2. timeline' = Events(artifacts, cache') /\ runId' = 0 /\ runContext' = None
  BY <1>1 DEF FinishAnalysis, RebuildTimeline
<1>3. timeline' \in Details \union {None}
  BY <1>1, <1>2, EventsTyped DEF Inv, SessionTyped
<1>4. SessionTyped'
  BY <1>1, <1>2, <1>3, NumberFacts DEF Inv, SessionTyped
<1>5. EvidenceTyped' /\ BrowserTyped' /\ TriageTyped' /\ CacheOwned' /\ HandleLive' /\ HandlersSound'
  BY <1>1, EvidenceKept, BrowserKept, TriageKept, CacheKept, HandleKept, DialogDown DEF Inv, evidence
<1>6. HeapTyped' /\ Alive' /\ TasksSound'
  BY <1>1, HeapKept DEF Inv
<1> QED
  BY <1>4, <1>5, <1>6 DEF Inv
-----------------------------------------------------------------------------
(* Extraction. *)

LEMMA ExtractStep ==
  ASSUME Inv, ExtractFiles \/ ExtractArtifact
  PROVE  Inv'
<1>1. UNCHANGED <<heap, image, evidence, browser, session, triage, busy, catalog, tasks>>
  BY DEF ExtractFiles, ExtractArtifact
<1>2. HandlersSound'
  <2>1. CASE ExtractFiles
    <3>1. [tag |-> "destination"] \in Dialogs
      BY PlainDialog
    <3>2. Ask([tag |-> "destination"]) /\ image # 0
      BY <2>1 DEF ExtractFiles
    <3> QED
      BY <1>1, <3>1, <3>2, DialogUp DEF Inv
  <2>2. CASE ExtractArtifact
    <3> DEFINE d == [tag |-> "artifactDestination", info |-> imageInfo, part |-> PartAt(selected),
                     entries |-> Source(image, PartAt(selected))]
    <3>1. Ready /\ Ask(d)
      BY <2>2 DEF ExtractArtifact
    <3>2. image # 0
      BY <3>1 DEF Ready, IsOpen
    <3>3. PartAt(selected) \in Parts /\ heap[image].path \in Images
      BY <3>1, ReadyFacts DEF Inv
    <3>4. Source(image, PartAt(selected)) \in Sources
      BY <3>3 DEF Source, Sources
    <3>5. d \in Dialogs
      BY <3>3, <3>4, ArtifactDialog DEF Inv, EvidenceTyped
    <3> HIDE DEF d
    <3> QED
      BY <1>1, <3>1, <3>2, <3>5, DialogUp DEF Inv
  <2> QED
    BY <2>1, <2>2
<1>3. EvidenceTyped' /\ BrowserTyped' /\ TriageTyped' /\ SessionTyped' /\ CacheOwned'
  BY <1>1, EvidenceKept, BrowserKept, TriageKept, SessionStays DEF Inv
<1>4. HeapTyped' /\ Alive' /\ TasksSound' /\ HandleLive'
  BY <1>1, HeapKept, HandleKept DEF Inv
<1> QED
  BY <1>2, <1>3, <1>4 DEF Inv

LEMMA StartExtractionStep ==
  ASSUME Inv, NEW tag, Dismiss(tag), image # 0, NEW info \in Images \union {None},
         NEW part \in Parts \union {Wild}, NEW entries \in Sources,
         StartExtraction(info, part, entries)
  PROVE  Inv'
<1> DEFINE task == [kind |-> "Extraction", adapter |-> image, info |-> info, part |-> part,
                    entries |-> entries]
<1>1. /\ Launch(task) /\ SetBusy(Slot)
      /\ UNCHANGED <<heap, image, evidence, browser, session, triage, catalog>>
  BY DEF StartExtraction
<1>2. image \in Adapters
  BY DEF Inv, EvidenceTyped
<1>3. SoundTask(task)
  BY <1>2, ExtractionSound
<1>4. TasksSound' /\ Slot \in Slots /\ tasks'[Slot] = task
  BY <1>1, <1>3, Launched DEF Inv
<1>5. HeapTyped' /\ Alive'
  BY <1>1, <1>3, LaunchedHere DEF Inv
<1>6. tasks'[Slot].kind = "Extraction"
  BY <1>4
<1>7. HandleLive' /\ HandlersSound'
  BY <1>1, <1>4, <1>6, HandleBusy, DialogDown DEF Inv
<1>8. EvidenceTyped' /\ BrowserTyped' /\ TriageTyped' /\ SessionTyped' /\ CacheOwned'
  BY <1>1, EvidenceKept, BrowserKept, TriageKept, SessionStays DEF Inv
<1> QED
  BY <1>4, <1>5, <1>7, <1>8 DEF Inv

LEMMA ChooseDestinationStep ==
  ASSUME Inv, ChooseDestination
  PROVE  Inv'
<1>1. CASE Dismiss("destination") /\ files # None
           /\ StartExtraction(imageInfo, UncheckedPart, files)
  <2>1. image # 0
    BY <1>1, DialogDown DEF Inv, StartExtraction
  <2>2. selected \in Int
    BY DEF Inv, EvidenceTyped
  <2>3. UncheckedPart \in Parts \union {Wild}
    BY <2>2, PartAtIndex DEF UncheckedPart, Inv
  <2>4. files \in Sources /\ imageInfo \in Images \union {None}
    BY <1>1 DEF Inv, BrowserTyped, EvidenceTyped
  <2> QED
    BY <1>1, <2>1, <2>3, <2>4, StartExtractionStep
<1>2. CASE Dismiss("artifactDestination")
           /\ StartExtraction(Head(modal).info, Head(modal).part, Head(modal).entries)
  <2>1. image # 0 /\ Head(modal) \in Dialogs /\ Head(modal).tag = "artifactDestination"
    BY <1>2, DialogDown DEF Inv, StartExtraction
  <2>2. Head(modal).info \in Images \union {None} /\ Head(modal).part \in Parts
        /\ Head(modal).entries \in Sources
    BY <2>1, ArtifactDialog
  <2> QED
    BY <1>2, <2>1, <2>2, StartExtractionStep
<1> QED
  BY <1>1, <1>2 DEF ChooseDestination

LEMMA ExtractedStep ==
  ASSUME Inv, NEW i \in Slots, Extracted(i)
  PROVE  Inv'
<1>1. /\ tasks' = [tasks EXCEPT ![i] = NoTask]
      /\ heap' = Collected(heap, image, tasks')
      /\ SetIdle
      /\ UNCHANGED <<image, evidence, browser, session, triage, modal>>
  BY DEF Extracted
<1>2. HeapTyped' /\ Alive' /\ TasksSound'
  BY <1>1, Answered DEF Inv
<1>3. EvidenceTyped' /\ BrowserTyped' /\ TriageTyped' /\ SessionTyped' /\ CacheOwned'
  BY <1>1, EvidenceKept, BrowserKept, TriageKept, SessionStays DEF Inv
<1>4. HandleLive' /\ HandlersSound'
  BY <1>1, HandleIdle, HandlersKept DEF Inv
<1> QED
  BY <1>2, <1>3, <1>4 DEF Inv
-----------------------------------------------------------------------------
(* The invariant. *)

LEMMA InitInv == Init => Inv
<1> SUFFICES ASSUME Init PROVE Inv
  OBVIOUS
<1>1. TasksSound
  BY NoTaskSound DEF Init, TasksSound, SoundTask
<1>2. HeapTyped
  BY DEF Init, HeapTyped, Unused
<1>3. Alive
  <2>1. \A a \in Adapters : a # image
    BY NumberFacts DEF Init, Adapters
  <2>2. \A a \in Adapters, i \in Slots : tasks[i].adapter # a
    BY <2>1 DEF Init, NoTask
  <2> QED
    BY <2>1, <2>2 DEF Alive
<1>4. EvidenceTyped
  BY NumberFacts DEF Init, EvidenceTyped
<1>5. BrowserTyped
  BY DEF Init, BrowserTyped, NoTree
<1>6. TriageTyped
  BY OtherTyped DEF Init, TriageTyped
<1>7. SessionTyped /\ CacheOwned
  BY NumberFacts DEF Init, SessionTyped, CacheOwned, NoDetail
<1>8. HandleLive
  BY DEF Init, HandleLive
<1>9. HandlersSound
  BY DEF Init, HandlersSound
<1> QED
  BY <1>1, <1>2, <1>3, <1>4, <1>5, <1>6, <1>7, <1>8, <1>9 DEF Inv

LEMMA UserInv == Inv /\ UserStep => Inv'
<1> SUFFICES ASSUME Inv, UserStep PROVE Inv'
  OBVIOUS
<1>1. CASE OpenImage \/ CloseImage
  BY <1>1, OpenImageStep, CloseImageStep
<1>2. CASE (\E node \in DOMAIN tree : SelectNode(node)) \/ SelectNoNode
  BY <1>2, SelectNodeStep, SelectNoNodeStep
<1>3. CASE JumpToArtifact \/ JumpToParent \/ SelectFile
  BY <1>3, JumpStep, SelectFileStep
<1>4. CASE ScanArtifacts \/ SelectArtifact \/ SelectNoArtifact \/ AnalyzeArtifacts
  BY <1>4, ScanArtifactsStep, SelectArtifactStep, SelectNoArtifactStep, AnalyzeArtifactsStep
<1>5. CASE ExtractFiles \/ ExtractArtifact
  BY <1>5, ExtractStep
<1> QED
  BY <1>1, <1>2, <1>3, <1>4, <1>5 DEF UserStep

LEMMA DialogInv == Inv /\ (Choose \/ BoxRead) => Inv'
<1> SUFFICES ASSUME Inv, Choose \/ BoxRead PROVE Inv'
  OBVIOUS
<1>1. CASE ChooseNoImage
  BY <1>1, OnlyDismissed DEF ChooseNoImage
<1>2. CASE ChooseNoDestination
  BY <1>2, OnlyDismissed DEF ChooseNoDestination
<1>3. CASE NoticeRead
  BY <1>3, OnlyDismissed DEF NoticeRead
<1>4. CASE (\E path \in Images : ChooseImage(path)) \/ ChooseDestination
  BY <1>4, ChooseImageStep, ChooseDestinationStep
<1>5. CASE PartitionScanFailedRead \/ DirectoryListFailedRead
  BY <1>5, PartitionScanFailedReadStep, DirectoryListFailedReadStep
<1>6. CASE NotWindowsRead \/ ArtifactScanFailedRead \/ AnalysisFailedRead
  BY <1>6, NotWindowsReadStep, ArtifactScanFailedReadStep, AnalysisFailedReadStep
<1> QED
  BY <1>1, <1>2, <1>3, <1>4, <1>5, <1>6 DEF Choose, BoxRead

LEMMA TaskInv ==
  ASSUME Inv, NEW i \in Slots, Task(i)
  PROVE  Inv'
<1>1. CASE WorkImageOpen(i) \/ ImageOpened(i) \/ ImageOpenFailed(i)
  BY <1>1, WorkImageOpenStep, ImageOpenedStep, ImageOpenFailedStep
<1>2. CASE WorkPartitionScan(i) \/ PartitionsListed(i) \/ PartitionScanFailed(i)
  BY <1>2, WorkPartitionScanStep, PartitionsListedStep, PartitionScanFailedStep
<1>3. CASE DirectoryListed(i) \/ DirectoryListFailed(i)
  BY <1>3, DirectoryListedStep, DirectoryListFailedStep
<1>4. CASE ArtifactsScanned(i) \/ ArtifactScanFailed(i)
  BY <1>4, ArtifactsScannedStep, ArtifactScanFailedStep
<1>5. CASE DetailAnswered(i) \/ AnalysisAnswered(i) \/ Extracted(i)
  BY <1>5, DetailAnsweredStep, AnalysisAnsweredStep, ExtractedStep
<1> QED
  BY <1>1, <1>2, <1>3, <1>4, <1>5 DEF Task

LEMMA StutterInv == Inv /\ UNCHANGED vars => Inv'
<1> SUFFICES ASSUME Inv, UNCHANGED vars PROVE Inv'
  OBVIOUS
<1>1. UNCHANGED <<heap, image, evidence, browser, session, triage, busy, catalog, tasks, modal>>
  BY DEF vars
<1>2. EvidenceTyped' /\ BrowserTyped' /\ TriageTyped' /\ SessionTyped' /\ CacheOwned'
  BY <1>1, EvidenceKept, BrowserKept, TriageKept, SessionStays DEF Inv
<1>3. HeapTyped' /\ Alive' /\ TasksSound' /\ HandleLive' /\ HandlersSound'
  BY <1>1, HeapKept, HandleKept, HandlersKept DEF Inv
<1> QED
  BY <1>2, <1>3 DEF Inv

LEMMA NextInv == Inv /\ [Next]_vars => Inv'
BY UserInv, DialogInv, TaskInv, StutterInv DEF Next

(* The inductive invariant of the session.                                 *)
LEMMA SessionInv == Spec => []Inv
<1>1. Init => Inv
  BY InitInv
<1>2. Inv /\ [Next]_vars => Inv'
  BY NextInv
<1> QED
  BY <1>1, <1>2, PTL DEF Spec
-----------------------------------------------------------------------------
(* What follows from it. *)

LEMMA InvTypes == Inv => TypeOK
<1> SUFFICES ASSUME Inv PROVE TypeOK
  OBVIOUS
<1>1. heap \in [Adapters -> [path : Images \union {None}, reader : BOOLEAN, open : BOOLEAN]]
  BY DEF Inv, HeapTyped
<1>2. /\ image \in Adapters \union {0}
      /\ imageInfo \in Images \union {None} /\ partitions \in Images \union {None}
      /\ selected \in -1 .. Len(Numbers)
  BY DEF Inv, EvidenceTyped
<1>3. /\ DOMAIN tree \subseteq Nodes
      /\ \A n \in DOMAIN tree : tree[n].loaded \in BOOLEAN /\ tree[n].index \in Int
      /\ treeSel \in DOMAIN tree \union {None}
      /\ files \in Sources \union {None} /\ pending \in BOOLEAN
  BY DEF Inv, BrowserTyped
<1>4. /\ artifacts \in Sources \union {None}
      /\ row \in BOOLEAN /\ (row => artifacts # None)
      /\ panel.state \in {"other", "loading", "details"} /\ panel.key \in Keys \union {None}
  BY DEF Inv, TriageTyped
<1>5. /\ \A d \in Details : d.disk \in Images /\ d.part \in Parts /\ d.via \in {"demand", "analysis"}
  BY DEF Details
<1>6. /\ DOMAIN cache \subseteq Keys
      /\ \A k \in DOMAIN cache : cache[k].disk \in Images /\ cache[k].part \in Parts
                                   /\ cache[k].via \in {"demand", "analysis"}
      /\ timeline = None \/ timeline.disk \in Images
  BY <1>5 DEF Inv, SessionTyped
<1>7. /\ detailId \in 0 .. 1 /\ detailKey \in Keys \union {None}
      /\ runId \in 0 .. MaxRuns /\ runContext \in Keys \union {None}
      /\ detailId = 0 <=> detailKey = None
      /\ runId = 0 <=> runContext = None
  BY DEF Inv, SessionTyped
<1>8. stop \in BOOLEAN /\ handle \in Slots \union {0}
  BY DEF Inv, HandleLive
<1>9. tasks \in [Slots -> TaskRecords]
  BY DEF Inv, TasksSound
<1> QED
  BY <1>1, <1>2, <1>3, <1>4, <1>6, <1>7, <1>8, <1>9 DEF TypeOK

(* Every variable of the window stays in its type, and no request or run   *)
(* id outlives the key its completion is compared with.                    *)
THEOREM SessionTypeOK == Spec => []TypeOK
BY SessionInv, InvTypes, PTL

(* The Stop button never refers to a worker that has answered, however     *)
(* many run and in whatever order they complete (setBusy).                 *)
THEOREM SessionStopButtonLive == Spec => []StopButtonLive
<1>1. Inv => StopButtonLive
  BY DEF Inv, HandleLive, StopButtonLive, NoTask
<1> QED
  BY <1>1, SessionInv, PTL

(* Details of an analysis are never shown beside another partition         *)
(* (shouldApplyAnalysisResult, and what clears the cache).                 *)
THEOREM SessionAnalysisStaysWithItsPartition == Spec => []AnalysisStaysWithItsPartition
<1>1. Inv => AnalysisStaysWithItsPartition
  <2> SUFFICES ASSUME Inv, NEW k \in DOMAIN cache, cache[k].via = "analysis"
               PROVE  Context \in {None, cache[k].part.number}
    BY DEF AnalysisStaysWithItsPartition
  <2>1. CASE InRange(selected)
    <3>1. selected \in 0 .. Len(Numbers) - 1
      BY <2>1, PartAtIndex DEF Inv, EvidenceTyped
    <3> QED
      BY <2>1, <3>1 DEF Context, Inv, CacheOwned
  <2>2. CASE ~InRange(selected)
    BY <2>2 DEF Context
  <2> QED
    BY <2>1, <2>2
<1> QED
  BY <1>1, SessionInv, PTL
-----------------------------------------------------------------------------
(* What a step does to the panel and to the timeline. *)

(* Most steps leave the panel, or take the details off it.                 *)
LEMMA PanelOtherwise ==
  ASSUME Next, ~SelectArtifact, \A i \in Slots : ~DetailAnswered(i)
  PROVE  panel' \in {panel, Other}
<1>1. CASE UserStep
  BY <1>1 DEF UserStep, OpenImage, CloseImage, SelectNode, SelectNoNode, JumpToArtifact,
       JumpToParent, LoadDirectory, SelectFile, TouchArtifactRow, ScanArtifacts, SelectNoArtifact,
       AnalyzeArtifacts, ExtractFiles, ExtractArtifact, triage
<1>2. CASE Choose \/ BoxRead
  BY <1>2 DEF Choose, ChooseNoImage, ChooseImage, ChooseDestination, ChooseNoDestination,
       StartExtraction, BoxRead, NoticeRead, PartitionScanFailedRead, DirectoryListFailedRead,
       FilesTab, NotWindowsRead, ArtifactScanFailedRead, ArtifactTab, AnalysisFailedRead, triage
<1>3. CASE \E i \in Slots : Task(i)
  <2>1. PICK i \in Slots : Task(i)
    BY <1>3
  <2>2. CASE WorkImageOpen(i) \/ ImageOpened(i) \/ ImageOpenFailed(i)
    BY <2>2 DEF WorkImageOpen, ImageOpened, ImageOpenFailed, triage
  <2>3. CASE WorkPartitionScan(i) \/ PartitionsListed(i) \/ PartitionScanFailed(i)
    BY <2>3 DEF WorkPartitionScan, PartitionsListed, PartitionScanFailed, triage
  <2>4. CASE DirectoryListed(i) \/ DirectoryListFailed(i)
    BY <2>4 DEF DirectoryListed, DirectoryListFailed, TouchArtifactRow, FilesTab, triage
  <2>5. CASE ArtifactsScanned(i) \/ ArtifactScanFailed(i)
    BY <2>5 DEF ArtifactsScanned, ArtifactScanFailed, ArtifactTab, triage
  <2>6. CASE AnalysisAnswered(i) \/ Extracted(i)
    BY <2>6 DEF AnalysisAnswered, Extracted, triage
  <2> QED
    BY <2>1, <2>2, <2>3, <2>4, <2>5, <2>6 DEF Task
<1> QED
  BY <1>1, <1>2, <1>3 DEF Next

(* One step of DetailsShownAreTheRows.                                     *)
RowsDetails ==
  panel' # panel /\ panel'.state = "details" =>
    /\ row' /\ panel'.key = artifacts'.part.number
    /\ panel'.key \in DOMAIN cache'
    /\ cache'[panel'.key].via = "demand" => cache'[panel'.key].part.number = panel'.key

LEMMA DetailsStep == Inv /\ [Next]_vars => RowsDetails
<1> SUFFICES ASSUME Inv, [Next]_vars, panel' # panel, panel'.state = "details"
             PROVE  /\ row' /\ panel'.key = artifacts'.part.number
                    /\ panel'.key \in DOMAIN cache'
                    /\ cache'[panel'.key].via = "demand" => cache'[panel'.key].part.number = panel'.key
  BY DEF RowsDetails
<1>1. CASE SelectArtifact
  <2> DEFINE key == artifacts.part.number
  <2>1. row' = TRUE /\ artifacts' = artifacts /\ cache' = cache
    BY <1>1 DEF SelectArtifact
  <2>2. \/ key \in DOMAIN cache /\ panel' = [state |-> "details", key |-> key]
        \/ panel' = [state |-> "loading", key |-> key]
    BY <1>1 DEF SelectArtifact
  <2>3. key \in DOMAIN cache /\ panel'.key = key
    BY <2>2
  <2>4. cache[key].via = "demand" => cache[key].part.number = key
    BY <2>3 DEF Inv, CacheOwned
  <2> QED
    BY <2>1, <2>3, <2>4
<1>2. CASE \E i \in Slots : DetailAnswered(i)
  <2>1. PICK i \in Slots : DetailAnswered(i)
    BY <1>2
  <2> DEFINE t == tasks[i]
             key == t.part.number
             source == Source(t.adapter, t.part)
  <2>2. /\ ApplyDetail(t.id, key) /\ cache' = Put(key, source, "demand")
        /\ panel' = [state |-> "details", key |-> RowKey]
        /\ UNCHANGED <<artifacts, row>> /\ t.kind = "ArtifactDetail"
    BY <2>1 DEF DetailAnswered
  <2>3. t.part \in Parts
    BY <2>2, TaskFacts DEF Inv, TasksSound
  <2>4. key = RowKey /\ key # None
    BY <2>2, <2>3, KeyOfPart, KeysAreNumbers DEF ApplyDetail
  <2>5. row /\ key = artifacts.part.number
    BY <2>4 DEF RowKey
  <2>6. key \in DOMAIN cache' /\ cache'[key].part.number = key
    <3>1. source.part = t.part
      BY DEF Source
    <3>2. key \in DOMAIN cache' /\ cache'[key].part = source.part
      BY <2>2 DEF Put
    <3> QED
      BY <3>1, <3>2
  <2>7. panel'.key = key
    BY <2>2, <2>4
  <2> QED
    BY <2>2, <2>5, <2>6, <2>7
<1>3. CASE Next /\ ~SelectArtifact /\ \A i \in Slots : ~DetailAnswered(i)
  BY <1>3, PanelOtherwise, OtherTyped
<1>4. CASE UNCHANGED vars
  BY <1>4 DEF vars, triage
<1> QED
  BY <1>1, <1>2, <1>3, <1>4

(* Details come on the panel for the selected row only, and those loaded   *)
(* on demand were read from its partition (shouldApplyArtifactDetailResult *)
(* against rows, tabs and partitions that change meanwhile).               *)
THEOREM SessionDetailsShownAreTheRows == Spec => DetailsShownAreTheRows
<1>1. Inv /\ [Next]_vars => [RowsDetails]_vars
  BY DetailsStep
<1>2. Spec => [][RowsDetails]_vars
  BY <1>1, SessionInv, PTL DEF Spec
<1> QED
  BY <1>2 DEF DetailsShownAreTheRows, RowsDetails

(* One step of TimelineFollows.                                            *)
TimelineIsNew ==
  image' # 0 /\ (artifacts' # artifacts \/ cache' # cache) =>
    timeline' = Events(artifacts', cache')

LEMMA NoEvents ==
  ASSUME NEW rows
  PROVE  Events(rows, NoDetail) = None
BY DEF Events, NoDetail

LEMMA SwitchEmptiesTimeline ==
  ASSUME ContextSwitch
  PROVE  TimelineIsNew
BY NoEvents DEF ContextSwitch, TimelineIsNew

LEMMA ClearFollows ==
  ASSUME ClearTree, artifacts' = artifacts
  PROVE  TimelineIsNew
BY SwitchEmptiesTimeline DEF ClearTree, TimelineIsNew, session

LEMMA TimelineStep == [Next]_vars => TimelineIsNew
<1> SUFFICES ASSUME [Next]_vars PROVE TimelineIsNew
  OBVIOUS
<1>1. CASE OpenImage \/ (\E node \in DOMAIN tree : SelectNode(node)) \/ SelectNoNode \/ ScanArtifacts
  BY <1>1, SwitchEmptiesTimeline DEF OpenImage, SelectNode, SelectNoNode, ScanArtifacts
<1>2. CASE CloseImage
  BY <1>2 DEF CloseImage, TimelineIsNew
<1>3. CASE PartitionScanFailedRead \/ \E i \in Slots : PartitionsListed(i)
  BY <1>3, ClearFollows DEF PartitionScanFailedRead, PartitionsListed, ShowPartitions, triage
<1>4. CASE NotWindowsRead \/ ArtifactScanFailedRead \/ \E i \in Slots : ArtifactsScanned(i)
  BY <1>4 DEF NotWindowsRead, ArtifactScanFailedRead, ArtifactsScanned, ShowArtifacts, TimelineIsNew
<1>5. CASE AnalysisFailedRead
  BY <1>5 DEF AnalysisFailedRead, FinishAnalysis, RebuildTimeline, TimelineIsNew, triage
<1>6. CASE \E i \in Slots : DetailAnswered(i) \/ AnalysisAnswered(i)
  BY <1>6 DEF DetailAnswered, AnalysisAnswered, FinishAnalysis, RebuildTimeline, TimelineIsNew, triage
<1>7. CASE JumpToArtifact \/ JumpToParent \/ SelectFile \/ SelectArtifact \/ SelectNoArtifact
           \/ AnalyzeArtifacts \/ ExtractFiles \/ ExtractArtifact
  <2>1. UNCHANGED <<artifacts, cache>>
    BY <1>7 DEF JumpToArtifact, JumpToParent, LoadDirectory, SelectFile, SelectArtifact,
         SelectNoArtifact, AnalyzeArtifacts, ExtractFiles, ExtractArtifact, session, triage
  <2> QED
    BY <2>1 DEF TimelineIsNew
<1>8. CASE Choose \/ NoticeRead \/ DirectoryListFailedRead
  <2>1. UNCHANGED <<artifacts, cache>>
    BY <1>8 DEF Choose, ChooseNoImage, ChooseImage, ChooseDestination, ChooseNoDestination,
         StartExtraction, NoticeRead, DirectoryListFailedRead, session, triage
  <2> QED
    BY <2>1 DEF TimelineIsNew
<1>9. CASE \E i \in Slots :
             \/ WorkImageOpen(i) \/ ImageOpened(i) \/ ImageOpenFailed(i)
             \/ WorkPartitionScan(i) \/ PartitionScanFailed(i)
             \/ DirectoryListed(i) \/ DirectoryListFailed(i)
             \/ ArtifactScanFailed(i) \/ Extracted(i)
  <2>1. UNCHANGED <<artifacts, cache>>
    BY <1>9 DEF WorkImageOpen, ImageOpened, ImageOpenFailed, WorkPartitionScan,
         PartitionScanFailed, DirectoryListed, DirectoryListFailed, ArtifactScanFailed, Extracted,
         session, triage
  <2> QED
    BY <2>1 DEF TimelineIsNew
<1>10. CASE UNCHANGED vars
  BY <1>10 DEF vars, session, triage, TimelineIsNew
<1> QED
  BY <1>1, <1>2, <1>3, <1>4, <1>5, <1>6, <1>7, <1>8, <1>9, <1>10 DEF Next, UserStep, BoxRead, Task

(* While an image is open, no step changes the rows or the cached details  *)
(* and leaves the timeline of the old ones.                                *)
THEOREM SessionTimelineFollows == Spec => TimelineFollows
<1>1. [Next]_vars => [TimelineIsNew]_vars
  BY TimelineStep
<1>2. Spec => [][TimelineIsNew]_vars
  BY <1>1, PTL DEF Spec
<1> QED
  BY <1>2 DEF TimelineFollows, TimelineIsNew
=============================================================================
