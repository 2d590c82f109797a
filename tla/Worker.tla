-------------------------------- MODULE Worker --------------------------------
(***************************************************************************)
(* One background worker (workers/ForensicsWorkers, ExtractionWorker) on   *)
(* its own QThread: process() with its checkpoints and early returns, the  *)
(* operation result it completes with (WorkerOutcomePolicy,                *)
(* ForensicOperationResultUtils), the opening of the TSK image adapter,    *)
(* and the way a cancellation request and the completion travel between    *)
(* the GUI thread and the worker's.                                        *)
(*                                                                         *)
(* process() is a sequence of stages.  What a stage does to the evidence   *)
(* is abstracted to whether it failed and whether it left a warning.       *)
(***************************************************************************)
EXTENDS Integers, Sequences

CONSTANTS
  Kinds,         \* the worker kinds of this instance
  MaxArtifacts,  \* bound: rows a full analysis goes through
  Deliveries     \* the ways requestCancel reaches a worker, see RequestCancel

AllKinds == {"ImageOpen", "PartitionScan", "DirectoryList", "ArtifactScan",
             "ArtifactDetail", "ArtifactAnalysis", "Extraction"}

ASSUME WorkerAssumption ==
  /\ Kinds \subseteq AllKinds
  /\ MaxArtifacts \in Nat
  /\ Deliveries \subseteq {"direct", "queued"}

VARIABLES
  kind,      \* which worker this is
  delivery,  \* how its owner sends requestCancel
  fallback,  \* TskImageHandleAdapter::m_allowPathFallback
  adapter,   \* the adapter: "missing", "closed", or the backend it is open with
  thread,    \* "idle", "running" process(), "looping" in exec(), "finished"
  stage,     \* index of the next stage of process()
  error,     \* the call just made left an error
  warned,    \* a warning is to be reported
  left,      \* artifacts a full analysis has still to look at
  token,     \* CancellationToken::m_cancelled
  mail,      \* a requestCancel event waits in the worker's queue
  emitted,   \* the operation results completed() was emitted with
  quit,      \* the GUI handled the completion and called thread->quit()
  asked      \* history: the stage process() was at when cancel was asked for, or 0

work   == <<stage, error, warned, left>>
vars   == <<kind, delivery, fallback, adapter, thread, work, token, mail, emitted, quit, asked>>

-----------------------------------------------------------------------------
(* The stages of each process(), in the order of the code. *)
ImageOpenStages     == <<"check", "reader", "check", "answer">>
PartitionScanStages ==
  <<"given", "check", "adapter", "check", "enumerate", "check", "answer">>

(* Fault: no check between the listing and the answer. *)
DirectoryListUnchecked ==
  <<"check", "open", "filesystem", "check", "list", "answer">>

DirectoryListStages ==
  <<"check", "open", "filesystem", "check", "list", "check", "answer">>
ArtifactScanStages     == <<"check", "open", "filesystem", "discover", "check", "answer">>
ArtifactDetailStages   == <<"check", "open", "describe", "check", "answer">>
ArtifactAnalysisStages == <<"check", "open", "filesystem", "artifacts", "answer">>
ExtractionStages       == <<"check", "open", "filesystem", "extract", "check", "answer">>

Stages ==
  CASE kind = "ImageOpen"        -> ImageOpenStages
    [] kind = "PartitionScan"    -> PartitionScanStages
    [] kind = "DirectoryList"    -> DirectoryListStages
    [] kind = "ArtifactScan"     -> ArtifactScanStages
    [] kind = "ArtifactDetail"   -> ArtifactDetailStages
    [] kind = "ArtifactAnalysis" -> ArtifactAnalysisStages
    [] kind = "Extraction"       -> ExtractionStages

Backends == {"ReaderBridge", "PathFallback"}
IsOpen   == adapter \in Backends

(* Artifact scans and analyses report trouble as warnings; a detail parse  *)
(* that fails is a warning too.  Opening, enumerating, listing and         *)
(* extracting report an error.                                             *)
ErrorStages   == {"reader", "enumerate", "list", "extract"}
WarningStages == {"reader", "list", "discover", "describe", "extract"}

Result(state, reason, backend, payload) ==
  [state |-> state, reason |-> reason, backend |-> backend, payload |-> payload]

BackendFromOpenAdapter == IF IsOpen THEN adapter ELSE "Unknown"

(* Fault: the preferred backend is named before it is known to be open. *)
KnownBackendPreferred ==
  IF kind = "ImageOpen" THEN "NotApplicable" ELSE IF IsOpen THEN adapter ELSE "ReaderBridge"

(* The backend a result names: none for the image reader, and none before  *)
(* an adapter is known to be open.                                         *)
KnownBackend ==
  IF kind = "ImageOpen" \/ stage <= (IF kind = "PartitionScan" THEN 3 ELSE 2)
    THEN "NotApplicable" ELSE BackendFromOpenAdapter

Cancelled       == Result("Failure", "cancelled", KnownBackend, "none")
Failed(reason, backend) == Result("Failure", reason, backend, "none")

(* Fault: a listing error is forgotten when there are entries to show. *)
ResolveShowingPart ==
  IF warned THEN Result("SuccessWithWarning", "done", KnownBackend, "full")
            ELSE Result("Success", "done", KnownBackend, "full")

(* The answer once the last check is passed: an error wins over warnings,  *)
(* and only a success carries a payload.                                   *)
Resolve ==
  IF error THEN Failed("failed", KnownBackend)
  ELSE IF warned THEN Result("SuccessWithWarning", "done", KnownBackend, "full")
  ELSE Result("Success", "done", KnownBackend, "full")
-----------------------------------------------------------------------------
Init ==
  /\ kind \in Kinds /\ delivery \in Deliveries
  /\ fallback \in BOOLEAN
  /\ adapter \in {"missing", "closed"} \union Backends
  /\ (adapter = "PathFallback") => fallback
  /\ thread = "idle"
  /\ stage = 1 /\ error = FALSE /\ warned = FALSE
  /\ left \in IF kind = "ArtifactAnalysis" THEN 1 .. MaxArtifacts ELSE {0}
  /\ token = FALSE /\ mail = FALSE
  /\ emitted = <<>> /\ quit = FALSE /\ asked = 0

StartThread ==
  /\ thread = "idle"
  /\ thread' = "running"
  /\ UNCHANGED <<kind, delivery, fallback, adapter, work, token, mail, emitted, quit, asked>>

(* Fault: the function goes on behind an emit. *)
EmitWithoutReturn(r) ==
  emitted' = Append(emitted, r) /\ stage' = stage + 1 /\ UNCHANGED <<thread, error, warned, left>>

(* The result is emitted and process() returns to the thread's event loop. *)
Emit(r) ==
  emitted' = Append(emitted, r) /\ thread' = "looping" /\ UNCHANGED work

Continue == stage' = stage + 1 /\ UNCHANGED <<thread, emitted>>

At(names) ==
  /\ thread = "running"
  /\ stage <= Len(Stages) /\ Stages[stage] \in names
  /\ UNCHANGED <<kind, delivery, fallback, token, mail, quit, asked>>

Check ==
  /\ At({"check"})
  /\ IF token THEN Emit(Cancelled) ELSE Continue /\ UNCHANGED <<error, warned, left>>
  /\ UNCHANGED adapter

(* A missing adapter, or one that is not open, ends the task at once. *)
NeedAdapter ==
  /\ At({"given", "open"})
  /\ IF adapter = "missing" \/ (Stages[stage] = "open" /\ ~IsOpen)
       THEN Emit(Failed(IF Stages[stage] = "given" THEN "missing_adapter" ELSE "image_not_open",
                        "NotApplicable"))
       ELSE Continue /\ UNCHANGED <<error, warned, left>>
  /\ UNCHANGED adapter

(* A successful fallback keeps the bridge's message as a warning. *)
WarnOfFallback == adapter' = "PathFallback"

(* TskImageHandleAdapter::open: close, then the reader-backed bridge, then *)
(* - only if allowed - TSK's own path-based image.                         *)
OpenAdapter ==
  /\ At({"adapter"})
  /\ \/ adapter' = "ReaderBridge"
     \/ fallback /\ adapter' = "PathFallback"
     \/ adapter' = "closed"
  /\ IF adapter' = "closed"
       THEN Emit(Failed("tsk_image_open_failed",
                        IF fallback THEN "Unknown" ELSE "ReaderBridge"))
       ELSE /\ Continue
            /\ warned' = WarnOfFallback
            /\ UNCHANGED <<error, left>>

OpenFileSystem ==
  /\ At({"filesystem"})
  /\ \/ Emit(Failed("filesystem_open_failed", BackendFromOpenAdapter))
     \/ Continue /\ UNCHANGED <<error, warned, left>>
  /\ UNCHANGED adapter

(* The long call: it leaves an error or a warning behind, or neither. *)
LongCall ==
  /\ At(ErrorStages \union WarningStages)
  /\ Continue
  /\ error' \in IF Stages[stage] \in ErrorStages THEN BOOLEAN ELSE {FALSE}
  /\ warned' \in IF Stages[stage] \in WarningStages THEN BOOLEAN ELSE {warned}
  /\ UNCHANGED <<adapter, left>>

(* One turn of the full analysis: the token is looked at before each row,  *)
(* and not behind the last.                                                *)
AnalyzeRow ==
  /\ At({"artifacts"})
  /\ \/ /\ left = 0
        /\ Continue
        /\ UNCHANGED <<error, warned, left>>
     \/ left > 0 /\ token /\ Emit(Cancelled)
     \/ /\ left > 0 /\ ~token
        /\ left' = left - 1
        /\ warned' \in {warned, TRUE}
        /\ UNCHANGED <<thread, stage, error, emitted>>
  /\ UNCHANGED adapter

AnswerTask ==
  /\ At({"answer"})
  /\ Emit(Resolve)
  /\ UNCHANGED adapter

Process ==
  Check \/ NeedAdapter \/ OpenAdapter \/ OpenFileSystem \/ LongCall \/ AnalyzeRow \/ AnswerTask

(* requestCancel.  "direct" is a call on the object, the way the worker    *)
(* tests cancel.  "queued" is MainWindow's way: a queued invocation, which *)
(* the worker's thread takes up in its event loop only.                    *)
RequestCancel ==
  /\ thread # "finished" /\ asked = 0
  /\ asked' = stage
  /\ IF delivery = "direct" THEN token' = TRUE /\ UNCHANGED mail
                            ELSE mail' = TRUE /\ UNCHANGED token
  /\ UNCHANGED <<kind, delivery, fallback, adapter, thread, work, emitted, quit>>

(* Fault: process() lets waiting events in. *)
HandleMailAnyTime ==
  /\ thread \in {"running", "looping"} /\ mail
  /\ token' = TRUE /\ mail' = FALSE
  /\ UNCHANGED <<kind, delivery, fallback, adapter, thread, work, emitted, quit, asked>>

HandleMail ==
  /\ thread = "looping" /\ mail
  /\ token' = TRUE /\ mail' = FALSE
  /\ UNCHANGED <<kind, delivery, fallback, adapter, thread, work, emitted, quit, asked>>

(* Fault: the early return of a suppressed result skips thread->quit(). *)
QuitUnlessCancelled == quit' = (emitted[1].reason # "cancelled")

QuitThread == quit' = TRUE

(* The completion reaches the GUI thread, whose handlers all quit the      *)
(* thread on every way out.                                                *)
Deliver ==
  /\ emitted # <<>> /\ ~quit
  /\ QuitThread
  /\ UNCHANGED <<kind, delivery, fallback, adapter, thread, work, token, mail, emitted, asked>>

(* exec() returns; finished() deletes worker and thread. *)
FinishThread ==
  /\ thread = "looping" /\ quit
  /\ thread' = "finished" /\ mail' = FALSE
  /\ UNCHANGED <<kind, delivery, fallback, adapter, work, token, emitted, quit, asked>>

Next ==
  \/ StartThread
  \/ Process
  \/ RequestCancel
  \/ HandleMail
  \/ Deliver
  \/ FinishThread

(* A started thread runs, and the GUI's event loop turns. *)
Spec == Init /\ [][Next]_vars /\ WF_vars(Process) /\ WF_vars(Deliver) /\ WF_vars(FinishThread)
-----------------------------------------------------------------------------
Results ==
  [state : {"Success", "SuccessWithWarning", "Failure"},
   reason : {"done", "failed", "cancelled", "missing_adapter", "image_not_open",
             "tsk_image_open_failed", "filesystem_open_failed"},
   backend : Backends \union {"Unknown", "NotApplicable"},
   payload : {"none", "full"}]

(* Every variable stays in its type. *)
TypeOK ==
  /\ kind \in Kinds /\ delivery \in Deliveries /\ fallback \in BOOLEAN
  /\ adapter \in {"missing", "closed"} \union Backends
  /\ thread \in {"idle", "running", "looping", "finished"}
  /\ stage \in 1 .. Len(Stages)
  /\ error \in BOOLEAN /\ warned \in BOOLEAN
  /\ left \in 0 .. MaxArtifacts
  /\ token \in BOOLEAN /\ mail \in BOOLEAN /\ quit \in BOOLEAN
  /\ emitted \in Seq(Results)
  /\ asked \in 0 .. 7

Answered == emitted # <<>>

(* process() completes exactly once, whichever of its returns it takes:    *)
(* never twice, and never without a result (each emit is followed by a     *)
(* return in ForensicsWorkers.cpp).                                        *)
CompletesOnce == Len(emitted) = IF thread \in {"looping", "finished"} THEN 1 ELSE 0

(* Every task but the analysis looks at its token right before it answers; *)
(* the analysis does before each row, and has at least one.                *)
AskedInTime ==
  asked # 0 /\ asked < (IF kind = "ArtifactAnalysis" THEN 4 ELSE Len(Stages))

Stopped == \A i \in 1 .. Len(emitted) : emitted[i].state = "Failure" /\ emitted[i].payload = "none"

(* A task that is asked directly to stop while it still has a checkpoint   *)
(* to pass does not complete as a success and delivers no rows:            *)
(* cancellation is observed and partial payloads are discarded             *)
(* (WorkerOutcomePolicy.cpp).                                              *)
DirectCancelStops == delivery = "direct" /\ AskedInTime => Stopped

(* ARCHITECTURE.md: long-running workers are cancellable via requestCancel *)
(* and cancellation always emits a failure: the same, however the request  *)
(* is sent.                                                                *)
CancelledNeverSucceeds == AskedInTime => Stopped

(* The result is true to what happened: a cancelled result only on a       *)
(* request, a success only without an error, rows only with a success.     *)
OutcomeIsTruthful ==
  \A i \in 1 .. Len(emitted) :
    LET r == emitted[i]
    IN  /\ r.reason = "cancelled" => token
        /\ r.state # "Failure" => ~error
        /\ (r.payload = "full") <=> (r.state # "Failure")

(* A backend is named only when the image is open with it, except that an  *)
(* adapter without a fallback blames the bridge for a failed open; and a   *)
(* result that carries rows read from the image names the backend they     *)
(* came from.  Partitions enumerated through the fallback are never a      *)
(* plain success.                                                          *)
BackendIsTruthful ==
  \A i \in 1 .. Len(emitted) :
    LET r == emitted[i]
    IN  /\ r.backend \in Backends =>
             r.backend = adapter \/ (r.reason = "tsk_image_open_failed" /\ ~fallback)
        /\ r.payload = "full" /\ kind # "ImageOpen" => r.backend = adapter
        /\ kind = "PartitionScan" /\ adapter = "PathFallback" /\ thread = "looping" =>
             r.state # "Success"

(* What MainWindow's queued requests really do: the token of a worker is   *)
(* set only once its result is out, because process() runs before the      *)
(* thread's event loop does.                                               *)
QueuedCancelComesTooLate == delivery = "queued" /\ token => Answered

(* Every started task answers, is delivered and frees its thread. *)
ThreadFinishes == thread = "running" ~> thread = "finished"
=============================================================================
