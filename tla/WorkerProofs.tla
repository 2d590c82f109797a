----------------------------- MODULE WorkerProofs -----------------------------
(* Proofs about Worker, for every set of worker kinds, every number of     *)
(* artifacts and both ways a cancellation request may travel.              *)
EXTENDS Worker, TLAPS

(* What the proofs need of the stage lists: a task ends in its only        *)
(* answer; a check comes right before it, but for the full analysis, which *)
(* has its rows there.                                                     *)
LEMMA StageLists ==
  ASSUME kind \in AllKinds
  PROVE  /\ Len(Stages) \in 4 .. 7
         /\ \A i \in 1 .. Len(Stages) : Stages[i] = "answer" <=> i = Len(Stages)
         /\ kind # "ArtifactAnalysis" =>
              /\ Stages[Len(Stages) - 1] = "check"
              /\ \A i \in 1 .. Len(Stages) : Stages[i] # "artifacts"
         /\ kind = "ArtifactAnalysis" =>
              /\ Len(Stages) = 5
              /\ \A i \in 1 .. Len(Stages) : Stages[i] = "artifacts" <=> i = 4
  <1>2. CASE kind = "ImageOpen"
    BY <1>2 DEF Stages, ImageOpenStages
  <1>3. CASE kind = "PartitionScan"
    BY <1>3 DEF Stages, PartitionScanStages
  <1>4. CASE kind = "DirectoryList"
    BY <1>4 DEF Stages, DirectoryListStages
  <1>5. CASE kind = "ArtifactScan"
    BY <1>5 DEF Stages, ArtifactScanStages
  <1>6. CASE kind = "ArtifactDetail"
    BY <1>6 DEF Stages, ArtifactDetailStages
  <1>7. CASE kind = "ArtifactAnalysis"
    BY <1>7 DEF Stages, ArtifactAnalysisStages
  <1>8. CASE kind = "Extraction"
    BY <1>8 DEF Stages, ExtractionStages
  <1>9. QED
    BY <1>2, <1>3, <1>4, <1>5, <1>6, <1>7, <1>8 DEF AllKinds

LEMMA StageFacts ==
  ASSUME TypeOK
  PROVE  /\ Len(Stages) \in 4 .. 7
         /\ \A i \in 1 .. Len(Stages) : Stages[i] = "answer" <=> i = Len(Stages)
         /\ kind # "ArtifactAnalysis" =>
              /\ Stages[Len(Stages) - 1] = "check"
              /\ \A i \in 1 .. Len(Stages) : Stages[i] # "artifacts"
         /\ kind = "ArtifactAnalysis" =>
              /\ Len(Stages) = 5
              /\ \A i \in 1 .. Len(Stages) : Stages[i] = "artifacts" <=> i = 4
  BY WorkerAssumption, StageLists DEF TypeOK

(* What a worker emits is a result, and true to its token and error. *)
Truthful(r) ==
  /\ r \in Results
  /\ r.reason = "cancelled" => token
  /\ r.state # "Failure" => ~error
  /\ (r.payload = "full") <=> (r.state # "Failure")

LEMMA KnownBackendType ==
  ASSUME TypeOK
  PROVE  /\ KnownBackend \in Backends \union {"Unknown", "NotApplicable"}
         /\ BackendFromOpenAdapter \in Backends \union {"Unknown", "NotApplicable"}
  BY DEF KnownBackend, BackendFromOpenAdapter, IsOpen, Backends

LEMMA FailedIsTruthful ==
  ASSUME TypeOK,
         NEW reason \in {"failed", "missing_adapter", "image_not_open", "tsk_image_open_failed",
                         "filesystem_open_failed"},
         NEW backend \in Backends \union {"Unknown", "NotApplicable"}
  PROVE  Truthful(Failed(reason, backend))
  BY DEF Failed, Result, Truthful, Results

LEMMA CancelledIsTruthful ==
  ASSUME TypeOK, token
  PROVE  Truthful(Cancelled)
  BY KnownBackendType DEF Cancelled, Result, Truthful, Results

LEMMA ResolveIsTruthful ==
  ASSUME TypeOK
  PROVE  Truthful(Resolve)
  <1>1. CASE error
    BY <1>1, KnownBackendType, FailedIsTruthful DEF Resolve
  <1>2. CASE ~error /\ warned
    BY <1>2, KnownBackendType DEF Resolve, Result, Truthful, Results
  <1>3. CASE ~error /\ ~warned
    BY <1>3, KnownBackendType DEF Resolve, Result, Truthful, Results
  <1>4. QED
    BY <1>1, <1>2, <1>3

(* Emitting ends process(). *)
LEMMA EmitEnds ==
  ASSUME TypeOK, CompletesOnce, thread = "running", NEW r, Truthful(r), Emit(r)
  PROVE  /\ emitted = <<>> /\ emitted' = <<r>> /\ emitted' \in Seq(Results)
         /\ thread' = "looping"
         /\ stage' = stage /\ error' = error /\ warned' = warned /\ left' = left
  <1>1. emitted = <<>>
    BY DEF CompletesOnce, TypeOK
  <1>2. emitted' = <<r>>
    BY <1>1 DEF Emit
  <1>3. QED
    BY <1>1, <1>2 DEF Emit, work, Truthful

LEMMA SameStages ==
  ASSUME kind' = kind
  PROVE  Stages' = Stages
  BY DEF Stages, ImageOpenStages, PartitionScanStages, DirectoryListStages, ArtifactScanStages,
         ArtifactDetailStages, ArtifactAnalysisStages, ExtractionStages

(* Going on leads to another stage: the answer is the last one. *)
LEMMA ContinueMoves ==
  ASSUME TypeOK, stage <= Len(Stages), Stages[stage] # "answer", Continue, kind' = kind
  PROVE  /\ stage' = stage + 1 /\ stage' \in 1 .. Len(Stages)
         /\ Stages' = Stages
         /\ thread' = thread /\ emitted' = emitted
  BY StageFacts, SameStages DEF Continue, TypeOK

-----------------------------------------------------------------------------
(* One completion, with a result true to the task. *)

Outcomes ==
  /\ TypeOK
  /\ CompletesOnce
  /\ \A i \in 1 .. Len(emitted) : Truthful(emitted[i])

(* What a step of process() leaves alone, or sets within its type. *)
ProcessFrame ==
  /\ kind' = kind /\ delivery' = delivery /\ fallback' = fallback /\ token' = token /\ mail' = mail
  /\ quit' = quit /\ asked' = asked
  /\ adapter' \in {"missing", "closed"} \union Backends
  /\ warned' \in BOOLEAN /\ error' \in BOOLEAN /\ left' \in 0 .. MaxArtifacts

LEMMA ContinueKeepsOutcomes ==
  ASSUME Outcomes, thread = "running", stage <= Len(Stages), Stages[stage] # "answer",
         Continue, ProcessFrame
  PROVE  Outcomes'
  <1>1. TypeOK'
    BY ContinueMoves, SameStages DEF Outcomes, TypeOK, ProcessFrame
  <1>2. emitted = <<>> /\ emitted' = emitted /\ thread' = thread
    BY ContinueMoves DEF Outcomes, CompletesOnce, TypeOK, ProcessFrame
  <1>3. QED
    BY <1>1, <1>2 DEF Outcomes, CompletesOnce

LEMMA EmitKeepsOutcomes ==
  ASSUME Outcomes, thread = "running", NEW r, Truthful(r), Emit(r), ProcessFrame
  PROVE  Outcomes'
  <1>1. /\ emitted' = <<r>> /\ emitted' \in Seq(Results) /\ thread' = "looping"
        /\ stage' = stage /\ error' = error
    BY EmitEnds DEF Outcomes
  <1>2. TypeOK'
    BY <1>1, SameStages DEF Outcomes, TypeOK, ProcessFrame
  <1>3. CompletesOnce'
    BY <1>1 DEF CompletesOnce
  <1>4. Truthful(r)'
    BY <1>1 DEF Truthful, ProcessFrame
  <1>5. QED
    BY <1>1, <1>2, <1>3, <1>4 DEF Outcomes

(* A step of process() passes a stage, looks at one row, or completes with *)
(* a truthful result, a success only at the answer.                        *)
Passes ==
  /\ Stages[stage] # "answer" /\ Continue /\ left' = left
  /\ Stages[stage] = "check" => ~token
  /\ Stages[stage] = "artifacts" => left = 0

Completes ==
  \E r : Truthful(r) /\ Emit(r) /\ (r.state # "Failure" => Stages[stage] = "answer")

LooksAtRow ==
  /\ Stages[stage] = "artifacts" /\ ~token /\ left > 0 /\ left' = left - 1
  /\ UNCHANGED <<thread, stage, error, emitted>>

LEMMA ProcessStep ==
  ASSUME Outcomes, Process
  PROVE  /\ thread = "running" /\ stage <= Len(Stages)
         /\ ProcessFrame
         /\ Passes \/ Completes \/ LooksAtRow
  <1> USE DEF Outcomes
  <1>1. CASE Check
    <2>1. CASE token
      <3>1. Truthful(Cancelled) /\ Cancelled.state = "Failure"
        BY <2>1, CancelledIsTruthful DEF Cancelled, Result
      <3>2. QED
        BY <1>1, <2>1, <3>1 DEF Check, At, Completes, ProcessFrame, Emit, work, TypeOK
    <2>2. CASE ~token
      BY <1>1, <2>2 DEF Check, At, Passes, ProcessFrame, Continue, TypeOK
    <2>3. QED
      BY <2>1, <2>2
  <1>2. CASE NeedAdapter
    <2> DEFINE r == Failed(IF Stages[stage] = "given" THEN "missing_adapter" ELSE "image_not_open",
                           "NotApplicable")
    <2>1. Truthful(r) /\ r.state = "Failure"
      BY FailedIsTruthful DEF Failed, Result
    <2> HIDE DEF r
    <2>2. CASE Emit(r)
      BY <1>2, <2>1, <2>2 DEF NeedAdapter, At, Completes, ProcessFrame, Emit, work, TypeOK
    <2>3. CASE Continue /\ UNCHANGED <<error, warned, left>>
      BY <1>2, <2>3 DEF NeedAdapter, At, Passes, ProcessFrame, Continue, TypeOK
    <2>4. QED
      BY <1>2, <2>2, <2>3 DEF NeedAdapter, r
  <1>3. CASE OpenAdapter
    <2> DEFINE r == Failed("tsk_image_open_failed", IF fallback THEN "Unknown" ELSE "ReaderBridge")
    <2>1. Truthful(r) /\ r.state = "Failure"
      BY FailedIsTruthful DEF Failed, Result, Backends
    <2> HIDE DEF r
    <2>2. adapter' \in {"missing", "closed"} \union Backends
      BY <1>3 DEF OpenAdapter, Backends
    <2>3. CASE Emit(r)
      BY <1>3, <2>1, <2>2, <2>3 DEF OpenAdapter, At, Completes, ProcessFrame, Emit, work, TypeOK
    <2>4. CASE Continue /\ warned' = WarnOfFallback /\ UNCHANGED <<error, left>>
      BY <1>3, <2>2, <2>4
      DEF OpenAdapter, At, Passes, ProcessFrame, Continue, WarnOfFallback, TypeOK
    <2>5. QED
      BY <1>3, <2>3, <2>4 DEF OpenAdapter, r
  <1>4. CASE OpenFileSystem
    <2> DEFINE r == Failed("filesystem_open_failed", BackendFromOpenAdapter)
    <2>1. Truthful(r) /\ r.state = "Failure"
      BY FailedIsTruthful, KnownBackendType DEF Failed, Result
    <2> HIDE DEF r
    <2>2. CASE Emit(r)
      BY <1>4, <2>1, <2>2 DEF OpenFileSystem, At, Completes, ProcessFrame, Emit, work, TypeOK
    <2>3. CASE Continue /\ UNCHANGED <<error, warned, left>>
      BY <1>4, <2>3 DEF OpenFileSystem, At, Passes, ProcessFrame, Continue, TypeOK
    <2>4. QED
      BY <1>4, <2>2, <2>3 DEF OpenFileSystem, r
  <1>5. CASE LongCall
    <2>1. warned' \in BOOLEAN /\ error' \in BOOLEAN
      BY <1>5 DEF LongCall, TypeOK
    <2>2. QED
      BY <1>5, <2>1
      DEF LongCall, At, Passes, ProcessFrame, Continue, TypeOK, ErrorStages, WarningStages
  <1>6. CASE AnalyzeRow
    <2>1. CASE left > 0 /\ token /\ Emit(Cancelled)
      <3>1. Truthful(Cancelled) /\ Cancelled.state = "Failure"
        BY <2>1, CancelledIsTruthful DEF Cancelled, Result
      <3>2. QED
        BY <1>6, <2>1, <3>1 DEF AnalyzeRow, At, Completes, ProcessFrame, Emit, work, TypeOK
    <2>2. CASE left = 0 /\ Continue /\ UNCHANGED <<error, warned, left>>
      BY <1>6, <2>2 DEF AnalyzeRow, At, Passes, ProcessFrame, Continue, TypeOK
    <2>3. CASE /\ left > 0 /\ ~token
               /\ left' = left - 1 /\ warned' \in {warned, TRUE}
               /\ UNCHANGED <<thread, stage, error, emitted>>
      <3>1. left' \in 0 .. MaxArtifacts
        BY <2>3, WorkerAssumption DEF TypeOK
      <3>2. warned' \in BOOLEAN
        BY <2>3 DEF TypeOK
      <3>3. ProcessFrame
        BY <1>6, <2>3, <3>1, <3>2 DEF AnalyzeRow, At, ProcessFrame, TypeOK
      <3>4. QED
        BY <1>6, <2>3, <3>3 DEF AnalyzeRow, At, LooksAtRow
    <2>4. QED
      BY <1>6, <2>1, <2>2, <2>3 DEF AnalyzeRow
  <1>7. CASE AnswerTask
    <2>1. Truthful(Resolve) /\ Stages[stage] = "answer"
      BY <1>7, ResolveIsTruthful DEF AnswerTask, At
    <2>2. QED
      BY <1>7, <2>1 DEF AnswerTask, At, Completes, ProcessFrame, Emit, work, TypeOK
  <1>8. QED
    BY <1>1, <1>2, <1>3, <1>4, <1>5, <1>6, <1>7 DEF Process

LEMMA ProcessKeepsOutcomes ==
  ASSUME Outcomes, Process
  PROVE  Outcomes'
  <1>1. thread = "running" /\ stage <= Len(Stages) /\ ProcessFrame
    BY ProcessStep
  <1>2. CASE Passes
    BY <1>1, <1>2, ContinueKeepsOutcomes DEF Passes
  <1>3. CASE Completes
    BY <1>1, <1>3, EmitKeepsOutcomes DEF Completes
  <1>4. CASE LooksAtRow
    <2>1. TypeOK'
      BY <1>1, <1>4, SameStages DEF LooksAtRow, Outcomes, TypeOK, ProcessFrame
    <2>2. QED
      BY <1>1, <1>4, <2>1 DEF LooksAtRow, Outcomes, CompletesOnce, Truthful, ProcessFrame
  <1>5. QED
    BY <1>2, <1>3, <1>4, ProcessStep

(* An index of a list of stages is a value of asked.                       *)
LEMMA IndexBound ==
  ASSUME NEW n \in 4 .. 7
  PROVE  (\A s \in 1 .. n : s \in 0 .. 7) /\ 1 \in 1 .. n
  OBVIOUS

(* No results are a sequence of results.                                   *)
LEMMA EmptyIsSequence == ASSUME NEW R PROVE <<>> \in Seq(R)
  OBVIOUS

LEMMA NextKeepsOutcomes ==
  ASSUME Outcomes, [Next]_vars
  PROVE  Outcomes'
  <1>1. CASE Process
    BY <1>1, ProcessKeepsOutcomes
  <1>2. CASE StartThread
    <2>1. emitted = <<>>
      BY <1>2 DEF StartThread, Outcomes, CompletesOnce, TypeOK
    <2>2. QED
      BY <1>2, <2>1, SameStages DEF StartThread, Outcomes, TypeOK, CompletesOnce, Truthful, work
  <1>3. CASE RequestCancel
    <2>1. token' \in BOOLEAN /\ mail' \in BOOLEAN /\ (token => token')
      BY <1>3 DEF RequestCancel, Outcomes, TypeOK
    <2>2. TypeOK /\ Len(Stages) \in 4 .. 7
      BY StageFacts DEF Outcomes
    <2>3. stage \in 1 .. Len(Stages)
      BY <2>2 DEF TypeOK
    <2>4. stage \in 0 .. 7
      BY <2>2, <2>3, IndexBound
    <2>5. QED
      BY <1>3, <2>1, <2>4, SameStages
      DEF RequestCancel, Outcomes, TypeOK, CompletesOnce, Truthful, work
  <1>4. CASE HandleMail
    BY <1>4, SameStages DEF HandleMail, Outcomes, TypeOK, CompletesOnce, Truthful, work
  <1>5. CASE Deliver
    BY <1>5, SameStages DEF Deliver, QuitThread, Outcomes, TypeOK, CompletesOnce, Truthful, work
  <1>6. CASE FinishThread
    BY <1>6, SameStages DEF FinishThread, Outcomes, TypeOK, CompletesOnce, Truthful, work
  <1>7. CASE UNCHANGED vars
    BY <1>7, SameStages DEF vars, Outcomes, TypeOK, CompletesOnce, Truthful, work
  <1>8. QED
    BY <1>1, <1>2, <1>3, <1>4, <1>5, <1>6, <1>7 DEF Next

LEMMA InitOutcomes == Init => Outcomes
  <1> SUFFICES ASSUME Init PROVE Outcomes
    OBVIOUS
  <1>1. kind \in AllKinds
    BY WorkerAssumption DEF Init
  <1>2. Len(Stages) \in 4 .. 7
    BY <1>1, StageLists
  <1>3. left \in 0 .. MaxArtifacts
    BY WorkerAssumption DEF Init
  <1>4. 1 \in 1 .. Len(Stages) /\ stage = 1
    BY <1>2, IndexBound DEF Init
  <1>5. emitted \in Seq(Results) /\ asked \in 0 .. 7
    BY EmptyIsSequence DEF Init
  <1>6. TypeOK
    BY <1>3, <1>4, <1>5 DEF Init, TypeOK, Backends
  <1>7. QED
    BY <1>6 DEF Init, Outcomes, CompletesOnce

LEMMA OutcomesAlways == Spec => []Outcomes
  BY InitOutcomes, NextKeepsOutcomes, PTL DEF Spec

(* Every variable of a worker stays in its type.                           *)
THEOREM WorkerTypes == Spec => []TypeOK
  <1>1. Outcomes => TypeOK
    BY DEF Outcomes
  <1>2. QED
    BY <1>1, OutcomesAlways, PTL

(* process() of every worker completes exactly once, whichever of its      *)
(* returns it takes.                                                       *)
THEOREM WorkerCompletesOnce == Spec => []CompletesOnce
  <1>1. Outcomes => CompletesOnce
    BY DEF Outcomes
  <1>2. QED
    BY <1>1, OutcomesAlways, PTL

(* No worker claims to be cancelled without a request, or to have          *)
(* succeeded with an error, or hands out rows with a failure.              *)
THEOREM WorkerOutcomeIsTruthful == Spec => []OutcomeIsTruthful
  <1>1. Outcomes => OutcomeIsTruthful
    BY DEF Outcomes, OutcomeIsTruthful, Truthful
  <1>2. QED
    BY <1>1, OutcomesAlways, PTL
-----------------------------------------------------------------------------
(* Queued requests. *)

LEMMA SameDelivery ==
  ASSUME [Next]_vars
  PROVE  delivery' = delivery
  BY DEF Next, vars, StartThread, Process, Check, NeedAdapter, OpenAdapter, OpenFileSystem, LongCall,
         AnalyzeRow, AnswerTask, At, RequestCancel, HandleMail, Deliver, FinishThread

(* A waiting request changes the token behind process() only. *)
OnlyBehind == Outcomes /\ QueuedCancelComesTooLate

LEMMA NextKeepsOnlyBehind ==
  ASSUME OnlyBehind, [Next]_vars
  PROVE  OnlyBehind'
  <1>1. Outcomes'
    BY NextKeepsOutcomes DEF OnlyBehind
  <1>2. SUFFICES ASSUME delivery = "queued", token'
                 PROVE  Answered'
    BY <1>1, SameDelivery DEF OnlyBehind, QueuedCancelComesTooLate
  <1>3. token => Answered
    BY <1>2 DEF OnlyBehind, QueuedCancelComesTooLate
  <1>4. CASE Process
    <2>1. token' = token /\ thread = "running"
      BY <1>4, ProcessStep DEF OnlyBehind, ProcessFrame
    <2>2. ~token
      BY <1>3, <2>1 DEF OnlyBehind, Outcomes, CompletesOnce, Answered
    <2>3. QED
      BY <1>2, <2>1, <2>2
  <1>5. CASE HandleMail
    <2>1. emitted' = emitted /\ thread = "looping"
      BY <1>5 DEF HandleMail
    <2>2. emitted # <<>>
      BY <2>1 DEF OnlyBehind, Outcomes, CompletesOnce
    <2>3. QED
      BY <2>1, <2>2 DEF Answered
  <1>6. CASE StartThread \/ RequestCancel \/ Deliver \/ FinishThread \/ UNCHANGED vars
    <2>1. token' = token /\ emitted' = emitted
      BY <1>2, <1>6 DEF StartThread, RequestCancel, Deliver, FinishThread, vars
    <2>2. QED
      BY <1>2, <1>3, <2>1 DEF Answered
  <1>7. QED
    BY <1>4, <1>5, <1>6 DEF Next

(* As MainWindow asks for it, no request to stop is seen by process().     *)
THEOREM QueuedCancelIsTooLate ==
  Spec => []QueuedCancelComesTooLate
  <1>1. Init => OnlyBehind
    BY InitOutcomes DEF Init, OnlyBehind, QueuedCancelComesTooLate
  <1>2. OnlyBehind /\ [Next]_vars => OnlyBehind'
    BY NextKeepsOnlyBehind
  <1>3. OnlyBehind => QueuedCancelComesTooLate
    BY DEF OnlyBehind
  <1>4. QED
    BY <1>1, <1>2, <1>3, PTL DEF Spec

-----------------------------------------------------------------------------
(* Direct requests. *)

Active == thread \in {"idle", "running"}

(* A task that was asked in time and still works has a checkpoint ahead    *)
(* of it: the check before the answer, or a row of the analysis.           *)
CheckpointAhead ==
  IF kind = "ArtifactAnalysis" THEN stage <= 4 /\ left > 0 ELSE stage < Len(Stages)

Stops ==
  /\ Outcomes
  /\ token <=> asked # 0
  /\ mail = FALSE
  /\ kind = "ArtifactAnalysis" /\ stage < 4 => left > 0
  /\ AskedInTime /\ Active => CheckpointAhead
  /\ \A i \in 1 .. Len(emitted) :
       emitted[i].state # "Failure" => stage = Len(Stages) /\ ~AskedInTime

LEMMA PassesKeepsStops ==
  ASSUME Stops, ProcessFrame, Outcomes', thread = "running", stage <= Len(Stages), Passes
  PROVE  Stops'
  <1> USE DEF Stops
  <1>1. /\ stage' = stage + 1 /\ Stages' = Stages /\ thread' = thread
        /\ emitted' = emitted /\ left' = left
    BY ContinueMoves DEF Passes, Outcomes, ProcessFrame
  <1>2. emitted = <<>>
    BY DEF Outcomes, CompletesOnce, TypeOK
  <1>3. AskedInTime' = AskedInTime
    BY <1>1 DEF AskedInTime, ProcessFrame
  <1>4. /\ TypeOK /\ stage \in 1 .. Len(Stages) /\ Len(Stages) \in 4 .. 7
        /\ left \in 0 .. MaxArtifacts
    BY StageFacts DEF Outcomes, TypeOK
  <1>5. CASE kind = "ArtifactAnalysis"
    <2>1. stage = 4 => left = 0
      BY <1>4, <1>5, StageFacts DEF Passes
    <2>2. AskedInTime /\ Active => stage < 4
      BY <1>4, <1>5, <2>1, WorkerAssumption DEF CheckpointAhead
    <2>3. stage' < 4 => left' > 0
      BY <1>1, <1>4, <1>5
    <2>4. AskedInTime' => stage' <= 4 /\ left' > 0
      BY <1>1, <1>3, <1>4, <1>5, <2>2 DEF Active
    <2>5. QED
      BY <1>1, <1>2, <1>5, <2>3, <2>4 DEF ProcessFrame, CheckpointAhead
  <1>6. CASE kind # "ArtifactAnalysis"
    <2>1. AskedInTime => token /\ stage < Len(Stages)
      BY <1>6 DEF AskedInTime, Active, CheckpointAhead
    <2>2. Stages[Len(Stages) - 1] = "check"
      BY <1>4, <1>6, StageFacts
    <2>3. AskedInTime => stage # Len(Stages) - 1
      BY <2>1, <2>2 DEF Passes
    <2>4. AskedInTime' => stage' < Len(Stages')
      BY <1>1, <1>3, <1>4, <2>1, <2>3
    <2>5. QED
      BY <1>1, <1>2, <1>6, <2>4 DEF ProcessFrame, CheckpointAhead
  <1>7. QED
    BY <1>5, <1>6

LEMMA CompletesKeepsStops ==
  ASSUME Stops, ProcessFrame, Outcomes', thread = "running", stage <= Len(Stages), Completes
  PROVE  Stops'
  <1> USE DEF Stops
  <1>1. PICK r : Truthful(r) /\ Emit(r) /\ (r.state # "Failure" => Stages[stage] = "answer")
    BY DEF Completes
  <1>2. /\ emitted' = <<r>> /\ thread' = "looping"
        /\ stage' = stage /\ left' = left
    BY <1>1, EmitEnds DEF Outcomes
  <1>3. Stages' = Stages
    BY SameStages DEF ProcessFrame
  <1>4. AskedInTime' = AskedInTime
    BY <1>3 DEF AskedInTime, ProcessFrame
  <1>5. stage \in 1 .. Len(Stages) /\ Len(Stages) \in 4 .. 7 /\ left \in 0 .. MaxArtifacts
    BY StageFacts DEF Outcomes, TypeOK
  <1>6. r.state # "Failure" => stage = Len(Stages)
    BY <1>1, <1>5, StageFacts DEF Outcomes
  <1>7. stage = Len(Stages) => ~AskedInTime
    BY <1>5, StageFacts DEF Outcomes, Active, CheckpointAhead
  <1>8. \A i \in 1 .. Len(emitted') :
          emitted'[i].state # "Failure" => stage' = Len(Stages') /\ ~AskedInTime'
    BY <1>2, <1>3, <1>4, <1>6, <1>7
  <1>9. QED
    BY <1>2, <1>8 DEF Active, ProcessFrame

LEMMA NextKeepsStops ==
  ASSUME delivery = "direct", Stops, [Next]_vars
  PROVE  Stops'
  <1> USE DEF Stops
  <1>1. Outcomes'
    BY NextKeepsOutcomes
  <1>2. CASE Process
    <2>1. CASE LooksAtRow
      <3>1. Stages[stage] = "artifacts" /\ ~token /\ left' = left - 1
        BY <2>1 DEF LooksAtRow
      <3>2. stage \in 1 .. Len(Stages) /\ left \in 0 .. MaxArtifacts
        BY DEF Outcomes, TypeOK
      <3>3. kind = "ArtifactAnalysis" /\ stage = 4
        BY <3>1, <3>2, StageFacts DEF Outcomes
      <3>4. asked = 0
        BY <3>1
      <3>5. ProcessFrame
        BY <1>2, ProcessStep
      <3>6. Stages' = Stages /\ ~AskedInTime' /\ ~AskedInTime
        BY <3>4, <3>5, SameStages DEF AskedInTime, ProcessFrame
      <3>7. QED
        BY <1>1, <2>1, <3>3, <3>5, <3>6 DEF LooksAtRow, ProcessFrame
    <2>2. QED
      BY <1>1, <1>2, <2>1, ProcessStep, PassesKeepsStops, CompletesKeepsStops
  <1>3. CASE StartThread
    <2>1. /\ Stages' = Stages /\ AskedInTime' = AskedInTime
          /\ UNCHANGED <<kind, stage, left, token, mail, asked, emitted>> /\ Active
      BY <1>3, SameStages DEF StartThread, AskedInTime, work, Active
    <2>2. QED
      BY <1>1, <2>1 DEF CheckpointAhead
  <1>4. CASE RequestCancel
    <2>1. /\ asked = 0 /\ asked' = stage /\ token' = TRUE /\ Stages' = Stages
          /\ UNCHANGED <<kind, thread, stage, left, mail, emitted>>
      BY <1>4, SameStages DEF RequestCancel, work
    <2>2. /\ stage \in 1 .. Len(Stages) /\ Len(Stages) \in 4 .. 7
      BY StageFacts DEF Outcomes, TypeOK
    <2>3. asked' # 0
      BY <2>1, <2>2
    <2>4. AskedInTime' => CheckpointAhead'
      BY <2>1, <2>2 DEF AskedInTime, CheckpointAhead
    <2>5. stage = Len(Stages) => ~AskedInTime'
      BY <2>1, <2>2, StageFacts DEF AskedInTime, Outcomes
    <2>6. QED
      BY <1>1, <2>1, <2>3, <2>4, <2>5
  <1>5. CASE HandleMail
    BY <1>5 DEF HandleMail
  <1>6. CASE Deliver \/ FinishThread \/ UNCHANGED vars
    <2>1. /\ Stages' = Stages /\ AskedInTime' = AskedInTime
          /\ UNCHANGED <<kind, stage, left, token, asked, emitted>>
          /\ mail' = FALSE
      BY <1>6, SameStages DEF Deliver, FinishThread, AskedInTime, work, vars
    <2>2. Active' => Active
      BY <1>6 DEF Deliver, FinishThread, vars, Active
    <2>3. QED
      BY <1>1, <2>1, <2>2 DEF CheckpointAhead
  <1>7. QED
    BY <1>2, <1>3, <1>4, <1>5, <1>6 DEF Next

(* Only a worker that is asked directly can be relied on to stop. *)
StopsIfDirect == Outcomes /\ (delivery = "direct" => Stops)

(* Asked directly, as the worker tests ask, a task with a checkpoint ahead *)
(* never completes as a success and hands out no rows.                     *)
THEOREM DirectCancelIsObserved == Spec => []DirectCancelStops
  <1>1. Init => StopsIfDirect
    <2> SUFFICES ASSUME Init PROVE StopsIfDirect
      OBVIOUS
    <2>1. Outcomes
      BY InitOutcomes
    <2>2. ~AskedInTime
      BY DEF Init, AskedInTime
    <2>3. kind = "ArtifactAnalysis" => left > 0
      BY WorkerAssumption DEF Init
    <2>4. QED
      BY <2>1, <2>2, <2>3 DEF Init, Stops, StopsIfDirect
  <1>2. StopsIfDirect /\ [Next]_vars => StopsIfDirect'
    BY NextKeepsOutcomes, NextKeepsStops, SameDelivery DEF StopsIfDirect
  <1>3. StopsIfDirect => DirectCancelStops
    BY DEF StopsIfDirect, Stops, Stopped, Outcomes, Truthful, Results, DirectCancelStops
  <1>4. QED
    BY <1>1, <1>2, <1>3, PTL DEF Spec

-----------------------------------------------------------------------------
(* The backend a result names. *)

(* The stage that settles whether the adapter is open. *)
OpenStage == IF kind = "PartitionScan" THEN 3 ELSE 2

LEMMA OpenStages ==
  ASSUME TypeOK
  PROVE  /\ kind = "PartitionScan" => Stages = PartitionScanStages
         /\ kind # "ImageOpen" =>
              /\ Stages[OpenStage] \in {"open", "adapter"}
              /\ \A i \in 1 .. Len(Stages) :
                   /\ Stages[i] \in {"open", "adapter"} => i = OpenStage
                   /\ Stages[i] \in {"filesystem", "answer"} => i > OpenStage
         /\ \A i \in 1 .. Len(Stages) :
              /\ Stages[i] = "adapter" => kind = "PartitionScan" /\ i = 3
              /\ kind = "ImageOpen" =>
                   Stages[i] \notin {"given", "open", "adapter", "filesystem", "artifacts"}
  <1> USE DEF Stages, OpenStage
  <1>1. CASE kind = "ImageOpen"
    BY <1>1 DEF ImageOpenStages
  <1>2. CASE kind = "PartitionScan"
    BY <1>2 DEF PartitionScanStages
  <1>3. CASE kind = "DirectoryList"
    BY <1>3 DEF DirectoryListStages
  <1>4. CASE kind = "ArtifactScan"
    BY <1>4 DEF ArtifactScanStages
  <1>5. CASE kind = "ArtifactDetail"
    BY <1>5 DEF ArtifactDetailStages
  <1>6. CASE kind = "ArtifactAnalysis"
    BY <1>6 DEF ArtifactAnalysisStages
  <1>7. CASE kind = "Extraction"
    BY <1>7 DEF ExtractionStages
  <1>8. QED
    BY <1>1, <1>2, <1>3, <1>4, <1>5, <1>6, <1>7, WorkerAssumption DEF AllKinds, TypeOK

(* What BackendIsTruthful says of one result. *)
NamesItsBackend(r) ==
  /\ r.backend \in Backends =>
       r.backend = adapter \/ (r.reason = "tsk_image_open_failed" /\ ~fallback)
  /\ r.payload = "full" /\ kind # "ImageOpen" => r.backend = adapter
  /\ kind = "PartitionScan" /\ adapter = "PathFallback" => r.state # "Success"

(* A worker that has passed the opening stage has an open adapter; one     *)
(* that has fallen back to the path keeps its warning until it answers.    *)
Backed ==
  /\ Outcomes
  /\ thread \in {"idle", "running"} =>
       /\ kind # "ImageOpen" /\ stage > OpenStage => IsOpen
       /\ kind = "PartitionScan" /\ stage > 3 /\ adapter = "PathFallback" => warned
  /\ \A i \in 1 .. Len(emitted) : NamesItsBackend(emitted[i])

(* A completion, once its result names its backend, keeps the invariant. *)
LEMMA EmitKeepsBacked ==
  ASSUME Backed, Process, NEW r, Emit(r), NamesItsBackend(r)'
  PROVE  Backed'
  <1>1. Outcomes' /\ thread = "running"
    BY ProcessKeepsOutcomes, ProcessStep DEF Backed
  <1>2. emitted = <<>>
    BY <1>1 DEF Backed, Outcomes, CompletesOnce, TypeOK
  <1>3. emitted' = <<r>> /\ thread' = "looping"
    BY <1>2 DEF Emit
  <1>4. QED
    BY <1>1, <1>3 DEF Backed

(* Going on keeps it, when nothing about the adapter changes. *)
LEMMA ContinueKeepsBacked ==
  ASSUME Backed, Process, Continue, UNCHANGED adapter,
         kind = "PartitionScan" /\ stage >= 3 => warned' = warned,
         stage <= OpenStage /\ kind # "ImageOpen" /\ Stages[stage] \in {"open", "adapter"} => IsOpen,
         Stages[stage] = "adapter" => FALSE
  PROVE  Backed'
  <1>1. /\ Outcomes' /\ thread = "running" /\ stage \in 1 .. Len(Stages) /\ kind' = kind
        /\ stage' = stage + 1 /\ emitted' = emitted /\ thread' = thread /\ fallback' = fallback
    BY ProcessKeepsOutcomes, ProcessStep DEF Backed, Continue, Outcomes, TypeOK, ProcessFrame
  <1>2. emitted = <<>>
    BY <1>1 DEF Backed, Outcomes, CompletesOnce, TypeOK
  <1>3. OpenStage' = OpenStage /\ OpenStage \in 2 .. 3 /\ IsOpen' = IsOpen
    BY <1>1 DEF OpenStage, IsOpen
  <1>4. kind # "ImageOpen" /\ stage' > OpenStage => IsOpen
    <2> SUFFICES ASSUME kind # "ImageOpen", stage + 1 > OpenStage PROVE IsOpen
      BY <1>1
    <2>1. CASE stage = OpenStage
      BY <2>1, <1>3, OpenStages DEF Backed, Outcomes
    <2>2. CASE stage > OpenStage
      BY <2>2, <1>1 DEF Backed
    <2>3. QED
      BY <1>1, <1>3, <2>1, <2>2
  <1>5. kind = "PartitionScan" /\ stage' > 3 /\ adapter = "PathFallback" => warned'
    <2> SUFFICES ASSUME kind = "PartitionScan", stage + 1 > 3, adapter = "PathFallback" PROVE warned'
      BY <1>1
    <2>1. stage # 3
      BY OpenStages DEF Backed, Outcomes, PartitionScanStages
    <2>2. QED
      BY <1>1, <2>1 DEF Backed
  <1>6. QED
    BY <1>1, <1>2, <1>3, <1>4, <1>5 DEF Backed

(* A failure that names no backend, or the open adapter's, is true. *)
LEMMA FailedNamesItsBackend ==
  ASSUME NEW reason, NEW backend,
         backend \in Backends => backend = adapter \/ (reason = "tsk_image_open_failed" /\ ~fallback)
  PROVE  NamesItsBackend(Failed(reason, backend))
  BY DEF NamesItsBackend, Failed, Result

LEMMA BackendsKnown ==
  /\ KnownBackend \in Backends => KnownBackend = adapter
  /\ BackendFromOpenAdapter \in Backends => BackendFromOpenAdapter = adapter
  BY DEF KnownBackend, BackendFromOpenAdapter, IsOpen, Backends

(* The same for the next state, in which neither adapter nor task changed. *)
LEMMA NamesSame ==
  ASSUME NEW r, NamesItsBackend(r), UNCHANGED <<adapter, fallback, kind>>
  PROVE  NamesItsBackend(r)'
  BY DEF NamesItsBackend, Backends

LEMMA ProcessKeepsBacked ==
  ASSUME Backed, Process
  PROVE  Backed'
  <1>1. /\ thread = "running" /\ stage \in 1 .. Len(Stages) /\ TypeOK
        /\ UNCHANGED <<kind, fallback>>
    BY ProcessStep DEF Backed, Outcomes, TypeOK, ProcessFrame
  <1>2. CASE Check
    <2>1. UNCHANGED adapter /\ Stages[stage] = "check"
      BY <1>2 DEF Check, At
    <2>2. CASE Emit(Cancelled)
      <3>1. NamesItsBackend(Cancelled)
        BY BackendsKnown DEF NamesItsBackend, Cancelled, Result
      <3>2. QED
        BY <1>1, <2>1, <2>2, <3>1, NamesSame, EmitKeepsBacked
    <2>3. CASE Continue /\ UNCHANGED <<error, warned, left>>
      BY <2>1, <2>3, ContinueKeepsBacked
    <2>4. QED
      BY <1>2, <2>2, <2>3 DEF Check
  <1>3. CASE NeedAdapter
    <2> DEFINE r == Failed(IF Stages[stage] = "given" THEN "missing_adapter" ELSE "image_not_open",
                           "NotApplicable")
    <2>1. UNCHANGED adapter /\ Stages[stage] \in {"given", "open"}
      BY <1>3 DEF NeedAdapter, At
    <2>2. NamesItsBackend(r)
      BY FailedNamesItsBackend DEF Backends
    <2> HIDE DEF r
    <2>3. CASE Emit(r)
      BY <1>1, <2>1, <2>2, <2>3, NamesSame, EmitKeepsBacked
    <2>4. CASE /\ ~(adapter = "missing" \/ (Stages[stage] = "open" /\ ~IsOpen))
               /\ Continue /\ UNCHANGED <<error, warned, left>>
      BY <2>1, <2>4, ContinueKeepsBacked
    <2>5. QED
      BY <1>3, <2>3, <2>4 DEF NeedAdapter, r
  <1>4. CASE OpenAdapter
    <2>1. Stages[stage] = "adapter" /\ kind = "PartitionScan" /\ stage = 3
      BY <1>1, <1>4, OpenStages DEF OpenAdapter, At
    <2> DEFINE r == Failed("tsk_image_open_failed", IF fallback THEN "Unknown" ELSE "ReaderBridge")
    <2>2. PICK q : q = r
      OBVIOUS
    <2>3. CASE Emit(r)
      <3>1. NamesItsBackend(q)'
        BY <1>1, <2>2 DEF Backends, NamesItsBackend, Failed, Result
      <3>2. Emit(q)
        BY <2>2, <2>3
      <3>3. QED
        BY <3>1, <3>2, EmitKeepsBacked
    <2> HIDE DEF r
    <2>4. CASE adapter' # "closed" /\ Continue /\ warned' = WarnOfFallback
      <3>1. Outcomes' /\ emitted = <<>> /\ emitted' = emitted
        BY <1>1, <2>4, ProcessKeepsOutcomes DEF Continue, Backed, Outcomes, CompletesOnce, TypeOK
      <3>2. IsOpen' /\ (adapter' = "PathFallback" => warned')
        BY <1>4, <2>4 DEF OpenAdapter, IsOpen, Backends, WarnOfFallback
      <3>3. QED
        BY <3>1, <3>2 DEF Backed
    <2>5. QED
      BY <1>4, <2>3, <2>4 DEF OpenAdapter, r
  <1>5. CASE OpenFileSystem
    <2> DEFINE r == Failed("filesystem_open_failed", BackendFromOpenAdapter)
    <2>1. UNCHANGED adapter /\ Stages[stage] = "filesystem"
      BY <1>5 DEF OpenFileSystem, At
    <2>2. NamesItsBackend(r)
      BY BackendsKnown, FailedNamesItsBackend
    <2> HIDE DEF r
    <2>3. CASE Emit(r)
      BY <1>1, <2>1, <2>2, <2>3, NamesSame, EmitKeepsBacked
    <2>4. CASE Continue /\ UNCHANGED <<error, warned, left>>
      BY <2>1, <2>4, ContinueKeepsBacked
    <2>5. QED
      BY <1>5, <2>3, <2>4 DEF OpenFileSystem, r
  <1>6. CASE LongCall
    <2>1. /\ UNCHANGED adapter /\ Continue /\ Stages[stage] \in ErrorStages \union WarningStages
          /\ warned' \in IF Stages[stage] \in WarningStages THEN BOOLEAN ELSE {warned}
      BY <1>6 DEF LongCall, At
    <2>2. kind = "PartitionScan" => Stages[stage] \notin WarningStages
      <3> SUFFICES ASSUME kind = "PartitionScan" PROVE Stages[stage] \notin WarningStages
        OBVIOUS
      <3>1. Stages = PartitionScanStages /\ stage \in 1 .. 7
        BY <1>1, OpenStages DEF PartitionScanStages
      <3>2. QED
        BY <3>1 DEF PartitionScanStages, WarningStages
    <2>3. QED
      BY <2>1, <2>2, ContinueKeepsBacked DEF ErrorStages, WarningStages
  <1>7. CASE AnalyzeRow
    <2>1. UNCHANGED adapter /\ Stages[stage] = "artifacts"
      BY <1>7 DEF AnalyzeRow, At
    <2>2. CASE Emit(Cancelled)
      <3>1. NamesItsBackend(Cancelled)
        BY BackendsKnown DEF NamesItsBackend, Cancelled, Result
      <3>2. QED
        BY <1>1, <2>1, <2>2, <3>1, NamesSame, EmitKeepsBacked
    <2>3. CASE Continue /\ UNCHANGED <<error, warned, left>>
      BY <2>1, <2>3, ContinueKeepsBacked
    <2>4. CASE warned' \in {warned, TRUE} /\ UNCHANGED <<thread, stage, error, emitted>>
      <3>1. Outcomes' /\ emitted = <<>>
        BY <1>1, ProcessKeepsOutcomes DEF Backed, Outcomes, CompletesOnce, TypeOK
      <3>2. OpenStage' = OpenStage /\ IsOpen' = IsOpen /\ (warned => warned') /\ emitted' = <<>>
        BY <1>1, <2>1, <2>4, <3>1 DEF OpenStage, IsOpen, TypeOK
      <3>3. QED
        BY <1>1, <2>1, <2>4, <3>1, <3>2 DEF Backed
    <2>5. QED
      BY <1>7, <2>2, <2>3, <2>4 DEF AnalyzeRow
  <1>8. CASE AnswerTask
    <2>1. UNCHANGED adapter /\ Stages[stage] = "answer" /\ Emit(Resolve)
      BY <1>8 DEF AnswerTask, At
    <2>2. kind # "ImageOpen" => stage > OpenStage /\ IsOpen
      BY <1>1, <2>1, OpenStages DEF Backed
    <2>3. kind # "ImageOpen" => KnownBackend = adapter
      BY <2>2, <1>1 DEF KnownBackend, BackendFromOpenAdapter, OpenStage, TypeOK
    <2>4. kind = "PartitionScan" /\ adapter = "PathFallback" => warned
      BY <1>1, <2>2 DEF Backed, OpenStage
    <2>5. NamesItsBackend(Resolve)
      BY <2>3, <2>4, BackendsKnown DEF NamesItsBackend, Resolve, Failed, Result
    <2>6. QED
      BY <1>1, <2>1, <2>5, NamesSame, EmitKeepsBacked
  <1>9. QED
    BY <1>2, <1>3, <1>4, <1>5, <1>6, <1>7, <1>8 DEF Process

(* A result names the backend its rows came from, whatever way process()   *)
(* returned, and partitions listed through the path are no plain success   *)
(* (TskImageHandleAdapter::open, backendFromOpenAdapter).                  *)
THEOREM WorkerBackendIsTruthful == Spec => []BackendIsTruthful
  <1>1. Init => Backed
    BY InitOutcomes, WorkerAssumption DEF Init, Backed, OpenStage
  <1>2. Backed /\ [Next]_vars => Backed'
    <2> SUFFICES ASSUME Backed, [Next]_vars PROVE Backed'
      OBVIOUS
    <2>1. CASE Process
      BY <2>1, ProcessKeepsBacked
    <2>2. CASE ~Process
      <3>1. Outcomes'
        BY NextKeepsOutcomes DEF Backed
      <3>2. /\ UNCHANGED <<kind, fallback, adapter, stage, warned, emitted>>
            /\ thread' \in {"idle", "running"} => thread \in {"idle", "running"}
        BY <2>2 DEF Next, StartThread, RequestCancel, HandleMail, Deliver, FinishThread, vars, work
      <3>3. QED
        BY <3>1, <3>2 DEF Backed, OpenStage, IsOpen, NamesItsBackend, Backends
    <2>3. QED
      BY <2>1, <2>2
  <1>3. Backed => BackendIsTruthful
    BY DEF Backed, NamesItsBackend, BackendIsTruthful
  <1>4. QED
    BY <1>1, <1>2, <1>3, PTL DEF Spec
=============================================================================
