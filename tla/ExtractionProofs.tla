--------------------------- MODULE ExtractionProofs ---------------------------
(* Proofs about Extraction, for every evidence, every selection and every  *)
(* policy.                                                                 *)
EXTENDS Extraction, DataLemmas

(* The running total of a work list is what its definition says. *)
LEMMA TotalSizesDefined ==
  ASSUME NEW list \in Seq(Entries)
  PROVE  TotalSizes(list) =
           [n \in 0 .. Len(list) |->
              IF n = 0 THEN 0
              ELSE TotalSizes(list)[n - 1] + (IF list[n].dir THEN 0 ELSE list[n].size)]
  <1> DEFINE k == Len(list)
             size(i) == IF list[i].dir THEN 0 ELSE list[i].size
             Is(f, n) == f = [i \in 0 .. n |-> IF i = 0 THEN 0 ELSE f[i - 1] + size(i)]
             S == {n \in Nat : \E f : Is(f, n)}
  <1>1. 0 \in S
    <2>1. Is([i \in 0 .. 0 |-> 0], 0)
      OBVIOUS
    <2>2. QED
      BY <2>1
  <1>2. ASSUME NEW n \in Nat, n \in S PROVE n + 1 \in S
    <2>1. PICK f : Is(f, n)
      BY <1>2
    <2> DEFINE g == [i \in 0 .. n + 1 |-> IF i = n + 1 THEN f[n] + size(n + 1) ELSE f[i]]
    <2>2. ASSUME NEW i \in 0 .. n + 1 PROVE g[i] = IF i = 0 THEN 0 ELSE g[i - 1] + size(i)
      <3> HIDE DEF size
      <3>1. CASE i = n + 1
        BY <3>1
      <3>2. CASE i \in 0 .. n
        <4>1. f[i] = IF i = 0 THEN 0 ELSE f[i - 1] + size(i)
          BY <2>1, <3>2
        <4>2. QED
          BY <3>2, <4>1
      <3>3. QED
        BY <3>1, <3>2
    <2>3. Is(g, n + 1)
      <3> HIDE DEF size
      <3>1. DOMAIN g = 0 .. n + 1 /\ g = [i \in 0 .. n + 1 |-> g[i]]
        OBVIOUS
      <3> HIDE DEF g
      <3>2. QED
        BY <2>2, <3>1
    <2> HIDE DEF g, Is
    <2>4. QED
      BY <2>3
  <1>3. Len(list) \in S
    <2> HIDE DEF S
    <2>1. Nat \subseteq S
      BY <1>1, <1>2, SetInduction
    <2>2. QED
      BY <2>1
  <1>4. \E f : Is(f, k)
    BY <1>3
  <1>5. TotalSizes(list) = CHOOSE f : Is(f, k)
    BY DEF TotalSizes
  <1>6. Is(TotalSizes(list), k)
    <2> HIDE DEF Is
    <2>1. QED
      BY <1>4, <1>5
  <1>7. QED
    BY <1>6

LEMMA TotalSizesType ==
  ASSUME NEW list \in Seq(Entries)
  PROVE  /\ \A n \in 0 .. Len(list) : TotalSizes(list)[n] \in Nat
         /\ TotalSizes(list)[0] = 0
         /\ \A n \in 1 .. Len(list) :
              TotalSizes(list)[n] =
                TotalSizes(list)[n - 1] + (IF list[n].dir THEN 0 ELSE list[n].size)
  <1> DEFINE total == TotalSizes(list)
             S == {n \in Nat : n <= Len(list) => total[n] \in Nat}
  <1> HIDE DEF total
  <1>1. total = [n \in 0 .. Len(list) |->
                   IF n = 0 THEN 0 ELSE total[n - 1] + (IF list[n].dir THEN 0 ELSE list[n].size)]
    BY TotalSizesDefined DEF total
  <1>2. 0 \in S
    BY <1>1
  <1>3. ASSUME NEW n \in Nat, n \in S PROVE n + 1 \in S
    <2> SUFFICES ASSUME n + 1 <= Len(list) PROVE total[n + 1] \in Nat
      OBVIOUS
    <2>0. list[n + 1] \in Entries
      OBVIOUS
    <2>1. list[n + 1].size \in Nat
      BY <2>0 DEF Entries
    <2>2. total[n + 1] = total[n] + (IF list[n + 1].dir THEN 0 ELSE list[n + 1].size)
      BY <1>1
    <2>3. QED
      BY <1>3, <2>1, <2>2
  <1>4. Nat \subseteq S
    <2> HIDE DEF S
    <2>1. QED
      BY <1>2, <1>3, SetInduction
  <1>5. QED
    BY <1>1, <1>4 DEF total

(* A total over more of the list is no smaller. *)
LEMMA TotalSizesGrow ==
  ASSUME NEW list \in Seq(Entries), NEW m \in 0 .. Len(list)
  PROVE  TotalSizes(list)[m] <= TotalSizes(list)[Len(list)]
  <1> DEFINE total == TotalSizes(list)
             S == {n \in Nat : m + n <= Len(list) => total[m] <= total[m + n]}
  <1> HIDE DEF total
  <1>1. 0 \in S
    BY TotalSizesType DEF total
  <1>2. ASSUME NEW n \in Nat, n \in S PROVE n + 1 \in S
    <2> SUFFICES ASSUME m + n + 1 <= Len(list) PROVE total[m] <= total[m + n + 1]
      OBVIOUS
    <2>0. list[m + n + 1] \in Entries
      OBVIOUS
    <2>1. list[m + n + 1].size \in Nat
      BY <2>0 DEF Entries
    <2>2. /\ total[m] \in Nat /\ total[m + n] \in Nat /\ total[m + n + 1] \in Nat
          /\ total[m + n + 1] = total[m + n] + (IF list[m + n + 1].dir THEN 0 ELSE list[m + n + 1].size)
      BY TotalSizesType DEF total
    <2>3. QED
      BY <1>2, <2>1, <2>2
  <1>3. Len(list) - m \in S
    <2> HIDE DEF S
    <2>1. Nat \subseteq S
      BY <1>1, <1>2, SetInduction
    <2>2. QED
      BY <2>1
  <1>4. QED
    BY <1>3 DEF total

-----------------------------------------------------------------------------
(* Types. *)

KnownRecords == {x \in Records : Known(x)}
KnownEntries == {x \in Entries : Known(x)}
HostPaths    == Seq({Clean[n] : n \in DOMAIN Clean})
Places       == HostPaths \X Nat
Frames       == [path : Paths, left : Seq(KnownRecords)]
Errors       == {"", "cancelled", "depth", "unreadable directory"}
Answers      == {"none", "cancelled", "failed", "warning", "success"}
Decisions    == {"", "new", "overwrite", "versioned_copy"}

ResultRecords ==
  {x \in [entry : Entries, outcome : Outcomes, status : Outcomes \union {"success_with_warning"},
          dest : Places \union {<<>>}, written : Nat, warned : BOOLEAN, failed : BOOLEAN] :
     x.written <= x.entry.size}

Tasks ==
  [mode : Modes, selected : Selections, phase : Phases, seed : Nat \ {0}, stack : Seq(Frames),
   paths : SUBSET Paths, inodes : SUBSET Nat, worklist : Seq(KnownEntries), index : Nat \ {0},
   dest : Places \union {<<>>}, decision : Decisions, offset : Nat, processed : Nat,
   results : Seq(ResultRecords), error : Errors, token : BOOLEAN, checked : BOOLEAN,
   answer : Answers]

LEMMA ContentsKnown ==
  ASSUME NEW n \in DOMAIN Contents
  PROVE  Contents[n] \in Seq(KnownRecords)
  <1>1. Contents[n] \in Seq(Records) /\ \A i \in DOMAIN Contents[n] : Known(Contents[n][i])
    BY ExtractionAssumption
  <1>2. \A i \in 1 .. Len(Contents[n]) : Contents[n][i] \in KnownRecords
    BY <1>1 DEF KnownRecords
  <1>3. QED
    BY <1>1, <1>2

LEMMA SelectionsKnown ==
  ASSUME NEW list \in Selections
  PROVE  list \in Seq(KnownEntries)
  <1>1. list \in Seq(Entries) /\ \A i \in DOMAIN list : Known(list[i])
    BY ExtractionAssumption
  <1>2. \A i \in 1 .. Len(list) : list[i] \in KnownEntries
    BY <1>1 DEF KnownEntries
  <1>3. QED
    BY <1>1, <1>2

LEMMA CallTypes ==
  ASSUME NEW r \in Tasks, HasCall(r), r.seed <= Len(r.selected) + 1
  PROVE  /\ Callee(r) \in KnownEntries
         /\ Called(r) \in Tasks
         /\ Called(r).seed <= Len(r.selected) + 1
         /\ Len(Called(r).stack) = Len(r.stack)
  <1>1. CASE InDirectory(r)
    <2>1. r.stack \in Seq(Frames) /\ r.stack # <<>> /\ r.stack[1] \in Frames /\ Head(r.stack) = r.stack[1]
      BY <1>1 DEF InDirectory, Tasks
    <2>2. r.stack[1].left \in Seq(KnownRecords) /\ r.stack[1].left # <<>> /\ r.stack[1].path \in Paths
      BY <1>1, <2>1 DEF HasCall, Frames
    <2>3. Head(r.stack[1].left) \in KnownRecords
      BY <2>2
    <2>4. Callee(r) \in KnownEntries
      BY <1>1, <2>1, <2>2, <2>3 DEF Callee, Entry, KnownRecords, KnownEntries, Records, Entries, Known, Paths
    <2> DEFINE f == [r.stack[1] EXCEPT !.left = Tail(@)]
               stack == [r.stack EXCEPT ![1] = f]
    <2>4a. Tail(r.stack[1].left) \in Seq(KnownRecords)
      BY <2>2
    <2>5. f \in Frames
      BY <2>1, <2>2, <2>4a DEF Frames
    <2> HIDE DEF f
    <2>6. stack \in Seq(Frames) /\ Len(stack) = Len(r.stack)
      BY <2>1, <2>5
    <2>7. Called(r) = [r EXCEPT !.stack = stack]
      BY <1>1 DEF Called, f, Tasks
    <2> HIDE DEF stack
    <2>8. QED
      BY <1>1, <2>4, <2>6, <2>7 DEF Tasks
  <1>2. CASE ~InDirectory(r)
    <2>1. Called(r) = [r EXCEPT !.seed = @ + 1] /\ r.seed \in 1 .. Len(r.selected)
      BY <1>2 DEF Called, HasCall, Tasks
    <2>2. r.selected \in Seq(KnownEntries)
      BY SelectionsKnown DEF Tasks
    <2>3. Callee(r) \in KnownEntries
      BY <1>2, <2>1, <2>2 DEF Callee
    <2>4. r.seed + 1 \in Nat \ {0} /\ r.seed + 1 <= Len(r.selected) + 1
      BY <2>1, <2>2
    <2>5. QED
      BY <2>1, <2>3, <2>4 DEF Tasks
  <1>3. QED
    BY <1>1, <1>2

-----------------------------------------------------------------------------
(* One task by itself. *)

(* The counters of a task stay where the lists they index end, and what is *)
(* processed within the sizes passed.                                      *)
Bounds(r) ==
  /\ r.seed <= Len(r.selected) + 1
  /\ Len(r.stack) <= MaxDepth + 1
  /\ r.index <= Len(r.worklist) + 1
  /\ r.phase \in {"open", "copy"} =>
       r.index <= Len(r.worklist) /\ ~Current(r).dir /\ r.dest \in Places
  /\ r.phase = "copy" => r.offset <= Current(r).size
  /\ r.phase \in {"collect", "files", "open"} => r.offset = 0
  /\ r.phase = "collect" => r.index = 1 /\ r.results = <<>> /\ r.processed = 0
  /\ r.phase \in {"files", "open", "copy"} => r.processed <= TotalSizes(r.worklist)[r.index - 1]

(* What AnswerIsWhole says of one task. *)
Whole(r) ==
  IF r.answer \in {"success", "warning"}
    THEN /\ r.error = "" /\ ~r.token
         /\ Len(r.results) = Len(r.worklist)
         /\ \A i \in DOMAIN r.results : r.results[i].entry = r.worklist[i]
    ELSE r.results = <<>> /\ (r.token <=> r.answer = "cancelled")

(* Each turn of the loop leaves one result, and only the end of the work   *)
(* list, or a token that was set, ends it without an error.                *)
Turns(r) ==
  /\ r.phase # "answered" =>
       /\ Len(r.results) = r.index - 1
       /\ \A i \in 1 .. Len(r.results) : r.results[i].entry = r.worklist[i]
  /\ r.phase \notin {"returned", "answered"} => r.error = ""
  /\ r.phase = "returned" /\ r.error = "" => r.index > Len(r.worklist)
  /\ r.error = "cancelled" => r.token
  /\ r.phase = "answered" => Whole(r)

Local(r) == r \in Tasks /\ Bounds(r) /\ Turns(r)

LEMMA EntryTypes ==
  ASSUME NEW r, Local(r), r.index <= Len(r.worklist)
  PROVE  /\ Current(r) \in KnownEntries /\ Current(r) \in Entries
         /\ Current(r).size \in Nat /\ Current(r).dir \in BOOLEAN /\ Current(r).path \in Paths
         /\ Current(r) = r.worklist[r.index]
  <1>1. r.worklist \in Seq(KnownEntries) /\ r.index \in 1 .. Len(r.worklist)
    BY DEF Local, Tasks
  <1>2. Current(r) \in KnownEntries
    BY <1>1 DEF Current
  <1>3. QED
    BY <1>2 DEF KnownEntries, Entries, Current

LEMMA DoneIsLocal ==
  ASSUME NEW r, Local(r), r.phase \in {"files", "open", "copy"}, r.index <= Len(r.worklist),
         NEW x \in ResultRecords, x.entry = Current(r),
         NEW bytes \in Nat, bytes <= IF Current(r).dir THEN 0 ELSE Current(r).size
  PROVE  Local(Done(r, x, bytes))
  <1> DEFINE s == Done(r, x, bytes)
  <1>1. /\ r \in Tasks /\ r.results \in Seq(ResultRecords) /\ r.index \in Nat \ {0}
        /\ r.processed \in Nat /\ r.worklist \in Seq(Entries)
    BY DEF Local, Tasks, KnownEntries
  <1>2. /\ Append(r.results, x) \in Seq(ResultRecords)
        /\ Len(Append(r.results, x)) = Len(r.results) + 1
        /\ \A i \in 1 .. Len(r.results) : Append(r.results, x)[i] = r.results[i]
        /\ Append(r.results, x)[Len(r.results) + 1] = x
    BY <1>1, AppendFacts
  <1>3. /\ s.results = Append(r.results, x) /\ s.index = r.index + 1 /\ s.phase = "files"
        /\ s.processed = r.processed + bytes /\ s.offset = 0 /\ s.worklist = r.worklist
        /\ s.seed = r.seed /\ s.selected = r.selected /\ s.stack = r.stack /\ s.error = r.error
        /\ s.token = r.token
    BY <1>1 DEF Done, Tasks
  <1>4. s \in Tasks
    <2>1. r.index + 1 \in Nat \ {0} /\ r.processed + bytes \in Nat /\ 0 \in Nat
      BY <1>1
    <2>2. QED
      BY <1>1, <1>2, <2>1 DEF Done, Tasks, Phases
  <1>5. s.processed <= TotalSizes(r.worklist)[r.index]
    <2>1. /\ TotalSizes(r.worklist)[r.index] =
               TotalSizes(r.worklist)[r.index - 1] + (IF Current(r).dir THEN 0 ELSE Current(r).size)
          /\ TotalSizes(r.worklist)[r.index - 1] \in Nat
      BY <1>1, TotalSizesType DEF Current
    <2>2. r.processed <= TotalSizes(r.worklist)[r.index - 1]
      BY DEF Local, Bounds
    <2>3. Current(r).size \in Nat
      BY EntryTypes
    <2>4. QED
      BY <1>1, <1>3, <2>1, <2>2, <2>3
  <1> HIDE DEF s
  <1>6. Bounds(s)
    BY <1>1, <1>3, <1>5 DEF Bounds, Local
  <1>7. Turns(s)
    <2>1. /\ Len(r.results) = r.index - 1
          /\ \A i \in 1 .. Len(r.results) : r.results[i].entry = r.worklist[i]
      BY DEF Turns, Local
    <2>2. r.index \in Nat \ {0} /\ s.index = r.index + 1 /\ Len(s.results) = Len(r.results) + 1
      BY <1>1, <1>2, <1>3
    <2>3. Len(r.results) = r.index - 1
      BY <2>1
    <2>4. Len(s.results) = s.index - 1 /\ Len(s.results) = r.index
      BY <2>2, <2>3
    <2>5. s.results[r.index].entry = s.worklist[r.index]
      <3>1. r.index = Len(r.results) + 1
        BY <2>2, <2>3
      <3>2. s.results[r.index] = x
        BY <1>2, <1>3, <3>1
      <3>3. QED
        BY <1>3, <3>2 DEF Current
    <2>6. \A i \in 1 .. Len(r.results) : s.results[i].entry = s.worklist[i]
      BY <1>2, <1>3, <2>1
    <2>7. \A i \in 1 .. r.index : i \in 1 .. Len(r.results) \/ i = r.index
      BY <2>2, <2>3
    <2>8. \A i \in 1 .. Len(s.results) : s.results[i].entry = s.worklist[i]
      BY <2>4, <2>5, <2>6, <2>7
    <2>9. r.error = ""
      BY DEF Turns, Local
    <2>10. QED
      BY <1>3, <2>4, <2>8, <2>9 DEF Turns
  <1>8. QED
    BY <1>4, <1>6, <1>7 DEF Local, s

LEMMA ReturnIsLocal ==
  ASSUME NEW r, Local(r), r.phase \notin {"returned", "answered"}, NEW error \in Errors,
         error = "" => r.index > Len(r.worklist),
         error = "cancelled" => r.token
  PROVE  Local([r EXCEPT !.phase = "returned", !.error = error])
  <1> DEFINE s == [r EXCEPT !.phase = "returned", !.error = error]
  <1>1. s \in Tasks
    BY DEF Local, Tasks, Phases
  <1>2. /\ s.phase = "returned" /\ s.error = error /\ s.worklist = r.worklist /\ s.index = r.index
        /\ s.results = r.results /\ s.token = r.token
        /\ s.seed = r.seed /\ s.selected = r.selected /\ s.stack = r.stack
    BY DEF Local, Tasks
  <1> HIDE DEF s
  <1>3. QED
    BY <1>1, <1>2 DEF Local, Bounds, Turns, s

-----------------------------------------------------------------------------
(* The host's file system. *)

HostFiles ==
  [kind : {"file", "dir"}, owner : Workers \union {"before", "mixed"},
   source : {<<>>} \union (Paths \X Nat), bytes : Nat]

HostTyped == host \in [DOMAIN host -> HostFiles] /\ IsFiniteSet(DOMAIN host)

(* Of more versions than there are files, one is free, and one of these is *)
(* the least.                                                              *)
LEMMA FreeVersionIsFree ==
  ASSUME HostTyped, NEW path
  PROVE  \E n \in Nat : FreeVersion(path) = <<path, n>> /\ ~Exists(<<path, n>>)
  <1> DEFINE Free(n) == ~Exists(<<path, n>>)
             count == Cardinality(DOMAIN host)
             T == {n \in 0 .. count : Free(n)}
  <1>1. count \in Nat /\ IsFiniteSet(DOMAIN host)
    BY FS_CardinalityType DEF HostTyped
  <1>2. T # {}
    <2> SUFFICES ASSUME T = {} PROVE FALSE
      OBVIOUS
    <2> DEFINE f == [n \in 0 .. count |-> <<path, n>>]
    <2>1. f \in [0 .. count -> DOMAIN host]
      BY DEF Exists
    <2>2. \A m, n \in 0 .. count : f[m] = f[n] => m = n
      OBVIOUS
    <2>3. f \in Injection(0 .. count, DOMAIN host)
      BY <2>1, <2>2 DEF Injection, IsInjective
    <2> HIDE DEF f
    <2>4. Cardinality(0 .. count) <= count
      BY <1>1, <2>3, FS_Injection
    <2>5. Cardinality(0 .. count) = count + 1
      BY <1>1, FS_Interval
    <2>6. QED
      BY <1>1, <2>4, <2>5
  <1>3. PICK n \in T : \A m \in T : n <= m
    <2>1. T \in SUBSET Nat
      BY <1>1
    <2> HIDE DEF T
    <2>2. QED
      BY <1>2, <2>1, LeastNatural
  <1>4. n \in 0 .. count /\ Free(n) /\ \A k \in 0 .. n - 1 : ~Free(k)
    <2>1. ASSUME NEW k \in 0 .. n - 1, Free(k) PROVE FALSE
      <3>1. k \in T
        BY <1>1, <1>3, <2>1
      <3>2. QED
        BY <1>1, <1>3, <3>1
    <2>2. QED
      BY <1>3, <2>1
  <1> DEFINE P(m) == Free(m) /\ \A k \in 0 .. m - 1 : ~Free(k)
             v == CHOOSE m \in 0 .. count : P(m)
  <1>5. v \in 0 .. count /\ P(v)
    <2>1. \E m \in 0 .. count : P(m)
      BY <1>4
    <2> HIDE DEF P
    <2>2. QED
      BY <2>1
  <1>6. FreeVersion(path) = <<path, v>>
    BY DEF FreeVersion
  <1>7. ~Exists(<<path, v>>) /\ v \in 0 .. count
    BY <1>5
  <1> HIDE DEF v
  <1>8. v \in Nat
    BY <1>1, <1>7
  <1>9. QED
    BY <1>6, <1>7, <1>8

LEMMA ParentsFinite ==
  ASSUME NEW path \in HostPaths
  PROVE  IsFiniteSet(Parents(path))
  <1> DEFINE n == Len(path)
             f == [k \in 1 .. n - 1 |-> Plain(SubSeq(path, 1, k))]
  <1>1. n \in Nat
    BY DEF HostPaths
  <1>2. IsFiniteSet(1 .. n - 1)
    BY <1>1, FS_Interval
  <1>3. f \in Surjection(1 .. n - 1, Parents(path))
    BY DEF Surjection, Parents
  <1> HIDE DEF f
  <1>4. QED
    BY <1>2, <1>3, FS_Surjection

(* A path is none of its own parents. *)
LEMMA ParentsAreShorter ==
  ASSUME NEW path \in HostPaths, NEW v
  PROVE  <<path, v>> \notin Parents(path)
  <1> SUFFICES ASSUME NEW k \in 1 .. Len(path) - 1, <<path, v>> = Plain(SubSeq(path, 1, k)) PROVE FALSE
    BY DEF Parents
  <1>1. path = SubSeq(path, 1, k)
    BY DEF Plain
  <1>2. Len(SubSeq(path, 1, k)) = k /\ Len(path) \in Nat
    BY DEF HostPaths
  <1>3. QED
    BY <1>1, <1>2

(* Making directories leaves what is there alone. *)
LEMMA MakingKeeps ==
  ASSUME HostTyped, NEW dirs, IsFiniteSet(dirs)
  PROVE  /\ With(dirs) \in [DOMAIN host \union dirs -> HostFiles]
         /\ IsFiniteSet(DOMAIN host \union dirs)
         /\ \A d \in DOMAIN host : With(dirs)[d] = host[d]
  <1>1. IsFiniteSet(DOMAIN host \union dirs)
    BY FS_Union DEF HostTyped
  <1>2. Dir \in HostFiles
    BY DEF Dir, HostFiles
  <1>3. \A d \in DOMAIN host : host[d] \in HostFiles
    BY DEF HostTyped
  <1>4. QED
    BY <1>1, <1>2, <1>3 DEF With, Exists

LEMMA RequestedType ==
  ASSUME NEW e \in Entries
  PROVE  Requested(e) \in HostPaths
  <1>1. e.path \in Seq(DOMAIN Clean)
    BY DEF Entries, Paths
  <1>2. \A i \in 1 .. Len(e.path) : Clean[e.path[i]] \in {Clean[n] : n \in DOMAIN Clean}
    BY <1>1
  <1>3. DOMAIN e.path = 1 .. Len(e.path) /\ Len(e.path) \in Nat
    BY <1>1
  <1>4. QED
    BY <1>2, <1>3 DEF Requested, HostPaths

LEMMA ResolvedType ==
  ASSUME HostTyped, NEW r \in Tasks, NEW path \in HostPaths
  PROVE  /\ ResolveDestination(r, path).dest \in Places
         /\ ResolveDestination(r, path).dest[1] = path
         /\ ResolveDestination(r, path).decision \in {"new", "overwrite", "versioned_copy"}
         /\ r.mode # "Overwrite" => ~Exists(ResolveDestination(r, path).dest)
  <1>1. Plain(path) \in Places /\ Plain(path)[1] = path
    BY DEF Plain, Places
  <1>2. PICK n \in Nat : FreeVersion(path) = <<path, n>> /\ ~Exists(<<path, n>>)
    BY FreeVersionIsFree
  <1>3. QED
    BY <1>1, <1>2 DEF ResolveDestination, Places

-----------------------------------------------------------------------------
(* Every step keeps the task that takes it in order. *)

LEMMA Moved ==
  ASSUME NEW w \in Workers, NEW r, run \in [Workers -> Tasks], Update(w, r)
  PROVE  /\ run'[w] = r
         /\ \A v \in Workers \ {w} : run'[v] = run[v]
         /\ r \in Tasks => run' \in [Workers -> Tasks]
  BY DEF Update

LEMMA ResultType ==
  ASSUME NEW e \in Entries, NEW outcome \in Outcomes, NEW dest \in Places \union {<<>>},
         NEW written \in Nat, written <= e.size, NEW warned \in BOOLEAN, NEW failed \in BOOLEAN
  PROVE  /\ Result(e, outcome, dest, written, warned, failed) \in ResultRecords
         /\ Result(e, outcome, dest, written, warned, failed).entry = e
         /\ Result(e, outcome, dest, written, warned, failed).outcome = outcome
         /\ Result(e, outcome, dest, written, warned, failed).dest = dest
  <1>1. FinalStatus(outcome, warned, failed) \in Outcomes \union {"success_with_warning"}
    BY DEF FinalStatus
  <1>2. QED
    BY <1>1 DEF Result, ResultRecords

LEMMA StartIsLocal ==
  ASSUME NEW mode \in Modes, NEW selected \in Selections
  PROVE  Local(Start(mode, selected))
  <1> DEFINE r == Start(mode, selected)
  <1>1. /\ r.seed = 1 /\ r.selected = selected /\ r.stack = <<>> /\ r.index = 1 /\ r.worklist = <<>>
        /\ r.phase = "collect" /\ r.offset = 0 /\ r.results = <<>> /\ r.processed = 0 /\ r.error = ""
        /\ r.token = FALSE
    BY DEF Start
  <1>2. r \in Tasks
    BY DEF Start, Tasks, Phases, Decisions, Errors, Answers
  <1>3. selected \in Seq(KnownEntries)
    BY SelectionsKnown
  <1> HIDE DEF r
  <1>4. /\ r.stack = <<>> /\ r.worklist = <<>> /\ r.results = <<>>
    BY <1>1
  <1>5. Len(r.stack) = 0 /\ Len(r.worklist) = 0 /\ Len(r.results) = 0
    BY <1>4
  <1>6. r.index = 1 /\ r.seed = 1 /\ r.selected = selected
    BY <1>1
  <1>7. /\ r.seed <= Len(r.selected) + 1 /\ Len(r.stack) <= MaxDepth + 1
        /\ r.index <= Len(r.worklist) + 1 /\ Len(r.results) = r.index - 1
    <2>1. Len(selected) \in Nat /\ MaxDepth \in Nat
      BY <1>3, ExtractionAssumption
    <2>2. QED
      BY <1>5, <1>6, <2>1
  <1>9. r.phase = "collect" /\ r.error = ""
    BY <1>1
  <1>10. Bounds(r)
    <2>1. r.offset = 0 /\ r.processed = 0
      BY <1>1
    <2>2. QED
      BY <1>4, <1>6, <1>7, <1>9, <2>1 DEF Bounds
  <1>11. Turns(r)
    <2>1. Len(r.results) = r.index - 1
      BY <1>7
    <2>2. \A i \in 1 .. Len(r.results) : r.results[i].entry = r.worklist[i]
      BY <1>5
    <2>3. QED
      BY <1>9, <2>1, <2>2 DEF Turns
  <1>8. QED
    BY <1>2, <1>10, <1>11 DEF Local, r

LEMMA CancelIsLocal ==
  ASSUME NEW w \in Workers, run \in [Workers -> Tasks], Local(run[w]), RequestCancel(w)
  PROVE  Local(run'[w])
  <1> DEFINE r == run[w]
             s == [r EXCEPT !.token = TRUE]
  <1>1. run'[w] = s /\ r.phase # "answered"
    BY Moved DEF RequestCancel
  <1>2. s \in Tasks
    BY DEF Local, Tasks
  <1>3. /\ s.seed = r.seed /\ s.selected = r.selected /\ s.stack = r.stack /\ s.index = r.index
        /\ s.worklist = r.worklist /\ s.phase = r.phase /\ s.dest = r.dest /\ s.offset = r.offset
        /\ s.results = r.results /\ s.processed = r.processed /\ s.error = r.error /\ s.token
    BY DEF Local, Tasks
  <1> HIDE DEF s, r
  <1>4. Local(r)
    BY DEF r
  <1>5. Bounds(s)
    BY <1>3, <1>4 DEF Local, Bounds, Current
  <1>6. Turns(s)
    BY <1>1, <1>3, <1>4 DEF Local, Turns
  <1>7. QED
    BY <1>1, <1>2, <1>5, <1>6 DEF Local

(* The fields a step of the collection leaves alone. *)
Collecting(r, s) ==
  /\ s.phase = "collect" /\ s.index = r.index /\ s.results = r.results /\ s.processed = r.processed
  /\ s.offset = r.offset /\ s.error = r.error /\ s.token = r.token /\ s.selected = r.selected

LEMMA CollectingIsLocal ==
  ASSUME NEW r, Local(r), r.phase = "collect", NEW s \in Tasks, Collecting(r, s),
         s.seed <= Len(s.selected) + 1, Len(s.stack) <= MaxDepth + 1
  PROVE  Local(s)
  <1>1. r.index = 1 /\ r.results = <<>> /\ r.processed = 0 /\ r.offset = 0 /\ r.error = ""
    BY DEF Local, Bounds, Turns
  <1>2. s.results = <<>>
    BY <1>1 DEF Collecting
  <1>7. s.phase = "collect" /\ s.error = ""
    BY <1>1 DEF Collecting
  <1>3. s.index = 1 /\ s.processed = 0 /\ s.offset = 0
    BY <1>1 DEF Collecting
  <1>4. Len(s.results) = 0
    BY <1>2
  <1>5. s.index <= Len(s.worklist) + 1 /\ Len(s.results) = s.index - 1
    <2>1. Len(s.worklist) \in Nat
      BY DEF Tasks
    <2>2. QED
      BY <1>3, <1>4, <2>1
  <1>6. Bounds(s)
    BY <1>2, <1>3, <1>5, <1>7 DEF Bounds
  <1>8. Turns(s)
    <2>1. Len(s.results) = s.index - 1
      BY <1>5
    <2>2. \A i \in 1 .. Len(s.results) : s.results[i].entry = s.worklist[i]
      BY <1>4
    <2>3. QED
      BY <1>7, <2>1, <2>2 DEF Turns
  <1>9. QED
    BY <1>6, <1>8 DEF Local

LEMMA CalledKeeps ==
  ASSUME NEW r \in Tasks, HasCall(r)
  PROVE  /\ Collecting(r, Called(r))
         /\ Called(r).paths = r.paths /\ Called(r).inodes = r.inodes /\ Called(r).worklist = r.worklist
  <1>1. r.phase = "collect"
    BY DEF HasCall
  <1>2. QED
    BY <1>1 DEF Called, Collecting, Tasks

LEMMA CollectedType ==
  ASSUME NEW r \in Tasks, r.phase = "collect", NEW e \in KnownEntries
  PROVE  /\ Collected(r, e) \in Tasks /\ Collecting(r, Collected(r, e))
         /\ Collected(r, e).stack = r.stack /\ Collected(r, e).seed = r.seed
         /\ Collected(r, e).inodes = r.inodes
         /\ Collected(r, e).paths = r.paths \union {e.path}
         /\ Collected(r, e).worklist = Append(r.worklist, e)
  <1>1. e.path \in Paths
    BY DEF KnownEntries, Entries
  <1>2. r.paths \union {e.path} \in SUBSET Paths
    BY <1>1 DEF Tasks
  <1>3. Append(r.worklist, e) \in Seq(KnownEntries)
    BY DEF Tasks
  <1>4. QED
    BY <1>2, <1>3 DEF Collected, Collecting, Tasks

LEMMA OpenedType ==
  ASSUME NEW r \in Tasks, r.phase = "collect", NEW e \in KnownEntries, e.dir
  PROVE  /\ Opened(r, e) \in Tasks /\ Collecting(r, Opened(r, e))
         /\ Opened(r, e).stack = <<[path |-> e.path, left |-> Contents[e.inode]]>> \o r.stack
         /\ Len(Opened(r, e).stack) = Len(r.stack) + 1
         /\ Opened(r, e).inodes = (IF e.inode = 0 THEN r.inodes ELSE r.inodes \union {e.inode})
         /\ Opened(r, e).seed = r.seed /\ Opened(r, e).paths = r.paths
         /\ Opened(r, e).worklist = r.worklist
  <1> DEFINE f == [path |-> e.path, left |-> Contents[e.inode]]
             stack == <<f>> \o r.stack
             inodes == IF e.inode = 0 THEN r.inodes ELSE r.inodes \union {e.inode}
  <1>1. e.path \in Paths /\ e.inode \in Nat /\ e.inode \in DOMAIN Contents
    BY DEF KnownEntries, Entries, Known
  <1>2. f \in Frames
    BY <1>1, ContentsKnown DEF Frames
  <1>3. r.stack \in Seq(Frames)
    BY DEF Tasks
  <1>4. Opened(r, e) = [r EXCEPT !.inodes = inodes, !.stack = stack]
    BY DEF Opened, Tasks
  <1> HIDE DEF f
  <1>5. stack \in Seq(Frames) /\ Len(stack) = Len(r.stack) + 1
    BY <1>2, <1>3, PushFacts
  <1>6. inodes \in SUBSET Nat
    BY <1>1 DEF Tasks
  <1> HIDE DEF stack, inodes
  <1>7. /\ Opened(r, e) \in Tasks /\ Collecting(r, Opened(r, e))
        /\ Opened(r, e).stack = stack /\ Opened(r, e).inodes = inodes
        /\ Opened(r, e).seed = r.seed /\ Opened(r, e).paths = r.paths
        /\ Opened(r, e).worklist = r.worklist
    BY <1>4, <1>5, <1>6 DEF Tasks, Collecting
  <1>8. QED
    BY <1>5, <1>7 DEF stack, inodes, f

(* The task after a step of the collection, its four ways apart. *)
LEMMA CollectCases ==
  ASSUME NEW w \in Workers, run \in [Workers -> Tasks], Collect(w)
  PROVE  LET r == run[w]
             e == Callee(r)
             n == Called(r)
         IN  /\ HasCall(r) /\ r.phase = "collect"
             /\ UNCHANGED host
             /\ \/ /\ r.token /\ run'[w] = [r EXCEPT !.phase = "returned", !.error = "cancelled"]
                \/ /\ Len(r.stack) > MaxDepth
                   /\ run'[w] = [r EXCEPT !.phase = "returned", !.error = "depth"]
                \/ run'[w] = [r EXCEPT !.phase = "returned", !.error = "unreadable directory"]
                \/ /\ Len(r.stack) <= MaxDepth /\ e.path \in r.paths /\ run'[w] = n
                \/ /\ Len(r.stack) <= MaxDepth /\ e.path \notin r.paths /\ ~Expands(r, e)
                   /\ run'[w] = Collected(n, e)
                \/ /\ Len(r.stack) <= MaxDepth /\ e.path \notin r.paths /\ Expands(r, e) /\ e.dir
                   /\ run'[w] = Opened(Collected(n, e), e)
  BY DEF Collect, Return, Update, Seen, Expands, HasCall

LEMMA CollectIsLocal ==
  ASSUME NEW w \in Workers, run \in [Workers -> Tasks], Local(run[w]), Collect(w)
  PROVE  Local(run'[w])
  <1> DEFINE r == run[w]
             e == Callee(r)
             n == Called(r)
             c == Collected(n, e)
  <1>1. /\ HasCall(r) /\ r.phase = "collect"
        /\ \/ r.token /\ run'[w] = [r EXCEPT !.phase = "returned", !.error = "cancelled"]
           \/ run'[w] = [r EXCEPT !.phase = "returned", !.error = "depth"]
           \/ run'[w] = [r EXCEPT !.phase = "returned", !.error = "unreadable directory"]
           \/ run'[w] = n
           \/ run'[w] = c
           \/ Len(r.stack) <= MaxDepth /\ e.dir /\ run'[w] = Opened(c, e)
    BY CollectCases
  <1> HIDE DEF r, e, n, c
  <1>2. Local(r) /\ r \in Tasks /\ r.seed <= Len(r.selected) + 1 /\ Len(r.stack) <= MaxDepth + 1
    BY DEF r, Local, Bounds
  <1>3. e \in KnownEntries /\ n \in Tasks /\ n.seed <= Len(r.selected) + 1 /\ Len(n.stack) = Len(r.stack)
    BY <1>1, <1>2, CallTypes DEF e, n
  <1>4. Collecting(r, n) /\ n.phase = "collect"
    BY <1>1, <1>2, CalledKeeps DEF n, Collecting
  <1>5. c \in Tasks /\ Collecting(n, c) /\ c.phase = "collect" /\ c.stack = n.stack /\ c.seed = n.seed
    BY <1>3, <1>4, CollectedType DEF c, Collecting
  <1>6. \A error \in {"cancelled", "depth", "unreadable directory"} :
          (error = "cancelled" => r.token) => Local([r EXCEPT !.phase = "returned", !.error = error])
    BY <1>1, <1>2, ReturnIsLocal DEF Errors
  <1>7. Collecting(r, c)
    BY <1>4, <1>5 DEF Collecting
  <1>8. n.selected = r.selected /\ c.selected = r.selected
    BY <1>4, <1>7 DEF Collecting
  <1>9. CASE run'[w] = n
    BY <1>1, <1>2, <1>3, <1>4, <1>8, <1>9, CollectingIsLocal
  <1>10. CASE run'[w] = c
    BY <1>1, <1>2, <1>3, <1>5, <1>7, <1>8, <1>10, CollectingIsLocal
  <1>11. CASE Len(r.stack) <= MaxDepth /\ e.dir /\ run'[w] = Opened(c, e)
    <2> DEFINE o == Opened(c, e)
    <2>1. o \in Tasks /\ Collecting(c, o) /\ Len(o.stack) = Len(c.stack) + 1 /\ o.seed = c.seed
      BY <1>3, <1>5, <1>11, OpenedType
    <2> HIDE DEF o
    <2>2. Collecting(r, o) /\ o.selected = r.selected
      BY <1>7, <2>1 DEF Collecting
    <2>3. o.seed <= Len(o.selected) + 1
      BY <1>3, <1>5, <2>1, <2>2
    <2>4. Len(o.stack) <= MaxDepth + 1
      <3>1. MaxDepth \in Nat /\ Len(r.stack) \in Nat
        BY <1>2, ExtractionAssumption DEF Tasks
      <3>2. Len(o.stack) = Len(r.stack) + 1
        BY <1>3, <1>5, <2>1
      <3>3. QED
        BY <1>11, <3>1, <3>2
    <2>5. QED
      BY <1>1, <1>2, <1>11, <2>1, <2>2, <2>3, <2>4, CollectingIsLocal DEF o
  <1>12. QED
    BY <1>1, <1>6, <1>9, <1>10, <1>11

LEMMA CloseIsLocal ==
  ASSUME NEW w \in Workers, run \in [Workers -> Tasks], Local(run[w]), CloseDirectory(w)
  PROVE  Local(run'[w])
  <1> DEFINE r == run[w]
             s == [r EXCEPT !.stack = Tail(@)]
  <1>1. run'[w] = s /\ r.phase = "collect" /\ r.stack # <<>> /\ r \in Tasks
    BY Moved DEF CloseDirectory, InDirectory, Local
  <1> HIDE DEF r
  <1>2. r.stack \in Seq(Frames)
    BY <1>1 DEF Tasks
  <1>3. Tail(r.stack) \in Seq(Frames) /\ Len(Tail(r.stack)) = Len(r.stack) - 1
    BY <1>1, <1>2, TailFacts
  <1>4. s \in Tasks /\ Collecting(r, s) /\ s.stack = Tail(r.stack) /\ s.seed = r.seed
    BY <1>1, <1>3 DEF Tasks, Collecting
  <1> HIDE DEF s
  <1>5. Local(r) /\ r.seed <= Len(r.selected) + 1 /\ Len(r.stack) <= MaxDepth + 1 /\ MaxDepth \in Nat
    BY ExtractionAssumption DEF r, Local, Bounds
  <1>6. Len(r.stack) \in Nat
    BY <1>2
  <1>7. Len(s.stack) <= MaxDepth + 1
    BY <1>3, <1>4, <1>5, <1>6
  <1>8. s.selected = r.selected
    BY <1>4 DEF Collecting
  <1>9. QED
    BY <1>1, <1>4, <1>5, <1>7, <1>8, CollectingIsLocal

LEMMA CompleteIsLocal ==
  ASSUME NEW w \in Workers, run \in [Workers -> Tasks], Local(run[w]), WorklistComplete(w)
  PROVE  Local(run'[w])
  <1> DEFINE r == run[w]
             s == [r EXCEPT !.phase = "files"]
  <1>1. run'[w] = s /\ r.phase = "collect" /\ r \in Tasks
    BY Moved DEF WorklistComplete, Local
  <1>2. s \in Tasks
    BY <1>1 DEF Tasks, Phases
  <1>3. /\ s.phase = "files" /\ s.error = r.error /\ s.worklist = r.worklist /\ s.index = r.index
        /\ s.results = r.results /\ s.token = r.token /\ s.offset = r.offset
        /\ s.seed = r.seed /\ s.selected = r.selected /\ s.stack = r.stack /\ s.processed = r.processed
    BY <1>1 DEF Tasks
  <1> HIDE DEF s, r
  <1>4. Local(r)
    BY DEF r
  <1>5. r.worklist \in Seq(Entries)
    BY <1>1 DEF Tasks, KnownEntries
  <1>6. TotalSizes(r.worklist)[0] = 0
    BY <1>5, TotalSizesType
  <1>7. r.processed = 0 /\ r.index = 1 /\ r.offset = 0
    BY <1>1, <1>4 DEF Local, Bounds
  <1>8. s.processed <= TotalSizes(s.worklist)[s.index - 1]
    BY <1>3, <1>6, <1>7
  <1>9. Bounds(s)
    BY <1>1, <1>3, <1>4, <1>7, <1>8 DEF Local, Bounds
  <1>10. Turns(s)
    <2>1. /\ Len(r.results) = r.index - 1 /\ r.error = ""
          /\ \A i \in 1 .. Len(r.results) : r.results[i].entry = r.worklist[i]
      BY <1>1, <1>4 DEF Local, Turns
    <2>2. QED
      BY <1>3, <2>1 DEF Turns
  <1>11. QED
    BY <1>1, <1>2, <1>9, <1>10 DEF Local

LEMMA CheckIsLocal ==
  ASSUME NEW w \in Workers, run \in [Workers -> Tasks], Local(run[w]), CheckToken(w)
  PROVE  Local(run'[w])
  <1> DEFINE r == run[w]
             s == [r EXCEPT !.checked = TRUE]
  <1>1. run'[w] = s /\ r.phase # "answered"
    BY Moved DEF CheckToken, AtEntry, Unfinished, Copying
  <1>2. s \in Tasks
    BY DEF Local, Tasks
  <1>3. /\ s.seed = r.seed /\ s.selected = r.selected /\ s.stack = r.stack /\ s.index = r.index
        /\ s.worklist = r.worklist /\ s.phase = r.phase /\ s.dest = r.dest /\ s.offset = r.offset
        /\ s.results = r.results /\ s.processed = r.processed /\ s.error = r.error
        /\ s.token = r.token
    BY DEF Local, Tasks
  <1> HIDE DEF s, r
  <1>4. Local(r)
    BY DEF r
  <1>5. Bounds(s)
    BY <1>3, <1>4 DEF Local, Bounds, Current
  <1>6. Turns(s)
    <2>1. s.phase # "answered"
      BY <1>1, <1>3
    <2>2. Turns(r)
      BY <1>4 DEF Local
    <2>3. QED
      BY <1>3, <2>1, <2>2 DEF Turns
  <1>7. QED
    BY <1>1, <1>2, <1>5, <1>6 DEF Local

LEMMA StopIsLocal ==
  ASSUME NEW w \in Workers, run \in [Workers -> Tasks], Local(run[w]),
         StopBetweenFiles(w) \/ LoopEnds(w) \/ StopInFile(w)
  PROVE  Local(run'[w])
  <1> DEFINE r == run[w]
  <1>1. /\ r.phase \in {"files", "copy"} /\ r.index \in Nat /\ Len(r.worklist) \in Nat
        /\ \/ r.token /\ run'[w] = [r EXCEPT !.phase = "returned", !.error = "cancelled"]
           \/ /\ r.index > Len(r.worklist)
              /\ run'[w] = [r EXCEPT !.phase = "returned", !.error = ""]
    <2>1. r.index \in Nat /\ Len(r.worklist) \in Nat
      BY DEF Local, Tasks
    <2>2. CASE StopBetweenFiles(w)
      BY <2>1, <2>2, Moved DEF StopBetweenFiles, AtEntry, Return
    <2>3. CASE LoopEnds(w)
      BY <2>1, <2>3, Moved DEF LoopEnds, Return
    <2>4. CASE StopInFile(w)
      BY <2>1, <2>4, Moved DEF StopInFile, Unfinished, Copying, Return
    <2>5. QED
      BY <2>2, <2>3, <2>4
  <1> HIDE DEF r
  <1>2. Local(r)
    BY DEF r
  <1>3. QED
    BY <1>1, <1>2, ReturnIsLocal DEF Errors

(* The turns of the loop that end at once. *)
LEMMA TurnIsLocal ==
  ASSUME NEW w \in Workers, run \in [Workers -> Tasks], Local(run[w]), HostTyped,
         MakeDirectory(w) \/ RejectInode(w) \/ SkipFile(w)
  PROVE  Local(run'[w])
  <1> DEFINE r == run[w]
             e == Current(r)
  <1>1. r.phase = "files" /\ r.index <= Len(r.worklist)
    BY DEF MakeDirectory, RejectInode, SkipFile, AtEntry
  <1>2. Local(r)
    OBVIOUS
  <1>3. e \in Entries /\ e.size \in Nat /\ e.dir \in BOOLEAN
    BY <1>1, <1>2, EntryTypes
  <1>4. Plain(Requested(e)) \in Places
    BY <1>3, RequestedType DEF Plain, Places
  <1> DEFINE made    == Result(e, "directory_created", Plain(Requested(e)), 0, FALSE, FALSE)
             unmade  == Result(e, "directory_create_failed", <<>>, 0, FALSE, TRUE)
             invalid == Result(e, "invalid_inode", <<>>, 0, FALSE, TRUE)
             skipped == Result(e, "skipped_existing", Plain(Requested(e)), 0, FALSE, FALSE)
  <1>6. \A x \in {made, unmade, invalid, skipped} : x \in ResultRecords /\ x.entry = e
    <2>1. /\ "directory_created" \in Outcomes /\ "directory_create_failed" \in Outcomes
          /\ "invalid_inode" \in Outcomes /\ "skipped_existing" \in Outcomes
          /\ TRUE \in BOOLEAN /\ FALSE \in BOOLEAN
      BY DEF Outcomes
    <2>2. Plain(Requested(e)) \in Places \union {<<>>} /\ <<>> \in Places \union {<<>>}
      BY <1>4
    <2>3. e \in Entries /\ 0 \in Nat /\ 0 <= e.size
      BY <1>3
    <2> HIDE DEF e
    <2>4. made \in ResultRecords /\ made.entry = e
      BY <2>1, <2>2, <2>3 DEF Result, FinalStatus, ResultRecords
    <2>5. unmade \in ResultRecords /\ unmade.entry = e
      BY <2>1, <2>2, <2>3 DEF Result, FinalStatus, ResultRecords
    <2>6. invalid \in ResultRecords /\ invalid.entry = e
      BY <2>1, <2>2, <2>3 DEF Result, FinalStatus, ResultRecords
    <2>7. skipped \in ResultRecords /\ skipped.entry = e
      BY <2>1, <2>2, <2>3 DEF Result, FinalStatus, ResultRecords
    <2>8. QED
      BY <2>4, <2>5, <2>6, <2>7
  <1>7. \/ run'[w] = Done(r, made, 0) \/ run'[w] = Done(r, unmade, 0) \/ run'[w] = Done(r, invalid, 0)
        \/ ~e.dir /\ run'[w] = Done(r, skipped, e.size)
    <2>1. CASE MakeDirectory(w)
      BY <2>1, Moved DEF MakeDirectory
    <2>2. CASE RejectInode(w)
      BY <2>2, Moved DEF RejectInode
    <2>3. CASE SkipFile(w)
      BY <2>3, Moved DEF SkipFile
    <2>4. QED
      BY <2>1, <2>2, <2>3
  <1> HIDE DEF made, unmade, invalid, skipped, e, r
  <1>8. e = Current(r)
    BY DEF e
  <1>9. \A x \in {made, unmade, invalid, skipped} : Local(Done(r, x, 0))
    BY <1>1, <1>2, <1>3, <1>6, <1>8, DoneIsLocal
  <1>10. ~e.dir => Local(Done(r, skipped, e.size))
    BY <1>1, <1>2, <1>3, <1>6, <1>8, DoneIsLocal
  <1>11. QED
    BY <1>7, <1>9, <1>10

LEMMA DecideIsLocal ==
  ASSUME NEW w \in Workers, run \in [Workers -> Tasks], Local(run[w]), HostTyped, DecideDestination(w)
  PROVE  Local(run'[w])
  <1> DEFINE r == run[w]
             choice == ResolveDestination(r, Requested(Current(r)))
             s == [r EXCEPT !.phase = "open", !.dest = choice.dest, !.decision = choice.decision]
  <1>1. r.phase = "files" /\ r.index <= Len(r.worklist) /\ ~Current(r).dir /\ run'[w] = s
    BY Moved DEF DecideDestination, AtEntry
  <1>2. Local(r) /\ r \in Tasks
    BY DEF Local
  <1>3. Requested(Current(r)) \in HostPaths
    BY <1>1, <1>2, EntryTypes, RequestedType
  <1>4. choice.dest \in Places /\ choice.decision \in Decisions
    BY <1>2, <1>3, ResolvedType DEF Decisions
  <1> HIDE DEF choice, r
  <1>5. s \in Tasks
    BY <1>2, <1>4 DEF Tasks, Phases
  <1>6. /\ s.phase = "open" /\ s.dest = choice.dest /\ s.error = r.error /\ s.worklist = r.worklist
        /\ s.index = r.index /\ s.results = r.results /\ s.token = r.token /\ s.offset = r.offset
        /\ s.seed = r.seed /\ s.selected = r.selected /\ s.stack = r.stack /\ s.processed = r.processed
    BY <1>2 DEF Tasks
  <1> HIDE DEF s
  <1>7. Bounds(s)
    BY <1>1, <1>2, <1>4, <1>6 DEF Local, Bounds, Current
  <1>8. Turns(s)
    BY <1>1, <1>2, <1>6 DEF Local, Turns
  <1>9. QED
    BY <1>1, <1>5, <1>7, <1>8 DEF Local

(* A file that was begun: its entry, and what it was given. *)
LEMMA BegunTypes ==
  ASSUME NEW r, Local(r), r.phase \in {"open", "copy"}
  PROVE  /\ r \in Tasks /\ r.index <= Len(r.worklist) /\ Current(r) \in Entries
         /\ Current(r).size \in Nat /\ ~Current(r).dir /\ Current(r).deleted \in BOOLEAN
         /\ r.dest \in Places /\ r.offset \in Nat /\ r.offset <= Current(r).size
  <1>1. r \in Tasks /\ r.index <= Len(r.worklist) /\ ~Current(r).dir /\ r.dest \in Places /\ r.offset \in Nat
    BY DEF Local, Bounds, Tasks
  <1>2. Current(r) \in Entries /\ Current(r).size \in Nat
    BY <1>1, EntryTypes
  <1>3. r.phase = "open" => r.offset = 0
    BY DEF Local, Bounds
  <1>4. r.phase = "copy" => r.offset <= Current(r).size
    BY DEF Local, Bounds
  <1>5. r.offset <= Current(r).size
    BY <1>2, <1>3, <1>4
  <1>6. Current(r).deleted \in BOOLEAN
    BY <1>2 DEF Entries
  <1>7. QED
    BY <1>1, <1>2, <1>5, <1>6

LEMMA OpenIsLocal ==
  ASSUME NEW w \in Workers, run \in [Workers -> Tasks], Local(run[w]), OpenFile(w)
  PROVE  Local(run'[w])
  <1> DEFINE r == run[w]
             e == Current(r)
             unread == Result(e, "open_failed", <<>>, 0, FALSE, TRUE)
             unmade == Result(e, "write_open_failed", <<>>, 0, FALSE, TRUE)
             s == [r EXCEPT !.phase = "copy", !.offset = 0, !.checked = FALSE]
  <1>1. /\ r.phase = "open"
        /\ run'[w] = Done(r, unread, 0) \/ run'[w] = Done(r, unmade, 0) \/ run'[w] = s
    BY Moved DEF OpenFile
  <1>2. Local(r) /\ r.phase \in {"open", "copy"}
    BY <1>1
  <1>3. /\ r \in Tasks /\ r.index <= Len(r.worklist) /\ e \in Entries
        /\ e.size \in Nat /\ ~e.dir /\ r.dest \in Places
    BY <1>2, BegunTypes
  <1>4. "open_failed" \in Outcomes /\ "write_open_failed" \in Outcomes /\ 0 \in Nat /\ 0 <= e.size
    BY <1>3 DEF Outcomes
  <1> HIDE DEF e
  <1>5. unread \in ResultRecords /\ unread.entry = e
    BY <1>3, <1>4 DEF Result, FinalStatus, ResultRecords
  <1>6. unmade \in ResultRecords /\ unmade.entry = e
    BY <1>3, <1>4 DEF Result, FinalStatus, ResultRecords
  <1> HIDE DEF unread, unmade, r
  <1>7. \A x \in {unread, unmade} : Local(Done(r, x, 0))
    BY <1>1, <1>2, <1>3, <1>4, <1>5, <1>6, DoneIsLocal DEF e
  <1>8. s \in Tasks
    BY <1>3 DEF Tasks, Phases
  <1>9. /\ s.phase = "copy" /\ s.dest = r.dest /\ s.error = r.error /\ s.worklist = r.worklist
        /\ s.index = r.index /\ s.results = r.results /\ s.token = r.token /\ s.offset = 0
        /\ s.seed = r.seed /\ s.selected = r.selected /\ s.stack = r.stack /\ s.processed = r.processed
    BY <1>3 DEF Tasks
  <1> HIDE DEF s
  <1>10. Bounds(s)
    <2>1. Current(s) = e
      BY <1>9 DEF Current, e
    <2>2. s.offset <= Current(s).size /\ ~Current(s).dir /\ s.dest \in Places
      BY <1>3, <1>4, <1>9, <2>1
    <2>3. s.processed <= TotalSizes(s.worklist)[s.index - 1] /\ s.index <= Len(s.worklist)
      BY <1>1, <1>2, <1>3, <1>9 DEF Local, Bounds
    <2>4. s.seed <= Len(s.selected) + 1 /\ Len(s.stack) <= MaxDepth + 1 /\ s.index <= Len(s.worklist) + 1
      BY <1>2, <1>9 DEF Local, Bounds
    <2>5. QED
      BY <1>9, <2>2, <2>3, <2>4 DEF Bounds
  <1>11. Turns(s)
    <2>1. /\ Len(r.results) = r.index - 1 /\ r.error = ""
          /\ \A i \in 1 .. Len(r.results) : r.results[i].entry = r.worklist[i]
      BY <1>1, <1>2 DEF Local, Turns
    <2>2. QED
      BY <1>9, <2>1 DEF Turns
  <1>12. QED
    BY <1>1, <1>7, <1>8, <1>10, <1>11 DEF Local

LEMMA ChunkIsLocal ==
  ASSUME NEW w \in Workers, run \in [Workers -> Tasks], Local(run[w]), CopyChunk(w)
  PROVE  Local(run'[w])
  <1> DEFINE r == run[w]
             e == Current(r)
  <1>1. PICK got \in 1 .. Ask(r, e) : run'[w] = [r EXCEPT !.offset = @ + got, !.checked = FALSE]
    BY Moved DEF CopyChunk
  <1>2. r.phase = "copy" /\ r.offset < e.size
    BY DEF CopyChunk, Unfinished, Copying
  <1>3. Local(r) /\ r.phase \in {"open", "copy"}
    BY <1>2
  <1>4. /\ r \in Tasks /\ r.index <= Len(r.worklist) /\ e \in Entries
        /\ e.size \in Nat /\ ~e.dir /\ r.dest \in Places /\ r.offset \in Nat
    BY <1>3, BegunTypes
  <1> DEFINE s == [r EXCEPT !.offset = @ + got, !.checked = FALSE]
  <1> HIDE DEF r, e
  <1>5. Chunk \in Nat /\ Ask(r, e) <= e.size - r.offset /\ Ask(r, e) \in Int
    BY <1>4, ExtractionAssumption DEF Ask, Least
  <1>6. r.offset + got \in Nat /\ r.offset + got <= e.size
    BY <1>4, <1>5
  <1>7. s \in Tasks
    BY <1>4, <1>6 DEF Tasks
  <1>8. /\ s.phase = "copy" /\ s.dest = r.dest /\ s.error = r.error /\ s.worklist = r.worklist
        /\ s.index = r.index /\ s.results = r.results /\ s.token = r.token /\ s.offset = r.offset + got
        /\ s.seed = r.seed /\ s.selected = r.selected /\ s.stack = r.stack /\ s.processed = r.processed
    BY <1>2, <1>4 DEF Tasks
  <1> HIDE DEF s
  <1>9. Bounds(s)
    <2>1. Current(s) = e
      BY <1>8 DEF Current, e
    <2>2. s.offset <= Current(s).size /\ ~Current(s).dir /\ s.dest \in Places
      BY <1>4, <1>6, <1>8, <2>1
    <2>3. s.processed <= TotalSizes(s.worklist)[s.index - 1] /\ s.index <= Len(s.worklist)
      BY <1>2, <1>3, <1>4, <1>8 DEF Local, Bounds
    <2>4. s.seed <= Len(s.selected) + 1 /\ Len(s.stack) <= MaxDepth + 1 /\ s.index <= Len(s.worklist) + 1
      BY <1>3, <1>8 DEF Local, Bounds
    <2>5. QED
      BY <1>8, <2>2, <2>3, <2>4 DEF Bounds
  <1>10. Turns(s)
    <2>1. /\ Len(r.results) = r.index - 1 /\ r.error = ""
          /\ \A i \in 1 .. Len(r.results) : r.results[i].entry = r.worklist[i]
      BY <1>2, <1>3 DEF Local, Turns
    <2>2. QED
      BY <1>8, <2>1 DEF Turns
  <1>11. QED
    BY <1>1, <1>7, <1>9, <1>10 DEF Local, s

LEMMA FailsIsLocal ==
  ASSUME NEW w \in Workers, run \in [Workers -> Tasks], Local(run[w]), CopyFails(w)
  PROVE  Local(run'[w])
  <1> DEFINE r == run[w]
             e == Current(r)
             unread == Result(e, "read_failed", r.dest, r.offset, FALSE, TRUE)
             unmade == Result(e, "write_failed", r.dest, r.offset, FALSE, TRUE)
  <1>1. /\ r.phase = "copy"
        /\ run'[w] = Done(r, unread, r.offset) \/ run'[w] = Done(r, unmade, r.offset)
    BY Moved DEF CopyFails, Unfinished, Copying
  <1>2. Local(r) /\ r.phase \in {"open", "copy"}
    BY <1>1
  <1>3. /\ r \in Tasks /\ r.index <= Len(r.worklist) /\ e \in Entries
        /\ e.size \in Nat /\ ~e.dir /\ r.dest \in Places /\ r.offset \in Nat /\ r.offset <= e.size
    BY <1>2, BegunTypes
  <1>4. "read_failed" \in Outcomes /\ "write_failed" \in Outcomes
    BY DEF Outcomes
  <1> HIDE DEF e, r
  <1>5. unread \in ResultRecords /\ unread.entry = e
    BY <1>3, <1>4 DEF Result, FinalStatus, ResultRecords
  <1>6. unmade \in ResultRecords /\ unmade.entry = e
    BY <1>3, <1>4 DEF Result, FinalStatus, ResultRecords
  <1> HIDE DEF unread, unmade
  <1>7. \A x \in {unread, unmade} : Local(Done(r, x, r.offset))
    BY <1>1, <1>2, <1>3, <1>5, <1>6, DoneIsLocal DEF e
  <1>8. QED
    BY <1>1, <1>7

LEMMA FinishIsLocal ==
  ASSUME NEW w \in Workers, run \in [Workers -> Tasks], Local(run[w]), FinishFile(w)
  PROVE  Local(run'[w])
  <1> DEFINE r == run[w]
             e == Current(r)
             warned(t) == r.offset # e.size \/ e.deleted \/ t
             x(t) == Result(e, Outcome(r, e), r.dest, r.offset, warned(t), FALSE)
  <1>1. PICK t \in BOOLEAN : run'[w] = Done(r, x(t), r.offset)
    BY Moved DEF FinishFile
  <1>2. Local(r) /\ r.phase = "copy"
    BY DEF FinishFile, Copying
  <1>3. /\ r \in Tasks /\ r.index <= Len(r.worklist) /\ e \in Entries /\ e.deleted \in BOOLEAN
        /\ e.size \in Nat /\ ~e.dir /\ r.dest \in Places /\ r.offset \in Nat /\ r.offset <= e.size
    BY <1>2, BegunTypes
  <1> HIDE DEF e, r
  <1>4. warned(t) \in BOOLEAN
    BY <1>3
  <1>5. Outcome(r, e) \in Outcomes
    BY DEF Outcome, SuccessOutcome, Outcomes, SuccessOutcomes
  <1> HIDE DEF warned
  <1>6. x(t) \in ResultRecords /\ x(t).entry = e
    BY <1>3, <1>4, <1>5 DEF Result, FinalStatus, ResultRecords
  <1> HIDE DEF x
  <1>7. Local(Done(r, x(t), r.offset))
    BY <1>2, <1>3, <1>6, DoneIsLocal DEF e
  <1>8. QED
    BY <1>1, <1>7

LEMMA AnswerIsLocal ==
  ASSUME NEW w \in Workers, run \in [Workers -> Tasks], Local(run[w]), AnswerTask(w)
  PROVE  Local(run'[w])
  <1> DEFINE r == run[w]
             s == [r EXCEPT !.phase = "answered", !.answer = Answer(r), !.results = Payload(r)]
  <1>1. r.phase = "returned" /\ run'[w] = s
    BY Moved DEF AnswerTask
  <1>2. Local(r) /\ r \in Tasks
    BY DEF Local
  <1> HIDE DEF r
  <1>3. Answer(r) \in {"cancelled", "failed", "warning", "success"}
    BY DEF Answer
  <1>4. Payload(r) \in Seq(ResultRecords)
    BY <1>2 DEF Payload, Tasks
  <1>5. s \in Tasks
    BY <1>2, <1>3, <1>4 DEF Tasks, Phases, Answers
  <1>6. /\ s.phase = "answered" /\ s.answer = Answer(r) /\ s.results = Payload(r) /\ s.error = r.error
        /\ s.worklist = r.worklist /\ s.index = r.index /\ s.token = r.token
        /\ s.seed = r.seed /\ s.selected = r.selected /\ s.stack = r.stack
    BY <1>2 DEF Tasks
  <1> HIDE DEF s
  <1>7. Bounds(s)
    BY <1>2, <1>6 DEF Local, Bounds
  <1>8. Whole(s)
    <2>1. CASE Answer(r) \in {"success", "warning"}
      <3>1. r.error = "" /\ ~r.token /\ s.results = r.results
        BY <1>2, <1>6, <2>1 DEF Answer, Payload, Tasks
      <3>2. Len(r.results) = r.index - 1 /\ r.index > Len(r.worklist) /\ r.index <= Len(r.worklist) + 1
        BY <1>1, <1>2, <3>1 DEF Local, Bounds, Turns
      <3>3. r.index \in Nat /\ Len(r.worklist) \in Nat /\ DOMAIN r.results = 1 .. Len(r.results)
        BY <1>2 DEF Tasks
      <3>4. Len(r.results) = Len(r.worklist)
        BY <3>2, <3>3
      <3>5. \A i \in 1 .. Len(r.results) : r.results[i].entry = r.worklist[i]
        BY <1>1, <1>2 DEF Local, Turns
      <3>6. QED
        BY <1>6, <2>1, <3>1, <3>3, <3>4, <3>5 DEF Whole
    <2>2. CASE Answer(r) \notin {"success", "warning"}
      <3>1. s.results = <<>> /\ s.answer \notin {"success", "warning"}
        BY <1>6, <2>2 DEF Payload
      <3>2. r.token <=> Answer(r) = "cancelled"
        BY DEF Answer
      <3>3. QED
        BY <1>6, <3>1, <3>2 DEF Whole
    <2>3. QED
      BY <2>1, <2>2
  <1>9. Turns(s)
    <2>1. r.error = "cancelled" => r.token
      BY <1>2 DEF Local, Turns
    <2>2. QED
      BY <1>6, <1>8, <2>1 DEF Turns
  <1>10. QED
    BY <1>1, <1>5, <1>7, <1>9 DEF Local

-----------------------------------------------------------------------------
(* The steps together. *)

LEMMA HostStaysTyped ==
  ASSUME run \in [Workers -> Tasks], NEW w \in Workers, Local(run[w]), HostTyped,
         Extract(w) \/ RequestCancel(w)
  PROVE  HostTyped'
  <1> DEFINE r == run[w]
             e == Current(r)
  <1>0. \A d \in DOMAIN host : host[d] \in HostFiles
    BY DEF HostTyped
  <1>1. ASSUME NEW d, NEW n \in Nat, host' = Written(d, w, n) PROVE HostTyped'
    <2>1. DOMAIN host' = DOMAIN host /\ \A c \in DOMAIN host : c # d => host'[c] = host[c]
      BY <1>1 DEF Written, HostTyped
    <2>2. ASSUME d \in DOMAIN host PROVE host'[d] \in HostFiles
      <3>1. host'[d] = [host[d] EXCEPT !.bytes = @ + n, !.owner = IF @ = w THEN w ELSE "mixed"]
        BY <1>1, <2>2 DEF Written, HostTyped
      <3>2. host[d] \in HostFiles
        BY <1>0, <2>2
      <3>3. host[d].bytes + n \in Nat
        BY <3>2 DEF HostFiles
      <3>4. QED
        BY <3>1, <3>2, <3>3 DEF HostFiles
    <2>3. QED
      BY <1>0, <1>1, <2>1, <2>2 DEF Written, HostTyped
  <1>2. ASSUME NEW dirs, IsFiniteSet(dirs), host' = With(dirs) PROVE HostTyped'
    <2>1. DOMAIN host' = DOMAIN host \union dirs
      BY <1>2 DEF With
    <2>2. QED
      BY <1>2, <2>1, MakingKeeps DEF HostTyped
  <1>3. CASE UNCHANGED host
    BY <1>3 DEF HostTyped
  <1>4. CASE MakeDirectory(w) /\ host' # host
    <2>1. r.index <= Len(r.worklist)
      BY <1>4 DEF MakeDirectory, AtEntry
    <2>2. Requested(e) \in HostPaths
      BY <2>1, EntryTypes, RequestedType
    <2>3. IsFiniteSet(Parents(Requested(e)) \union {Plain(Requested(e))})
      BY <2>2, ParentsFinite, FS_AddElement
    <2>4. host' = With(Parents(Requested(e)) \union {Plain(Requested(e))})
      BY <1>4 DEF MakeDirectory
    <2>5. QED
      BY <1>2, <2>3, <2>4
  <1>5. CASE DecideDestination(w) /\ host' # host
    <2>1. r.index <= Len(r.worklist)
      BY <1>5 DEF DecideDestination, AtEntry
    <2>2. Requested(e) \in HostPaths
      BY <2>1, EntryTypes, RequestedType
    <2>3. host' = With(Parents(Requested(e)))
      BY <1>5 DEF DecideDestination
    <2>4. QED
      BY <1>2, <2>2, <2>3, ParentsFinite
  <1>6. CASE OpenFile(w) /\ host' # host
    <2> DEFINE file == [kind |-> "file", owner |-> w, source |-> <<e.path, e.inode>>, bytes |-> 0]
    <2>1. host' = [d \in DOMAIN host \union {r.dest} |-> IF d = r.dest THEN file ELSE host[d]]
      BY <1>6 DEF OpenFile
    <2>2. r.phase \in {"open", "copy"}
      BY <1>6 DEF OpenFile
    <2>3. e \in Entries
      BY <2>2, BegunTypes
    <2>4. e.path \in Paths /\ e.inode \in Nat
      BY <2>3 DEF Entries
    <2>5. file \in HostFiles
      BY <2>4 DEF HostFiles
    <2> HIDE DEF file
    <2>6. IsFiniteSet(DOMAIN host \union {r.dest}) /\ DOMAIN host' = DOMAIN host \union {r.dest}
      BY <2>1, FS_AddElement DEF HostTyped
    <2>7. QED
      BY <1>0, <2>1, <2>5, <2>6 DEF HostTyped
  <1>7. CASE (CopyChunk(w) \/ CopyFails(w)) /\ host' # host
    <2>1. r.phase \in {"open", "copy"}
      BY <1>7 DEF CopyChunk, CopyFails, Unfinished, Copying
    <2>2. r.offset \in Nat /\ e.size \in Nat /\ Chunk \in Nat
      BY <2>1, BegunTypes, ExtractionAssumption
    <2>3. Ask(r, e) \in Int
      BY <2>2 DEF Ask, Least
    <2>4. \E n \in Nat : host' = Written(r.dest, w, n)
      <3>1. CASE CopyChunk(w)
        <4>1. PICK n \in 1 .. Ask(r, e) : host' = Written(r.dest, w, n)
          BY <3>1 DEF CopyChunk
        <4>2. n \in Nat
          BY <2>3
        <4>3. QED
          BY <4>1, <4>2
      <3>2. CASE CopyFails(w)
        <4>1. PICK n \in 0 .. Ask(r, e) - 1 : host' = Written(r.dest, w, n)
          BY <1>7, <3>2 DEF CopyFails
        <4>2. n \in Nat
          BY <2>3
        <4>3. QED
          BY <4>1, <4>2
      <3>3. QED
        BY <1>7, <3>1, <3>2
    <2>5. QED
      BY <1>1, <2>4
  <1>8. Extract(w) \/ RequestCancel(w) =>
          \/ UNCHANGED host
          \/ MakeDirectory(w) \/ DecideDestination(w) \/ OpenFile(w) \/ CopyChunk(w) \/ CopyFails(w)
    BY DEF Extract, RequestCancel, Collect, CloseDirectory, WorklistComplete, CheckToken,
           StopBetweenFiles, LoopEnds,
           RejectInode, SkipFile, StopInFile, FinishFile, AnswerTask, Return
  <1>9. QED
    BY <1>3, <1>4, <1>5, <1>6, <1>7, <1>8

LEMMA StepIsLocal ==
  ASSUME run \in [Workers -> Tasks], NEW w \in Workers, Local(run[w]), HostTyped,
         Extract(w) \/ RequestCancel(w)
  PROVE  /\ Local(run'[w]) /\ run' \in [Workers -> Tasks]
         /\ \A v \in Workers \ {w} : run'[v] = run[v]
  <1>1. Local(run'[w])
    BY CollectIsLocal, CloseIsLocal, CompleteIsLocal, CheckIsLocal, StopIsLocal,
       TurnIsLocal, DecideIsLocal, OpenIsLocal,
       ChunkIsLocal, FailsIsLocal, FinishIsLocal, AnswerIsLocal, CancelIsLocal DEF Extract
  <1>2. \E r : Update(w, r)
    BY DEF Extract, RequestCancel, Collect, CloseDirectory, WorklistComplete, CheckToken,
           StopBetweenFiles, LoopEnds,
           MakeDirectory, DecideDestination, OpenFile, CopyChunk, CopyFails,
           RejectInode, SkipFile, StopInFile, FinishFile, AnswerTask, Return
  <1>3. QED
    BY <1>1, <1>2, Moved DEF Local

Inv == run \in [Workers -> Tasks] /\ (\A w \in Workers : Local(run[w])) /\ HostTyped

LEMMA InvInit == Init => Inv
  <1> SUFFICES ASSUME Init PROVE Inv
    OBVIOUS
  <1>1. PICK mode \in [Workers -> Modes], selected \in [Workers -> Selections] :
          run = [w \in Workers |-> Start(mode[w], selected[w])]
    BY DEF Init
  <1>2. \A w \in Workers : Local(run[w])
    BY <1>1, StartIsLocal
  <1>3. run \in [Workers -> Tasks]
    BY <1>1, <1>2 DEF Local
  <1>4. HostTyped
    <2> DEFINE f == [path \in Existing |-> Plain(path)]
               D == {Plain(path) : path \in Existing}
    <2>1. IsFiniteSet(Existing)
      BY ExtractionAssumption
    <2>2. f \in Surjection(Existing, D)
      BY DEF Surjection
    <2> HIDE DEF f
    <2>3. IsFiniteSet(D)
      BY <2>1, <2>2, FS_Surjection
    <2>4. OldFile \in HostFiles
      BY DEF OldFile, HostFiles
    <2>5. DOMAIN host = D /\ host \in [D -> HostFiles]
      BY <2>4 DEF Init
    <2>6. QED
      BY <2>3, <2>5 DEF HostTyped
  <1>5. QED
    BY <1>2, <1>3, <1>4 DEF Inv

LEMMA InvNext == Inv /\ [Next]_vars => Inv'
  <1> SUFFICES ASSUME Inv, [Next]_vars PROVE Inv'
    OBVIOUS
  <1>1. CASE UNCHANGED vars
    BY <1>1 DEF vars, Inv, HostTyped, Local
  <1>2. ASSUME NEW w \in Workers, Extract(w) \/ RequestCancel(w) PROVE Inv'
    <2>1. HostTyped'
      BY <1>2, HostStaysTyped DEF Inv
    <2>2. /\ Local(run'[w]) /\ run' \in [Workers -> Tasks]
          /\ \A v \in Workers \ {w} : run'[v] = run[v]
      BY <1>2, StepIsLocal DEF Inv
    <2>3. \A v \in Workers : Local(run'[v])
      <3>1. SUFFICES ASSUME NEW v \in Workers \ {w} PROVE Local(run'[v])
        BY <2>2
      <3>2. run'[v] = run[v] /\ Local(run[v])
        BY <2>2 DEF Inv
      <3>3. QED
        BY <3>2
    <2>4. QED
      BY <2>1, <2>2, <2>3 DEF Inv
  <1>3. QED
    BY <1>1, <1>2 DEF Next

LEMMA InvHolds == Spec => []Inv
  BY InvInit, InvNext, PTL DEF Spec

(* What a signal reports as done is within its estimate. *)
LEMMA WithinEstimate ==
  ASSUME NEW r, Local(r), r.phase \in {"files", "open", "copy"}
  PROVE  r.processed + r.offset <= Estimated(r)
  <1> DEFINE total == TotalSizes(r.worklist)
             k == Len(r.worklist)
  <1>1. r \in Tasks /\ r.worklist \in Seq(Entries) /\ r.index \in Nat \ {0} /\ k \in Nat
        /\ r.processed \in Nat /\ r.offset \in Nat
    BY DEF Local, Tasks, KnownEntries
  <1>2. r.processed <= total[r.index - 1] /\ r.index <= k + 1
    BY DEF Local, Bounds
  <1>3. /\ \A n \in 0 .. k : total[n] \in Nat /\ total[n] <= total[k]
        /\ \A n \in 1 .. k : total[n] = total[n - 1] + (IF r.worklist[n].dir THEN 0 ELSE r.worklist[n].size)
    BY <1>1, TotalSizesType, TotalSizesGrow
  <1>4. Estimated(r) = total[k]
    BY DEF Estimated
  <1> HIDE DEF total
  <1>5. CASE r.phase \in {"files", "open"}
    <2>1. r.offset = 0
      BY <1>5 DEF Local, Bounds
    <2>2. r.index - 1 \in 0 .. k
      BY <1>1, <1>2
    <2>3. total[r.index - 1] \in Nat /\ total[k] \in Nat /\ total[r.index - 1] <= total[k]
      BY <1>1, <1>3, <2>2
    <2>4. QED
      BY <1>1, <1>2, <1>4, <2>1, <2>3
  <1>6. CASE r.phase = "copy"
    <2>1. /\ r.index <= k /\ ~Current(r).dir /\ r.offset <= Current(r).size /\ Current(r).size \in Nat
          /\ Current(r) = r.worklist[r.index]
      BY <1>6, BegunTypes DEF Current
    <2>2. r.index \in 1 .. k /\ r.index - 1 \in 0 .. k
      BY <1>1, <2>1
    <2>3. total[r.index] = total[r.index - 1] + Current(r).size
      BY <1>3, <2>1, <2>2
    <2>4. total[r.index] <= total[k] /\ total[k] \in Nat /\ total[r.index - 1] \in Nat /\ total[r.index] \in Nat
      BY <1>1, <1>3, <2>2
    <2>5. r.processed \in Nat /\ r.offset \in Nat /\ Current(r).size \in Nat
      BY <1>1, <2>1
    <2>6. r.processed <= total[r.index - 1] /\ r.offset <= Current(r).size
      BY <1>2, <2>1
    <2>7. r.processed + r.offset <= total[k]
      BY <2>3, <2>4, <2>5, <2>6
    <2>8. QED
      BY <1>4, <2>7
  <1>7. QED
    BY <1>5, <1>6

(* Every variable stays in its type, and no progress signal reports more   *)
(* than its estimate (TypeOK), for every evidence and policy.              *)
THEOREM ExtractionTypeOK == Spec => []TypeOK
  <1>1. Inv => TypeOK
    <2> SUFFICES ASSUME Inv PROVE TypeOK
      OBVIOUS
    <2>1. ASSUME NEW d \in DOMAIN host PROVE host[d].kind \in {"file", "dir"} /\ host[d].bytes \in Nat
      BY DEF Inv, HostTyped, HostFiles
    <2>2. ASSUME NEW w \in Workers
          PROVE  LET r == run[w]
                 IN  /\ r.mode \in Modes /\ r.phase \in Phases
                     /\ r.seed \in 1 .. Len(r.selected) + 1
                     /\ Len(r.stack) <= MaxDepth + 1
                     /\ r.index \in 1 .. Len(r.worklist) + 1
                     /\ r.phase \in {"open", "copy"} => r.index <= Len(r.worklist)
                     /\ r.decision \in {"", "new", "overwrite", "versioned_copy"}
                     /\ \A i \in DOMAIN r.results :
                          /\ r.results[i].outcome \in Outcomes
                          /\ r.results[i].status \in Outcomes \union {"success_with_warning"}
                          /\ r.results[i].written \in 0 .. r.results[i].entry.size
                     /\ r.phase \in {"files", "open", "copy"} => r.processed + r.offset <= Estimated(r)
                     /\ r.error \in {"", "cancelled", "depth", "unreadable directory"}
                     /\ r.token \in BOOLEAN /\ r.checked \in BOOLEAN
                     /\ r.answer \in {"none", "cancelled", "failed", "warning", "success"}
      <3> DEFINE r == run[w]
      <3>1. Local(r)
        BY DEF Inv
      <3> HIDE DEF r
      <3>2. r \in Tasks /\ Bounds(r)
        BY <3>1 DEF Local
      <3>3. /\ r.mode \in Modes /\ r.phase \in Phases /\ r.decision \in {"", "new", "overwrite", "versioned_copy"}
            /\ r.error \in {"", "cancelled", "depth", "unreadable directory"}
            /\ r.token \in BOOLEAN /\ r.checked \in BOOLEAN
            /\ r.answer \in {"none", "cancelled", "failed", "warning", "success"}
        BY <3>2 DEF Tasks, Decisions, Errors, Answers
      <3>4. r.seed \in Nat \ {0} /\ r.index \in Nat \ {0} /\ Len(r.worklist) \in Nat
        BY <3>2 DEF Tasks
      <3>5. r.selected \in Seq(KnownEntries)
        BY <3>2, SelectionsKnown DEF Tasks
      <3>6. r.seed <= Len(r.selected) + 1 /\ Len(r.stack) <= MaxDepth + 1 /\ r.index <= Len(r.worklist) + 1
        BY <3>2 DEF Bounds
      <3>7. r.seed \in 1 .. Len(r.selected) + 1 /\ r.index \in 1 .. Len(r.worklist) + 1
        BY <3>4, <3>5, <3>6
      <3>8. r.phase \in {"open", "copy"} => r.index <= Len(r.worklist)
        BY <3>2 DEF Bounds
      <3>9. ASSUME NEW i \in DOMAIN r.results
            PROVE  /\ r.results[i].outcome \in Outcomes
                   /\ r.results[i].status \in Outcomes \union {"success_with_warning"}
                   /\ r.results[i].written \in 0 .. r.results[i].entry.size
        <4>1. r.results[i] \in ResultRecords
          BY <3>2 DEF Tasks
        <4>2. r.results[i].entry \in Entries /\ r.results[i].written \in Nat
              /\ r.results[i].written <= r.results[i].entry.size
          BY <4>1 DEF ResultRecords
        <4>3. r.results[i].entry.size \in Nat
          BY <4>2 DEF Entries
        <4>4. r.results[i].written \in 0 .. r.results[i].entry.size
          BY <4>2, <4>3
        <4>5. QED
          BY <4>1, <4>4 DEF ResultRecords
      <3>10. r.phase \in {"files", "open", "copy"} => r.processed + r.offset <= Estimated(r)
        BY <3>1, WithinEstimate
      <3>11. QED
        BY <3>3, <3>6, <3>7, <3>8, <3>9, <3>10 DEF r
    <2>3. QED
      BY <2>1, <2>2 DEF TypeOK
  <1>2. QED
    BY <1>1, InvHolds, PTL

(* A success is whole and in order, a stopped task never is a success      *)
(* (AnswerIsWhole), whatever the evidence answers.                         *)
THEOREM ExtractionAnswerIsWhole == Spec => []AnswerIsWhole
  <1>1. Inv => AnswerIsWhole
    BY DEF Inv, Local, Turns, Whole, AnswerIsWhole
  <1>2. QED
    BY <1>1, InvHolds, PTL

(* What a step of a stopped task may write. *)
Stopping(w) ==
  /\ WritesLeft(run'[w]) <= WritesLeft(run[w])
  /\ host' # host => WritesLeft(run'[w]) < WritesLeft(run[w])
  /\ \A d \in DOMAIN host : host'[d].bytes <= host[d].bytes + Chunk

(* The steps that end a turn of the loop leave a result. *)
LEMMA TurnDone ==
  ASSUME NEW w \in Workers, run \in [Workers -> Tasks],
         MakeDirectory(w) \/ RejectInode(w) \/ SkipFile(w) \/ CopyFails(w) \/ FinishFile(w)
  PROVE  \E x, bytes : run'[w] = Done(run[w], x, bytes)
  <1> DEFINE r == run[w]
  <1>1. CASE MakeDirectory(w)
    BY <1>1, Moved DEF MakeDirectory
  <1>2. CASE RejectInode(w)
    BY <1>2, Moved DEF RejectInode
  <1>3. CASE SkipFile(w)
    <2> DEFINE e == Current(r)
               x == Result(e, "skipped_existing", Plain(Requested(e)), 0, FALSE, FALSE)
    <2>1. run'[w] = Done(r, x, e.size)
      BY <1>3, Moved DEF SkipFile
    <2> HIDE DEF x, e
    <2>2. QED
      BY <2>1
  <1>4. CASE CopyFails(w)
    BY <1>4, Moved DEF CopyFails
  <1>5. CASE FinishFile(w)
    <2> DEFINE e == Current(r)
               x(t) == Result(e, Outcome(r, e), r.dest, r.offset, r.offset # e.size \/ e.deleted \/ t, FALSE)
    <2>1. \E t \in BOOLEAN : run'[w] = Done(r, x(t), r.offset)
      BY <1>5, Moved DEF FinishFile
    <2> HIDE DEF x, e
    <2>2. QED
      BY <2>1
  <1>6. QED
    BY <1>1, <1>2, <1>3, <1>4, <1>5

LEMMA StoppedStep ==
  ASSUME NEW w \in Workers, run \in [Workers -> Tasks], Local(run[w]), HostTyped,
         run[w].token, Extract(w)
  PROVE  Stopping(w)
  <1> DEFINE r == run[w]
             e == Current(r)
             s == run'[w]
  <1>1. r \in Tasks /\ r.checked \in BOOLEAN
    BY DEF Tasks
  <1>2. Chunk \in Nat \ {0} /\ \A d \in DOMAIN host : host[d].bytes \in Nat
    BY ExtractionAssumption DEF HostTyped, HostFiles
  <1>3. ASSUME host' = host, WritesLeft(s) <= WritesLeft(r) PROVE Stopping(w)
    BY <1>2, <1>3 DEF Stopping
  <1>4. \A dirs : With(dirs) \in [DOMAIN host \union dirs -> {host[d] : d \in DOMAIN host} \union {Dir}]
                  /\ \A d \in DOMAIN host : With(dirs)[d] = host[d]
    BY DEF With, Exists
  <1>5. ASSUME NEW dirs, host' = With(dirs) PROVE \A d \in DOMAIN host : host'[d].bytes <= host[d].bytes + Chunk
    <2>1. \A d \in DOMAIN host : host'[d] = host[d]
      BY Zenon, <1>4, <1>5
    <2>2. QED
      BY <1>2, <2>1
  <1>6. \A x, bytes : Done(r, x, bytes).checked = FALSE /\ Done(r, x, bytes).phase = "files"
    BY <1>1 DEF Done, Tasks
  <1>7. ASSUME NEW x, NEW bytes, s = Done(r, x, bytes) PROVE WritesLeft(s) = 0
    BY <1>6, <1>7 DEF WritesLeft
  <1>8. WritesLeft(r) \in 0 .. 2 /\ WritesLeft(s) \in 0 .. 2
    BY DEF WritesLeft
  <1>9. CASE Collect(w) \/ StopBetweenFiles(w) \/ StopInFile(w) \/ LoopEnds(w)
    <2>1. /\ host' = host /\ r.phase # "open" /\ (r.phase = "copy" => ~r.checked)
          /\ \E error : s = [r EXCEPT !.phase = "returned", !.error = error]
      BY <1>9, Moved DEF Collect, HasCall, StopBetweenFiles, AtEntry, StopInFile, Unfinished, Copying, LoopEnds,
                         Return
    <2> HIDE DEF r
    <2>2. s.checked = r.checked /\ s.phase = "returned"
      BY <1>1, <2>1 DEF Tasks
    <2> HIDE DEF s
    <2>3. WritesLeft(s) <= WritesLeft(r)
      BY <1>1, <2>1, <2>2 DEF WritesLeft
    <2>4. QED
      BY <1>3, <2>1, <2>3
  <1>10. CASE CloseDirectory(w) \/ WorklistComplete(w)
    <2>1. /\ host' = host /\ r.phase = "collect"
          /\ s = [r EXCEPT !.stack = Tail(@)] \/ s = [r EXCEPT !.phase = "files"]
      BY <1>10, Moved DEF CloseDirectory, WorklistComplete
    <2> HIDE DEF r
    <2>2. s.checked = r.checked /\ s.phase \in {"collect", "files"}
      BY <1>1, <2>1 DEF Tasks
    <2> HIDE DEF s
    <2>3. WritesLeft(s) <= WritesLeft(r)
      BY <1>1, <2>1, <2>2 DEF WritesLeft
    <2>4. QED
      BY <1>3, <2>1, <2>3
  <1>11. CASE AnswerTask(w)
    <2>1. /\ host' = host /\ r.phase = "returned"
          /\ s = [r EXCEPT !.phase = "answered", !.answer = Answer(r), !.results = Payload(r)]
      BY <1>11, Moved DEF AnswerTask
    <2> HIDE DEF r
    <2>2. s.checked = r.checked /\ s.phase = "answered"
      BY <1>1, <2>1 DEF Tasks
    <2> HIDE DEF s
    <2>3. WritesLeft(s) <= WritesLeft(r)
      BY <1>1, <2>1, <2>2 DEF WritesLeft
    <2>4. QED
      BY <1>3, <2>1, <2>3
  <1>12. CASE CheckToken(w)
    BY <1>12 DEF CheckToken
  <1>13. CASE MakeDirectory(w) \/ RejectInode(w) \/ SkipFile(w)
    <2>1. r.phase = "files" /\ r.checked
      BY <1>13 DEF MakeDirectory, RejectInode, SkipFile, AtEntry
    <2>2. WritesLeft(r) = 2
      BY <2>1 DEF WritesLeft
    <2>3. host' = host \/ \E dirs : host' = With(dirs)
      BY <1>13 DEF MakeDirectory, RejectInode, SkipFile
    <2>4. \E x, bytes : s = Done(r, x, bytes)
      BY <1>13, TurnDone
    <2>5. WritesLeft(s) = 0
      BY <1>7, <2>4
    <2>6. CASE host' = host
      BY <1>3, <2>2, <2>5, <2>6
    <2>7. CASE \E dirs : host' = With(dirs)
      BY <1>5, <2>2, <2>5, <2>7 DEF Stopping
    <2>8. QED
      BY <2>3, <2>6, <2>7
  <1>14. CASE DecideDestination(w)
    <2> DEFINE choice == ResolveDestination(r, Requested(e))
    <2>1. /\ r.phase = "files" /\ r.checked
          /\ s = [r EXCEPT !.phase = "open", !.dest = choice.dest, !.decision = choice.decision]
          /\ host' = host \/ host' = With(Parents(Requested(e)))
      BY <1>14, Moved DEF DecideDestination, AtEntry
    <2> HIDE DEF r, choice
    <2>2. s.phase = "open"
      BY <1>1, <2>1 DEF Tasks
    <2>3. WritesLeft(r) = 2 /\ WritesLeft(s) = 1
      BY <2>1, <2>2 DEF WritesLeft
    <2>4. CASE host' = host
      BY <1>3, <2>3, <2>4
    <2>5. CASE host' = With(Parents(Requested(e)))
      BY <1>5, <2>3, <2>5 DEF Stopping, r
    <2>6. QED
      BY <2>1, <2>4, <2>5
  <1>15. CASE OpenFile(w)
    <2> DEFINE opened == [r EXCEPT !.phase = "copy", !.offset = 0, !.checked = FALSE]
               file   == [kind |-> "file", owner |-> w, source |-> <<e.path, e.inode>>, bytes |-> 0]
    <2>1. /\ r.phase = "open"
          /\ \/ (\E x : s = Done(r, x, 0)) /\ host' = host
             \/ /\ s = opened
                /\ host' = [d \in DOMAIN host \union {r.dest} |-> IF d = r.dest THEN file ELSE host[d]]
      BY <1>15, Moved DEF OpenFile
    <2>2. file.bytes = 0
      OBVIOUS
    <2>3. opened.phase = "copy" /\ opened.checked = FALSE
      BY <1>1 DEF Tasks
    <2>4. WritesLeft(r) = 1 /\ WritesLeft(opened) = 0
      BY <2>1, <2>3 DEF WritesLeft
    <2> HIDE DEF file, opened
    <2>5. CASE (\E x : s = Done(r, x, 0)) /\ host' = host
      BY <1>3, <1>7, <2>4, <2>5
    <2>6. CASE /\ s = opened
               /\ host' = [d \in DOMAIN host \union {r.dest} |-> IF d = r.dest THEN file ELSE host[d]]
      <3>1. ASSUME NEW d \in DOMAIN host PROVE host'[d].bytes <= host[d].bytes + Chunk
        <4>1. host'[d] = file \/ host'[d] = host[d]
          BY <2>6
        <4>2. host[d].bytes \in Nat /\ Chunk \in Nat
          BY <1>2
        <4>3. QED
          BY <2>2, <4>1, <4>2
      <3>2. WritesLeft(s) < WritesLeft(r)
        BY <2>4, <2>6
      <3>3. QED
        BY <1>8, <3>1, <3>2 DEF Stopping
    <2>7. QED
      BY <2>1, <2>5, <2>6
  <1>16. CASE CopyChunk(w) \/ CopyFails(w)
    <2>1. r.phase = "copy" /\ r.checked
      BY <1>16 DEF CopyChunk, CopyFails, Unfinished, Copying
    <2>2. /\ e.size \in Nat /\ r.offset \in Nat
      BY <2>1, BegunTypes
    <2>3. Ask(r, e) \in Int /\ Ask(r, e) <= Chunk
      BY <1>2, <2>2 DEF Ask, Least
    <2>4. \E n \in 0 .. Chunk : host' = host \/ host' = Written(r.dest, w, n)
      <3>1. CASE CopyChunk(w)
        <4>1. PICK n \in 1 .. Ask(r, e) : host' = Written(r.dest, w, n)
          BY <3>1 DEF CopyChunk
        <4>2. QED
          BY <1>2, <2>3, <4>1
      <3>2. CASE CopyFails(w)
        <4>1. host' = host \/ \E n \in 0 .. Ask(r, e) - 1 : host' = Written(r.dest, w, n)
          BY <3>2 DEF CopyFails
        <4>2. 0 \in 0 .. Chunk /\ \A n \in 0 .. Ask(r, e) - 1 : n \in 0 .. Chunk
          BY <1>2, <2>3
        <4>3. QED
          BY <4>1, <4>2
      <3>3. QED
        BY <1>16, <3>1, <3>2
    <2>5. WritesLeft(r) = 1 /\ WritesLeft(s) = 0
      <3>1. s = [r EXCEPT !.offset = s.offset, !.checked = FALSE] \/ \E x, bytes : s = Done(r, x, bytes)
        <4>1. CASE CopyChunk(w)
          <5>1. PICK got \in 1 .. Ask(r, e) : s = [r EXCEPT !.offset = @ + got, !.checked = FALSE]
            BY <4>1, Moved DEF CopyChunk
          <5> HIDE DEF r
          <5>2. QED
            BY <1>1, <5>1 DEF Tasks
        <4>2. CASE CopyFails(w)
          BY <4>2, TurnDone
        <4>3. QED
          BY <1>16, <4>1, <4>2
      <3> HIDE DEF r
      <3>2. CASE s = [r EXCEPT !.offset = s.offset, !.checked = FALSE]
        <4>1. \A n : LET t == [r EXCEPT !.offset = n, !.checked = FALSE]
                     IN  t.phase = r.phase /\ t.checked = FALSE
          BY <1>1 DEF Tasks
        <4>2. s.phase = "copy" /\ s.checked = FALSE
          BY <2>1, <3>2, <4>1
        <4> HIDE DEF s
        <4>3. QED
          BY <2>1, <4>2 DEF WritesLeft
      <3>3. CASE \E x, bytes : s = Done(r, x, bytes)
        BY <1>7, <2>1, <3>3 DEF WritesLeft
      <3>4. QED
        BY <3>1, <3>2, <3>3
    <2>6. PICK n \in 0 .. Chunk : host' = host \/ host' = Written(r.dest, w, n)
      BY <2>4
    <2>7. CASE host' = host
      BY <1>3, <2>5, <2>7
    <2>8. CASE host' = Written(r.dest, w, n)
      <3>1. ASSUME NEW d \in DOMAIN host PROVE host'[d].bytes <= host[d].bytes + Chunk
        <4>1. host[d] \in HostFiles /\ host[d].bytes \in Nat
          BY DEF HostTyped, HostFiles
        <4>2. host'[d] = host[d] \/
              host'[d] = [host[d] EXCEPT !.bytes = @ + n, !.owner = IF @ = w THEN w ELSE "mixed"]
          BY <2>8 DEF Written, HostTyped
        <4>3. host'[d].bytes \in {host[d].bytes, host[d].bytes + n}
          BY <4>1, <4>2 DEF HostFiles
        <4>4. QED
          BY <1>2, <4>1, <4>3
      <3>2. QED
        BY <2>5, <3>1 DEF Stopping
    <2>9. QED
      BY <2>6, <2>7, <2>8
  <1>17. CASE FinishFile(w)
    <2>1. host' = host
      BY <1>17 DEF FinishFile
    <2>2. \E x, bytes : s = Done(r, x, bytes)
      BY <1>17, TurnDone
    <2>3. WritesLeft(s) = 0
      BY <1>7, <2>2
    <2>4. QED
      BY <1>3, <1>8, <2>1, <2>3
  <1>18. QED
    BY <1>9, <1>10, <1>11, <1>12, <1>13, <1>14, <1>15, <1>16, <1>17 DEF Extract

(* A task told to stop writes what its last look at the token allows and   *)
(* nothing more (CancelledWritesNoMore), with any number of tasks, for     *)
(* every evidence and every chunk size: a request that comes between the   *)
(* look and the write may find one entry's directories and emptied output, *)
(* or one chunk, still to be written.                                      *)
THEOREM ExtractionCancelledWritesNoMore == Spec => CancelledWritesNoMore
  <1>1. Inv /\ [Next]_vars => [\A w \in Workers : run[w].token /\ run'[w] # run[w] => Stopping(w)]_vars
    <2> SUFFICES ASSUME Inv, NEW v \in Workers, Extract(v) \/ RequestCancel(v),
                        NEW w \in Workers, run[w].token, run'[w] # run[w]
                 PROVE  Stopping(w)
      BY DEF Next
    <2>1. v = w
      BY StepIsLocal DEF Inv
    <2>2. ~RequestCancel(w)
      BY DEF RequestCancel
    <2>3. QED
      BY <2>1, <2>2, StoppedStep DEF Inv
  <1>2. QED
    BY <1>1, InvHolds, PTL DEF Spec, CancelledWritesNoMore, Stopping

-----------------------------------------------------------------------------
(* What one task leaves on the host.  Several tasks may choose the same    *)
(* free destination (ExtractionPlanner.cpp chooses before the worker       *)
(* opens), so this is about a task that runs alone.                        *)

Alone == \A v, w \in Workers : v = w

FileOf(w, e, bytes) ==
  [kind |-> "file", owner |-> w, source |-> <<e.path, e.inode>>, bytes |-> bytes]

Succeeded(x) == x.outcome \in SuccessOutcomes
Reached(x)   == Succeeded(x) \/ x.outcome = "skipped_existing"

(* A later entry has the same destination. *)
Later(r, i) ==
  r.mode = "Overwrite" /\
    \/ r.phase = "copy" /\ r.dest = r.results[i].dest
    \/ \E j \in DOMAIN r.results : j > i /\ r.results[j].dest = r.results[i].dest

(* A destination chosen not to overwrite is still free when it is opened,  *)
(* so that no earlier result is there.                                     *)
ChosenIsFree(r, h) ==
  r.mode # "Overwrite" =>
    /\ r.phase = "open" => r.dest \notin DOMAIN h
    /\ r.phase = "copy" =>
         \A i \in DOMAIN r.results : Succeeded(r.results[i]) => r.results[i].dest # r.dest

BeingCopied(w, r, h) ==
  r.phase = "copy" => r.dest \in DOMAIN h /\ h[r.dest] = FileOf(w, Current(r), r.offset)

ReachedExist(r, h) ==
  \A i \in DOMAIN r.results : Reached(r.results[i]) => r.results[i].dest \in DOMAIN h

SuccessesAreWhole(w, r, h) ==
  r.error = "" => \A i \in DOMAIN r.results :
    LET x == r.results[i]
    IN  Succeeded(x) /\ ~Later(r, i) => h[x.dest] = FileOf(w, x.entry, x.entry.size)

Disk(w, r, h) ==
  ChosenIsFree(r, h) /\ BeingCopied(w, r, h) /\ ReachedExist(r, h) /\ SuccessesAreWhole(w, r, h)

Grown(h, k) == DOMAIN h \subseteq DOMAIN k /\ \A d \in DOMAIN h : k[d] = h[d]

(* Nothing but one file changes. *)
OnlyAt(d, h, k) == DOMAIN h = DOMAIN k /\ \A c \in DOMAIN h : c # d => k[c] = h[c]

(* A step between files that adds no result. *)
LEMMA DiskQuiet ==
  ASSUME NEW w, NEW h, NEW r \in Tasks, NEW s \in Tasks, Disk(w, r, h), s.mode = r.mode,
         s.phase \notin {"open", "copy"}, s.results = r.results \/ s.results = <<>>,
         s.error = "" => r.error = "" /\ r.phase # "copy"
  PROVE  Disk(w, s, h)
  <1>1. CASE s.results = <<>>
    <2>1. DOMAIN s.results = {}
      BY <1>1, EmptyFacts
    <2>2. QED
      BY <2>1 DEF Disk, ChosenIsFree, BeingCopied, ReachedExist, SuccessesAreWhole
  <1>2. CASE s.results = r.results
    <2>1. ReachedExist(s, h)
      BY <1>2 DEF Disk, ReachedExist
    <2>2. ASSUME s.error = "", NEW i \in DOMAIN s.results, Succeeded(s.results[i]), ~Later(s, i)
          PROVE  h[s.results[i].dest] = FileOf(w, s.results[i].entry, s.results[i].entry.size)
      <3>1. ~Later(r, i)
        BY <1>2, <2>2 DEF Later
      <3>2. QED
        BY <1>2, <2>2, <3>1 DEF Disk, SuccessesAreWhole
    <2>3. QED
      BY <2>1, <2>2 DEF Disk, ChosenIsFree, BeingCopied, SuccessesAreWhole
  <1>3. QED
    BY <1>1, <1>2

(* A token, or anything else the host does not depend on. *)
LEMMA DiskSame ==
  ASSUME NEW w, NEW h, NEW r \in Tasks, NEW s \in Tasks, Disk(w, r, h), s.mode = r.mode,
         s.phase = r.phase, s.dest = r.dest, s.offset = r.offset, s.index = r.index,
         s.worklist = r.worklist, s.results = r.results, s.error = r.error
  PROVE  Disk(w, s, h)
  BY DEF Disk, ChosenIsFree, BeingCopied, ReachedExist, SuccessesAreWhole, Later, Current

LEMMA DoneFields ==
  ASSUME NEW r \in Tasks, NEW x \in ResultRecords, NEW bytes
  PROVE  LET s == Done(r, x, bytes)
         IN  /\ s.mode = r.mode /\ s.phase = "files" /\ s.error = r.error
             /\ DOMAIN r.results = 1 .. Len(r.results) /\ Len(r.results) \in Nat
             /\ DOMAIN s.results = 1 .. Len(r.results) + 1
             /\ \A i \in 1 .. Len(r.results) : s.results[i] = r.results[i]
             /\ s.results[Len(r.results) + 1] = x
  <1>1. r.results \in Seq(ResultRecords)
    BY DEF Tasks
  <1>2. /\ Append(r.results, x) \in Seq(ResultRecords)
        /\ Len(Append(r.results, x)) = Len(r.results) + 1
        /\ \A i \in 1 .. Len(r.results) : Append(r.results, x)[i] = r.results[i]
        /\ Append(r.results, x)[Len(r.results) + 1] = x
    BY <1>1, AppendFacts
  <1>3. DOMAIN r.results = 1 .. Len(r.results) /\ DOMAIN Append(r.results, x) = 1 .. Len(r.results) + 1
        /\ Len(r.results) \in Nat
    BY <1>1, <1>2
  <1>4. /\ Done(r, x, bytes).results = Append(r.results, x) /\ Done(r, x, bytes).mode = r.mode
        /\ Done(r, x, bytes).phase = "files" /\ Done(r, x, bytes).error = r.error
    BY DEF Done, Tasks
  <1>5. QED
    BY <1>2, <1>3, <1>4

(* A turn that extracts nothing. *)
LEMMA DiskTurn ==
  ASSUME NEW w, NEW h, NEW k, NEW r \in Tasks, Disk(w, r, h), r.phase # "copy", Grown(h, k),
         NEW x \in ResultRecords, ~Succeeded(x), Reached(x) => x.dest \in DOMAIN k, NEW bytes
  PROVE  Disk(w, Done(r, x, bytes), k)
  <1> DEFINE s == Done(r, x, bytes)
             n == Len(r.results)
  <1>1. /\ s.mode = r.mode /\ s.phase = "files" /\ s.error = r.error
        /\ DOMAIN r.results = 1 .. n /\ n \in Nat /\ DOMAIN s.results = 1 .. n + 1
        /\ \A i \in 1 .. n : s.results[i] = r.results[i]
        /\ s.results[n + 1] = x
    BY DoneFields
  <1> HIDE DEF s, n
  <1>2. \A i \in 1 .. n + 1 : i \in 1 .. n \/ i = n + 1
    BY <1>1
  <1>3. ReachedExist(s, k)
    <2>1. ASSUME NEW i \in 1 .. n, Reached(s.results[i]) PROVE s.results[i].dest \in DOMAIN k
      BY <1>1, <2>1 DEF Disk, ReachedExist, Grown
    <2>2. QED
      BY <1>1, <1>2, <2>1 DEF ReachedExist
  <1>4. SuccessesAreWhole(w, s, k)
    <2>1. SUFFICES ASSUME s.error = "", NEW i \in 1 .. n, Succeeded(s.results[i]), ~Later(s, i)
                   PROVE  k[s.results[i].dest] =
                            FileOf(w, s.results[i].entry, s.results[i].entry.size)
      BY <1>1, <1>2 DEF SuccessesAreWhole
    <2>2. ~Later(r, i)
      <3>1. \A j \in 1 .. n : j \in 1 .. n + 1
        BY <1>1
      <3>2. QED
        BY <1>1, <2>1, <3>1 DEF Later
    <2>3. h[r.results[i].dest] = FileOf(w, r.results[i].entry, r.results[i].entry.size)
      BY <1>1, <2>1, <2>2 DEF Disk, SuccessesAreWhole
    <2>4. r.results[i].dest \in DOMAIN h
      BY <1>1, <2>1 DEF Disk, ReachedExist, Reached
    <2>5. QED
      BY <1>1, <2>1, <2>3, <2>4 DEF Grown
  <1>5. QED
    BY <1>1, <1>3, <1>4 DEF Disk, ChosenIsFree, BeingCopied, s

(* A turn that copied a file, or some of it. *)
LEMMA DiskEndsCopy ==
  ASSUME NEW w, NEW h, NEW k, NEW r \in Tasks, Disk(w, r, h), r.phase = "copy", OnlyAt(r.dest, h, k),
         NEW x \in ResultRecords, x.dest = r.dest,
         Succeeded(x) => k[x.dest] = FileOf(w, x.entry, x.entry.size), NEW bytes
  PROVE  Disk(w, Done(r, x, bytes), k)
  <1> DEFINE s == Done(r, x, bytes)
             n == Len(r.results)
  <1>1. /\ s.mode = r.mode /\ s.phase = "files" /\ s.error = r.error
        /\ DOMAIN r.results = 1 .. n /\ n \in Nat /\ DOMAIN s.results = 1 .. n + 1
        /\ \A i \in 1 .. n : s.results[i] = r.results[i]
        /\ s.results[n + 1] = x
    BY DoneFields
  <1> HIDE DEF s, n
  <1>2. \A i \in 1 .. n + 1 : i \in 1 .. n \/ i = n + 1
    BY <1>1
  <1>3. DOMAIN k = DOMAIN h /\ r.dest \in DOMAIN h
    BY DEF OnlyAt, Disk, BeingCopied
  <1>4. ReachedExist(s, k)
    <2>1. ASSUME NEW i \in 1 .. n, Reached(s.results[i]) PROVE s.results[i].dest \in DOMAIN k
      BY <1>1, <1>3, <2>1 DEF Disk, ReachedExist
    <2>2. QED
      BY <1>1, <1>2, <1>3, <2>1 DEF ReachedExist
  <1>5. SuccessesAreWhole(w, s, k)
    <2>1. SUFFICES ASSUME s.error = "", NEW i \in 1 .. n, Succeeded(s.results[i]), ~Later(s, i)
                   PROVE  k[s.results[i].dest] =
                            FileOf(w, s.results[i].entry, s.results[i].entry.size)
      BY <1>1, <1>2 DEF SuccessesAreWhole
    <2>2. r.results[i].dest # r.dest
      <3>1. CASE r.mode = "Overwrite"
        <4>1. n \in Nat /\ i \in 1 .. n
          BY <1>1, <2>1
        <4>3. n + 1 \in 1 .. n + 1 /\ n + 1 > i
          BY <4>1
        <4>2. QED
          BY <1>1, <2>1, <3>1, <4>3 DEF Later
      <3>2. CASE r.mode # "Overwrite"
        BY <1>1, <2>1, <3>2 DEF Disk, ChosenIsFree
      <3>3. QED
        BY <3>1, <3>2
    <2>3. ~Later(r, i)
      <3>1. \A j \in 1 .. n : j \in 1 .. n + 1
        BY <1>1
      <3>2. QED
        BY <1>1, <2>1, <2>2, <3>1 DEF Later
    <2>4. h[r.results[i].dest] = FileOf(w, r.results[i].entry, r.results[i].entry.size)
      BY <1>1, <2>1, <2>3 DEF Disk, SuccessesAreWhole
    <2>5. r.results[i].dest \in DOMAIN h
      BY <1>1, <2>1 DEF Disk, ReachedExist, Reached
    <2>6. QED
      BY <1>1, <2>1, <2>2, <2>4, <2>5 DEF OnlyAt
  <1>6. QED
    BY <1>1, <1>4, <1>5 DEF Disk, ChosenIsFree, BeingCopied, s

LEMMA DiskDecides ==
  ASSUME NEW w \in Workers, run \in [Workers -> Tasks], Local(run[w]), HostTyped, Disk(w, run[w], host),
         DecideDestination(w)
  PROVE  Disk(w, run'[w], host')
  <1> DEFINE r == run[w]
             path == Requested(Current(r))
             choice == ResolveDestination(r, path)
             s == [r EXCEPT !.phase = "open", !.dest = choice.dest, !.decision = choice.decision]
  <1>1. r.phase = "files" /\ r.index <= Len(r.worklist) /\ run'[w] = s /\ r \in Tasks
    BY Moved DEF DecideDestination, AtEntry, Local
  <1>2. path \in HostPaths
    BY <1>1, EntryTypes, RequestedType
  <1>3. choice.dest \in Places /\ choice.dest[1] = path /\ (r.mode # "Overwrite" => choice.dest \notin DOMAIN host)
    BY <1>1, <1>2, ResolvedType DEF Exists
  <1>4. host' = host \/ host' = With(Parents(path))
    BY DEF DecideDestination
  <1>5. Grown(host, host') /\ DOMAIN host' \subseteq DOMAIN host \union Parents(path)
    <2>1. Grown(host, With(Parents(path))) /\ DOMAIN With(Parents(path)) = DOMAIN host \union Parents(path)
      BY DEF Grown, With, Exists
    <2>2. QED
      BY <1>4, <2>1 DEF Grown
  <1>6. choice.dest \notin Parents(path)
    <2>1. PICK v \in Nat : choice.dest = <<path, v>>
      BY <1>3 DEF Places
    <2>2. QED
      BY <1>2, <2>1, ParentsAreShorter
  <1> HIDE DEF choice, path, r
  <1>7. /\ s.phase = "open" /\ s.dest = choice.dest /\ s.mode = r.mode /\ s.results = r.results
        /\ s.error = r.error
    BY <1>1 DEF Tasks
  <1> HIDE DEF s
  <1>8. Disk(w, r, host)
    BY DEF r
  <1>9. ChosenIsFree(s, host')
    BY <1>3, <1>5, <1>6, <1>7 DEF ChosenIsFree
  <1>10. ReachedExist(s, host')
    BY <1>5, <1>7, <1>8 DEF Disk, ReachedExist, Grown
  <1>11. SuccessesAreWhole(w, s, host')
    <2>1. SUFFICES ASSUME s.error = "", NEW i \in DOMAIN s.results, Succeeded(s.results[i]), ~Later(s, i)
                   PROVE  host'[s.results[i].dest] =
                            FileOf(w, s.results[i].entry, s.results[i].entry.size)
      BY DEF SuccessesAreWhole
    <2>2. ~Later(r, i)
      BY <1>1, <1>7, <2>1 DEF Later
    <2>3. host[r.results[i].dest] = FileOf(w, r.results[i].entry, r.results[i].entry.size)
      BY <1>7, <1>8, <2>1, <2>2 DEF Disk, SuccessesAreWhole
    <2>4. r.results[i].dest \in DOMAIN host
      BY <1>7, <1>8, <2>1 DEF Disk, ReachedExist, Reached
    <2>5. QED
      BY <1>5, <1>7, <2>3, <2>4 DEF Grown
  <1>12. QED
    BY <1>1, <1>7, <1>9, <1>10, <1>11 DEF Disk, BeingCopied

LEMMA DiskOpens ==
  ASSUME NEW w \in Workers, run \in [Workers -> Tasks], Local(run[w]), Disk(w, run[w], host), OpenFile(w)
  PROVE  Disk(w, run'[w], host')
  <1> DEFINE r == run[w]
             e == Current(r)
             unread == Result(e, "open_failed", <<>>, 0, FALSE, TRUE)
             unmade == Result(e, "write_open_failed", <<>>, 0, FALSE, TRUE)
             s == [r EXCEPT !.phase = "copy", !.offset = 0, !.checked = FALSE]
  <1>1. r.phase = "open" /\ r \in Tasks /\ r.phase \in {"open", "copy"} /\ Disk(w, r, host) /\ Local(r)
    BY DEF OpenFile, Local
  <1>2. \/ (run'[w] = Done(r, unread, 0) \/ run'[w] = Done(r, unmade, 0)) /\ host' = host
        \/ /\ run'[w] = s
           /\ host' = [d \in DOMAIN host \union {r.dest} |-> IF d = r.dest THEN FileOf(w, e, 0) ELSE host[d]]
    BY Moved DEF OpenFile, FileOf
  <1> HIDE DEF r
  <1>3. e \in Entries /\ e.size \in Nat
    BY <1>1, BegunTypes
  <1> HIDE DEF e
  <1>4. CASE (run'[w] = Done(r, unread, 0) \/ run'[w] = Done(r, unmade, 0)) /\ host' = host
    <2>1. "open_failed" \in Outcomes /\ "write_open_failed" \in Outcomes
      BY DEF Outcomes
    <2>2. unread \in ResultRecords /\ ~Reached(unread) /\ ~Succeeded(unread)
      BY <1>3, <2>1 DEF Result, FinalStatus, ResultRecords, Reached, Succeeded, SuccessOutcomes
    <2>3. unmade \in ResultRecords /\ ~Reached(unmade) /\ ~Succeeded(unmade)
      BY <1>3, <2>1 DEF Result, FinalStatus, ResultRecords, Reached, Succeeded, SuccessOutcomes
    <2> HIDE DEF unread, unmade
    <2>4. r.phase # "copy" /\ Grown(host, host')
      BY <1>1, <1>4 DEF Grown
    <2>5. QED
      BY <1>1, <1>4, <2>2, <2>3, <2>4, DiskTurn
  <1>5. CASE /\ run'[w] = s
             /\ host' = [d \in DOMAIN host \union {r.dest} |-> IF d = r.dest THEN FileOf(w, e, 0) ELSE host[d]]
    <2>1. /\ s.phase = "copy" /\ s.dest = r.dest /\ s.mode = r.mode /\ s.results = r.results
          /\ s.error = r.error /\ s.offset = 0 /\ s.index = r.index /\ s.worklist = r.worklist
      BY <1>1 DEF Tasks
    <2> HIDE DEF s
    <2>2. BeingCopied(w, s, host')
      BY <1>5, <2>1 DEF BeingCopied, Current, e
    <2>3. \A i \in DOMAIN r.results : Reached(r.results[i]) => r.results[i].dest \in DOMAIN host
      BY <1>1 DEF Disk, ReachedExist
    <2>4. ReachedExist(s, host')
      BY <1>5, <2>1, <2>3 DEF ReachedExist
    <2>5. ChosenIsFree(s, host')
      BY <1>1, <2>1, <2>3 DEF Disk, ChosenIsFree, Reached
    <2>6. SuccessesAreWhole(w, s, host')
      <3>1. SUFFICES ASSUME s.error = "", NEW i \in DOMAIN s.results, Succeeded(s.results[i]), ~Later(s, i)
                     PROVE  host'[s.results[i].dest] =
                              FileOf(w, s.results[i].entry, s.results[i].entry.size)
        BY DEF SuccessesAreWhole
      <3>2. ~Later(r, i)
        BY <1>1, <2>1, <3>1 DEF Later
      <3>3. host[r.results[i].dest] = FileOf(w, r.results[i].entry, r.results[i].entry.size)
        BY <1>1, <2>1, <3>1, <3>2 DEF Disk, SuccessesAreWhole
      <3>4. r.results[i].dest \in DOMAIN host
        BY <2>1, <2>3, <3>1 DEF Reached
      <3>5. r.results[i].dest # r.dest
        BY <2>1, <2>5, <3>1 DEF ChosenIsFree, Later
      <3>6. QED
        BY <1>5, <2>1, <3>3, <3>4, <3>5
    <2>7. QED
      BY <1>5, <2>2, <2>4, <2>5, <2>6 DEF Disk
  <1>6. QED
    BY <1>2, <1>4, <1>5

(* What writing does to the file being copied, and to no other. *)
LEMMA WrittenFacts ==
  ASSUME NEW w \in Workers, NEW d \in DOMAIN host, NEW e, NEW n \in Nat, NEW m \in Nat,
         host[d] = FileOf(w, e, m), HostTyped
  PROVE  OnlyAt(d, host, Written(d, w, n)) /\ Written(d, w, n)[d] = FileOf(w, e, m + n)
  <1>1. host \in [DOMAIN host -> HostFiles]
    BY DEF HostTyped
  <1>2. Written(d, w, n)[d] = [host[d] EXCEPT !.bytes = @ + n, !.owner = IF @ = w THEN w ELSE "mixed"]
    BY <1>1 DEF Written
  <1>3. Written(d, w, n)[d] = FileOf(w, e, m + n)
    <2> DEFINE f == host[d]
    <2>1. f \in HostFiles
      BY <1>1
    <2>2. f.kind = "file" /\ f.owner = w /\ f.source = <<e.path, e.inode>> /\ f.bytes = m
      BY DEF FileOf
    <2>3. Written(d, w, n)[d] = [f EXCEPT !.bytes = @ + n, !.owner = IF @ = w THEN w ELSE "mixed"]
      BY <1>2
    <2> HIDE DEF f
    <2> DEFINE g == [f EXCEPT !.bytes = @ + n, !.owner = IF @ = w THEN w ELSE "mixed"]
    <2>4. g = [kind |-> f.kind, owner |-> w, source |-> f.source, bytes |-> f.bytes + n]
      <3>1. DOMAIN f = {"kind", "owner", "source", "bytes"} /\ f = [c \in DOMAIN f |-> f[c]]
        BY <2>1 DEF HostFiles
      <3>2. g.kind = f.kind /\ g.owner = w /\ g.source = f.source /\ g.bytes = f.bytes + n
        BY <2>2, <3>1
      <3>3. DOMAIN g = {"kind", "owner", "source", "bytes"} /\ g = [c \in DOMAIN g |-> g[c]]
        BY <3>1
      <3> HIDE DEF g
      <3>4. QED
        BY <3>2, <3>3
    <2>5. QED
      BY <2>2, <2>3, <2>4 DEF FileOf
  <1>4. QED
    BY <1>1, <1>3 DEF Written, OnlyAt

LEMMA DiskCopies ==
  ASSUME NEW w \in Workers, run \in [Workers -> Tasks], Local(run[w]), HostTyped, Disk(w, run[w], host),
         CopyChunk(w)
  PROVE  Disk(w, run'[w], host')
  <1> DEFINE r == run[w]
             e == Current(r)
  <1>1. PICK got \in 1 .. Ask(r, e) :
          run'[w] = [r EXCEPT !.offset = @ + got, !.checked = FALSE] /\ host' = Written(r.dest, w, got)
    BY Moved DEF CopyChunk
  <1> DEFINE s == [r EXCEPT !.offset = @ + got, !.checked = FALSE]
  <1>2. r.phase = "copy" /\ r.phase \in {"open", "copy"} /\ Local(r) /\ Disk(w, r, host)
    BY DEF CopyChunk, Unfinished, Copying
  <1> HIDE DEF r
  <1>3. r \in Tasks /\ e.size \in Nat /\ r.offset \in Nat /\ Chunk \in Nat
    BY <1>2, BegunTypes, ExtractionAssumption
  <1>4. got \in Nat
    <2>1. Ask(r, e) \in Int
      BY <1>3 DEF Ask, Least
    <2>2. QED
      BY <2>1
  <1>5. r.dest \in DOMAIN host /\ host[r.dest] = FileOf(w, e, r.offset)
    BY <1>2 DEF Disk, BeingCopied
  <1>6. OnlyAt(r.dest, host, host') /\ host'[r.dest] = FileOf(w, e, r.offset + got)
    BY <1>1, <1>3, <1>4, <1>5, WrittenFacts
  <1>7. /\ s.phase = "copy" /\ s.dest = r.dest /\ s.mode = r.mode /\ s.results = r.results
        /\ s.error = r.error /\ s.offset = r.offset + got /\ s.index = r.index /\ s.worklist = r.worklist
    BY <1>2, <1>3 DEF Tasks
  <1> HIDE DEF s
  <1>8. BeingCopied(w, s, host')
    BY <1>5, <1>6, <1>7 DEF BeingCopied, Current, OnlyAt, e
  <1>9. ReachedExist(s, host')
    BY <1>2, <1>6, <1>7 DEF Disk, ReachedExist, OnlyAt
  <1>10. ChosenIsFree(s, host')
    BY <1>2, <1>7 DEF Disk, ChosenIsFree
  <1>11. SuccessesAreWhole(w, s, host')
    <2>1. SUFFICES ASSUME s.error = "", NEW i \in DOMAIN s.results, Succeeded(s.results[i]), ~Later(s, i)
                   PROVE  host'[s.results[i].dest] =
                            FileOf(w, s.results[i].entry, s.results[i].entry.size)
      BY DEF SuccessesAreWhole
    <2>2. ~Later(r, i)
      BY <1>2, <1>7, <2>1 DEF Later
    <2>3. host[r.results[i].dest] = FileOf(w, r.results[i].entry, r.results[i].entry.size)
      BY <1>2, <1>7, <2>1, <2>2 DEF Disk, SuccessesAreWhole
    <2>4. r.results[i].dest \in DOMAIN host
      BY <1>2, <1>7, <2>1 DEF Disk, ReachedExist, Reached
    <2>5. r.results[i].dest # r.dest
      BY <1>7, <1>10, <2>1 DEF ChosenIsFree, Later
    <2>6. QED
      BY <1>6, <1>7, <2>3, <2>4, <2>5 DEF OnlyAt
  <1>12. QED
    BY <1>1, <1>8, <1>9, <1>10, <1>11 DEF Disk, s

LEMMA DiskTurns ==
  ASSUME NEW w \in Workers, run \in [Workers -> Tasks], Local(run[w]), HostTyped, Disk(w, run[w], host),
         MakeDirectory(w) \/ RejectInode(w) \/ SkipFile(w)
  PROVE  Disk(w, run'[w], host')
  <1> DEFINE r == run[w]
             e == Current(r)
             d == Plain(Requested(e))
             path == Parents(Requested(e)) \union {d}
             made    == Result(e, "directory_created", d, 0, FALSE, FALSE)
             unmade  == Result(e, "directory_create_failed", <<>>, 0, FALSE, TRUE)
             invalid == Result(e, "invalid_inode", <<>>, 0, FALSE, TRUE)
             skipped == Result(e, "skipped_existing", d, 0, FALSE, FALSE)
  <1>1. r.phase = "files" /\ r.index <= Len(r.worklist) /\ Local(r) /\ r \in Tasks /\ Disk(w, r, host)
    BY DEF MakeDirectory, RejectInode, SkipFile, AtEntry, Local
  <1>2. \/ run'[w] = Done(r, made, 0) /\ host' = With(path)
        \/ run'[w] = Done(r, unmade, 0) /\ host' = host
        \/ run'[w] = Done(r, invalid, 0) /\ host' = host
        \/ run'[w] = Done(r, skipped, e.size) /\ host' = host /\ d \in DOMAIN host
    <2>1. CASE MakeDirectory(w)
      BY <2>1, Moved DEF MakeDirectory
    <2>2. CASE RejectInode(w)
      BY <2>2, Moved DEF RejectInode
    <2>3. CASE SkipFile(w)
      BY <2>3, Moved DEF SkipFile, Skips, Exists
    <2>4. QED
      BY <2>1, <2>2, <2>3
  <1>3. e \in Entries /\ e.size \in Nat
    BY <1>1, EntryTypes
  <1>4. d \in Places
    BY <1>3, RequestedType DEF Plain, Places
  <1>5. Grown(host, host) /\ Grown(host, With(path))
    BY DEF Grown, With, Exists
  <1>6. /\ "directory_created" \in Outcomes /\ "directory_create_failed" \in Outcomes
        /\ "invalid_inode" \in Outcomes /\ "skipped_existing" \in Outcomes
    BY DEF Outcomes
  <1> HIDE DEF r, e, d, path
  <1>7. made \in ResultRecords /\ ~Reached(made) /\ ~Succeeded(made)
    BY <1>3, <1>4, <1>6 DEF Result, FinalStatus, ResultRecords, Reached, Succeeded, SuccessOutcomes
  <1>8. unmade \in ResultRecords /\ ~Reached(unmade) /\ ~Succeeded(unmade)
    BY <1>3, <1>6 DEF Result, FinalStatus, ResultRecords, Reached, Succeeded, SuccessOutcomes
  <1>9. invalid \in ResultRecords /\ ~Reached(invalid) /\ ~Succeeded(invalid)
    BY <1>3, <1>6 DEF Result, FinalStatus, ResultRecords, Reached, Succeeded, SuccessOutcomes
  <1>10. skipped \in ResultRecords /\ ~Succeeded(skipped) /\ skipped.dest = d
    BY <1>3, <1>4, <1>6 DEF Result, FinalStatus, ResultRecords, Succeeded, SuccessOutcomes
  <1> HIDE DEF made, unmade, invalid, skipped
  <1>11. r.phase # "copy"
    BY <1>1
  <1>12. CASE run'[w] = Done(r, made, 0) /\ host' = With(path)
    BY <1>1, <1>5, <1>7, <1>11, <1>12, DiskTurn
  <1>13. CASE run'[w] = Done(r, unmade, 0) /\ host' = host
    BY <1>1, <1>5, <1>8, <1>11, <1>13, DiskTurn
  <1>14. CASE run'[w] = Done(r, invalid, 0) /\ host' = host
    BY <1>1, <1>5, <1>9, <1>11, <1>14, DiskTurn
  <1>15. CASE run'[w] = Done(r, skipped, e.size) /\ host' = host /\ d \in DOMAIN host
    BY <1>1, <1>5, <1>10, <1>11, <1>15, DiskTurn
  <1>16. QED
    BY <1>2, <1>12, <1>13, <1>14, <1>15

LEMMA DiskEnds ==
  ASSUME NEW w \in Workers, run \in [Workers -> Tasks], Local(run[w]), HostTyped, Disk(w, run[w], host),
         CopyFails(w) \/ FinishFile(w)
  PROVE  Disk(w, run'[w], host')
  <1> DEFINE r == run[w]
             e == Current(r)
             Ended(x) == /\ x \in ResultRecords /\ x.dest = r.dest
                         /\ Succeeded(x) => x.entry = e /\ r.offset = e.size
  <1>1. r.phase = "copy" /\ r.phase \in {"open", "copy"} /\ Local(r) /\ Disk(w, r, host)
    BY DEF CopyFails, FinishFile, Unfinished, Copying
  <1>2. /\ r \in Tasks /\ e \in Entries /\ e.size \in Nat /\ r.offset \in Nat /\ r.offset <= e.size
        /\ r.dest \in Places /\ e.deleted \in BOOLEAN /\ Chunk \in Nat
    BY <1>1, BegunTypes, ExtractionAssumption
  <1>3. r.dest \in DOMAIN host /\ host[r.dest] = FileOf(w, e, r.offset)
    BY <1>1 DEF Disk, BeingCopied
  <1>4. OnlyAt(r.dest, host, host)
    BY DEF OnlyAt
  <1>5. ASSUME NEW x, Ended(x), NEW bytes, run'[w] = Done(r, x, bytes),
               host' = host \/ (~Succeeded(x) /\ \E n \in Nat : host' = Written(r.dest, w, n))
        PROVE  Disk(w, run'[w], host')
    <2>1. OnlyAt(r.dest, host, host')
      <3>1. CASE host' = host
        BY <1>4, <3>1
      <3>2. CASE \E n \in Nat : host' = Written(r.dest, w, n)
        <4>1. PICK n \in Nat : host' = Written(r.dest, w, n)
          BY <3>2
        <4> HIDE DEF r, e
        <4>2. OnlyAt(r.dest, host, Written(r.dest, w, n))
          BY <1>2, <1>3, WrittenFacts
        <4>3. QED
          BY <4>1, <4>2
      <3>3. QED
        BY <1>5, <3>1, <3>2
    <2>2. Succeeded(x) => host'[x.dest] = FileOf(w, x.entry, x.entry.size)
      BY <1>3, <1>5
    <2> HIDE DEF r, e
    <2>3. QED
      BY <1>1, <1>2, <1>5, <2>1, <2>2, DiskEndsCopy
  <1>6. CASE CopyFails(w)
    <2> DEFINE x(o) == Result(e, o, r.dest, r.offset, FALSE, TRUE)
    <2>1. PICK o \in {"read_failed", "write_failed"} :
            /\ run'[w] = Done(r, x(o), r.offset)
            /\ host' = host \/ \E some \in 0 .. Ask(r, e) - 1 : host' = Written(r.dest, w, some)
      BY <1>6, Moved DEF CopyFails
    <2>2. Ask(r, e) \in Int
      BY <1>2 DEF Ask, Least
    <2>3. host' = host \/ \E n \in Nat : host' = Written(r.dest, w, n)
      <3>1. \A some \in 0 .. Ask(r, e) - 1 : some \in Nat
        BY <2>2
      <3>2. QED
        BY <2>1, <3>1
    <2>4. o \in Outcomes
      BY DEF Outcomes
    <2> HIDE DEF r, e
    <2>5. x(o) \in ResultRecords /\ x(o).dest = r.dest /\ ~Succeeded(x(o))
      BY <1>2, <2>4 DEF Result, FinalStatus, ResultRecords, Succeeded, SuccessOutcomes
    <2> HIDE DEF x
    <2>6. QED
      BY <1>5, <2>1, <2>3, <2>5
  <1>7. CASE FinishFile(w)
    <2> DEFINE warned(t) == r.offset # e.size \/ e.deleted \/ t
               x(t) == Result(e, Outcome(r, e), r.dest, r.offset, warned(t), FALSE)
    <2>1. PICK t \in BOOLEAN : run'[w] = Done(r, x(t), r.offset)
      BY <1>7, Moved DEF FinishFile
    <2>2. host' = host
      BY <1>7 DEF FinishFile
    <2>3. Outcome(r, e) \in Outcomes /\ (Outcome(r, e) \in SuccessOutcomes => r.offset = e.size)
      BY DEF Outcome, SuccessOutcome, Outcomes, SuccessOutcomes
    <2>4. warned(t) \in BOOLEAN
      BY <1>2
    <2> HIDE DEF r, e, warned
    <2>5. x(t) \in ResultRecords /\ x(t).dest = r.dest /\ x(t).entry = e /\ x(t).outcome = Outcome(r, e)
      BY <1>2, <2>3, <2>4 DEF Result, FinalStatus, ResultRecords
    <2> HIDE DEF x
    <2>6. QED
      BY <1>5, <2>1, <2>2, <2>3, <2>5 DEF Succeeded
  <1>8. QED
    BY <1>6, <1>7

LEMMA ReturnedFields ==
  ASSUME NEW r \in Tasks, NEW error
  PROVE  LET s == [r EXCEPT !.phase = "returned", !.error = error]
         IN  s.mode = r.mode /\ s.phase = "returned" /\ s.results = r.results /\ s.error = error
  BY DEF Tasks

LEMMA DiskPauses ==
  ASSUME NEW w \in Workers, run \in [Workers -> Tasks], Local(run[w]), Disk(w, run[w], host),
         \/ Collect(w) \/ CloseDirectory(w) \/ WorklistComplete(w) \/ StopBetweenFiles(w) \/ LoopEnds(w)
         \/ StopInFile(w) \/ AnswerTask(w),
         run'[w] \in Tasks
  PROVE  Disk(w, run'[w], host')
  <1> DEFINE r == run[w]
  <1>1. r \in Tasks
    BY DEF Local
  <1>2. PICK s : s = run'[w]
    OBVIOUS
  <1>3. /\ s.mode = r.mode /\ s.phase \notin {"open", "copy"} /\ (s.results = r.results \/ s.results = <<>>)
        /\ s.error = "" => r.error = "" /\ r.phase # "copy"
        /\ host' = host
    <2>1. CASE Collect(w)
      <3> DEFINE e == Callee(r)
                 n == Called(r)
      <3>1. HasCall(r) /\ r.phase = "collect" /\ host' = host
        BY <2>1, CollectCases
      <3>2. \/ s = [r EXCEPT !.phase = "returned", !.error = "cancelled"]
            \/ s = [r EXCEPT !.phase = "returned", !.error = "depth"]
            \/ s = [r EXCEPT !.phase = "returned", !.error = "unreadable directory"]
            \/ s = n \/ s = Collected(n, e) \/ s = Opened(Collected(n, e), e)
        BY <1>2, <2>1, CollectCases
      <3>3. n.mode = r.mode /\ n.phase = "collect" /\ n.results = r.results /\ n.error = r.error
        BY <1>1, <3>1 DEF Called, Tasks
      <3> HIDE DEF n, e, r
      <3>4. /\ Collected(n, e).mode = n.mode /\ Collected(n, e).phase = n.phase
            /\ Collected(n, e).results = n.results /\ Collected(n, e).error = n.error
            /\ Opened(Collected(n, e), e).mode = n.mode /\ Opened(Collected(n, e), e).phase = n.phase
            /\ Opened(Collected(n, e), e).results = n.results /\ Opened(Collected(n, e), e).error = n.error
        <4>1. n \in [DOMAIN n -> {n[i] : i \in DOMAIN n}]
          BY <1>1 DEF n, Called, Tasks, r
        <4>2. QED
          BY <4>1 DEF Collected, Opened
      <3>5. ASSUME NEW error \in {"cancelled", "depth", "unreadable directory"},
                   s = [r EXCEPT !.phase = "returned", !.error = error]
            PROVE  s.mode = r.mode /\ s.phase = "returned" /\ s.results = r.results /\ s.error = error
        BY <1>1, <3>5, ReturnedFields
      <3>6. QED
        BY <3>1, <3>2, <3>3, <3>4, <3>5
    <2>2. CASE CloseDirectory(w) \/ WorklistComplete(w)
      <3>1. /\ s = [r EXCEPT !.stack = Tail(@)] \/ s = [r EXCEPT !.phase = "files"]
            /\ r.phase = "collect" /\ host' = host
        BY <1>2, <2>2, Moved DEF CloseDirectory, WorklistComplete
      <3> HIDE DEF r
      <3>2. /\ s.mode = r.mode /\ s.phase \in {"collect", "files"} /\ s.results = r.results
            /\ s.error = r.error
        BY <1>1, <3>1 DEF Tasks
      <3>3. QED
        BY <3>1, <3>2
    <2>3. CASE StopBetweenFiles(w) \/ LoopEnds(w) \/ StopInFile(w)
      <3>1. \/ r.phase = "files" /\ s = [r EXCEPT !.phase = "returned", !.error = ""]
            \/ s = [r EXCEPT !.phase = "returned", !.error = "cancelled"]
        <4>1. CASE StopBetweenFiles(w)
          BY <1>2, <4>1, Moved DEF StopBetweenFiles, Return
        <4>2. CASE LoopEnds(w)
          BY <1>2, <4>2, Moved DEF LoopEnds, Return
        <4>3. CASE StopInFile(w)
          BY <1>2, <4>3, Moved DEF StopInFile, Return
        <4>4. QED
          BY <2>3, <4>1, <4>2, <4>3
      <3>2. host' = host
        BY <2>3 DEF StopBetweenFiles, LoopEnds, StopInFile, Return
      <3>3. r.phase = "files" => r.error = ""
        BY DEF Local, Turns
      <3> HIDE DEF r
      <3>4. ASSUME NEW error, s = [r EXCEPT !.phase = "returned", !.error = error]
            PROVE  s.mode = r.mode /\ s.phase = "returned" /\ s.results = r.results /\ s.error = error
        BY <1>1, <3>4, ReturnedFields
      <3>5. QED
        BY <3>1, <3>2, <3>3, <3>4
    <2>4. CASE AnswerTask(w)
      <3>1. /\ r.phase = "returned" /\ host' = host
            /\ s = [r EXCEPT !.phase = "answered", !.answer = Answer(r), !.results = Payload(r)]
        BY <1>2, <2>4, Moved DEF AnswerTask
      <3> HIDE DEF r
      <3>2. s.results = Payload(r) /\ s.mode = r.mode /\ s.phase = "answered" /\ s.error = r.error
        BY <1>1, <3>1 DEF Tasks
      <3>3. QED
        BY <3>1, <3>2 DEF Payload
    <2>5. QED
      BY <2>1, <2>2, <2>3, <2>4
  <1> HIDE DEF r
  <1>4. Disk(w, s, host)
    BY <1>1, <1>2, <1>3, DiskQuiet DEF r
  <1>5. QED
    BY <1>2, <1>3, <1>4

DiskInv == \A w \in Workers : Disk(w, run[w], host)

LEMMA DiskInit == Inv /\ Init => DiskInv
  <1> SUFFICES ASSUME Inv, Init, NEW w \in Workers PROVE Disk(w, run[w], host)
    BY DEF DiskInv
  <1>0. PICK mode \in [Workers -> Modes], selected \in [Workers -> Selections] :
          run[w] = Start(mode[w], selected[w])
    BY DEF Init
  <1>1. run[w].phase = "collect" /\ run[w].results = <<>>
    <2>1. \A m, list : Start(m, list).phase = "collect" /\ Start(m, list).results = <<>>
      BY DEF Start
    <2>2. QED
      BY <1>0, <2>1
  <1>2. DOMAIN run[w].results = {}
    BY <1>1, EmptyFacts
  <1>3. QED
    BY <1>1, <1>2 DEF Disk, ChosenIsFree, BeingCopied, ReachedExist, SuccessesAreWhole

LEMMA DiskStep ==
  ASSUME Alone, Inv, DiskInv, [Next]_vars
  PROVE  DiskInv'
  <1>1. CASE UNCHANGED vars
    BY <1>1 DEF vars, DiskInv
  <1>2. ASSUME NEW w \in Workers, Extract(w) \/ RequestCancel(w) PROVE DiskInv'
    <2>1. run \in [Workers -> Tasks] /\ Local(run[w]) /\ HostTyped /\ Disk(w, run[w], host)
      BY DEF Inv, DiskInv
    <2>2. run' \in [Workers -> Tasks] /\ run'[w] \in Tasks
      BY <1>2, <2>1, StepIsLocal
    <2>3. CASE RequestCancel(w)
      <3>1. PICK s : s = run'[w]
        OBVIOUS
      <3>2. s = [run[w] EXCEPT !.token = TRUE] /\ host' = host
        BY <2>1, <2>3, <3>1, Moved DEF RequestCancel
      <3>3. run[w] \in Tasks /\ s \in Tasks
        BY <2>1, <2>2, <3>1
      <3>4. /\ s.mode = run[w].mode /\ s.phase = run[w].phase /\ s.dest = run[w].dest
            /\ s.offset = run[w].offset /\ s.index = run[w].index /\ s.worklist = run[w].worklist
            /\ s.results = run[w].results /\ s.error = run[w].error
        BY <3>2, <3>3 DEF Tasks
      <3>5. Disk(w, s, host)
        BY <2>1, <3>3, <3>4, DiskSame
      <3>6. Disk(w, run'[w], host')
        BY <3>1, <3>2, <3>5
      <3>7. QED
        BY <3>6 DEF Alone, DiskInv
    <2>6. CASE CheckToken(w)
      <3>1. PICK s : s = run'[w]
        OBVIOUS
      <3>2. s = [run[w] EXCEPT !.checked = TRUE] /\ host' = host
        BY <2>1, <2>6, <3>1, Moved DEF CheckToken
      <3>3. run[w] \in Tasks /\ s \in Tasks
        BY <2>1, <2>2, <3>1
      <3>4. /\ s.mode = run[w].mode /\ s.phase = run[w].phase /\ s.dest = run[w].dest
            /\ s.offset = run[w].offset /\ s.index = run[w].index /\ s.worklist = run[w].worklist
            /\ s.results = run[w].results /\ s.error = run[w].error
        BY <3>2, <3>3 DEF Tasks
      <3>5. Disk(w, s, host)
        BY <2>1, <3>3, <3>4, DiskSame
      <3>6. Disk(w, run'[w], host')
        BY <3>1, <3>2, <3>5
      <3>7. QED
        BY <3>6 DEF Alone, DiskInv
    <2>4. CASE Extract(w) /\ ~CheckToken(w)
      <3>1. Disk(w, run'[w], host')
        BY <2>1, <2>2, <2>4, DiskPauses, DiskTurns, DiskDecides, DiskOpens, DiskCopies, DiskEnds DEF Extract
      <3>2. QED
        BY <3>1 DEF Alone, DiskInv
    <2>5. QED
      BY <1>2, <2>3, <2>4, <2>6
  <1>3. QED
    BY <1>1, <1>2 DEF Next

(* What a task that runs alone reports as extracted is on the host with    *)
(* every byte of its source (ResultsAreOnDisk), under every policy, for    *)
(* every evidence and whatever was on the host before.                     *)
THEOREM ExtractionResultsAreOnDisk ==
  ASSUME Alone
  PROVE  Spec => []ResultsAreOnDisk
  <1>1. Inv /\ DiskInv => ResultsAreOnDisk
    <2> SUFFICES ASSUME Inv, DiskInv, NEW w \in Workers, run[w].error = "", NEW i \in DOMAIN run[w].results
                 PROVE  LET x == run[w].results[i]
                        IN  /\ Succeeded(x) /\ ~Later(run[w], i) =>
                                 host[x.dest] = FileOf(w, x.entry, x.entry.size)
                            /\ x.outcome = "skipped_existing" => Exists(x.dest)
      BY DEF ResultsAreOnDisk, Succeeded, Later, FileOf
    <2>1. ReachedExist(run[w], host) /\ SuccessesAreWhole(w, run[w], host)
      BY DEF DiskInv, Disk
    <2>2. QED
      BY <2>1 DEF ReachedExist, SuccessesAreWhole, Reached, Exists
  <1>2. Inv /\ Init => DiskInv
    BY DiskInit
  <1>3. Inv /\ DiskInv /\ [Next]_vars => DiskInv'
    BY DiskStep
  <1>4. QED
    BY <1>1, <1>2, <1>3, InvHolds, PTL DEF Spec

(* A task that runs alone under a policy not to overwrite never touches a  *)
(* file that is there (NothingOverwritten): neither one from before nor    *)
(* one of its own results.                                                 *)
THEOREM ExtractionNothingOverwritten ==
  ASSUME Alone
  PROVE  Spec => NothingOverwritten
  <1>1. Inv /\ DiskInv /\ [Next]_vars =>
          [(\A w \in Workers : run[w].mode # "Overwrite") =>
             \A d \in DOMAIN host :
               IsFile(d) /\ (\A w \in Workers : ~(run[w].phase = "copy" /\ run[w].dest = d))
                 => host'[d] = host[d]]_vars
    <2> SUFFICES ASSUME Inv, DiskInv, NEW w \in Workers, Extract(w) \/ RequestCancel(w),
                        run[w].mode # "Overwrite", NEW d \in DOMAIN host,
                        ~(run[w].phase = "copy" /\ run[w].dest = d)
                 PROVE  host'[d] = host[d]
      BY DEF Next
    <2> DEFINE r == run[w]
    <2>1. Local(r) /\ Disk(w, r, host) /\ HostTyped
      BY DEF Inv, DiskInv
    <2>2. CASE UNCHANGED host
      BY <2>2
    <2>3. \A dirs : With(dirs)[d] = host[d]
      BY DEF With, Exists
    <2>4. CASE MakeDirectory(w) \/ DecideDestination(w)
      BY <2>3, <2>4 DEF MakeDirectory, DecideDestination
    <2>5. CASE OpenFile(w)
      <3>1. r.dest \notin DOMAIN host
        BY <2>1, <2>5 DEF OpenFile, Disk, ChosenIsFree
      <3>2. d # r.dest
        BY <3>1
      <3>3. \/ host' = host
            \/ host' = [c \in DOMAIN host \union {r.dest} |->
                          IF c = r.dest THEN FileOf(w, Current(r), 0) ELSE host[c]]
        BY <2>5 DEF OpenFile, FileOf
      <3>4. QED
        BY <3>2, <3>3
    <2>6. CASE CopyChunk(w) \/ CopyFails(w)
      <3>1. r.dest # d
        BY <2>6 DEF CopyChunk, CopyFails, Unfinished, Copying
      <3>2. host' = host \/ \E n : host' = Written(r.dest, w, n)
        BY <2>6 DEF CopyChunk, CopyFails
      <3>3. \A n : Written(r.dest, w, n)[d] = host[d]
        BY <2>1, <3>1 DEF Written, HostTyped
      <3>4. QED
        BY <3>2, <3>3
    <2>7. Extract(w) \/ RequestCancel(w) =>
            \/ UNCHANGED host
            \/ MakeDirectory(w) \/ DecideDestination(w) \/ OpenFile(w) \/ CopyChunk(w) \/ CopyFails(w)
      BY DEF Extract, RequestCancel, Collect, CloseDirectory, WorklistComplete, CheckToken,
             StopBetweenFiles, LoopEnds,
             RejectInode, SkipFile, StopInFile, FinishFile, AnswerTask, Return
    <2>8. QED
      BY <2>2, <2>4, <2>5, <2>6, <2>7
  <1>2. Inv /\ Init => DiskInv
    BY DiskInit
  <1>3. Inv /\ DiskInv /\ [Next]_vars => DiskInv'
    BY DiskStep
  <1>4. QED
    BY <1>1, <1>2, <1>3, InvHolds, PTL DEF Spec, NothingOverwritten

-----------------------------------------------------------------------------
(* What an extraction collects (collectRecursive): the order of the work    *)
(* list and that it is complete, for every evidence whatever contains what, *)
(* every selection and every depth.                                         *)

(* Entry k of the selection leads to a path over listed directories only. *)
Covered(r, p, k) ==
  /\ IsPrefix(r.selected[k].path, p)
  /\ \A n \in Len(r.selected[k].path) .. Len(p) : SubSeq(p, 1, n) \in r.paths

Origins(r) == \A p \in r.paths : \E k \in 1 .. r.seed - 1 : Covered(r, p, k)

(* What is open was opened for the last entry taken of the selection. *)
OpenBelow(r) ==
  \A i \in DOMAIN r.stack : r.seed > 1 /\ Covered(r, r.stack[i].path, r.seed - 1)

InOrder(r) ==
  \A i, j \in DOMAIN r.worklist :
    i < j => /\ r.worklist[i].path # r.worklist[j].path
             /\ ~IsStrictPrefix(r.worklist[j].path, r.worklist[i].path)

Ordered(r) == r.paths = ListedPaths(r) /\ Origins(r) /\ OpenBelow(r) /\ InOrder(r)

(* A name that is still to be collected. *)
Pending(r, p, c) == \E i \in DOMAIN r.stack : r.stack[i].path = p /\ c \in ToSet(r.stack[i].left)

(* Entry k of the work list is a directory whose names are listed or *)
(* pending. *)
GoneThrough(r, k) ==
  /\ r.worklist[k].dir
  /\ \A c \in ToSet(Contents[r.worklist[k].inode]) :
       Append(r.worklist[k].path, c.name) \in r.paths \/ Pending(r, r.worklist[k].path, c)

InodesGoneThrough(r) ==
  \A n \in r.inodes : \E k \in DOMAIN r.worklist : r.worklist[k].inode = n /\ GoneThrough(r, k)

DirectoriesGoneThrough(r) ==
  \A i \in DOMAIN r.worklist :
    r.worklist[i].dir => r.worklist[i].inode \in r.inodes \/ GoneThrough(r, i)

SelectedAreListed(r) == \A i \in 1 .. r.seed - 1 : r.selected[i].path \in r.paths

NoInodeZero(r) == \A i \in DOMAIN r.worklist : ~(r.worklist[i].dir /\ r.worklist[i].inode = 0)

(* Each open directory took an inode of its own. *)
DepthIsInodes(r) ==
  /\ IsFiniteSet(r.inodes)
  /\ NoInodeZero(r) => Cardinality(r.inodes) >= Len(r.stack)
  /\ r.error = "depth" => Cardinality(r.inodes) > MaxDepth \/ ~NoInodeZero(r)

AllTaken(r) ==
  r.phase \in {"files", "open", "copy"} => r.stack = <<>> /\ r.seed > Len(r.selected)

Complete(r) ==
  /\ InodesGoneThrough(r) /\ DirectoriesGoneThrough(r) /\ SelectedAreListed(r)
  /\ DepthIsInodes(r) /\ AllTaken(r)

-----------------------------------------------------------------------------
(* One call of collectRecursive. *)

Frame(e) == [path |-> e.path, left |-> Contents[e.inode]]

(* The task after the call: the entry is listed unless it was, and opened  *)
(* when its directory is new.                                              *)
Took(r, e, s) ==
  /\ s.selected = r.selected /\ s.error = r.error /\ s.phase = r.phase
  /\ s.seed = Called(r).seed
  /\ s.paths = r.paths \union {e.path}
  /\ \/ /\ e.path \in r.paths
        /\ s.worklist = r.worklist /\ s.inodes = r.inodes /\ s.stack = Called(r).stack
     \/ /\ e.path \notin r.paths /\ ~Expands(r, e)
        /\ s.worklist = Append(r.worklist, e) /\ s.inodes = r.inodes /\ s.stack = Called(r).stack
     \/ /\ e.path \notin r.paths /\ Expands(r, e) /\ e.dir
        /\ s.worklist = Append(r.worklist, e) /\ s.stack = <<Frame(e)>> \o Called(r).stack
        /\ s.inodes = IF e.inode = 0 THEN r.inodes ELSE r.inodes \union {e.inode}

LEMMA CollectTakes ==
  ASSUME NEW w \in Workers, run \in [Workers -> Tasks], Local(run[w]), Collect(w)
  PROVE  /\ HasCall(run[w]) /\ run[w].phase = "collect" /\ Callee(run[w]) \in KnownEntries
         /\ \/ /\ Len(run[w].stack) <= MaxDepth /\ Took(run[w], Callee(run[w]), run'[w])
            \/ \E error \in {"cancelled", "depth", "unreadable directory"} :
                 /\ error = "depth" => Len(run[w].stack) > MaxDepth
                 /\ run'[w] = [run[w] EXCEPT !.phase = "returned", !.error = error]
  <1> DEFINE r == run[w]
             e == Callee(r)
             n == Called(r)
             c == Collected(n, e)
  <1>1. /\ HasCall(r) /\ r.phase = "collect"
        /\ \/ \E error \in {"cancelled", "depth", "unreadable directory"} :
                /\ error = "depth" => Len(r.stack) > MaxDepth
                /\ run'[w] = [r EXCEPT !.phase = "returned", !.error = error]
           \/ Len(r.stack) <= MaxDepth /\ e.path \in r.paths /\ run'[w] = n
           \/ Len(r.stack) <= MaxDepth /\ e.path \notin r.paths /\ ~Expands(r, e) /\ run'[w] = c
           \/ /\ Len(r.stack) <= MaxDepth /\ e.path \notin r.paths /\ Expands(r, e) /\ e.dir
              /\ run'[w] = Opened(c, e)
    BY CollectCases
  <1>2. PICK s : s = run'[w]
    OBVIOUS
  <1> HIDE DEF r, e, n, c
  <1>3. Local(r) /\ r \in Tasks /\ r.seed <= Len(r.selected) + 1
    BY DEF r, Local, Bounds
  <1>4. e \in KnownEntries /\ n \in Tasks
    BY <1>1, <1>3, CallTypes DEF e, n
  <1>5. Collecting(r, n) /\ n.paths = r.paths /\ n.inodes = r.inodes /\ n.worklist = r.worklist
    BY <1>1, <1>3, CalledKeeps DEF n
  <1>6. n.selected = r.selected /\ n.error = r.error /\ n.phase = r.phase /\ n.phase = "collect"
    BY <1>1, <1>5 DEF Collecting
  <1>7. /\ c \in Tasks /\ c.stack = n.stack /\ c.seed = n.seed /\ c.inodes = n.inodes
        /\ c.paths = n.paths \union {e.path} /\ c.worklist = Append(n.worklist, e)
        /\ c.selected = n.selected /\ c.error = n.error /\ c.phase = n.phase
    BY <1>4, <1>6, CollectedType DEF c, Collecting
  <1>8. CASE e.path \in r.paths /\ s = n
    <2>1. r.paths = r.paths \union {e.path}
      BY <1>8
    <2>2. Took(r, e, s)
      BY <1>5, <1>6, <1>8, <2>1 DEF Took, n
    <2>3. QED
      BY <1>1, <1>2, <1>4, <1>8, <2>2 DEF r, e
  <1>9. CASE Len(r.stack) <= MaxDepth /\ e.path \notin r.paths /\ ~Expands(r, e) /\ s = c
    <2>1. Took(r, e, s)
      BY <1>5, <1>6, <1>7, <1>9 DEF Took, n
    <2>2. QED
      BY <1>1, <1>2, <1>4, <1>9, <2>1 DEF r, e
  <1>10. CASE /\ Len(r.stack) <= MaxDepth /\ e.path \notin r.paths /\ Expands(r, e) /\ e.dir
              /\ s = Opened(c, e)
    <2> DEFINE o == Opened(c, e)
    <2>1. /\ Collecting(c, o) /\ o.stack = <<Frame(e)>> \o c.stack
          /\ o.inodes = (IF e.inode = 0 THEN c.inodes ELSE c.inodes \union {e.inode})
          /\ o.seed = c.seed /\ o.paths = c.paths /\ o.worklist = c.worklist
      BY <1>4, <1>6, <1>7, <1>10, OpenedType DEF Frame
    <2> HIDE DEF o
    <2>2. o.selected = c.selected /\ o.error = c.error /\ o.phase = "collect"
      BY <2>1 DEF Collecting
    <2>3. Took(r, e, o)
      BY <1>5, <1>6, <1>7, <1>10, <2>1, <2>2 DEF Took, n
    <2>4. QED
      BY <1>1, <1>2, <1>4, <1>10, <2>3 DEF r, e, o
  <1>11. QED
    BY <1>1, <1>2, <1>4, <1>8, <1>9, <1>10 DEF r, e

(* Where the call comes from, and what it leaves of the open directories.  *)
LEMMA CallFrom ==
  ASSUME NEW r \in Tasks, HasCall(r), r.seed <= Len(r.selected) + 1
  PROVE  \/ /\ r.stack # <<>> /\ Called(r).seed = r.seed
            /\ r.stack[1].left # <<>> /\ r.stack[1].left \in Seq(KnownRecords)
            /\ Callee(r).path = Append(r.stack[1].path, Head(r.stack[1].left).name)
            /\ DOMAIN Called(r).stack = DOMAIN r.stack
            /\ Called(r).stack[1].path = r.stack[1].path
            /\ Called(r).stack[1].left = Tail(r.stack[1].left)
            /\ \A i \in DOMAIN r.stack \ {1} : Called(r).stack[i] = r.stack[i]
         \/ /\ r.stack = <<>> /\ Called(r).stack = <<>> /\ Called(r).seed = r.seed + 1
            /\ r.seed \in 1 .. Len(r.selected) /\ Callee(r) = r.selected[r.seed]
  <1>1. CASE r.stack # <<>>
    <2>1. r.stack \in Seq(Frames) /\ r.stack[1] \in Frames /\ Head(r.stack) = r.stack[1] /\ 1 \in DOMAIN r.stack
      BY <1>1 DEF Tasks
    <2>2. r.stack[1].left \in Seq(KnownRecords) /\ r.stack[1].left # <<>>
      BY <1>1, <2>1 DEF HasCall, InDirectory, Frames
    <2>3. Callee(r).path = Append(r.stack[1].path, Head(r.stack[1].left).name)
      BY <1>1, <2>1 DEF Callee, InDirectory, Entry
    <2> DEFINE f == [r.stack[1] EXCEPT !.left = Tail(@)]
    <2>4. f.path = r.stack[1].path /\ f.left = Tail(r.stack[1].left)
      BY <2>1 DEF Frames
    <2>5. Called(r).seed = r.seed /\ Called(r).stack = [r.stack EXCEPT ![1] = f]
      BY <1>1 DEF Called, InDirectory, Tasks
    <2> HIDE DEF f
    <2>6. QED
      BY <1>1, <2>1, <2>2, <2>3, <2>4, <2>5
  <1>2. CASE r.stack = <<>>
    <2>1. Called(r) = [r EXCEPT !.seed = @ + 1] /\ r.seed <= Len(r.selected) /\ Callee(r) = r.selected[r.seed]
      BY <1>2 DEF Called, InDirectory, HasCall, Callee
    <2>2. r.selected \in Seq(KnownEntries) /\ r.seed \in Nat \ {0}
      BY SelectionsKnown DEF Tasks
    <2>3. r.seed \in 1 .. Len(r.selected)
      BY <2>1, <2>2
    <2>4. Called(r).stack = r.stack /\ Called(r).seed = r.seed + 1
      BY <2>1 DEF Tasks
    <2>5. QED
      BY <1>2, <2>1, <2>3, <2>4
  <1>3. QED
    BY <1>1, <1>2

(* What every other step but CloseDirectory leaves alone. *)
LEMMA CollectionFixed ==
  ASSUME NEW w \in Workers, run \in [Workers -> Tasks],
         \/ WorklistComplete(w) \/ StopBetweenFiles(w) \/ LoopEnds(w) \/ MakeDirectory(w) \/ RejectInode(w)
         \/ SkipFile(w) \/ DecideDestination(w) \/ OpenFile(w) \/ StopInFile(w) \/ CopyChunk(w)
         \/ CopyFails(w) \/ FinishFile(w) \/ AnswerTask(w) \/ CheckToken(w) \/ RequestCancel(w)
  PROVE  LET r == run[w]
             s == run'[w]
         IN  /\ s.selected = r.selected /\ s.seed = r.seed /\ s.stack = r.stack /\ s.paths = r.paths
             /\ s.inodes = r.inodes /\ s.worklist = r.worklist
             /\ s.error = r.error \/ s.error \in {"", "cancelled"}
             /\ s.phase \in {"files", "open", "copy"} =>
                  r.phase \in {"files", "open", "copy"} \/ (r.phase = "collect" /\ WorklistComplete(w))
  <1> DEFINE r == run[w]
             Same(s) == /\ s.selected = r.selected /\ s.seed = r.seed /\ s.stack = r.stack /\ s.paths = r.paths
                        /\ s.inodes = r.inodes /\ s.worklist = r.worklist
  <1>0. r \in Tasks
    OBVIOUS
  <1>1. CASE WorklistComplete(w)
    <2>1. r.phase = "collect" /\ run'[w] = [r EXCEPT !.phase = "files"]
      BY <1>1, Moved DEF WorklistComplete
    <2> HIDE DEF r
    <2>2. QED
      BY <1>0, <1>1, <2>1 DEF Tasks, r
  <1>2. CASE StopBetweenFiles(w) \/ LoopEnds(w) \/ StopInFile(w)
    <2>1. \E error \in {"", "cancelled"} : run'[w] = [r EXCEPT !.phase = "returned", !.error = error]
      BY <1>2, Moved DEF StopBetweenFiles, LoopEnds, StopInFile, Return
    <2> HIDE DEF r
    <2>2. QED
      BY <1>0, <2>1 DEF Tasks, r
  <1>3. CASE MakeDirectory(w) \/ RejectInode(w) \/ SkipFile(w) \/ CopyFails(w) \/ FinishFile(w)
    <2>1. \E x, bytes : run'[w] = Done(r, x, bytes)
      BY <1>3, TurnDone
    <2>2. r.phase \in {"files", "open", "copy"}
      BY <1>3 DEF MakeDirectory, RejectInode, SkipFile, CopyFails, FinishFile, AtEntry, Unfinished, Copying
    <2>3. \A x, bytes : Same(Done(r, x, bytes)) /\ Done(r, x, bytes).error = r.error
      BY <1>0 DEF Done, Tasks
    <2>4. QED
      BY <2>1, <2>2, <2>3
  <1>4. CASE DecideDestination(w)
    <2> DEFINE choice == ResolveDestination(r, Requested(Current(r)))
    <2>1. /\ r.phase = "files"
          /\ run'[w] = [r EXCEPT !.phase = "open", !.dest = choice.dest, !.decision = choice.decision]
      BY <1>4, Moved DEF DecideDestination, AtEntry
    <2> HIDE DEF choice, r
    <2>2. QED
      BY <1>0, <2>1 DEF Tasks, r
  <1>5. CASE OpenFile(w)
    <2>1. /\ r.phase = "open"
          /\ \/ \E x : run'[w] = Done(r, x, 0)
             \/ run'[w] = [r EXCEPT !.phase = "copy", !.offset = 0, !.checked = FALSE]
      BY <1>5, Moved DEF OpenFile
    <2>2. \A x, bytes : Same(Done(r, x, bytes)) /\ Done(r, x, bytes).error = r.error
      BY <1>0 DEF Done, Tasks
    <2>3. LET s == [r EXCEPT !.phase = "copy", !.offset = 0, !.checked = FALSE]
          IN  Same(s) /\ s.error = r.error
      BY <1>0 DEF Tasks
    <2>4. Same(run'[w]) /\ run'[w].error = r.error
      <3> HIDE DEF Same, r
      <3>1. CASE \E x : run'[w] = Done(r, x, 0)
        <4>1. PICK x : run'[w] = Done(r, x, 0)
          BY <3>1
        <4>2. QED
          BY <2>2, <4>1
      <3>2. CASE run'[w] = [r EXCEPT !.phase = "copy", !.offset = 0, !.checked = FALSE]
        BY <2>3, <3>2
      <3>3. QED
        BY <2>1, <3>1, <3>2
    <2>5. QED
      BY <2>1, <2>4
  <1>6. CASE CopyChunk(w)
    <2>1. r.phase = "copy" /\ \E n : run'[w] = [r EXCEPT !.offset = n, !.checked = FALSE]
      BY <1>6, Moved DEF CopyChunk, Unfinished, Copying
    <2>2. QED
      BY <1>0, <2>1 DEF Tasks
  <1>7. CASE AnswerTask(w)
    <2>1. run'[w] = [r EXCEPT !.phase = "answered", !.answer = Answer(r), !.results = Payload(r)]
      BY <1>7, Moved DEF AnswerTask
    <2> HIDE DEF r
    <2>2. QED
      BY <1>0, <2>1 DEF Tasks, r
  <1>8. CASE RequestCancel(w)
    <2>1. run'[w] = [r EXCEPT !.token = TRUE]
      BY <1>8, Moved DEF RequestCancel
    <2>2. QED
      BY <1>0, <2>1 DEF Tasks
  <1>9. CASE CheckToken(w)
    <2>1. /\ run'[w] = [r EXCEPT !.checked = TRUE] /\ r.phase \in {"files", "copy"}
      BY <1>9, Moved DEF CheckToken, AtEntry, Unfinished, Copying
    <2>2. QED
      BY <1>0, <2>1 DEF Tasks
  <1>10. QED
    BY <1>1, <1>2, <1>3, <1>4, <1>5, <1>6, <1>7, <1>8, <1>9

-----------------------------------------------------------------------------
(* The order of the work list. *)

LEMMA CollectionTypes ==
  ASSUME NEW r \in Tasks
  PROVE  /\ \A k \in 1 .. Len(r.selected) : r.selected[k].path \in Paths
         /\ Len(r.selected) \in Nat /\ r.seed \in Nat \ {0}
         /\ r.paths \subseteq Paths
         /\ r.stack \in Seq(Frames) /\ \A i \in DOMAIN r.stack : r.stack[i].path \in Paths
         /\ r.worklist \in Seq(KnownEntries) /\ \A i \in DOMAIN r.worklist : r.worklist[i].path \in Paths
         /\ \A i, j \in 1 .. Len(r.selected) :
              i < j => ~IsStrictPrefix(r.selected[j].path, r.selected[i].path)
  <1>1. r.selected \in Selections
    BY DEF Tasks
  <1>2. /\ r.selected \in Seq(KnownEntries) /\ DOMAIN r.selected = 1 .. Len(r.selected)
        /\ \A i, j \in DOMAIN r.selected : i < j => ~IsStrictPrefix(r.selected[j].path, r.selected[i].path)
    BY <1>1, SelectionsKnown, ExtractionAssumption
  <1>3. \A x \in KnownEntries : x.path \in Paths
    BY DEF KnownEntries, Entries
  <1>4. \A x \in Frames : x.path \in Paths
    BY DEF Frames
  <1>5. r.stack \in Seq(Frames) /\ r.worklist \in Seq(KnownEntries)
    BY DEF Tasks
  <1>6. \A i \in DOMAIN r.stack : r.stack[i] \in Frames
    BY <1>5
  <1>7. \A i \in DOMAIN r.worklist : r.worklist[i] \in KnownEntries
    BY <1>5
  <1>8. \A k \in 1 .. Len(r.selected) : r.selected[k] \in KnownEntries
    BY <1>2
  <1>9. r.paths \subseteq Paths /\ r.seed \in Nat \ {0} /\ Len(r.selected) \in Nat
    BY <1>2 DEF Tasks
  <1>10. QED
    BY <1>2, <1>3, <1>4, <1>5, <1>6, <1>7, <1>8, <1>9

(* The entry of a call is reached from the last entry taken. *)
LEMMA CalleeIsCovered ==
  ASSUME NEW r \in Tasks, HasCall(r), r.seed <= Len(r.selected) + 1, OpenBelow(r),
         NEW s, Took(r, Callee(r), s)
  PROVE  /\ s.seed - 1 \in 1 .. Len(r.selected) /\ r.seed <= s.seed
         /\ Covered(s, Callee(r).path, s.seed - 1)
         /\ s.seed # r.seed => r.stack = <<>>
  <1> DEFINE e == Callee(r)
             t == r.selected[s.seed - 1].path
  <1>1. e \in KnownEntries /\ e.path \in Paths
    BY CallTypes DEF KnownEntries, Entries
  <1>2. /\ s.selected = r.selected /\ s.paths = r.paths \union {e.path} /\ s.seed = Called(r).seed
    BY DEF Took
  <1>3. /\ Len(r.selected) \in Nat /\ r.seed \in Nat \ {0}
        /\ \A i \in DOMAIN r.stack : r.stack[i].path \in Paths
        /\ \A k \in 1 .. Len(r.selected) : r.selected[k].path \in Paths
    BY CollectionTypes
  <1>4. CASE r.stack # <<>>
    <2> DEFINE f == r.stack[1].path
               x == Head(r.stack[1].left).name
    <2>1. /\ s.seed = r.seed /\ e.path = Append(f, x)
          /\ r.stack[1].left # <<>> /\ r.stack[1].left \in Seq(KnownRecords)
      BY <1>2, <1>4, CallFrom
    <2>2. 1 \in DOMAIN r.stack
      <3>1. r.stack \in Seq(Frames)
        BY CollectionTypes
      <3>2. QED
        BY <1>4, <3>1
    <2>3. r.seed > 1 /\ IsPrefix(t, f) /\ \A n \in Len(t) .. Len(f) : SubSeq(f, 1, n) \in r.paths
      BY <2>1, <2>2 DEF OpenBelow, Covered
    <2>4. Head(r.stack[1].left) \in KnownRecords
      BY <2>1
    <2>5. x \in DOMAIN Clean
      BY <2>4 DEF KnownRecords, Records
    <2>6. s.seed - 1 \in 1 .. Len(r.selected)
      BY <1>3, <2>1, <2>3
    <2>7. f \in Seq(DOMAIN Clean) /\ t \in Seq(DOMAIN Clean) /\ e.path \in Seq(DOMAIN Clean)
      BY <1>1, <1>3, <2>2, <2>6 DEF Paths
    <2> HIDE DEF f, x, t, e
    <2>8. IsPrefix(t, e.path)
      BY <2>1, <2>3, <2>5, <2>7, PrefixOfAppend
    <2>9. /\ Len(e.path) = Len(f) + 1 /\ Len(f) \in Nat /\ Len(t) \in Nat
          /\ \A n \in 0 .. Len(f) : SubSeq(e.path, 1, n) = SubSeq(f, 1, n)
          /\ SubSeq(e.path, 1, Len(f) + 1) = e.path
      BY <2>1, <2>5, <2>7, AppendFacts
    <2>10. ASSUME NEW n \in Len(t) .. Len(e.path) PROVE SubSeq(e.path, 1, n) \in s.paths
      <3>1. n \in Len(t) .. Len(f) \/ n = Len(f) + 1
        BY <2>9
      <3>2. CASE n \in Len(t) .. Len(f)
        <4>1. n \in 0 .. Len(f)
          BY <2>9, <3>2
        <4>2. SubSeq(f, 1, n) \in r.paths
          BY <2>3, <3>2
        <4>3. QED
          BY <1>2, <2>9, <4>1, <4>2
      <3>3. CASE n = Len(f) + 1
        BY <1>2, <2>9, <3>3
      <3>4. QED
        BY <3>1, <3>2, <3>3
    <2>11. Covered(s, e.path, s.seed - 1)
      BY <1>2, <2>8, <2>10 DEF Covered, t
    <2>12. r.seed <= s.seed
      BY <1>3, <2>1
    <2>13. QED
      BY <2>1, <2>6, <2>11, <2>12 DEF e
  <1>5. CASE r.stack = <<>>
    <2>1. s.seed = r.seed + 1 /\ r.seed \in 1 .. Len(r.selected) /\ e = r.selected[r.seed]
      BY <1>2, <1>5, CallFrom
    <2>2. s.seed - 1 = r.seed /\ r.seed <= s.seed
      BY <1>3, <2>1
    <2>3. t = e.path /\ e.path \in Seq(DOMAIN Clean)
      BY <1>1, <2>1, <2>2 DEF Paths
    <2> HIDE DEF t, e
    <2>4. IsPrefix(t, e.path) /\ SubSeq(e.path, 1, Len(e.path)) = e.path /\ Len(e.path) \in Nat
      BY <2>3, PrefixOfItself
    <2>5. \A n \in Len(t) .. Len(e.path) : n = Len(e.path)
      BY <2>3, <2>4
    <2>6. \A n \in Len(t) .. Len(e.path) : SubSeq(e.path, 1, n) \in s.paths
      BY <1>2, <2>4, <2>5
    <2>7. Covered(s, e.path, s.seed - 1)
      BY <1>2, <2>4, <2>6 DEF Covered, t
    <2>8. QED
      BY <1>5, <2>1, <2>2, <2>7 DEF e
  <1>6. QED
    BY <1>4, <1>5

(* A new path is in front of no path already listed. *)
LEMMA NewIsInFrontOfNone ==
  ASSUME NEW r \in Tasks, HasCall(r), r.seed <= Len(r.selected) + 1, OpenBelow(r), Origins(r),
         NEW s, Took(r, Callee(r), s), Callee(r).path \notin r.paths,
         NEW p \in r.paths, IsStrictPrefix(Callee(r).path, p)
  PROVE  FALSE
  <1> DEFINE N == DOMAIN Clean
             q == Callee(r).path
             m == s.seed - 1
  <1>1. Callee(r) \in KnownEntries
    BY CallTypes
  <1>2. q \in Seq(N) /\ p \in Seq(N)
    BY <1>1, CollectionTypes DEF KnownEntries, Entries, Paths
  <1>3. PICK k \in 1 .. r.seed - 1 : Covered(r, p, k)
    BY DEF Origins
  <1>4. /\ m \in 1 .. Len(r.selected) /\ r.seed <= s.seed /\ Covered(s, q, m)
        /\ s.selected = r.selected
    BY CalleeIsCovered DEF Took
  <1>5. /\ Len(r.selected) \in Nat /\ r.seed \in Nat \ {0}
        /\ \A i \in 1 .. Len(r.selected) : r.selected[i].path \in Seq(N)
        /\ \A i, j \in 1 .. Len(r.selected) :
              i < j => ~IsStrictPrefix(r.selected[j].path, r.selected[i].path)
    BY CollectionTypes DEF Paths
  <1>6. s.seed \in Int /\ s.seed - 1 = m
    <2>1. s.seed = Called(r).seed
      BY DEF Took
    <2>2. s.seed = r.seed \/ s.seed = r.seed + 1
      BY <2>1, CallFrom
    <2>3. QED
      BY <1>5, <2>2
  <1> HIDE DEF m, q, N
  <1>7. k \in 1 .. Len(r.selected) /\ k <= m
    BY <1>4, <1>5, <1>6
  <1> DEFINE t == r.selected[k].path
             u == r.selected[m].path
  <1>8. t \in Seq(N) /\ u \in Seq(N)
    BY <1>4, <1>5, <1>7
  <1>9. IsPrefix(t, p) /\ (\A n \in Len(t) .. Len(p) : SubSeq(p, 1, n) \in r.paths) /\ IsPrefix(u, q)
    BY <1>3, <1>4 DEF Covered
  <1> HIDE DEF t, u
  <1>10. IsStrictPrefix(q, p)
    BY DEF q
  <1>11. Len(q) < Len(p) /\ SubSeq(p, 1, Len(q)) = q /\ Len(q) \in Nat /\ Len(p) \in Nat /\ Len(t) \in Nat
    BY <1>2, <1>8, <1>10, StrictPrefixIsSubSeq
  <1>12. Len(q) < Len(t)
    <2>1. q \notin r.paths
      BY DEF q
    <2>2. Len(q) \notin Len(t) .. Len(p)
      BY <1>9, <1>11, <2>1
    <2>3. QED
      BY <1>11, <2>2
  <1>13. IsStrictPrefix(q, t)
    BY <1>2, <1>8, <1>9, <1>10, <1>12, PrefixesOfOne
  <1>14. IsStrictPrefix(u, t)
    BY <1>2, <1>8, <1>9, <1>13, PrefixThenStrict
  <1>15. Len(u) < Len(t)
    BY <1>8, <1>14, StrictPrefixIsSubSeq
  <1>16. k # m
    <2>1. k = m => t = u
      BY DEF t, u
    <2>2. QED
      BY <1>11, <1>15, <2>1
  <1>17. k < m
    BY <1>4, <1>5, <1>7, <1>16
  <1>18. ~IsStrictPrefix(r.selected[m].path, r.selected[k].path)
    BY <1>4, <1>5, <1>7, <1>17
  <1>19. QED
    BY <1>14, <1>18 DEF t, u

LEMMA TakingKeepsOrder ==
  ASSUME NEW r \in Tasks, HasCall(r), r.seed <= Len(r.selected) + 1, Ordered(r),
         NEW s, Took(r, Callee(r), s)
  PROVE  Ordered(s)
  <1> DEFINE e == Callee(r)
             list == r.worklist
  <1>1. e \in KnownEntries
    BY CallTypes
  <1>2. r.paths = ListedPaths(r) /\ Origins(r) /\ OpenBelow(r) /\ InOrder(r)
    BY DEF Ordered
  <1>3. /\ s.seed - 1 \in 1 .. Len(r.selected) /\ r.seed <= s.seed /\ Covered(s, e.path, s.seed - 1)
        /\ (s.seed # r.seed => r.stack = <<>>)
    BY <1>2, CalleeIsCovered
  <1>4. /\ s.selected = r.selected /\ s.paths = r.paths \union {e.path} /\ s.seed = Called(r).seed
    BY DEF Took
  <1>5. /\ Len(r.selected) \in Nat /\ r.seed \in Nat \ {0} /\ list \in Seq(KnownEntries)
        /\ r.stack \in Seq(Frames)
    BY CollectionTypes
  <1>6. s.seed \in Nat /\ s.seed > 1
    <2>1. s.seed = r.seed \/ s.seed = r.seed + 1
      BY <1>4, CallFrom
    <2>2. s.seed \in Nat
      BY <1>5, <2>1
    <2>3. QED
      BY <1>3, <1>5, <2>2
  <1>7. \A p, k : Covered(r, p, k) => Covered(s, p, k)
    BY <1>4 DEF Covered
  <1>8. Origins(s)
    <2>1. SUFFICES ASSUME NEW p \in s.paths PROVE \E k \in 1 .. s.seed - 1 : Covered(s, p, k)
      BY DEF Origins
    <2>2. CASE p = e.path
      <3>1. s.seed - 1 \in 1 .. s.seed - 1
        BY <1>6
      <3>2. QED
        BY <1>3, <2>2, <3>1
    <2>3. CASE p \in r.paths
      <3>1. PICK k \in 1 .. r.seed - 1 : Covered(r, p, k)
        BY <1>2, <2>3 DEF Origins
      <3>2. k \in 1 .. s.seed - 1
        BY <1>3, <1>5, <1>6
      <3>3. QED
        BY <1>7, <3>1, <3>2
    <2>4. QED
      BY <1>4, <2>1, <2>2, <2>3
  <1>9. OpenBelow(s)
    <2>1. \A i \in DOMAIN Called(r).stack : Covered(s, Called(r).stack[i].path, s.seed - 1)
      <3>1. CASE r.stack # <<>>
        <4>1. s.seed = r.seed
          BY <1>3, <3>1
        <4>2. /\ DOMAIN Called(r).stack = DOMAIN r.stack
              /\ \A i \in DOMAIN r.stack : Called(r).stack[i].path = r.stack[i].path
          BY <3>1, CallFrom
        <4>3. \A i \in DOMAIN r.stack : Covered(r, r.stack[i].path, r.seed - 1)
          BY <1>2 DEF OpenBelow
        <4>4. QED
          BY <1>7, <4>1, <4>2, <4>3
      <3>2. CASE r.stack = <<>>
        <4>1. Called(r).stack = <<>>
          BY <3>2, CallFrom
        <4>2. DOMAIN Called(r).stack = {}
          BY <4>1, EmptyFacts
        <4>3. QED
          BY <4>2
      <3>3. QED
        BY <3>1, <3>2
    <2>2. Called(r).stack \in Seq(Frames)
      BY CallTypes DEF Tasks
    <2>3. CASE s.stack = Called(r).stack
      BY <1>6, <2>1, <2>3 DEF OpenBelow
    <2>4. CASE s.stack = <<Frame(e)>> \o Called(r).stack /\ e.dir
      <3>1. Frame(e) \in Frames /\ Frame(e).path = e.path
        BY <1>1, <2>4, ContentsKnown DEF Frame, Frames, KnownEntries, Entries, Known
      <3>2. /\ s.stack \in Seq(Frames) /\ Len(s.stack) = Len(Called(r).stack) + 1
            /\ s.stack[1] = Frame(e)
            /\ \A i \in 1 .. Len(Called(r).stack) : s.stack[i + 1] = Called(r).stack[i]
        BY <2>2, <2>4, <3>1, PushFacts
      <3>3. ASSUME NEW i \in DOMAIN s.stack PROVE Covered(s, s.stack[i].path, s.seed - 1)
        <4>1. i = 1 \/ (i - 1 \in 1 .. Len(Called(r).stack) /\ s.stack[i] = Called(r).stack[i - 1])
          <5>1. i \in 1 .. Len(Called(r).stack) + 1 /\ Len(Called(r).stack) \in Nat
            BY <2>2, <3>2
          <5>2. i = 1 \/ i - 1 \in 1 .. Len(Called(r).stack)
            BY <5>1
          <5>3. i - 1 \in 1 .. Len(Called(r).stack) => s.stack[(i - 1) + 1] = Called(r).stack[i - 1]
            BY <3>2
          <5>4. (i - 1) + 1 = i
            BY <5>1
          <5>5. QED
            BY <5>2, <5>3, <5>4
        <4>2. DOMAIN Called(r).stack = 1 .. Len(Called(r).stack)
          BY <2>2
        <4>3. QED
          BY <1>3, <2>1, <3>1, <3>2, <4>1, <4>2
      <3>4. QED
        BY <1>6, <3>3 DEF OpenBelow
    <2>5. s.stack = Called(r).stack \/ (s.stack = <<Frame(e)>> \o Called(r).stack /\ e.dir)
      BY DEF Took
    <2>6. QED
      BY <2>3, <2>4, <2>5
  <1>10. CASE e.path \in r.paths /\ s.worklist = list
    <2>1. s.paths = ListedPaths(s)
      BY <1>2, <1>4, <1>10 DEF ListedPaths
    <2>2. InOrder(s)
      BY <1>2, <1>10 DEF InOrder
    <2>3. QED
      BY <1>8, <1>9, <2>1, <2>2 DEF Ordered
  <1>11. CASE e.path \notin r.paths /\ s.worklist = Append(list, e)
    <2> DEFINE n == Len(list)
    <2>1. /\ n \in Nat /\ DOMAIN list = 1 .. n /\ DOMAIN s.worklist = 1 .. n + 1
          /\ \A i \in 1 .. n : s.worklist[i] = list[i]
          /\ s.worklist[n + 1] = e
      <3>1. /\ Append(list, e) \in Seq(KnownEntries) /\ Len(Append(list, e)) = n + 1
            /\ \A i \in 1 .. n : Append(list, e)[i] = list[i]
            /\ Append(list, e)[n + 1] = e
        BY <1>1, <1>5, AppendFacts
      <3>2. n \in Nat /\ DOMAIN list = 1 .. n
        BY <1>5
      <3>3. DOMAIN Append(list, e) = 1 .. n + 1
        BY <3>1
      <3>4. QED
        BY <1>11, <3>1, <3>2, <3>3
    <2> HIDE DEF n, list
    <2>2. \A i \in 1 .. n + 1 : i \in 1 .. n \/ i = n + 1
      BY <2>1
    <2>2a. \A i \in 1 .. n : i \in 1 .. n + 1
      BY <2>1
    <2>3. r.paths = {list[i].path : i \in 1 .. n}
      BY <1>2, <2>1 DEF ListedPaths, list
    <2>4. s.paths = ListedPaths(s)
      <3>1. n + 1 \in 1 .. n + 1
        BY <2>1
      <3>2. \A p \in s.paths : \E i \in 1 .. n + 1 : p = s.worklist[i].path
        BY <1>4, <2>1, <2>2a, <2>3, <3>1
      <3>3. \A i \in 1 .. n + 1 : s.worklist[i].path \in s.paths
        BY <1>4, <2>1, <2>2, <2>3
      <3>4. QED
        BY <2>1, <3>2, <3>3 DEF ListedPaths
    <2>5. InOrder(s)
      <3>1. SUFFICES ASSUME NEW i \in 1 .. n + 1, NEW j \in 1 .. n + 1, i < j
                     PROVE  /\ s.worklist[i].path # s.worklist[j].path
                            /\ ~IsStrictPrefix(s.worklist[j].path, s.worklist[i].path)
        BY <2>1 DEF InOrder
      <3>2. i \in 1 .. n
        BY <2>1, <3>1
      <3>3. CASE j \in 1 .. n
        BY <1>2, <2>1, <3>1, <3>2, <3>3 DEF InOrder, list
      <3>4. CASE j = n + 1
        <4>1. s.worklist[j] = e /\ s.worklist[i].path \in r.paths
          BY <2>1, <2>3, <3>2, <3>4
        <4>2. ~IsStrictPrefix(e.path, s.worklist[i].path)
          BY <1>2, <1>11, <4>1, NewIsInFrontOfNone
        <4>3. QED
          BY <1>11, <4>1, <4>2
      <3>5. QED
        BY <2>2, <3>3, <3>4
    <2>6. QED
      BY <1>8, <1>9, <2>4, <2>5 DEF Ordered
  <1>12. QED
    BY <1>10, <1>11 DEF Took

(* Closing a directory, or anything that leaves the collection alone. *)
LEMMA PoppingKeepsOrder ==
  ASSUME NEW r \in Tasks, Ordered(r), NEW s, s.selected = r.selected, s.seed = r.seed, s.paths = r.paths,
         s.worklist = r.worklist, s.stack = r.stack \/ (r.stack # <<>> /\ s.stack = Tail(r.stack))
  PROVE  Ordered(s)
  <1>1. \A p, k : Covered(r, p, k) => Covered(s, p, k)
    BY DEF Covered
  <1>2. Origins(s)
    BY <1>1 DEF Ordered, Origins
  <1>3. s.paths = ListedPaths(s) /\ InOrder(s)
    BY DEF Ordered, ListedPaths, InOrder
  <1>4. OpenBelow(r)
    BY DEF Ordered
  <1>5. \A i \in DOMAIN s.stack : \E j \in DOMAIN r.stack : s.stack[i] = r.stack[j]
    <2>1. CASE s.stack = r.stack
      BY <2>1
    <2>2. CASE r.stack # <<>> /\ s.stack = Tail(r.stack)
      <3>1. r.stack \in Seq(Frames)
        BY CollectionTypes
      <3>2. /\ s.stack \in Seq(Frames) /\ Len(s.stack) = Len(r.stack) - 1
            /\ \A i \in 1 .. Len(r.stack) - 1 : s.stack[i] = r.stack[i + 1]
        BY <2>2, <3>1, TailFacts
      <3>3. Len(r.stack) \in Nat /\ DOMAIN r.stack = 1 .. Len(r.stack) /\ DOMAIN s.stack = 1 .. Len(r.stack) - 1
        BY <3>1, <3>2
      <3>4. \A i \in 1 .. Len(r.stack) - 1 : i + 1 \in 1 .. Len(r.stack)
        BY <3>3
      <3>5. QED
        BY <3>2, <3>3, <3>4
    <2>3. QED
      BY <2>1, <2>2
  <1>6. OpenBelow(s)
    BY <1>1, <1>4, <1>5 DEF OpenBelow
  <1>7. QED
    BY <1>2, <1>3, <1>6 DEF Ordered

OrderedInv == \A w \in Workers : Ordered(run[w])

LEMMA StartIsOrdered ==
  ASSUME NEW mode, NEW selected
  PROVE  Ordered(Start(mode, selected))
  <1>1. PICK r : r = Start(mode, selected)
    OBVIOUS
  <1>2. r.paths = {} /\ r.stack = <<>> /\ r.worklist = <<>>
    BY <1>1 DEF Start
  <1>3. DOMAIN r.stack = {} /\ DOMAIN r.worklist = {}
    BY <1>2, EmptyFacts
  <1>4. QED
    BY <1>1, <1>2, <1>3 DEF Ordered, ListedPaths, Origins, OpenBelow, InOrder

LEMMA OrderedStep ==
  ASSUME run \in [Workers -> Tasks], NEW w \in Workers, Local(run[w]), Ordered(run[w]),
         Extract(w) \/ RequestCancel(w)
  PROVE  Ordered(run'[w])
  <1> DEFINE r == run[w]
  <1>1. PICK s : s = run'[w]
    OBVIOUS
  <1>2. r \in Tasks /\ Ordered(r) /\ r.seed <= Len(r.selected) + 1
    BY DEF Local, Bounds
  <1>3. CASE Collect(w)
    <2>1. /\ HasCall(r)
          /\ \/ Took(r, Callee(r), s)
             \/ \E error : s = [r EXCEPT !.phase = "returned", !.error = error]
      BY <1>1, <1>3, CollectTakes
    <2> HIDE DEF r
    <2>2. CASE Took(r, Callee(r), s)
      BY <1>1, <1>2, <2>1, <2>2, TakingKeepsOrder
    <2>3. CASE \E error : s = [r EXCEPT !.phase = "returned", !.error = error]
      <3>1. /\ s.selected = r.selected /\ s.seed = r.seed /\ s.paths = r.paths
            /\ s.worklist = r.worklist /\ s.stack = r.stack
        BY <1>2, <2>3 DEF Tasks
      <3>2. QED
        BY <1>1, <1>2, <3>1, PoppingKeepsOrder
    <2>4. QED
      BY <2>1, <2>2, <2>3
  <1>4. CASE CloseDirectory(w)
    <2>1. s = [r EXCEPT !.stack = Tail(@)] /\ r.stack # <<>>
      BY <1>1, <1>4, Moved DEF CloseDirectory, InDirectory
    <2> HIDE DEF r
    <2>2. /\ s.selected = r.selected /\ s.seed = r.seed /\ s.paths = r.paths
          /\ s.worklist = r.worklist /\ s.stack = Tail(r.stack)
      BY <1>2, <2>1 DEF Tasks
    <2>3. QED
      BY <1>1, <1>2, <2>1, <2>2, PoppingKeepsOrder
  <1>5. CASE ~Collect(w) /\ ~CloseDirectory(w)
    <2>1. /\ s.selected = r.selected /\ s.seed = r.seed /\ s.paths = r.paths
          /\ s.worklist = r.worklist /\ s.stack = r.stack
      BY <1>1, <1>5, CollectionFixed DEF Extract
    <2> HIDE DEF r
    <2>2. QED
      BY <1>1, <1>2, <2>1, PoppingKeepsOrder
  <1>6. QED
    BY <1>3, <1>4, <1>5

(* No path of the evidence is extracted twice and a directory comes before *)
(* what is in it (WorklistInOrder), however directories contain each other *)
(* and whatever the selection reaches twice, with any number of tasks.     *)
THEOREM ExtractionWorklistInOrder == Spec => []WorklistInOrder
  <1>1. Init => OrderedInv
    <2> SUFFICES ASSUME Init, NEW w \in Workers PROVE Ordered(run[w])
      BY DEF OrderedInv
    <2>1. \E mode, selected : run[w] = Start(mode, selected)
      BY DEF Init
    <2>2. QED
      BY <2>1, StartIsOrdered
  <1>2. Inv /\ OrderedInv /\ [Next]_vars => OrderedInv'
    <2> SUFFICES ASSUME Inv, OrderedInv, [Next]_vars, NEW v \in Workers PROVE Ordered(run'[v])
      BY DEF OrderedInv
    <2>1. CASE UNCHANGED vars
      BY <2>1 DEF vars, OrderedInv
    <2>2. ASSUME NEW w \in Workers, Extract(w) \/ RequestCancel(w) PROVE Ordered(run'[v])
      <3>1. run \in [Workers -> Tasks] /\ Local(run[w]) /\ HostTyped /\ Ordered(run[w]) /\ Ordered(run[v])
        BY DEF Inv, OrderedInv
      <3>2. Ordered(run'[w]) /\ (v # w => run'[v] = run[v])
        BY <2>2, <3>1, OrderedStep, StepIsLocal
      <3>3. QED
        BY <3>1, <3>2
    <2>3. QED
      BY <2>1, <2>2 DEF Next
  <1>3. OrderedInv => WorklistInOrder
    BY DEF OrderedInv, Ordered, InOrder, WorklistInOrder
  <1>4. QED
    BY <1>1, <1>2, <1>3, InvHolds, PTL DEF Spec

-----------------------------------------------------------------------------
(* What the work list leaves out: nothing. *)

LEMMA CallLeavesPending ==
  ASSUME NEW r \in Tasks, HasCall(r), r.seed <= Len(r.selected) + 1, NEW p, NEW c, Pending(r, p, c)
  PROVE  Append(p, c.name) = Callee(r).path \/ Pending(Called(r), p, c)
  <1>1. PICK i \in DOMAIN r.stack : r.stack[i].path = p /\ c \in ToSet(r.stack[i].left)
    BY DEF Pending
  <1>2. r.stack # <<>>
    <2>1. r.stack = <<>> => DOMAIN r.stack = {}
      BY EmptyFacts
    <2>2. QED
      BY <1>1, <2>1
  <1>3. /\ r.stack[1].left # <<>> /\ r.stack[1].left \in Seq(KnownRecords)
        /\ Callee(r).path = Append(r.stack[1].path, Head(r.stack[1].left).name)
        /\ DOMAIN Called(r).stack = DOMAIN r.stack
        /\ Called(r).stack[1].path = r.stack[1].path
        /\ Called(r).stack[1].left = Tail(r.stack[1].left)
        /\ \A j \in DOMAIN r.stack \ {1} : Called(r).stack[j] = r.stack[j]
    BY <1>2, CallFrom
  <1>4. CASE i = 1
    <2>1. c = Head(r.stack[1].left) \/ c \in ToSet(Tail(r.stack[1].left))
      BY <1>1, <1>3, <1>4, HeadOrInTail
    <2>2. QED
      BY <1>1, <1>3, <1>4, <2>1 DEF Pending
  <1>5. CASE i # 1
    BY <1>1, <1>3, <1>5 DEF Pending
  <1>6. QED
    BY <1>4, <1>5

LEMMA PushKeepsPending ==
  ASSUME NEW n, n.stack \in Seq(Frames), NEW f \in Frames, NEW s, s.stack = <<f>> \o n.stack
  PROVE  /\ \A p, c : Pending(n, p, c) => Pending(s, p, c)
         /\ \A c \in ToSet(f.left) : Pending(s, f.path, c)
         /\ Len(s.stack) = Len(n.stack) + 1
  <1>1. /\ s.stack \in Seq(Frames) /\ Len(s.stack) = Len(n.stack) + 1 /\ s.stack[1] = f
        /\ \A i \in 1 .. Len(n.stack) : s.stack[i + 1] = n.stack[i]
    BY PushFacts
  <1>2. Len(n.stack) \in Nat /\ DOMAIN n.stack = 1 .. Len(n.stack) /\ DOMAIN s.stack = 1 .. Len(n.stack) + 1
    BY <1>1
  <1>3. 1 \in DOMAIN s.stack /\ \A i \in DOMAIN n.stack : i + 1 \in DOMAIN s.stack
    BY <1>2
  <1>4. \A i \in DOMAIN n.stack : s.stack[i + 1] = n.stack[i]
    BY <1>1, <1>2
  <1>5. ASSUME NEW p, NEW c, Pending(n, p, c) PROVE Pending(s, p, c)
    BY <1>3, <1>4, <1>5 DEF Pending
  <1>6. QED
    BY <1>1, <1>3, <1>5 DEF Pending

AtCollection(r) == r.phase = "collect" /\ r.error = ""

(* The three ways of a call, as far as the work list is concerned. *)
LEMMA TakingKeepsComplete ==
  ASSUME NEW r \in Tasks, HasCall(r), r.seed <= Len(r.selected) + 1, AtCollection(r),
         Complete(r), NEW s, Took(r, Callee(r), s)
  PROVE  Complete(s)
  <1> DEFINE e == Callee(r)
             n == Len(r.worklist)
             new == e.path \notin r.paths
             opened == new /\ Expands(r, e)
  <1>1. e \in KnownEntries /\ Called(r).stack \in Seq(Frames) /\ Len(Called(r).stack) = Len(r.stack)
    BY CallTypes DEF Tasks
  <1>2. e.dir \in BOOLEAN /\ e.inode \in Nat /\ (e.dir => e.inode \in DOMAIN Contents) /\ e.path \in Paths
    BY <1>1 DEF KnownEntries, Entries, Known
  <1>3. /\ s.selected = r.selected /\ s.error = r.error /\ s.phase = r.phase /\ s.seed = Called(r).seed
        /\ s.paths = r.paths \union {e.path}
        /\ ~opened => s.inodes = r.inodes /\ s.stack = Called(r).stack
        /\ opened => /\ e.dir /\ s.stack = <<Frame(e)>> \o Called(r).stack
                     /\ s.inodes = IF e.inode = 0 THEN r.inodes ELSE r.inodes \union {e.inode}
    BY DEF Took
  <1>4. /\ n \in Nat /\ DOMAIN r.worklist = 1 .. n
        /\ ~new => s.worklist = r.worklist
        /\ new => /\ DOMAIN s.worklist = 1 .. n + 1
                  /\ \A i \in 1 .. n : s.worklist[i] = r.worklist[i]
                  /\ s.worklist[n + 1] = e
    <2>1. r.worklist \in Seq(KnownEntries)
      BY CollectionTypes
    <2>2. n \in Nat /\ DOMAIN r.worklist = 1 .. n
      BY <2>1
    <2>3. /\ Append(r.worklist, e) \in Seq(KnownEntries) /\ Len(Append(r.worklist, e)) = n + 1
          /\ \A i \in 1 .. n : Append(r.worklist, e)[i] = r.worklist[i]
          /\ Append(r.worklist, e)[n + 1] = e
      BY <1>1, <2>1, AppendFacts
    <2>4. DOMAIN Append(r.worklist, e) = 1 .. n + 1
      BY <2>3
    <2>5. (~new => s.worklist = r.worklist) /\ (new => s.worklist = Append(r.worklist, e))
      BY DEF Took
    <2>6. QED
      BY <2>2, <2>3, <2>4, <2>5
  <1> HIDE DEF e, n, new, opened
  <1>5. opened => new /\ (e.inode = 0 \/ e.inode \notin r.inodes)
    BY DEF opened, Expands
  <1>6. new /\ e.dir /\ ~opened => e.inode \in r.inodes
    BY DEF opened, Expands
  <1>7. opened => Frame(e) \in Frames /\ Frame(e).path = e.path /\ Frame(e).left = Contents[e.inode]
    BY <1>2, <1>3, ContentsKnown DEF Frame, Frames
  <1>8. \A p, c : Pending(r, p, c) => Append(p, c.name) \in s.paths \/ Pending(s, p, c)
    <2> SUFFICES ASSUME NEW p, NEW c, Pending(r, p, c) PROVE Append(p, c.name) \in s.paths \/ Pending(s, p, c)
      OBVIOUS
    <2>1. Append(p, c.name) = e.path \/ Pending(Called(r), p, c)
      BY CallLeavesPending DEF e
    <2>2. Pending(Called(r), p, c) => Pending(s, p, c)
      <3>1. CASE opened
        BY <1>1, <1>3, <1>7, <3>1, PushKeepsPending
      <3>2. CASE ~opened
        BY <1>3, <3>2 DEF Pending
      <3>3. QED
        BY <3>1, <3>2
    <2>3. QED
      BY <1>3, <2>1, <2>2
  <1>9. \A k \in 1 .. n : k \in DOMAIN s.worklist /\ s.worklist[k] = r.worklist[k]
    <2>1. \A k \in 1 .. n : k \in 1 .. n + 1
      BY <1>4
    <2>2. QED
      BY <1>4, <2>1
  <1>10. \A k \in 1 .. n : GoneThrough(r, k) => GoneThrough(s, k)
    BY <1>3, <1>8, <1>9 DEF GoneThrough
  <1>11. opened => n + 1 \in DOMAIN s.worklist /\ s.worklist[n + 1] = e /\ GoneThrough(s, n + 1)
    <2> SUFFICES ASSUME opened PROVE n + 1 \in DOMAIN s.worklist /\ s.worklist[n + 1] = e /\ GoneThrough(s, n + 1)
      OBVIOUS
    <2>1. n + 1 \in 1 .. n + 1
      BY <1>4
    <2>2. n + 1 \in DOMAIN s.worklist /\ s.worklist[n + 1] = e
      BY <1>4, <1>5, <2>1
    <2>3. \A c \in ToSet(Contents[e.inode]) : Pending(s, e.path, c)
      BY <1>1, <1>3, <1>7, PushKeepsPending
    <2>4. QED
      BY <1>3, <2>2, <2>3 DEF GoneThrough
  <1>12. InodesGoneThrough(s)
    <2>1. SUFFICES ASSUME NEW i \in s.inodes
                   PROVE  \E k \in DOMAIN s.worklist : s.worklist[k].inode = i /\ GoneThrough(s, k)
      BY DEF InodesGoneThrough
    <2>2. CASE i \in r.inodes
      <3>1. PICK k \in 1 .. n : r.worklist[k].inode = i /\ GoneThrough(r, k)
        BY <1>4, <2>2 DEF Complete, InodesGoneThrough
      <3>2. QED
        BY <1>9, <1>10, <3>1
    <2>3. CASE i \notin r.inodes
      <3>1. opened /\ i = e.inode
        BY <1>3, <2>1, <2>3
      <3>2. QED
        BY <1>11, <3>1
    <2>4. QED
      BY <2>2, <2>3
  <1>13. DirectoriesGoneThrough(s)
    <2>1. SUFFICES ASSUME NEW i \in DOMAIN s.worklist, s.worklist[i].dir
                   PROVE  s.worklist[i].inode \in s.inodes \/ GoneThrough(s, i)
      BY DEF DirectoriesGoneThrough
    <2>2. r.inodes \subseteq s.inodes
      BY <1>3
    <2>3. CASE i \in 1 .. n
      <3>1. r.worklist[i].inode \in r.inodes \/ GoneThrough(r, i)
        BY <1>4, <1>9, <2>1, <2>3 DEF Complete, DirectoriesGoneThrough
      <3>2. QED
        BY <1>9, <1>10, <2>2, <2>3, <3>1
    <2>4. CASE i \notin 1 .. n
      <3>1. new /\ i = n + 1
        BY <1>4, <2>1, <2>4
      <3>2. s.worklist[i] = e
        BY <1>4, <3>1
      <3>3. QED
        BY <1>6, <1>11, <2>1, <2>2, <3>1, <3>2
    <2>5. QED
      BY <2>3, <2>4
  <1>14. SelectedAreListed(s)
    <2>1. SUFFICES ASSUME NEW i \in 1 .. s.seed - 1 PROVE s.selected[i].path \in s.paths
      BY DEF SelectedAreListed
    <2>2. r.seed \in Nat
      BY CollectionTypes
    <2>3. s.seed = r.seed \/ (s.seed = r.seed + 1 /\ e = r.selected[r.seed])
      BY <1>3, CallFrom DEF e
    <2>4. i \in 1 .. r.seed - 1 \/ (i = r.seed /\ e = r.selected[r.seed])
      BY <2>2, <2>3
    <2>5. QED
      BY <1>3, <2>4 DEF Complete, SelectedAreListed
  <1>15. DepthIsInodes(s)
    <2>1. IsFiniteSet(r.inodes) /\ Cardinality(r.inodes) \in Nat
      BY FS_CardinalityType DEF Complete, DepthIsInodes
    <2>2. IsFiniteSet(s.inodes)
      <3>1. s.inodes = r.inodes \/ s.inodes = r.inodes \union {e.inode}
        BY <1>3
      <3>2. IsFiniteSet(r.inodes \union {e.inode})
        BY <2>1, FS_AddElement
      <3>3. QED
        BY <2>1, <3>1, <3>2
    <2>3. s.error # "depth"
      BY <1>3 DEF AtCollection
    <2>4. ASSUME NoInodeZero(s) PROVE Cardinality(s.inodes) >= Len(s.stack)
      <3>1. NoInodeZero(r)
        BY <1>4, <1>9, <2>4 DEF NoInodeZero
      <3>2. Cardinality(r.inodes) >= Len(r.stack) /\ Len(r.stack) \in Nat
        BY <3>1 DEF Complete, DepthIsInodes, Tasks
      <3>3. CASE ~opened
        BY <1>1, <1>3, <3>2, <3>3
      <3>4. CASE opened
        <4>1. e.inode # 0
          BY <1>3, <1>11, <2>4, <3>4 DEF NoInodeZero
        <4>2. s.inodes = r.inodes \union {e.inode} /\ e.inode \notin r.inodes
          BY <1>3, <1>5, <3>4, <4>1
        <4>3. Cardinality(s.inodes) = Cardinality(r.inodes) + 1
          BY <2>1, <4>2, FS_AddElement
        <4>4. Len(s.stack) = Len(r.stack) + 1
          BY <1>1, <1>3, <1>7, <3>4, PushKeepsPending
        <4>5. QED
          BY <2>1, <3>2, <4>3, <4>4
      <3>5. QED
        BY <3>3, <3>4
    <2>5. QED
      BY <2>2, <2>3, <2>4 DEF DepthIsInodes
  <1>16. AllTaken(s)
    BY <1>3 DEF AllTaken, AtCollection
  <1>17. QED
    BY <1>12, <1>13, <1>14, <1>15, <1>16 DEF Complete

(* A directory is closed when none of its names is left. *)
LEMMA ClosingKeepsComplete ==
  ASSUME NEW r \in Tasks, AtCollection(r), Complete(r), r.stack # <<>>, Head(r.stack).left = <<>>,
         NEW s, s.selected = r.selected, s.seed = r.seed, s.paths = r.paths, s.phase = r.phase,
         s.error = r.error, s.worklist = r.worklist, s.inodes = r.inodes, s.stack = Tail(r.stack)
  PROVE  Complete(s)
  <1>1. r.stack \in Seq(Frames)
    BY CollectionTypes
  <1>2. /\ Head(r.stack) = r.stack[1] /\ s.stack \in Seq(Frames) /\ Len(s.stack) = Len(r.stack) - 1
        /\ \A i \in 1 .. Len(r.stack) - 1 : s.stack[i] = r.stack[i + 1]
    BY <1>1, TailFacts
  <1>3. Len(r.stack) \in Nat /\ DOMAIN r.stack = 1 .. Len(r.stack) /\ DOMAIN s.stack = 1 .. Len(r.stack) - 1
    BY <1>1, <1>2
  <1>4. ToSet(r.stack[1].left) = {}
    <2>1. r.stack[1].left = <<>>
      BY <1>2
    <2>2. DOMAIN r.stack[1].left = {}
      BY <2>1, EmptyFacts
    <2>3. QED
      BY <2>2 DEF ToSet
  <1>5. ASSUME NEW p, NEW c, Pending(r, p, c) PROVE Pending(s, p, c)
    <2>1. PICK i \in DOMAIN r.stack : r.stack[i].path = p /\ c \in ToSet(r.stack[i].left)
      BY <1>5 DEF Pending
    <2>2. i # 1
      BY <1>4, <2>1
    <2>3. i - 1 \in 1 .. Len(r.stack) - 1 /\ (i - 1) + 1 = i
      BY <1>3, <2>1, <2>2
    <2>4. i - 1 \in DOMAIN s.stack /\ s.stack[i - 1] = r.stack[i]
      BY <1>2, <1>3, <2>3
    <2>5. QED
      BY <2>1, <2>4 DEF Pending
  <1>6. \A k : GoneThrough(r, k) => GoneThrough(s, k)
    BY <1>5 DEF GoneThrough
  <1>7. InodesGoneThrough(s) /\ DirectoriesGoneThrough(s) /\ SelectedAreListed(s)
    BY <1>6 DEF Complete, InodesGoneThrough, DirectoriesGoneThrough, SelectedAreListed
  <1>8. DepthIsInodes(s)
    <2>1. IsFiniteSet(s.inodes) /\ Cardinality(s.inodes) \in Nat
      BY FS_CardinalityType DEF Complete, DepthIsInodes
    <2>2. NoInodeZero(s) => Cardinality(s.inodes) >= Len(r.stack)
      BY DEF Complete, DepthIsInodes, NoInodeZero
    <2>3. NoInodeZero(s) => Cardinality(s.inodes) >= Len(s.stack)
      BY <1>2, <1>3, <2>1, <2>2
    <2>4. QED
      BY <2>1, <2>3 DEF DepthIsInodes, AtCollection
  <1>9. QED
    BY <1>7, <1>8 DEF Complete, AllTaken, AtCollection

(* Any other step. *)
LEMMA LeavingKeepsComplete ==
  ASSUME NEW r \in Tasks, Complete(r),
         NEW s, s.selected = r.selected, s.seed = r.seed, s.paths = r.paths,
         s.worklist = r.worklist, s.inodes = r.inodes, s.stack = r.stack,
         s.error = "depth" => r.error = "depth" \/ Len(r.stack) > MaxDepth,
         s.phase \in {"files", "open", "copy"} =>
           r.phase \in {"files", "open", "copy"} \/ (r.stack = <<>> /\ r.seed > Len(r.selected))
  PROVE  Complete(s)
  <1>1. \A k : GoneThrough(r, k) => GoneThrough(s, k)
    BY DEF GoneThrough, Pending
  <1>2. InodesGoneThrough(s) /\ DirectoriesGoneThrough(s) /\ SelectedAreListed(s)
    BY <1>1 DEF Complete, InodesGoneThrough, DirectoriesGoneThrough, SelectedAreListed
  <1>3. DepthIsInodes(s)
    <2>1. IsFiniteSet(r.inodes) /\ Cardinality(r.inodes) \in Nat
      BY FS_CardinalityType DEF Complete, DepthIsInodes
    <2>2. Len(r.stack) \in Nat /\ MaxDepth \in Nat
      BY ExtractionAssumption DEF Tasks
    <2>3. NoInodeZero(r) => Cardinality(r.inodes) >= Len(r.stack)
      BY DEF Complete, DepthIsInodes
    <2>4. Len(r.stack) > MaxDepth => Cardinality(r.inodes) > MaxDepth \/ ~NoInodeZero(r)
      BY <2>1, <2>2, <2>3
    <2>5. r.error = "depth" => Cardinality(r.inodes) > MaxDepth \/ ~NoInodeZero(r)
      BY DEF Complete, DepthIsInodes
    <2>6. NoInodeZero(s) = NoInodeZero(r)
      BY DEF NoInodeZero
    <2>7. QED
      BY <2>1, <2>3, <2>4, <2>5, <2>6 DEF DepthIsInodes
  <1>4. AllTaken(s)
    BY DEF Complete, AllTaken
  <1>5. QED
    BY <1>2, <1>3, <1>4 DEF Complete

CompleteInv == \A w \in Workers : Complete(run[w])

LEMMA StartIsComplete ==
  ASSUME NEW mode, NEW selected
  PROVE  Complete(Start(mode, selected))
  <1>1. PICK r : r = Start(mode, selected)
    OBVIOUS
  <1>2. r.inodes = {} /\ r.stack = <<>> /\ r.worklist = <<>>
    BY <1>1 DEF Start
  <1>3. r.seed = 1
    BY <1>1 DEF Start
  <1>4. r.phase = "collect" /\ r.error = ""
    BY <1>1 DEF Start
  <1>5. DOMAIN r.stack = {} /\ DOMAIN r.worklist = {} /\ Len(r.stack) = 0
    BY <1>2, EmptyFacts
  <1>6. IsFiniteSet(r.inodes) /\ Cardinality(r.inodes) = 0
    BY <1>2, FS_EmptySet
  <1>7. DepthIsInodes(r)
    <2>1. Cardinality(r.inodes) >= Len(r.stack)
      BY <1>5, <1>6
    <2>2. QED
      BY <1>4, <1>6, <2>1 DEF DepthIsInodes
  <1>8. SelectedAreListed(r)
    BY <1>3 DEF SelectedAreListed
  <1>9. InodesGoneThrough(r) /\ DirectoriesGoneThrough(r)
    BY <1>2, <1>5 DEF InodesGoneThrough, DirectoriesGoneThrough
  <1>10. AllTaken(r)
    BY <1>4 DEF AllTaken
  <1>11. QED
    BY <1>1, <1>7, <1>8, <1>9, <1>10 DEF Complete

LEMMA CompleteStep ==
  ASSUME run \in [Workers -> Tasks], NEW w \in Workers, Local(run[w]), Complete(run[w]),
         Extract(w) \/ RequestCancel(w)
  PROVE  Complete(run'[w])
  <1> DEFINE r == run[w]
  <1>1. PICK s : s = run'[w]
    OBVIOUS
  <1>2. r \in Tasks /\ Complete(r) /\ r.seed <= Len(r.selected) + 1
    BY DEF Local, Bounds
  <1>3. r.phase = "collect" => AtCollection(r)
    BY DEF Local, Turns, AtCollection
  <1>4. CASE Collect(w)
    <2>1. /\ HasCall(r) /\ r.phase = "collect"
          /\ \/ Took(r, Callee(r), s)
             \/ \E error : /\ error = "depth" => Len(r.stack) > MaxDepth
                           /\ s = [r EXCEPT !.phase = "returned", !.error = error]
      BY <1>1, <1>4, CollectTakes
    <2> HIDE DEF r
    <2>2. CASE Took(r, Callee(r), s)
      BY <1>1, <1>2, <1>3, <2>1, <2>2, TakingKeepsComplete
    <2>3. CASE \E error : /\ error = "depth" => Len(r.stack) > MaxDepth
                          /\ s = [r EXCEPT !.phase = "returned", !.error = error]
      <3>1. /\ s.selected = r.selected /\ s.seed = r.seed /\ s.paths = r.paths
            /\ s.worklist = r.worklist /\ s.stack = r.stack /\ s.inodes = r.inodes
            /\ s.phase = "returned" /\ (s.error = "depth" => Len(r.stack) > MaxDepth)
        BY <1>2, <2>3 DEF Tasks
      <3>2. QED
        BY <1>1, <1>2, <3>1, LeavingKeepsComplete
    <2>4. QED
      BY <2>1, <2>2, <2>3
  <1>5. CASE CloseDirectory(w)
    <2>1. /\ s = [r EXCEPT !.stack = Tail(@)] /\ r.stack # <<>> /\ Head(r.stack).left = <<>>
          /\ r.phase = "collect"
      BY <1>1, <1>5, Moved DEF CloseDirectory, InDirectory
    <2> HIDE DEF r
    <2>2. /\ s.selected = r.selected /\ s.seed = r.seed /\ s.paths = r.paths /\ s.inodes = r.inodes
          /\ s.worklist = r.worklist /\ s.stack = Tail(r.stack) /\ s.phase = r.phase /\ s.error = r.error
      BY <1>2, <2>1 DEF Tasks
    <2>3. QED
      BY <1>1, <1>2, <1>3, <2>1, <2>2, ClosingKeepsComplete
  <1>6. CASE ~Collect(w) /\ ~CloseDirectory(w)
    <2>1. /\ s.selected = r.selected /\ s.seed = r.seed /\ s.paths = r.paths
          /\ s.worklist = r.worklist /\ s.stack = r.stack /\ s.inodes = r.inodes
          /\ s.error = r.error \/ s.error \in {"", "cancelled"}
          /\ s.phase \in {"files", "open", "copy"} =>
               r.phase \in {"files", "open", "copy"} \/ (r.phase = "collect" /\ WorklistComplete(w))
      BY <1>1, <1>6, CollectionFixed DEF Extract
    <2>2. WorklistComplete(w) => r.stack = <<>> /\ r.seed > Len(r.selected)
      BY DEF WorklistComplete, InDirectory
    <2> HIDE DEF r
    <2>3. QED
      BY <1>1, <1>2, <2>1, <2>2, LeavingKeepsComplete
  <1>7. QED
    BY <1>4, <1>5, <1>6

(* Once collected the work list leaves out nothing of the selection, and   *)
(* directories that contain each other do not exhaust the depth            *)
(* (NothingLeftOut), whatever the evidence is.                             *)
THEOREM ExtractionNothingLeftOut == Spec => []NothingLeftOut
  <1>1. Init => CompleteInv /\ OrderedInv
    <2> SUFFICES ASSUME Init, NEW w \in Workers PROVE Complete(run[w]) /\ Ordered(run[w])
      BY DEF CompleteInv, OrderedInv
    <2>1. \E mode, selected : run[w] = Start(mode, selected)
      BY DEF Init
    <2>2. QED
      BY <2>1, StartIsComplete, StartIsOrdered
  <1>2. Inv /\ CompleteInv /\ OrderedInv /\ [Next]_vars => CompleteInv' /\ OrderedInv'
    <2> SUFFICES ASSUME Inv, CompleteInv, OrderedInv, [Next]_vars, NEW v \in Workers
                 PROVE  Complete(run'[v]) /\ Ordered(run'[v])
      BY DEF CompleteInv, OrderedInv
    <2>0. Complete(run[v]) /\ Ordered(run[v])
      BY DEF CompleteInv, OrderedInv
    <2>1. CASE UNCHANGED vars
      BY <2>0, <2>1 DEF vars
    <2>2. ASSUME NEW w \in Workers, Extract(w) \/ RequestCancel(w)
          PROVE  Complete(run'[v]) /\ Ordered(run'[v])
      <3>1. /\ run \in [Workers -> Tasks] /\ Local(run[w]) /\ HostTyped
            /\ Complete(run[w]) /\ Ordered(run[w])
        BY DEF Inv, CompleteInv, OrderedInv
      <3>2. /\ Complete(run'[w]) /\ Ordered(run'[w])
            /\ (v # w => run'[v] = run[v])
        BY <2>2, <3>1, CompleteStep, OrderedStep, StepIsLocal
      <3>3. QED
        BY <2>0, <3>2
    <2>3. QED
      BY <2>1, <2>2 DEF Next
  <1>3. Inv /\ CompleteInv /\ OrderedInv => NothingLeftOut
    <2> SUFFICES ASSUME Inv, CompleteInv, OrderedInv, NEW w \in Workers
                 PROVE  LET r == run[w]
                        IN  /\ r.error = "depth" =>
                                 \/ Cardinality(r.inodes) > MaxDepth
                                 \/ \E i \in DOMAIN r.worklist : r.worklist[i].dir /\ r.worklist[i].inode = 0
                            /\ r.phase \in {"files", "open", "copy"} =>
                              /\ \A i \in DOMAIN r.selected : r.selected[i].path \in ListedPaths(r)
                              /\ \A i \in DOMAIN r.worklist :
                                   r.worklist[i].dir =>
                                     \E k \in DOMAIN r.worklist :
                                       /\ r.worklist[k].dir /\ r.worklist[k].inode = r.worklist[i].inode
                                       /\ \A c \in ToSet(Contents[r.worklist[k].inode]) :
                                            Append(r.worklist[k].path, c.name) \in ListedPaths(r)
      BY DEF NothingLeftOut
    <2> DEFINE r == run[w]
    <2>1. r \in Tasks /\ Complete(r) /\ r.paths = ListedPaths(r)
      BY DEF Inv, Local, CompleteInv, OrderedInv, Ordered
    <2> HIDE DEF r
    <2>2. r.error = "depth" =>
             \/ Cardinality(r.inodes) > MaxDepth
             \/ \E i \in DOMAIN r.worklist : r.worklist[i].dir /\ r.worklist[i].inode = 0
      BY <2>1 DEF Complete, DepthIsInodes, NoInodeZero
    <2>3. ASSUME r.phase \in {"files", "open", "copy"}
          PROVE  /\ \A i \in DOMAIN r.selected : r.selected[i].path \in r.paths
                 /\ \A i \in DOMAIN r.worklist :
                      r.worklist[i].dir =>
                        \E k \in DOMAIN r.worklist :
                          /\ r.worklist[k].dir /\ r.worklist[k].inode = r.worklist[i].inode
                          /\ \A c \in ToSet(Contents[r.worklist[k].inode]) :
                               Append(r.worklist[k].path, c.name) \in r.paths
      <3>1. r.stack = <<>> /\ r.seed > Len(r.selected)
        BY <2>1, <2>3 DEF Complete, AllTaken
      <3>2. DOMAIN r.stack = {}
        BY <3>1, EmptyFacts
      <3>3. \A p, c : ~Pending(r, p, c)
        BY <3>2 DEF Pending
      <3>4. ASSUME NEW i \in DOMAIN r.selected PROVE r.selected[i].path \in r.paths
        <4>1. r.seed \in Nat /\ Len(r.selected) \in Nat
          BY <2>1, CollectionTypes
        <4>2. DOMAIN r.selected = 1 .. Len(r.selected)
          BY <2>1, SelectionsKnown DEF Tasks
        <4>3. i \in 1 .. r.seed - 1
          BY <3>1, <4>1, <4>2
        <4>4. QED
          BY <2>1, <4>3 DEF Complete, SelectedAreListed
      <3>5. ASSUME NEW i \in DOMAIN r.worklist, r.worklist[i].dir
            PROVE  \E k \in DOMAIN r.worklist : r.worklist[k].inode = r.worklist[i].inode /\ GoneThrough(r, k)
        BY <2>1, <3>5 DEF Complete, DirectoriesGoneThrough, InodesGoneThrough
      <3>6. QED
        BY <3>3, <3>4, <3>5 DEF GoneThrough
    <2>4. QED
      BY <2>1, <2>2, <2>3 DEF r
  <1>4. QED
    BY <1>1, <1>2, <1>3, InvHolds, PTL DEF Spec
=============================================================================
