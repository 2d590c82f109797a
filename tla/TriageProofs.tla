----------------------------- MODULE TriageProofs -----------------------------
(***************************************************************************)
(* Triage, for every scan and every file the parsers may meet.             *)
(*                                                                         *)
(* First the panel and the cache, with what describe makes of a file left  *)
(* open. Then the timeline: its order, from the comparator; what it is     *)
(* made of, from a lemma for each of the seventeen providers; that it is   *)
(* always the cache's. Then what three parsers make of damaged or repeated *)
(* input: the chains of a compound file, the tokens of an event, the list  *)
(* of what was used last in a hive. Last, the control set a hive names.    *)
(***************************************************************************)
EXTENDS TriageProperties, DataLemmas

(* A file as it is, and when the evidence is gone. *)
States(f) == {f, [f EXCEPT !.read = "not mounted"]}

(* Details are cached by path.  Details d are what the provider of a row   *)
(* of i's path says of its file: of another row's, where rows share it.    *)
Describes(d, i) ==
  \E j \in DOMAIN rows : PathOf(j) = PathOf(i) /\ \E f \in States(FileAt(j)) : d = describe(rows[j], f)

Scanned == rows \in Seq(ArtifactRows) /\ \E w \in Worlds : rows = w.rows /\ disk = w.disk
Describing(c) ==
  /\ c = [path \in DOMAIN c |-> c[path]]
  /\ \A i \in DOMAIN rows : PathOf(i) \in DOMAIN c => Describes(c[PathOf(i)], i)
PanelDescribes ==
  /\ selected \in {0} \union DOMAIN rows /\ panel.row = selected
  /\ selected # 0 /\ panel.state # "loading" => Describes(panel.details, selected)

(* The panel alone is not inductive: it may be filled from the cache, in   *)
(* which every row of a path finds what was put there for another.         *)
Inv == Scanned /\ Describing(cache) /\ PanelDescribes

LEMMA FileOfIsAState ==
  ASSUME NEW i \in DOMAIN rows
  PROVE  FileOf(rows[i]) \in States(FileAt(i))
  BY DEF FileOf, States, FileAt, PathOf

LEMMA AlikeByPath ==
  ASSUME NEW i \in DOMAIN rows, NEW j \in DOMAIN rows, PathOf(i) = PathOf(j), NEW d, Describes(d, i)
  PROVE  Describes(d, j)
  BY DEF Describes

LEMMA OwnDescribes ==
  ASSUME NEW i \in DOMAIN rows, NEW f \in States(FileAt(i))
  PROVE  Describes(describe(rows[i], f), i)
  BY DEF Describes

(* Putting the details of a row in a cache. *)
LEMMA InsertedDescribes ==
  ASSUME NEW c, Describing(c), NEW i \in DOMAIN rows, NEW d, Describes(d, i)
  PROVE  Describing(Inserted(c, PathOf(i), d))
  <1> DEFINE b == Inserted(c, PathOf(i), d)
  <1>1. /\ b = [path \in DOMAIN b |-> b[path]]
        /\ b[PathOf(i)] = d
        /\ \A path \in DOMAIN b : path # PathOf(i) => path \in DOMAIN c /\ b[path] = c[path]
    BY DEF Inserted
  <1> HIDE DEF b
  <1>2. ASSUME NEW j \in DOMAIN rows, PathOf(j) \in DOMAIN b PROVE Describes(b[PathOf(j)], j)
    <2>1. CASE PathOf(j) = PathOf(i)
      BY <1>1, <2>1, AlikeByPath
    <2>2. CASE PathOf(j) # PathOf(i)
      BY <1>1, <1>2, <2>2 DEF Describing
    <2>3. QED
      BY <2>1, <2>2
  <1>3. Describing(b)
    BY <1>1, <1>2 DEF Describing
  <1>4. QED
    BY <1>3 DEF b

-----------------------------------------------------------------------------
(* What an analysis puts in the cache. *)

(* The loop over the rows has a value: it is the rounds it is written as. *)
Rounds(u, c, described) ==
  /\ u[0] = c /\ Put(c, described) = u[Len(rows)]
  /\ \A i \in 1 .. Len(rows) :
       u[i] = IF ToDescribe(rows[i]) THEN Inserted(u[i - 1], PathOf(i), described[i]) ELSE u[i - 1]

LEMMA PutLoop ==
  ASSUME rows \in Seq(ArtifactRows), NEW c, c = [k \in DOMAIN c |-> c[k]], NEW described
  PROVE  \E u : Rounds(u, c, described)
  <1> DEFINE n == Len(rows)
             K == DOMAIN c \union {PathOf(i) : i \in 1 .. n}
             V == {c[k] : k \in DOMAIN c} \union {described[i] : i \in 1 .. n}
             D == UNION {[S -> V] : S \in SUBSET K}
             After(g, i) == IF ToDescribe(rows[i]) THEN Inserted(g, PathOf(i), described[i]) ELSE g
  <1>1. n \in Nat /\ c \in D
    <2>1. c \in [DOMAIN c -> V]
      OBVIOUS
    <2>2. DOMAIN c \in SUBSET K
      OBVIOUS
    <2>3. QED
      BY <2>1, <2>2
  <1>2. ASSUME NEW g \in D, NEW i \in 1 .. n PROVE After(g, i) \in D
    <2>1. PICK S \in SUBSET K : g \in [S -> V]
      OBVIOUS
    <2>2. Inserted(g, PathOf(i), described[i]) \in [S \union {PathOf(i)} -> V]
      BY <2>1 DEF Inserted
    <2>3. S \union {PathOf(i)} \in SUBSET K
      OBVIOUS
    <2>4. QED
      BY <2>2, <2>3
  <1> HIDE DEF n, K, V, D, After
  <1>3. ASSUME NEW next \in [1 .. n -> [D -> D]]
        PROVE  \E f \in [0 .. n -> D] : f[0] = c /\ \A i \in 1 .. n : f[i] = next[i][f[i - 1]]
    BY <1>1, LoopDefined, SMTT(60)
  <1> DEFINE next == [i \in 1 .. n |-> [g \in D |-> After(g, i)]]
             Loop(f) == f = [i \in 0 .. n |-> IF i = 0 THEN c ELSE After(f[i - 1], i)]
  <1>4. \E f : Loop(f)
    <2>1. next \in [1 .. n -> [D -> D]]
      BY <1>2
    <2>2. PICK f \in [0 .. n -> D] : f[0] = c /\ \A i \in 1 .. n : f[i] = next[i][f[i - 1]]
      BY <1>3, <2>1
    <2>3. \A i \in 0 .. n : f[i] = IF i = 0 THEN c ELSE After(f[i - 1], i)
      <3>1. \A i \in 1 .. n : i - 1 \in 0 .. n
        BY <1>1
      <3>2. \A i \in 1 .. n : f[i] = After(f[i - 1], i)
        BY <1>1, <2>2, <3>1
      <3>3. QED
        BY <1>1, <2>2, <3>2
    <2>4. f = [i \in 0 .. n |-> f[i]]
      BY <2>2
    <2>5. [i \in 0 .. n |-> f[i]] = [i \in 0 .. n |-> IF i = 0 THEN c ELSE After(f[i - 1], i)]
      BY <2>3
    <2>6. Loop(f)
      BY <2>4, <2>5
    <2> HIDE DEF Loop
    <2>7. QED
      BY <2>6
  <1> DEFINE u == CHOOSE g : Loop(g)
  <1>5. Loop(u) /\ Put(c, described) = u[n]
    BY <1>4 DEF Put, After, n
  <1> HIDE DEF u
  <1>6. u[0] = c /\ \A i \in 1 .. n : u[i] = After(u[i - 1], i)
    <2>1. \A i \in 0 .. n : u[i] = IF i = 0 THEN c ELSE After(u[i - 1], i)
      BY <1>5
    <2>2. QED
      BY <1>1, <2>1
  <1>7. QED
    BY <1>5, <1>6 DEF After, n, Rounds

(* What an analysis leaves in the cache: for every row to be described the  *)
(* details of a row of its path, everything else as it was.                *)
ToDo == {i \in DOMAIN rows : ToDescribe(rows[i])}

Updated(b, c, described) ==
  /\ b = [path \in DOMAIN b |-> b[path]]
  /\ DOMAIN b = DOMAIN c \union {PathOf(i) : i \in ToDo}
  /\ \A path \in DOMAIN b :
       \/ \E i \in ToDo : PathOf(i) = path /\ b[path] = described[i]
       \/ path \in DOMAIN c /\ b[path] = c[path] /\ \A i \in ToDo : PathOf(i) # path

LEMMA PutIs ==
  ASSUME rows \in Seq(ArtifactRows), NEW c, c = [k \in DOMAIN c |-> c[k]], NEW described
  PROVE  Updated(Put(c, described), c, described)
  <1> DEFINE n == Len(rows)
             todo(m) == {i \in 1 .. m : ToDescribe(rows[i])}
             Fine(g, m) ==
               /\ g = [path \in DOMAIN g |-> g[path]]
               /\ DOMAIN g = DOMAIN c \union {PathOf(i) : i \in todo(m)}
               /\ \A path \in DOMAIN g :
                    \/ \E i \in todo(m) : PathOf(i) = path /\ g[path] = described[i]
                    \/ path \in DOMAIN c /\ g[path] = c[path] /\ \A i \in todo(m) : PathOf(i) # path
  <1>1. n \in Nat /\ DOMAIN rows = 1 .. n
    OBVIOUS
  <1>2. PICK u : /\ u[0] = c /\ Put(c, described) = u[n]
                 /\ \A i \in 1 .. n :
                      u[i] = IF ToDescribe(rows[i]) THEN Inserted(u[i - 1], PathOf(i), described[i]) ELSE u[i - 1]
    <2>1. \E u : Rounds(u, c, described)
      BY PutLoop
    <2>2. QED
      BY <2>1 DEF Rounds
  <1> HIDE DEF n
  <1> DEFINE S == {i \in 0 .. n : Fine(u[i], i)}
  <1>3. 0 \in S
    <2>1. todo(0) = {}
      OBVIOUS
    <2>2. Fine(c, 0)
      BY <2>1
    <2>3. QED
      BY <1>1, <1>2, <2>2
  <1>4. ASSUME NEW i \in 1 .. n, i - 1 \in S PROVE i \in S
    <2> DEFINE g == u[i - 1]
    <2>1. Fine(g, i - 1)
      BY <1>4
    <2>2. CASE ToDescribe(rows[i])
      <3>1. todo(i) = todo(i - 1) \union {i}
        BY <1>1, <2>2
      <3>2. u[i] = Inserted(g, PathOf(i), described[i])
        BY <1>2, <2>2
      <3> DEFINE e == Inserted(g, PathOf(i), described[i])
      <3>3. /\ e = [path \in DOMAIN e |-> e[path]]
            /\ DOMAIN e = DOMAIN g \union {PathOf(i)}
            /\ e[PathOf(i)] = described[i]
            /\ \A path \in DOMAIN e : path # PathOf(i) => path \in DOMAIN g /\ e[path] = g[path]
        BY DEF Inserted
      <3> HIDE DEF e, g, todo
      <3>4. DOMAIN e = DOMAIN c \union {PathOf(j) : j \in todo(i)}
        BY <2>1, <3>1, <3>3
      <3>5. ASSUME NEW path \in DOMAIN e
            PROVE  \/ \E j \in todo(i) : PathOf(j) = path /\ e[path] = described[j]
                   \/ path \in DOMAIN c /\ e[path] = c[path] /\ \A j \in todo(i) : PathOf(j) # path
        <4>1. CASE path = PathOf(i)
          BY <3>1, <3>3, <4>1
        <4>2. CASE path # PathOf(i)
          <5>1. path \in DOMAIN g /\ e[path] = g[path]
            BY <3>3, <4>2
          <5>2. \/ \E j \in todo(i - 1) : PathOf(j) = path /\ g[path] = described[j]
                \/ path \in DOMAIN c /\ g[path] = c[path] /\ \A j \in todo(i - 1) : PathOf(j) # path
            BY <2>1, <5>1
          <5>3. QED
            BY <3>1, <4>2, <5>1, <5>2
        <4>3. QED
          BY <4>1, <4>2
      <3>6. Fine(e, i)
        BY <3>3, <3>4, <3>5
      <3>7. u[i] = e
        BY <3>2 DEF e, g
      <3> HIDE DEF Fine
      <3>8. QED
        BY <1>1, <3>6, <3>7
    <2>3. CASE ~ToDescribe(rows[i])
      <3>1. todo(i) = todo(i - 1)
        BY <1>1, <2>3
      <3>2. u[i] = g
        BY <1>2, <2>3
      <3> HIDE DEF todo, g
      <3>3. Fine(g, i)
        BY <2>1, <3>1
      <3> HIDE DEF Fine
      <3>4. QED
        BY <1>1, <3>2, <3>3
    <2>4. QED
      BY <2>2, <2>3
  <1>5. n \in S
    <2> HIDE DEF S
    <2>1. 0 .. n \subseteq S
      BY <1>1, <1>3, <1>4, RangeInduction
    <2>2. QED
      BY <1>1, <2>1
  <1>6. Fine(u[n], n)
    BY <1>5
  <1>7. todo(n) = ToDo
    BY <1>1 DEF ToDo
  <1> HIDE DEF todo
  <1>8. Updated(u[n], c, described)
    BY <1>6, <1>7 DEF Updated
  <1>9. QED
    BY <1>2, <1>8

LEMMA PutDescribes ==
  ASSUME Scanned, NEW c, Describing(c),
         NEW described, \A i \in ToDo : Describes(described[i], i)
  PROVE  Describing(Put(c, described))
  <1> DEFINE b == Put(c, described)
  <1>1. Updated(b, c, described)
    <2>1. rows \in Seq(ArtifactRows) /\ c = [path \in DOMAIN c |-> c[path]]
      BY DEF Scanned, Describing
    <2>2. QED
      BY <2>1, PutIs
  <1> HIDE DEF b
  <1>2. ASSUME NEW j \in DOMAIN rows, PathOf(j) \in DOMAIN b PROVE Describes(b[PathOf(j)], j)
    <2>1. CASE \E i \in ToDo : PathOf(i) = PathOf(j) /\ b[PathOf(j)] = described[i]
      BY <2>1, AlikeByPath DEF ToDo
    <2>2. CASE PathOf(j) \in DOMAIN c /\ b[PathOf(j)] = c[PathOf(j)]
      BY <2>2 DEF Describing
    <2>3. QED
      BY <1>1, <1>2, <2>1, <2>2 DEF Updated
  <1>3. Describing(b)
    BY <1>1, <1>2 DEF Describing, Updated
  <1>4. QED
    BY <1>3 DEF b

-----------------------------------------------------------------------------
LEMMA InvInit ==
  ASSUME Init
  PROVE  Inv
  <1>1. PICK w \in Worlds : rows = w.rows /\ disk = w.disk
    BY DEF Init
  <1>2. Scanned
    BY <1>1, TriageAssumption DEF Scanned
  <1>3. Describing(cache)
    BY DEF Init, Describing
  <1>4. PanelDescribes
    BY DEF Init, PanelDescribes, Empty
  <1>5. QED
    BY <1>2, <1>3, <1>4 DEF Inv

(* Steps that leave rows and files alone keep what is said of them. *)
LEMMA SameEvidence ==
  ASSUME UNCHANGED <<rows, disk>>
  PROVE  /\ Scanned' = Scanned
         /\ \A d, i : Describes(d, i)' = Describes(d, i)
         /\ \A c : Describing(c)' = Describing(c)
  BY DEF Scanned, Describes, Describing, States, FileAt, PathOf

LEMMA SelectCachedKeeps ==
  ASSUME Inv, NEW i \in DOMAIN rows, SelectCached(i)
  PROVE  PanelDescribes'
  <1>1. /\ UNCHANGED <<rows, disk, cache>> /\ selected' = i /\ PathOf(i) \in DOMAIN cache
        /\ panel' = Panel(i, cache[PathOf(i)])
    BY DEF SelectCached, evidence, results
  <1>2. Describes(cache[PathOf(i)], i)
    BY <1>1 DEF Inv, Describing
  <1>3. panel'.row = i /\ panel'.details = cache[PathOf(i)]
    BY <1>1 DEF Panel
  <1>4. Describes(panel'.details, i)
    BY <1>2, <1>3
  <1>5. QED
    BY <1>1, <1>3, <1>4, SameEvidence DEF PanelDescribes

(* The answer of a load of one row may be taken for another of its path. *)
LEMMA TakeAnswerKeeps ==
  ASSUME Inv, NEW i \in DOMAIN rows, TakeAnswer(i)
  PROVE  Describing(cache)' /\ PanelDescribes'
  <1> DEFINE d == describe(rows[i], FileOf(rows[i]))
  <1>1. /\ UNCHANGED <<rows, disk, selected>>
        /\ cache' = Inserted(cache, PathOf(i), d)
        /\ panel' = Panel(selected, d)
        /\ selected # 0 /\ PathOf(selected) = PathOf(i)
    BY DEF TakeAnswer, evidence, shouldApplyArtifactDetailResult
  <1>2. Describes(d, i)
    BY FileOfIsAState, OwnDescribes
  <1> HIDE DEF d
  <1>3. selected \in DOMAIN rows /\ Describes(d, selected)
    BY <1>1, <1>2, AlikeByPath DEF Inv, PanelDescribes
  <1>4. Describing(cache)'
    <2>1. Describing(Inserted(cache, PathOf(i), d))
      BY <1>2, InsertedDescribes DEF Inv
    <2>2. QED
      BY <1>1, <2>1, SameEvidence
  <1>5. panel'.row = selected /\ panel'.details = d
    BY <1>1 DEF Panel
  <1>6. PanelDescribes'
    BY <1>1, <1>3, <1>5, SameEvidence DEF PanelDescribes
  <1>7. QED
    BY <1>4, <1>6

LEMMA AnalysedKeeps ==
  ASSUME Inv, Analysed
  PROVE  Describing(cache)'
  <1> DEFINE described == populate(rows, [i \in DOMAIN rows |-> FileOf(rows[i])])
  <1>1. UNCHANGED <<rows, disk>> /\ cache' = Put(cache, described)
    BY DEF Analysed, evidence
  <1>2. \A i \in ToDo : described[i] = describe(rows[i], FileOf(rows[i]))
    BY DEF populate, ToDo
  <1> HIDE DEF described
  <1>3. \A i \in ToDo : Describes(described[i], i)
    BY <1>2, FileOfIsAState, OwnDescribes DEF ToDo
  <1>4. Describing(Put(cache, described))
    BY <1>3, PutDescribes DEF Inv
  <1>5. QED
    BY <1>1, <1>4, SameEvidence

LEMMA InvNext ==
  ASSUME Inv, [Next]_vars
  PROVE  Inv'
  <1>1. Scanned' /\ UNCHANGED <<rows, disk>>
    BY SameEvidence DEF Inv, Next, vars, evidence, Detach, Deselect, SelectCached, SelectToLoad, TakeAnswer,
       DropAnswer, Analyze, Analysed, AnalysisFails
  <1>2. (Describing(cache) /\ UNCHANGED cache => Describing(cache)')
        /\ (PanelDescribes /\ UNCHANGED <<selected, panel>> => PanelDescribes')
    BY <1>1, SameEvidence DEF PanelDescribes
  <1>3. CASE UNCHANGED vars
    BY <1>1, <1>2, <1>3 DEF Inv, vars, request, results
  <1>4. CASE Detach \/ AnalysisFails
    BY <1>1, <1>2, <1>4 DEF Inv, Detach, AnalysisFails, request, results
  <1>5. CASE Deselect
    <2>1. selected' = 0 /\ panel'.row = 0 /\ UNCHANGED cache
      BY <1>5 DEF Deselect, Empty, results
    <2>2. PanelDescribes'
      BY <2>1 DEF PanelDescribes
    <2>3. QED
      BY <1>1, <1>2, <2>1, <2>2 DEF Inv
  <1>6. CASE Analyze
    BY <1>1, <1>2, <1>6 DEF Inv, Analyze
  <1>7. CASE Analysed
    BY <1>1, <1>2, <1>7, AnalysedKeeps DEF Inv, Analysed, request
  <1>8. ASSUME NEW i \in DOMAIN rows, SelectCached(i) PROVE Inv'
    BY <1>1, <1>2, <1>8, SelectCachedKeeps DEF Inv, SelectCached, results
  <1>9. ASSUME NEW i \in DOMAIN rows, SelectToLoad(i) PROVE Inv'
    <2>1. selected' = i /\ panel' = Loading(i) /\ UNCHANGED cache
      BY <1>9 DEF SelectToLoad, results
    <2>2. panel'.row = i /\ panel'.state = "loading"
      BY <2>1 DEF Loading
    <2>3. PanelDescribes'
      BY <1>1, <2>1, <2>2 DEF PanelDescribes
    <2>4. QED
      BY <1>1, <1>2, <2>1, <2>3 DEF Inv
  <1>10. ASSUME NEW i \in DOMAIN rows, TakeAnswer(i) PROVE Inv'
    BY <1>1, <1>10, TakeAnswerKeeps DEF Inv
  <1>11. ASSUME NEW i \in DOMAIN rows, DropAnswer(i) PROVE Inv'
    BY <1>1, <1>2, <1>11 DEF Inv, DropAnswer, results
  <1>12. QED
    BY <1>3, <1>4, <1>5, <1>6, <1>7, <1>8, <1>9, <1>10, <1>11 DEF Next

(* The panel shows what a row of the selected row's path has to say of its *)
(* file or says that it is loading, never details of another path, however *)
(* loads, selections and an analysis overlap and whether or not the        *)
(* evidence goes away meanwhile (ArtifactDetailSession.h:41-49), for every *)
(* scan, also where several rows share a path.                             *)
THEOREM TriagePanelIsTheRows == Spec => []PanelIsTheRows
  <1>1. Inv => PanelIsTheRows
    BY DEF Inv, PanelDescribes, PanelIsTheRows, Describes, States
  <1>2. Inv /\ [Next]_vars => Inv'
    BY InvNext
  <1>3. QED
    BY <1>1, <1>2, InvInit, PTL DEF Spec

-----------------------------------------------------------------------------
(* The order of the timeline. *)

LEMMA RankFacts ==
  /\ \A name : Rank(name) \in Nat
  /\ \A a, b : a \in ToSet(Alphabet) /\ Rank(a) = Rank(b) => a = b
  <1>1. \A name \in ToSet(Alphabet) : Rank(name) \in 1 .. Len(Alphabet) /\ Alphabet[Rank(name)] = name
    <2> SUFFICES ASSUME NEW name \in ToSet(Alphabet)
                 PROVE  Rank(name) \in 1 .. Len(Alphabet) /\ Alphabet[Rank(name)] = name
      OBVIOUS
    <2>1. \E i \in DOMAIN Alphabet : Alphabet[i] = name
      BY DEF ToSet
    <2>2. Ranks[name] = CHOOSE i \in DOMAIN Alphabet : Alphabet[i] = name
      BY DEF Ranks
    <2>3. name \in DOMAIN Ranks
      BY DEF Ranks
    <2>4. DOMAIN Alphabet = 1 .. Len(Alphabet)
      BY ProvidersAssumption
    <2>5. QED
      BY <2>1, <2>2, <2>3, <2>4 DEF Rank
  <1>2. \A name : name \notin ToSet(Alphabet) => Rank(name) = 0
    BY DEF Rank, Ranks
  <1>3. Len(Alphabet) \in Nat
    BY ProvidersAssumption
  <1>4. QED
    BY <1>1, <1>2, <1>3

LEMMA KeyLessAt ==
  ASSUME NEW a, NEW b, NEW i \in DOMAIN a, a[i] < b[i], \A j \in 1 .. i - 1 : a[j] = b[j]
  PROVE  KeyLess(a, b)
  BY DEF KeyLess

(* Keys of one length are strictly ordered. *)
LEMMA KeyLessIsTransitive ==
  ASSUME NEW n \in Nat, NEW a \in [1 .. n -> Int], NEW b \in [1 .. n -> Int], NEW c \in [1 .. n -> Int],
         KeyLess(a, b), KeyLess(b, c)
  PROVE  KeyLess(a, c)
  <1>1. PICK i \in 1 .. n : a[i] < b[i] /\ \A m \in 1 .. i - 1 : a[m] = b[m]
    BY DEF KeyLess
  <1>2. PICK j \in 1 .. n : b[j] < c[j] /\ \A m \in 1 .. j - 1 : b[m] = c[m]
    BY DEF KeyLess
  <1>3. a[i] \in Int /\ b[i] \in Int /\ c[i] \in Int /\ a[j] \in Int /\ b[j] \in Int /\ c[j] \in Int
    OBVIOUS
  <1>4. CASE i < j
    <2>1. b[i] = c[i] /\ \A m \in 1 .. i - 1 : m \in 1 .. j - 1
      BY <1>2, <1>4
    <2>2. a[i] < c[i] /\ \A m \in 1 .. i - 1 : a[m] = c[m]
      BY <1>1, <1>2, <2>1
    <2>3. QED
      BY <2>2, KeyLessAt
  <1>5. CASE j < i
    <2>1. a[j] = b[j] /\ \A m \in 1 .. j - 1 : m \in 1 .. i - 1
      BY <1>1, <1>5
    <2>2. a[j] < c[j] /\ \A m \in 1 .. j - 1 : a[m] = c[m]
      BY <1>1, <1>2, <2>1
    <2>3. QED
      BY <2>2, KeyLessAt
  <1>6. CASE i = j
    <2>1. a[i] < c[i]
      BY <1>1, <1>2, <1>3, <1>6
    <2>2. \A m \in 1 .. i - 1 : a[m] = c[m]
      BY <1>1, <1>2, <1>6
    <2>3. QED
      BY <2>1, <2>2, KeyLessAt
  <1>7. QED
    BY <1>4, <1>5, <1>6

LEMMA KeyLessIsTotal ==
  ASSUME NEW n \in Nat, NEW a \in [1 .. n -> Int], NEW b \in [1 .. n -> Int]
  PROVE  a = b \/ KeyLess(a, b) \/ KeyLess(b, a)
  <1> DEFINE T == {i \in 1 .. n : a[i] # b[i]}
  <1>1. CASE T = {}
    <2>1. a = [i \in 1 .. n |-> a[i]] /\ b = [i \in 1 .. n |-> b[i]]
      OBVIOUS
    <2>2. [i \in 1 .. n |-> a[i]] = [i \in 1 .. n |-> b[i]]
      BY <1>1
    <2>3. QED
      BY <2>1, <2>2
  <1>2. CASE T # {}
    <2>1. T \in SUBSET Nat
      OBVIOUS
    <2>2. PICK i \in T : \A j \in T : i <= j
      BY <1>2, <2>1, LeastNatural
    <2>3. i \in 1 .. n /\ a[i] # b[i] /\ a[i] \in Int /\ b[i] \in Int
      OBVIOUS
    <2>4. \A j \in 1 .. i - 1 : a[j] = b[j]
      <3> SUFFICES ASSUME NEW j \in 1 .. i - 1, a[j] # b[j] PROVE FALSE
        OBVIOUS
      <3>1. j \in T
        BY <2>3
      <3>2. QED
        BY <2>2, <2>3, <3>1
    <2>5. CASE a[i] < b[i]
      BY <2>3, <2>4, <2>5, KeyLessAt
    <2>6. CASE b[i] < a[i]
      BY <2>3, <2>4, <2>6, KeyLessAt
    <2>7. QED
      BY <2>3, <2>5, <2>6
  <1>3. QED
    BY <1>1, <1>2

LEMMA KeyLessIsIrreflexive ==
  ASSUME NEW n \in Nat, NEW a \in [1 .. n -> Int]
  PROVE  ~KeyLess(a, a)
  BY DEF KeyLess

LEMMA KeyLessIsWeak ==
  ASSUME NEW n \in Nat, NEW a \in [1 .. n -> Int], NEW b \in [1 .. n -> Int], NEW c \in [1 .. n -> Int]
  PROVE  /\ KeyLess(a, b) => ~KeyLess(b, a)
         /\ KeyLess(a, c) => KeyLess(a, b) \/ KeyLess(b, c)
  <1>1. ASSUME KeyLess(a, b), KeyLess(b, a) PROVE FALSE
    BY <1>1, KeyLessIsTransitive, KeyLessIsIrreflexive
  <1>2. ASSUME KeyLess(a, c), ~KeyLess(a, b) PROVE KeyLess(b, c)
    <2>1. a = b \/ KeyLess(b, a)
      BY <1>2, KeyLessIsTotal
    <2>2. QED
      BY <1>2, <2>1, KeyLessIsTransitive
  <1>3. QED
    BY <1>1, <1>2

(* What the order looks at in an event. *)
Dated(e) == e.time \in Int /\ e.from[1] \in Int /\ e.from[2] \in Int

(* a was made before b: of an earlier row, or of an earlier entry, or of   *)
(* the same one under another type.                                        *)
FromLess(a, b) ==
  \/ a.from[1] < b.from[1]
  \/ a.from[1] = b.from[1] /\ a.from[2] # 0 /\ b.from[2] = 0
  \/ a.from[1] = b.from[1] /\ a.from[2] # 0 /\ b.from[2] # 0 /\ a.from[2] < b.from[2]
MadeBefore(a, b) == FromLess(a, b) \/ (a.from = b.from /\ Rank(a.type) # Rank(b.type))

LEMMA PlaceFacts ==
  ASSUME NEW e, Dated(e)
  PROVE  /\ Place(e) \in [1 .. 8 -> Int]
         /\ Place(e)[1] = (IF e.time = NoTime THEN 1 ELSE 0)
         /\ Place(e)[2] = e.time
         /\ Place(e)[3] = Rank(e.type)
         /\ Place(e)[4] = Rank(e.path)
         /\ Place(e)[5] = Rank(e.profile)
         /\ Place(e)[6] = e.from[1]
         /\ Place(e)[7] = (IF e.from[2] = 0 THEN 1 ELSE 0)
         /\ Place(e)[8] = e.from[2]
  <1>1. Rank(e.type) \in Int /\ Rank(e.path) \in Int /\ Rank(e.profile) \in Int
    BY RankFacts
  <1>2. QED
    BY <1>1 DEF Place, Dated

LEMMA EventLessIsPlace ==
  ASSUME NEW a, NEW b, Dated(a), Dated(b), eventLess(a, b)
  PROVE  KeyLess(Place(a), Place(b))
  <1> DEFINE x == Place(a)
             y == Place(b)
  <1>1. DOMAIN x = 1 .. 8
    BY PlaceFacts
  <1>2. /\ x[1] = (IF a.time = NoTime THEN 1 ELSE 0) /\ x[2] = a.time /\ x[3] = Rank(a.type)
        /\ x[4] = Rank(a.path) /\ x[5] = Rank(a.profile)
        /\ y[1] = (IF b.time = NoTime THEN 1 ELSE 0) /\ y[2] = b.time /\ y[3] = Rank(b.type)
        /\ y[4] = Rank(b.path) /\ y[5] = Rank(b.profile)
    BY PlaceFacts
  <1>3. a.time \in Int /\ b.time \in Int
    BY DEF Dated
  <1> HIDE DEF x, y
  <1>4. CASE (a.time = NoTime) # (b.time = NoTime)
    <2>1. x[1] < y[1] /\ 1 \in DOMAIN x
      BY <1>1, <1>2, <1>4 DEF eventLess, NoTime
    <2>2. \A j \in 1 .. 1 - 1 : x[j] = y[j]
      OBVIOUS
    <2>3. QED
      BY <2>1, <2>2, KeyLessAt DEF x, y
  <1>5. CASE (a.time = NoTime) = (b.time = NoTime)
    <2>0. x[1] = y[1]
      BY <1>2, <1>5
    <2>1. CASE a.time # b.time
      <3>1. x[2] < y[2] /\ 2 \in DOMAIN x
        BY <1>1, <1>2, <1>3, <1>5, <2>1 DEF eventLess
      <3>2. \A j \in 1 .. 2 - 1 : x[j] = y[j]
        BY <2>0
      <3>3. QED
        BY <3>1, <3>2, KeyLessAt DEF x, y
    <2>2. CASE a.time = b.time /\ Rank(a.type) # Rank(b.type)
      <3>1. x[3] < y[3] /\ 3 \in DOMAIN x
        BY <1>1, <1>2, <1>5, <2>2 DEF eventLess
      <3>2. \A j \in 1 .. 3 - 1 : j = 1 \/ j = 2
        OBVIOUS
      <3>3. \A j \in 1 .. 3 - 1 : x[j] = y[j]
        BY <1>2, <2>0, <2>2, <3>2
      <3>4. QED
        BY <3>1, <3>3, KeyLessAt DEF x, y
    <2>3. CASE a.time = b.time /\ Rank(a.type) = Rank(b.type) /\ Rank(a.path) # Rank(b.path)
      <3>1. x[4] < y[4] /\ 4 \in DOMAIN x
        BY <1>1, <1>2, <1>5, <2>3 DEF eventLess
      <3>2. \A j \in 1 .. 4 - 1 : j = 1 \/ j = 2 \/ j = 3
        OBVIOUS
      <3>3. \A j \in 1 .. 4 - 1 : x[j] = y[j]
        BY <1>2, <2>0, <2>3, <3>2
      <3>4. QED
        BY <3>1, <3>3, KeyLessAt DEF x, y
    <2>4. CASE a.time = b.time /\ Rank(a.type) = Rank(b.type) /\ Rank(a.path) = Rank(b.path)
      <3>1. x[5] < y[5] /\ 5 \in DOMAIN x
        BY <1>1, <1>2, <1>5, <2>4 DEF eventLess
      <3>2. \A j \in 1 .. 5 - 1 : j = 1 \/ j = 2 \/ j = 3 \/ j = 4
        OBVIOUS
      <3>3. \A j \in 1 .. 5 - 1 : x[j] = y[j]
        BY <1>2, <2>0, <2>4, <3>2
      <3>4. QED
        BY <3>1, <3>3, KeyLessAt DEF x, y
    <2>5. QED
      BY <2>1, <2>2, <2>3, <2>4
  <1>6. QED
    BY <1>4, <1>5

(* Events the comparator leaves as they are differ in where they are from. *)
LEMMA TieIsPlace ==
  ASSUME NEW a, NEW b, Dated(a), Dated(b), ~eventLess(a, b), ~eventLess(b, a), MadeBefore(a, b)
  PROVE  KeyLess(Place(a), Place(b))
  <1> DEFINE x == Place(a)
             y == Place(b)
  <1>0. /\ Rank(a.type) \in Int /\ Rank(a.path) \in Int /\ Rank(a.profile) \in Int
        /\ Rank(b.type) \in Int /\ Rank(b.path) \in Int /\ Rank(b.profile) \in Int
    BY RankFacts
  <1>1. DOMAIN x = 1 .. 8
    BY PlaceFacts
  <1>2. /\ x[1] = (IF a.time = NoTime THEN 1 ELSE 0) /\ x[2] = a.time /\ x[3] = Rank(a.type)
        /\ x[4] = Rank(a.path) /\ x[5] = Rank(a.profile) /\ x[6] = a.from[1]
        /\ x[7] = (IF a.from[2] = 0 THEN 1 ELSE 0) /\ x[8] = a.from[2]
        /\ y[1] = (IF b.time = NoTime THEN 1 ELSE 0) /\ y[2] = b.time /\ y[3] = Rank(b.type)
        /\ y[4] = Rank(b.path) /\ y[5] = Rank(b.profile) /\ y[6] = b.from[1]
        /\ y[7] = (IF b.from[2] = 0 THEN 1 ELSE 0) /\ y[8] = b.from[2]
    BY PlaceFacts
  <1>3. a.time \in Int /\ b.time \in Int
    BY DEF Dated
  <1>4. a.time = b.time /\ Rank(a.type) = Rank(b.type) /\ Rank(a.path) = Rank(b.path) /\ Rank(a.profile) = Rank(b.profile)
    BY <1>0, <1>3 DEF eventLess
  <1>5. FromLess(a, b)
    BY <1>4 DEF MadeBefore
  <1> HIDE DEF x, y
  <1>6. x[1] = y[1] /\ x[2] = y[2] /\ x[3] = y[3] /\ x[4] = y[4] /\ x[5] = y[5]
    BY <1>2, <1>4
  <1>7. CASE a.from[1] < b.from[1]
    <2>1. x[6] < y[6] /\ 6 \in DOMAIN x
      BY <1>1, <1>2, <1>7
    <2>2. \A j \in 1 .. 6 - 1 : j = 1 \/ j = 2 \/ j = 3 \/ j = 4 \/ j = 5
      OBVIOUS
    <2>3. \A j \in 1 .. 6 - 1 : x[j] = y[j]
      BY <1>6, <2>2
    <2>4. QED
      BY <2>1, <2>3, KeyLessAt DEF x, y
  <1>8. CASE a.from[1] = b.from[1] /\ a.from[2] # 0 /\ b.from[2] = 0
    <2>1. x[7] < y[7] /\ 7 \in DOMAIN x
      BY <1>1, <1>2, <1>8
    <2>2. \A j \in 1 .. 7 - 1 : j = 1 \/ j = 2 \/ j = 3 \/ j = 4 \/ j = 5 \/ j = 6
      OBVIOUS
    <2>3. \A j \in 1 .. 7 - 1 : x[j] = y[j]
      BY <1>2, <1>6, <1>8, <2>2
    <2>4. QED
      BY <2>1, <2>3, KeyLessAt DEF x, y
  <1>9. CASE a.from[1] = b.from[1] /\ a.from[2] # 0 /\ b.from[2] # 0 /\ a.from[2] < b.from[2]
    <2>1. x[8] < y[8] /\ 8 \in DOMAIN x
      BY <1>1, <1>2, <1>9
    <2>2. \A j \in 1 .. 8 - 1 : j = 1 \/ j = 2 \/ j = 3 \/ j = 4 \/ j = 5 \/ j = 6 \/ j = 7
      OBVIOUS
    <2>3. \A j \in 1 .. 8 - 1 : x[j] = y[j]
      BY <1>2, <1>6, <1>9, <2>2
    <2>4. QED
      BY <2>1, <2>3, KeyLessAt DEF x, y
  <1>10. QED
    BY <1>5, <1>7, <1>8, <1>9 DEF FromLess

(* The comparator is a strict weak order. *)
LEMMA EventLessIsWeak ==
  ASSUME NEW a, NEW b, NEW c, Dated(a), Dated(b), Dated(c)
  PROVE  /\ ~eventLess(a, a)
         /\ eventLess(a, b) => ~eventLess(b, a)
         /\ eventLess(a, c) => eventLess(a, b) \/ eventLess(b, c)
  <1>1. \A name : Rank(name) \in Int
    BY RankFacts
  <1>2. a.time \in Int /\ b.time \in Int /\ c.time \in Int
    BY DEF Dated
  <1>3. ~eventLess(a, a)
    BY <1>1, <1>2 DEF eventLess
  <1>4. eventLess(a, b) => ~eventLess(b, a)
    BY <1>1, <1>2 DEF eventLess
  <1>5. eventLess(a, c) => eventLess(a, b) \/ eventLess(b, c)
    BY <1>1, <1>2 DEF eventLess
  <1>6. QED
    BY <1>3, <1>4, <1>5

-----------------------------------------------------------------------------
(* What the timeline is made of. *)

IsList(s) == s \in Seq(ToSet(s))

(* An entry of a kind the timeline knows, with a time or 0 for none; only  *)
(* a link's may then be no event at all.                                   *)
TypeOf(e)  == EventTypes[e.kind][IF e.time = NoTime THEN 2 ELSE 1]
Telling(e) == /\ e.kind \in DOMAIN EventTypes /\ e.time \in Int
              /\ e.kind \in {"created", "modified", "accessed"} \/ TypeOf(e) # NoEvent
Tells(d) == d = NoDetails \/ (IsList(d.entries) /\ \A e \in ToSet(d.entries) : Telling(e))

More(rs, i, e) == IF e.kind = "event" /\ "sysmon" \in rs[i].marks /\ e.sysmon THEN SysmonType(e.id) ELSE NoEvent
EventAt(rs, i, k, d, type) == Event(rs, i, k, type, d.entries[k].time, d, d.warnings)
OfEntry(rs, i, k, d) ==
  {EventAt(rs, i, k, d, type) : type \in {TypeOf(d.entries[k]), More(rs, i, d.entries[k])} \ {NoEvent}}
OfState(rs, i, d) == ToSet(StatusEvent(rs, i, d))
OfEntries(rs, i, d) == UNION {OfEntry(rs, i, k, d) : k \in DOMAIN d.entries}
OfRow(rs, i, d)     == IF d = NoDetails THEN {} ELSE OfEntries(rs, i, d) \union OfState(rs, i, d)
OfRows(rs, details) == UNION {OfRow(rs, i, details[i]) : i \in DOMAIN rs}

MadeOrder(X)  == {x \in X \X X : MadeBefore(x[1], x[2])}
PlaceOrder(X) == {x \in X \X X : KeyLess(Place(x[1]), Place(x[2]))}

LEMMA TypesDiffer ==
  ASSUME NEW i, NEW e, More(rows, i, e) # NoEvent
  PROVE  e.kind = "event" /\ TypeOf(e) = "evtx_event" /\ TypeOf(e) # More(rows, i, e)
         /\ Rank(TypeOf(e)) # Rank(More(rows, i, e)) /\ TypeOf(e) # NoEvent
  <1>1. e.kind = "event" /\ More(rows, i, e) = SysmonType(e.id)
    BY DEF More
  <1>2. EventTypes["event"] = <<"evtx_event", "evtx_event">>
    BY DEF EventTypes
  <1>3. TypeOf(e) = "evtx_event"
    BY <1>1, <1>2 DEF TypeOf
  <1>4. SysmonType(e.id) # "evtx_event"
    BY DEF SysmonType, NoEvent
  <1>5. Rank(TypeOf(e)) # Rank(More(rows, i, e))
    BY <1>1, <1>3, <1>4, RankFacts, TimelineAssumption
  <1>6. QED
    BY <1>1, <1>3, <1>4, <1>5 DEF NoEvent

LEMMA OfEntryFacts ==
  ASSUME NEW i \in DOMAIN rows, NEW d, NEW k, NEW a \in OfEntry(rows, i, k, d)
  PROVE  /\ a.from = <<i, k>> /\ a.from[1] = i /\ a.from[2] = k /\ a.time = d.entries[k].time
         /\ a.path = rows[i].path /\ a.profile = rows[i].profile /\ a.state = d.state /\ a.note = d.warnings
         /\ a.type \in {TypeOf(d.entries[k]), More(rows, i, d.entries[k])} \ {NoEvent}
         /\ a = EventAt(rows, i, k, d, a.type)
  BY DEF OfEntry, EventAt, Event

(* The one event that reports a state, and what it says. *)
Saying(d) == IF d.error = "none" THEN d.warnings ELSE {d.error}
StateEvent(rs, i, d) == Event(rs, i, 0, "artifact_parse_status", NoTime, d, Saying(d))

LEMMA StateEventFacts ==
  ASSUME NEW i \in DOMAIN rows, NEW d
  PROVE  LET a == StateEvent(rows, i, d)
         IN  /\ a.from = <<i, 0>> /\ a.from[1] = i /\ a.from[2] = 0 /\ a.time = NoTime
             /\ a.path = rows[i].path /\ a.note = Saying(d)
  BY DEF StateEvent, Event

LEMMA OfStateIs ==
  ASSUME NEW i \in DOMAIN rows, NEW d
  PROVE  /\ d.state \in {"failed", "partial"} =>
              StatusEvent(rows, i, d) = <<StateEvent(rows, i, d)>> /\ OfState(rows, i, d) = {StateEvent(rows, i, d)}
         /\ d.state \notin {"failed", "partial"} => StatusEvent(rows, i, d) = <<>> /\ OfState(rows, i, d) = {}
  <1>1. StatusEvent(rows, i, d) = IF d.state \notin {"failed", "partial"} THEN <<>> ELSE <<StateEvent(rows, i, d)>>
    BY DEF StatusEvent, StateEvent, Saying
  <1>2. QED
    BY <1>1 DEF OfState, ToSet

LEMMA OfStateFacts ==
  ASSUME NEW i \in DOMAIN rows, NEW d, NEW a \in OfState(rows, i, d)
  PROVE  a = StateEvent(rows, i, d) /\ a.from = <<i, 0>> /\ a.from[1] = i /\ a.from[2] = 0 /\ a.time = NoTime
  <1>1. a = StateEvent(rows, i, d)
    BY OfStateIs
  <1>2. QED
    BY <1>1, StateEventFacts

LEMMA EntryEventsFacts ==
  ASSUME NEW i \in DOMAIN rows, NEW d, NEW k, NEW X, OfEntry(rows, i, k, d) \subseteq X
  PROVE  LET s == EntryEvents(rows, i, k, d)
         IN  s \in Seq(X) /\ ToSet(s) = OfEntry(rows, i, k, d) /\ Ascends(s, MadeOrder(X))
  <1> DEFINE e == d.entries[k]
             made(t) == IF t = NoEvent THEN <<>> ELSE <<EventAt(rows, i, k, d, t)>>
             s == EntryEvents(rows, i, k, d)
  <1>1. s = made(TypeOf(e)) \o made(More(rows, i, e))
    BY DEF EntryEvents, TypeOf, More, EventAt
  <1>2. OfEntry(rows, i, k, d) = {EventAt(rows, i, k, d, t) : t \in {TypeOf(e), More(rows, i, e)} \ {NoEvent}}
    BY DEF OfEntry
  <1> HIDE DEF e, s
  <1>3. CASE TypeOf(e) = NoEvent /\ More(rows, i, e) = NoEvent
    <2>1. s = <<>>
      BY <1>1, <1>3
    <2>2. OfEntry(rows, i, k, d) = {}
      BY <1>2, <1>3
    <2>3. QED
      BY <2>1, <2>2 DEF s, ToSet, Ascends
  <1>4. CASE TypeOf(e) # NoEvent /\ More(rows, i, e) = NoEvent
    <2> DEFINE a == EventAt(rows, i, k, d, TypeOf(e))
    <2>1. OfEntry(rows, i, k, d) = {a}
      BY <1>2, <1>4
    <2>2. s = <<a>>
      BY <1>1, <1>4
    <2> HIDE DEF a
    <2>3. s \in Seq(X) /\ ToSet(s) = {a} /\ Ascends(s, MadeOrder(X))
      BY <2>1, <2>2 DEF ToSet, Ascends
    <2>4. QED
      BY <2>1, <2>3 DEF s
  <1>5. CASE More(rows, i, e) # NoEvent
    <2> DEFINE a == EventAt(rows, i, k, d, TypeOf(e))
               b == EventAt(rows, i, k, d, More(rows, i, e))
    <2>0. TypeOf(e) # NoEvent /\ Rank(TypeOf(e)) # Rank(More(rows, i, e))
      BY <1>5, TypesDiffer
    <2>1. OfEntry(rows, i, k, d) = {a, b}
      BY <1>2, <1>5, <2>0
    <2>2. s \in Seq(X) /\ Len(s) = 2 /\ s[1] = a /\ s[2] = b
      <3>1. made(TypeOf(e)) = <<a>> /\ made(More(rows, i, e)) = <<b>>
        BY <1>5, <2>0
      <3>2. a \in X /\ b \in X
        BY <2>1
      <3> HIDE DEF a, b, made
      <3>3. s = <<a>> \o <<b>>
        BY <1>1, <3>1
      <3>4. <<a>> \in Seq(X) /\ <<b>> \in Seq(X)
        BY <3>2
      <3>5. s \in Seq(X) /\ Len(s) = Len(<<a>>) + Len(<<b>>)
        BY <3>3, <3>4
      <3>6. s[1] = <<a>>[1] /\ s[2] = <<b>>[1]
        BY <3>3, <3>4
      <3>7. QED
        BY <3>5, <3>6
    <2>3. a.from = b.from /\ a.type = TypeOf(e) /\ b.type = More(rows, i, e)
      BY DEF EventAt, Event
    <2> HIDE DEF a, b
    <2>4. MadeBefore(a, b) /\ a \in X /\ b \in X
      BY <2>0, <2>1, <2>3 DEF MadeBefore
    <2>5. <<a, b>> \in MadeOrder(X)
      BY <2>4 DEF MadeOrder
    <2>6. s \in Seq(X) /\ Ascends(s, MadeOrder(X))
      BY <2>2, <2>4, <2>5 DEF Ascends
    <2>7. ToSet(s) = {a, b}
      BY <2>2 DEF ToSet
    <2>8. QED
      BY <2>1, <2>6, <2>7 DEF s
  <1>6. QED
    BY <1>3, <1>4, <1>5

LEMMA OfRowIs ==
  ASSUME NEW i, NEW d, d # NoDetails
  PROVE  /\ OfState(rows, i, d) \subseteq OfRow(rows, i, d)
         /\ \A k \in DOMAIN d.entries : OfEntry(rows, i, k, d) \subseteq OfRow(rows, i, d)
         /\ \A a \in OfRow(rows, i, d) : a \in OfState(rows, i, d) \/ \E k \in DOMAIN d.entries : a \in OfEntry(rows, i, k, d)
  <1>1. OfRow(rows, i, d) = OfEntries(rows, i, d) \union OfState(rows, i, d)
    BY DEF OfRow
  <1>2. \A k \in DOMAIN d.entries : OfEntry(rows, i, k, d) \subseteq OfEntries(rows, i, d)
    BY DEF OfEntries
  <1>3. \A a \in OfEntries(rows, i, d) : \E k \in DOMAIN d.entries : a \in OfEntry(rows, i, k, d)
    BY DEF OfEntries
  <1>4. QED
    BY <1>1, <1>2, <1>3

LEMMA OfRowFacts ==
  ASSUME NEW i \in DOMAIN rows, i \in Int, NEW d, Tells(d), NEW a \in OfRow(rows, i, d)
  PROVE  /\ a.from[1] = i /\ Dated(a) /\ d # NoDetails
         /\ \/ a \in OfState(rows, i, d) /\ a.from[2] = 0
            \/ \E k \in DOMAIN d.entries : k \in Nat \ {0} /\ a \in OfEntry(rows, i, k, d) /\ a.from[2] = k
  <1>1. d # NoDetails
    BY DEF OfRow
  <1>2. CASE a \in OfState(rows, i, d)
    <2>1. a.from[1] = i /\ a.from[2] = 0 /\ a.time = NoTime
      BY <1>2, OfStateFacts
    <2>2. QED
      BY <1>1, <1>2, <2>1 DEF Dated, NoTime
  <1>3. ASSUME NEW k \in DOMAIN d.entries, a \in OfEntry(rows, i, k, d)
        PROVE  a.from[1] = i /\ a.from[2] = k /\ k \in Nat \ {0} /\ Dated(a)
    <2>1. a.from[1] = i /\ a.from[2] = k /\ a.time = d.entries[k].time
      BY <1>3, OfEntryFacts
    <2>2. k \in Nat \ {0}
      BY <1>1 DEF Tells, IsList
    <2>3. d.entries[k] \in ToSet(d.entries)
      BY DEF ToSet
    <2>4. a.time \in Int
      BY <1>1, <2>1, <2>3 DEF Tells, Telling
    <2>5. QED
      BY <2>1, <2>2, <2>4 DEF Dated
  <1>4. a \in OfState(rows, i, d) \/ \E k \in DOMAIN d.entries : a \in OfEntry(rows, i, k, d)
    BY <1>1, OfRowIs
  <1>5. QED
    BY <1>1, <1>2, <1>3, <1>4, OfStateFacts

LEMMA RowEventsFacts ==
  ASSUME NEW i \in DOMAIN rows, i \in Int, NEW d, Tells(d), NEW X, OfRow(rows, i, d) \subseteq X
  PROVE  LET s == RowEvents(rows, i, d)
         IN  s \in Seq(X) /\ ToSet(s) = OfRow(rows, i, d) /\ Ascends(s, MadeOrder(X))
  <1> DEFINE s == RowEvents(rows, i, d)
  <1>1. CASE d = NoDetails
    <2>1. s = <<>> /\ OfRow(rows, i, d) = {}
      BY <1>1 DEF RowEvents, OfRow
    <2> HIDE DEF s
    <2>2. s \in Seq(X) /\ ToSet(s) = {} /\ Ascends(s, MadeOrder(X))
      BY <2>1 DEF ToSet, Ascends
    <2>3. QED
      BY <2>1, <2>2 DEF s
  <1>2. CASE d # NoDetails
    <2> DEFINE ss == [k \in DOMAIN d.entries |-> EntryEvents(rows, i, k, d)]
               status == StatusEvent(rows, i, d)
               n == Len(d.entries)
    <2>1. s = Concat(ss) \o status
      BY <1>2 DEF RowEvents
    <2>2. n \in Nat /\ DOMAIN d.entries = 1 .. n
      BY <1>2 DEF Tells, IsList
    <2>3. OfRow(rows, i, d) = OfEntries(rows, i, d) \union OfState(rows, i, d)
      BY <1>2 DEF OfRow
    <2>0. OfState(rows, i, d) \subseteq X /\ \A k \in 1 .. n : OfEntry(rows, i, k, d) \subseteq X
      BY <1>2, <2>2, OfRowIs
    <2>4. \A k \in 1 .. n : ss[k] \in Seq(X) /\ ToSet(ss[k]) = OfEntry(rows, i, k, d) /\ Ascends(ss[k], MadeOrder(X))
      <3>1. \A k \in 1 .. n : OfEntry(rows, i, k, d) \subseteq X
        BY <2>0
      <3>2. \A k \in 1 .. n : ss[k] = EntryEvents(rows, i, k, d)
        BY <2>2
      <3> HIDE DEF ss
      <3>3. QED
        BY <3>1, <3>2, EntryEventsFacts
    <2>5. ss \in Seq(Seq(X)) /\ Len(ss) = n
      <3>1. DOMAIN ss = 1 .. n /\ ss = [k \in 1 .. n |-> ss[k]]
        BY <2>2
      <3> HIDE DEF ss
      <3>2. ss \in [1 .. n -> Seq(X)]
        BY <2>4, <3>1
      <3>3. QED
        BY <2>2, <3>2
    <2> HIDE DEF ss, s, n
    <2>6. Concat(ss) \in Seq(X) /\ ToSet(Concat(ss)) = OfEntries(rows, i, d)
      <3>1. {ToSet(ss[k]) : k \in 1 .. n} = {OfEntry(rows, i, k, d) : k \in DOMAIN d.entries}
        BY <2>2, <2>4
      <3>2. Concat(ss) \in Seq(X) /\ ToSet(Concat(ss)) = UNION {ToSet(ss[k]) : k \in 1 .. n}
        BY <2>5, ConcatFacts
      <3>3. QED
        BY <3>1, <3>2 DEF OfEntries
    <2>7. \A j, k \in 1 .. n : j < k => \A a \in ToSet(ss[j]), b \in ToSet(ss[k]) : <<a, b>> \in MadeOrder(X)
      <3> SUFFICES ASSUME NEW j \in 1 .. n, NEW k \in 1 .. n, j < k, NEW a \in OfEntry(rows, i, j, d), NEW b \in OfEntry(rows, i, k, d)
                   PROVE  <<a, b>> \in MadeOrder(X)
        BY <2>4
      <3>1. a.from[1] = i /\ a.from[2] = j /\ b.from[1] = i /\ b.from[2] = k
        BY OfEntryFacts
      <3>2. a \in X /\ b \in X
        BY <2>0
      <3>3. j # 0 /\ k # 0
        BY <2>2
      <3>4. MadeBefore(a, b)
        BY <3>1, <3>3 DEF MadeBefore, FromLess
      <3>5. QED
        BY <3>2, <3>4 DEF MadeOrder
    <2>8. Ascends(Concat(ss), MadeOrder(X))
      BY <2>4, <2>5, <2>7, ConcatAscends
    <2>9. status \in Seq(X) /\ ToSet(status) = OfState(rows, i, d) /\ Ascends(status, MadeOrder(X))
      <3> DEFINE e == StateEvent(rows, i, d)
      <3>1. status = <<>> \/ (status = <<e>> /\ OfState(rows, i, d) = {e})
        BY OfStateIs
      <3>2. OfState(rows, i, d) \subseteq X
        BY <2>0
      <3> HIDE DEF status, e
      <3>3. status \in Seq(X) /\ Len(status) <= 1
        <4>1. CASE status = <<>>
          BY <4>1
        <4>2. CASE status = <<e>> /\ OfState(rows, i, d) = {e}
          <5>1. e \in X
            BY <3>2, <4>2
          <5>2. <<e>> \in Seq(X) /\ Len(<<e>>) = 1
            BY <5>1
          <5>3. QED
            BY <4>2, <5>2
        <4>3. QED
          BY <3>1, <4>1, <4>2
      <3>5. Ascends(status, MadeOrder(X))
        BY <3>3 DEF Ascends
      <3>4. QED
        BY <3>3, <3>5 DEF OfState, status
    <2>10. \A a \in ToSet(Concat(ss)), b \in ToSet(status) : <<a, b>> \in MadeOrder(X)
      <3> SUFFICES ASSUME NEW k \in 1 .. n, NEW a \in OfEntry(rows, i, k, d), NEW b \in OfState(rows, i, d)
                   PROVE  <<a, b>> \in MadeOrder(X)
        BY <2>2, <2>6, <2>9 DEF OfEntries
      <3>1. a.from[1] = i /\ a.from[2] = k
        BY OfEntryFacts
      <3>0. b.from[1] = i /\ b.from[2] = 0
        BY OfStateFacts
      <3>2. a \in X /\ b \in X
        BY <2>0
      <3>3. k # 0
        BY <2>2
      <3>4. MadeBefore(a, b)
        BY <3>0, <3>1, <3>3 DEF MadeBefore, FromLess
      <3>5. QED
        BY <3>2, <3>4 DEF MadeOrder
    <2> HIDE DEF status
    <2>11. s \in Seq(X) /\ ToSet(s) = ToSet(Concat(ss)) \union ToSet(status)
      BY <2>1, <2>6, <2>9, JoinFacts
    <2>12. Ascends(s, MadeOrder(X))
      BY <2>1, <2>6, <2>8, <2>9, <2>10, JoinAscends
    <2>13. QED
      BY <2>3, <2>6, <2>9, <2>11, <2>12 DEF s
  <1>3. QED
    BY <1>1, <1>2

(* The events of all rows are strictly ordered by their place. *)
LEMMA EventsApart ==
  ASSUME rows \in Seq(ArtifactRows), NEW details, \A i \in DOMAIN rows : Tells(details[i]),
         NEW a \in OfRows(rows, details), NEW b \in OfRows(rows, details), a # b
  PROVE  MadeBefore(a, b) \/ MadeBefore(b, a)
  <1>1. PICK i \in DOMAIN rows : a \in OfRow(rows, i, details[i])
    BY DEF OfRows
  <1>2. PICK j \in DOMAIN rows : b \in OfRow(rows, j, details[j])
    BY DEF OfRows
  <1>3. i \in Int /\ j \in Int
    OBVIOUS
  <1>4. /\ a.from[1] = i
        /\ \/ a \in OfState(rows, i, details[i]) /\ a.from[2] = 0
           \/ \E k \in DOMAIN details[i].entries :
                k \in Nat \ {0} /\ a \in OfEntry(rows, i, k, details[i]) /\ a.from[2] = k
    BY <1>1, <1>3, OfRowFacts
  <1>5. /\ b.from[1] = j
        /\ \/ b \in OfState(rows, j, details[j]) /\ b.from[2] = 0
           \/ \E k \in DOMAIN details[j].entries :
                k \in Nat \ {0} /\ b \in OfEntry(rows, j, k, details[j]) /\ b.from[2] = k
    BY <1>2, <1>3, OfRowFacts
  <1>6. CASE i # j
    BY <1>3, <1>4, <1>5, <1>6 DEF MadeBefore, FromLess
  <1>7. CASE i = j /\ a.from[2] # b.from[2]
    <2>1. a.from[2] \in Nat /\ b.from[2] \in Nat
      BY <1>4, <1>5
    <2>2. QED
      BY <1>4, <1>5, <1>7, <2>1 DEF MadeBefore, FromLess
  <1>8. CASE i = j /\ a.from[2] = b.from[2]
    <2> DEFINE d == details[i]
               k == a.from[2]
    <2>1. CASE k = 0
      <3>1. a \in OfState(rows, i, d) /\ b \in OfState(rows, i, d)
        BY <1>4, <1>5, <1>8, <2>1
      <3>2. a = StateEvent(rows, i, d) /\ b = StateEvent(rows, i, d)
        BY <3>1, OfStateFacts
      <3>3. QED
        BY <3>2
    <2>2. CASE k # 0
      <3>1. a \in OfEntry(rows, i, k, d) /\ b \in OfEntry(rows, i, k, d)
        BY <1>4, <1>5, <1>8, <2>2
      <3> DEFINE e == d.entries[k]
      <3>2. /\ a.type \in {TypeOf(e), More(rows, i, e)} \ {NoEvent} /\ a = EventAt(rows, i, k, d, a.type) /\ a.from = <<i, k>>
            /\ b.type \in {TypeOf(e), More(rows, i, e)} \ {NoEvent} /\ b = EventAt(rows, i, k, d, b.type) /\ b.from = <<i, k>>
        BY <3>1, OfEntryFacts
      <3> HIDE DEF e, d, k
      <3>3. a.type # b.type
        BY <3>2
      <3>4. Rank(a.type) # Rank(b.type)
        <4>1. More(rows, i, e) # NoEvent => Rank(TypeOf(e)) # Rank(More(rows, i, e))
          BY TypesDiffer
        <4>2. QED
          BY <3>2, <3>3, <4>1
      <3>5. QED
        BY <3>2, <3>4 DEF MadeBefore
    <2>3. QED
      BY <2>1, <2>2
  <1>9. QED
    BY <1>6, <1>7, <1>8

LEMMA EventsAreDated ==
  ASSUME rows \in Seq(ArtifactRows), NEW details, \A i \in DOMAIN rows : Tells(details[i]),
         NEW a \in OfRows(rows, details)
  PROVE  Dated(a)
  <1>1. PICK i \in DOMAIN rows : a \in OfRow(rows, i, details[i])
    BY DEF OfRows
  <1>2. i \in Int
    OBVIOUS
  <1>3. QED
    BY <1>1, <1>2, OfRowFacts

LEMMA PlaceOrderIsStrict ==
  ASSUME rows \in Seq(ArtifactRows), NEW details, \A i \in DOMAIN rows : Tells(details[i]),
         NEW X \in SUBSET OfRows(rows, details)
  PROVE  StrictOrder(X, PlaceOrder(X))
  <1>1. \A a \in X : Dated(a)
    BY EventsAreDated
  <1>2. \A a \in X : Place(a) \in [1 .. 8 -> Int]
    BY <1>1, PlaceFacts
  <1>3. \A a \in X : <<a, a>> \notin PlaceOrder(X)
    <2>1. \A a \in X : ~KeyLess(Place(a), Place(a))
      BY <1>2, KeyLessIsIrreflexive
    <2>2. QED
      BY <2>1 DEF PlaceOrder
  <1>4. ASSUME NEW a \in X, NEW b \in X, NEW c \in X, <<a, b>> \in PlaceOrder(X), <<b, c>> \in PlaceOrder(X)
        PROVE  <<a, c>> \in PlaceOrder(X)
    <2>1. KeyLess(Place(a), Place(b)) /\ KeyLess(Place(b), Place(c))
      BY <1>4 DEF PlaceOrder
    <2>2. KeyLess(Place(a), Place(c))
      <3>1. Place(a) \in [1 .. 8 -> Int] /\ Place(b) \in [1 .. 8 -> Int] /\ Place(c) \in [1 .. 8 -> Int]
        BY <1>2
      <3>2. QED
        BY <2>1, <3>1, KeyLessIsTransitive
    <2>3. QED
      BY <2>2 DEF PlaceOrder
  <1>5. ASSUME NEW a \in X, NEW b \in X, a # b
        PROVE  <<a, b>> \in PlaceOrder(X) \/ <<b, a>> \in PlaceOrder(X)
    <2>1. MadeBefore(a, b) \/ MadeBefore(b, a)
      BY <1>5, EventsApart
    <2>2. KeyLess(Place(a), Place(b)) \/ KeyLess(Place(b), Place(a))
      BY <1>1, <2>1, EventLessIsPlace, TieIsPlace
    <2>3. QED
      BY <2>2 DEF PlaceOrder
  <1>6. QED
    BY <1>3, <1>4, <1>5 DEF StrictOrder

(* The timeline of some details: their events, in the order of their places. *)
LEMMA BuiltFacts ==
  ASSUME rows \in Seq(ArtifactRows), NEW details, \A i \in DOMAIN rows : Tells(details[i])
  PROVE  LET T == buildEvents(rows, details)
             X == OfRows(rows, details)
         IN  T \in Seq(X) /\ ToSet(T) = X /\ Ascends(T, PlaceOrder(X))
  <1> DEFINE X == OfRows(rows, details)
             n == Len(rows)
             ss == [i \in DOMAIN rows |-> RowEvents(rows, i, details[i])]
             events == Concat(ss)
             less == {x \in (DOMAIN events) \X (DOMAIN events) : eventLess(events[x[1]], events[x[2]])}
             T == StableSort(events, less)
  <1>1. n \in Nat /\ DOMAIN rows = 1 .. n
    OBVIOUS
  <1>2. \A i \in 1 .. n : i \in DOMAIN rows /\ i \in Int /\ OfRow(rows, i, details[i]) \subseteq X
    BY <1>1 DEF OfRows
  <1> HIDE DEF X
  <1>3. \A i \in 1 .. n : /\ ss[i] \in Seq(X) /\ ToSet(ss[i]) = OfRow(rows, i, details[i])
                          /\ Ascends(ss[i], MadeOrder(X))
    BY <1>2, RowEventsFacts
  <1>4. ss \in Seq(Seq(X)) /\ Len(ss) = n
    <2>1. DOMAIN ss = 1 .. n /\ ss = [i \in 1 .. n |-> ss[i]]
      BY <1>1
    <2> HIDE DEF ss
    <2>2. ss \in [1 .. n -> Seq(X)]
      BY <1>3, <2>1
    <2>3. QED
      BY <1>1, <2>2
  <1> HIDE DEF n
  <1>5. events \in Seq(X) /\ ToSet(events) = X
    <2>1. {ToSet(ss[i]) : i \in 1 .. n} = {OfRow(rows, i, details[i]) : i \in DOMAIN rows}
      BY <1>1, <1>3
    <2> HIDE DEF ss
    <2>2. events \in Seq(X) /\ ToSet(events) = UNION {ToSet(ss[i]) : i \in 1 .. n}
      BY <1>4, ConcatFacts
    <2>3. QED
      BY <2>1, <2>2 DEF X, OfRows
  <1>6. \A i, j \in 1 .. n : i < j => \A a \in ToSet(ss[i]), b \in ToSet(ss[j]) : <<a, b>> \in MadeOrder(X)
    <2> SUFFICES ASSUME NEW i \in 1 .. n, NEW j \in 1 .. n, i < j,
                        NEW a \in OfRow(rows, i, details[i]), NEW b \in OfRow(rows, j, details[j])
                 PROVE  <<a, b>> \in MadeOrder(X)
      BY <1>3
    <2>1. a.from[1] = i /\ b.from[1] = j
      BY <1>2, OfRowFacts
    <2>2. a \in X /\ b \in X
      BY <1>2
    <2>3. MadeBefore(a, b)
      BY <2>1 DEF MadeBefore, FromLess
    <2>4. QED
      BY <2>2, <2>3 DEF MadeOrder
  <1> HIDE DEF ss
  <1>7. Ascends(events, MadeOrder(X))
    BY <1>3, <1>4, <1>6, ConcatAscends
  <1> HIDE DEF events
  <1>8. \A i \in 1 .. Len(events) : events[i] \in X /\ Dated(events[i])
    <2>1. \A a \in X : Dated(a)
      BY EventsAreDated DEF X
    <2>2. QED
      BY <1>5, <2>1
  <1>9. \A i, j \in 1 .. Len(events) : <<i, j>> \in less <=> eventLess(events[i], events[j])
    BY <1>5
  <1> HIDE DEF less
  <1>10. /\ \A i \in 1 .. Len(events) : <<i, i>> \notin less
         /\ \A i, j, k \in 1 .. Len(events) : <<i, k>> \in less => <<i, j>> \in less \/ <<j, k>> \in less
         /\ \A i, j \in 1 .. Len(events) : <<i, j>> \in less => <<j, i>> \notin less
    <2>1. \A i, j, k \in 1 .. Len(events) :
            LET a == events[i] b == events[j] c == events[k]
            IN  /\ ~eventLess(a, a)
                /\ eventLess(a, b) => ~eventLess(b, a)
                /\ eventLess(a, c) => eventLess(a, b) \/ eventLess(b, c)
      BY <1>8, EventLessIsWeak
    <2>2. QED
      BY <1>9, <2>1
  <1>11. /\ T \in Seq(X) /\ Len(T) = Len(events)
         /\ \E at \in [1 .. Len(T) -> 1 .. Len(events)] :
              /\ \A i, j \in 1 .. Len(T) : i < j <=>
                   <<at[i], at[j]>> \in less \/ (<<at[j], at[i]>> \notin less /\ at[i] < at[j])
              /\ \A x \in 1 .. Len(events) : \E k \in 1 .. Len(T) : at[k] = x
              /\ \A k \in 1 .. Len(T) : T[k] = events[at[k]]
    <2>1. T \in Seq(X) /\ SortedFrom(T, events, less)
      BY <1>5, <1>10, StableSortFacts
    <2> HIDE DEF T
    <2>2. QED
      BY <2>1 DEF SortedFrom
  <1> HIDE DEF T
  <1>12. PICK at \in [1 .. Len(T) -> 1 .. Len(events)] :
              /\ \A i, j \in 1 .. Len(T) : i < j <=>
                   <<at[i], at[j]>> \in less \/ (<<at[j], at[i]>> \notin less /\ at[i] < at[j])
              /\ \A x \in 1 .. Len(events) : \E k \in 1 .. Len(T) : at[k] = x
              /\ \A k \in 1 .. Len(T) : T[k] = events[at[k]]
    BY <1>11
  <1>13. ToSet(T) = X
    <2>1. DOMAIN T = 1 .. Len(T) /\ DOMAIN events = 1 .. Len(events)
      BY <1>5, <1>11
    <2>2. ToSet(T) = {T[k] : k \in 1 .. Len(T)} /\ X = {events[x] : x \in 1 .. Len(events)}
      BY <1>5, <2>1 DEF ToSet
    <2>3. ToSet(T) \subseteq X
      BY <1>5, <1>12, <2>2
    <2>4. X \subseteq ToSet(T)
      BY <1>12, <2>2
    <2>5. QED
      BY <2>3, <2>4
  <1>14. Ascends(T, PlaceOrder(X))
    <2> SUFFICES ASSUME NEW i \in 1 .. Len(T), NEW j \in 1 .. Len(T), i < j
                 PROVE  <<T[i], T[j]>> \in PlaceOrder(X)
      <3>1. DOMAIN T = 1 .. Len(T)
        BY <1>11
      <3>2. QED
        BY <3>1 DEF Ascends
    <2> DEFINE a == events[at[i]]
               b == events[at[j]]
    <2>1. at[i] \in 1 .. Len(events) /\ at[j] \in 1 .. Len(events)
      OBVIOUS
    <2>2. <<at[i], at[j]>> \in less \/ (<<at[j], at[i]>> \notin less /\ at[i] < at[j])
      BY <1>12
    <2>3. a \in X /\ b \in X /\ Dated(a) /\ Dated(b)
      BY <1>8, <2>1
    <2>4. eventLess(a, b) \/ (~eventLess(b, a) /\ at[i] < at[j])
      BY <1>9, <2>1, <2>2
    <2>5. at[i] < at[j] => MadeBefore(a, b)
      <3>1. DOMAIN events = 1 .. Len(events)
        BY <1>5
      <3>2. at[i] < at[j] => <<a, b>> \in MadeOrder(X)
        BY <1>7, <2>1, <3>1 DEF Ascends
      <3>3. QED
        BY <3>2 DEF MadeOrder
    <2>6. T[i] = a /\ T[j] = b
      BY <1>12
    <2> HIDE DEF a, b
    <2>7. KeyLess(Place(a), Place(b))
      BY <2>3, <2>4, <2>5, EventLessIsPlace, TieIsPlace
    <2>8. QED
      BY <2>3, <2>6, <2>7 DEF PlaceOrder
  <1>15. buildEvents(rows, details) = T
    BY DEF buildEvents, T, less, events, ss
  <1>16. QED
    BY <1>11, <1>13, <1>14, <1>15 DEF X

-----------------------------------------------------------------------------
(* What holds of the details describe makes of a file. *)

DatedFrom(e, f) ==
  e.time # NoTime =>
    /\ e.time >= Epoch /\ e.time \in Held(f)
    /\ f.format = "cfbf" => 114 + 2 * f.list[e.of].chars[1] <= f.destList.size - e.of
Candid(d) == /\ d.error # "none" => d.state = "failed"
             /\ d.warnings # {} => d.state \in {"failed", "partial", "unsupported"}
Fair(d, f) ==
  d = NoDetails \/ (Candid(d) /\ IsList(d.entries) /\ \A e \in ToSet(d.entries) : Telling(e) /\ DatedFrom(e, f))

-----------------------------------------------------------------------------
(* Lists of entries that may go into the timeline. *)

Fine(e, f) == Telling(e) /\ DatedFrom(e, f)
FineList(s, f) == IsList(s) /\ \A e \in ToSet(s) : Fine(e, f)

(* ... and of entries with the keys they are sorted by, all n numbers long. *)
FineKeyed(x, n, f) == x.key \in [1 .. n -> Int] /\ Fine(x.entry, f)
FineKeys(s, n, f) == IsList(s) /\ \A x \in ToSet(s) : FineKeyed(x, n, f)

LEMMA ListIs ==
  ASSUME NEW X, NEW s \in Seq(X)
  PROVE  IsList(s) /\ ToSet(s) \subseteq X
  BY DEF IsList, ToSet

LEMMA ListFrom ==
  ASSUME NEW n \in Nat, NEW s, s = [i \in 1 .. n |-> s[i]]
  PROVE  IsList(s) /\ Len(s) = n /\ DOMAIN s = 1 .. n /\ ToSet(s) = {s[i] : i \in 1 .. n}
  <1>1. ToSet(s) = {s[i] : i \in 1 .. n}
    BY DEF ToSet
  <1>2. \A i \in 1 .. n : s[i] \in ToSet(s)
    BY <1>1
  <1>3. s \in Seq(ToSet(s))
    BY <1>2
  <1>4. QED
    BY <1>1, <1>3 DEF IsList

LEMMA EmptyList == ASSUME NEW f, NEW n PROVE FineList(<<>>, f) /\ FineKeys(<<>>, n, f)
  BY DEF FineList, FineKeys, IsList, ToSet

LEMMA JoinIsList ==
  ASSUME NEW s, NEW t, IsList(s), IsList(t)
  PROVE  IsList(s \o t) /\ ToSet(s \o t) = ToSet(s) \union ToSet(t)
  <1> DEFINE X == ToSet(s) \union ToSet(t)
  <1>1. s \in Seq(X) /\ t \in Seq(X)
    BY DEF IsList
  <1> HIDE DEF X
  <1>2. s \o t \in Seq(X) /\ ToSet(s \o t) = ToSet(s) \union ToSet(t)
    BY <1>1, JoinFacts
  <1>3. QED
    BY <1>2 DEF IsList, X

LEMMA JoinIsFine ==
  ASSUME NEW s, NEW t, NEW f, FineList(s, f), FineList(t, f)
  PROVE  FineList(s \o t, f)
  <1>1. IsList(s \o t) /\ ToSet(s \o t) = ToSet(s) \union ToSet(t)
    BY JoinIsList DEF FineList
  <1>2. QED
    BY <1>1 DEF FineList

LEMMA JoinIsKeyed ==
  ASSUME NEW s, NEW t, NEW n, NEW f, FineKeys(s, n, f), FineKeys(t, n, f)
  PROVE  FineKeys(s \o t, n, f)
  <1>1. IsList(s \o t) /\ ToSet(s \o t) = ToSet(s) \union ToSet(t)
    BY JoinIsList DEF FineKeys
  <1>2. QED
    BY <1>1 DEF FineKeys

LEMMA ConcatIsKeyed ==
  ASSUME NEW m \in Nat, NEW ss, ss = [i \in 1 .. m |-> ss[i]], NEW n, NEW f,
         \A i \in 1 .. m : FineKeys(ss[i], n, f)
  PROVE  FineKeys(Concat(ss), n, f)
  <1> DEFINE X == UNION {ToSet(ss[i]) : i \in 1 .. m}
  <1>1. \A i \in 1 .. m : ss[i] \in Seq(X)
    <2> SUFFICES ASSUME NEW i \in 1 .. m PROVE ss[i] \in Seq(X)
      OBVIOUS
    <2>1. ss[i] \in Seq(ToSet(ss[i])) /\ ToSet(ss[i]) \subseteq X
      BY DEF FineKeys, IsList
    <2> HIDE DEF X
    <2>2. QED
      BY <2>1
  <1> HIDE DEF X
  <1>2. ss \in Seq(Seq(X)) /\ Len(ss) = m
    BY <1>1
  <1>3. Concat(ss) \in Seq(X)
    BY <1>2, ConcatFacts
  <1>4. \A x \in X : FineKeyed(x, n, f)
    BY DEF X, FineKeys
  <1>5. QED
    BY <1>3, <1>4, ListIs DEF FineKeys

LEMMA WhereIs ==
  ASSUME NEW s, IsList(s), NEW I \in SUBSET DOMAIN s
  PROVE  IsList(Picked(s, I)) /\ ToSet(Picked(s, I)) = {s[i] : i \in I}
  <1>1. I \in SUBSET (1 .. Len(s)) /\ s \in Seq(ToSet(s))
    BY DEF IsList
  <1>2. Picked(s, I) \in Seq(ToSet(s)) /\ ToSet(Picked(s, I)) = {s[i] : i \in I}
    BY <1>1, PickedElements
  <1>3. QED
    BY <1>2, ListIs

(* Sorting changes the order only. *)
LEMMA SortedIsFrom ==
  ASSUME NEW s, NEW n \in Nat, IsList(s), \A x \in ToSet(s) : x.key \in [1 .. n -> Int]
  PROVE  IsList(Sorted(s)) /\ \A e \in ToSet(Sorted(s)) : \E x \in ToSet(s) : e = x.entry
  <1> DEFINE X == ToSet(s)
             less == {x \in (DOMAIN s) \X (DOMAIN s) : KeyLess(s[x[1]].key, s[x[2]].key)}
             t == StableSort(s, less)
             r == [i \in DOMAIN t |-> t[i].entry]
  <1>1. s \in Seq(X)
    BY DEF IsList
  <1>2. \A i \in 1 .. Len(s) : s[i] \in X /\ s[i].key \in [1 .. n -> Int]
    BY <1>1
  <1>3. \A i, j \in 1 .. Len(s) : <<i, j>> \in less <=> KeyLess(s[i].key, s[j].key)
    BY <1>1
  <1>4. Sorted(s) = r
    BY DEF Sorted
  <1> HIDE DEF X, less
  <1>5. \A i \in 1 .. Len(s) : <<i, i>> \notin less
    BY <1>2, <1>3, KeyLessIsIrreflexive
  <1>6. \A i, j, k \in 1 .. Len(s) : <<i, k>> \in less => <<i, j>> \in less \/ <<j, k>> \in less
    <2> SUFFICES ASSUME NEW i \in 1 .. Len(s), NEW j \in 1 .. Len(s), NEW k \in 1 .. Len(s), <<i, k>> \in less
                 PROVE  <<i, j>> \in less \/ <<j, k>> \in less
      OBVIOUS
    <2> DEFINE a == s[i].key
               b == s[j].key
               c == s[k].key
    <2>0. a \in [1 .. n -> Int] /\ b \in [1 .. n -> Int] /\ c \in [1 .. n -> Int] /\ KeyLess(a, c)
      BY <1>2, <1>3
    <2> HIDE DEF a, b, c
    <2>1. KeyLess(a, b) \/ KeyLess(b, c)
      BY <2>0, KeyLessIsWeak
    <2> USE DEF a, b, c
    <2>2. QED
      BY <1>3, <2>1
  <1>7. \A i, j \in 1 .. Len(s) : <<i, j>> \in less => <<j, i>> \notin less
    BY <1>2, <1>3, KeyLessIsWeak
  <1>8. t \in Seq(X)
    BY <1>1, <1>5, <1>6, <1>7, StableSortFacts
  <1> HIDE DEF t
  <1>9. Len(t) \in Nat /\ DOMAIN t = 1 .. Len(t) /\ \A i \in 1 .. Len(t) : t[i] \in X
    BY <1>8
  <1>10. \A i \in 1 .. Len(t) : r[i] = t[i].entry /\ t[i] \in X
    BY <1>9
  <1>11. r = [i \in 1 .. Len(t) |-> r[i]]
    BY <1>9
  <1> HIDE DEF r
  <1>12. IsList(r) /\ ToSet(r) = {r[i] : i \in 1 .. Len(t)}
    BY <1>9, <1>11, ListFrom
  <1>13. QED
    BY <1>4, <1>10, <1>12 DEF X

LEMMA SortedIsFine ==
  ASSUME NEW s, NEW n \in Nat, NEW f, FineKeys(s, n, f)
  PROVE  FineList(Sorted(s), f)
  <1>1. IsList(s) /\ \A x \in ToSet(s) : x.key \in [1 .. n -> Int] /\ Fine(x.entry, f)
    BY DEF FineKeys, FineKeyed
  <1>2. IsList(Sorted(s)) /\ \A e \in ToSet(Sorted(s)) : \E x \in ToSet(s) : e = x.entry
    BY <1>1, SortedIsFrom
  <1>3. QED
    BY <1>1, <1>2 DEF FineList

-----------------------------------------------------------------------------
(* What a provider answers. *)

FairResult(r, f) == Candid(r) /\ FineList(r.entries, f)

LEMMA FoundIsFair ==
  ASSUME NEW s, NEW f, FineList(s, f), NEW W
  PROVE  FairResult(Found(s, W), f)
  BY DEF FairResult, Candid, Found, Result

LEMMA NoneIsFair ==
  ASSUME NEW f, NEW W, NEW error
  PROVE  FairResult(Failed(error), f) /\ FairResult(Unsupported(W), f) /\ FairResult(Partial(W), f)
         /\ FairResult(NotThere(W), f)
  <1>1. FineList(<<>>, f)
    BY EmptyList
  <1>2. FairResult(Failed(error), f) /\ FairResult(Unsupported(W), f) /\ FairResult(Partial(W), f)
        /\ FairResult(Unsupported({}), f)
    BY <1>1 DEF FairResult, Candid, Failed, Unsupported, Partial, Result
  <1>3. QED
    BY <1>2 DEF NotThere

LEMMA PlainEntry ==
  ASSUME NEW kind \in DOMAIN EventTypes, EventTypes[kind][2] # NoEvent, NEW of, NEW f
  PROVE  Fine(Entry(kind, NoTime, of), f)
  BY DEF Fine, Telling, DatedFrom, Entry, TypeOf, NoTime

-----------------------------------------------------------------------------
(* Registry hives. *)

TimeOf(t, f) == t = NoTime \/ (t \in Int /\ t >= Epoch /\ t \in Held(f))

LEMMA FileTimeIs ==
  ASSUME NEW f, NEW raw \in Int, raw \in Held(f)
  PROVE  TimeOf(FileTime(raw), f)
  BY DEF TimeOf, FileTime, Epoch

LEMMA DatedEntry ==
  ASSUME NEW f, f.format # "cfbf", NEW t, TimeOf(t, f),
         NEW kind \in DOMAIN EventTypes, EventTypes[kind][1] # NoEvent, EventTypes[kind][2] # NoEvent, NEW of
  PROVE  Fine(Entry(kind, t, of), f)
  <1> DEFINE e == Entry(kind, t, of)
  <1>1. e.kind = kind /\ e.time = t
    BY DEF Entry
  <1>2. t \in Int
    BY DEF TimeOf, NoTime
  <1> HIDE DEF e
  <1>3. Telling(e)
    BY <1>1, <1>2 DEF Telling, TypeOf
  <1>4. DatedFrom(e, f)
    BY <1>1 DEF DatedFrom, TimeOf
  <1>5. QED
    BY <1>3, <1>4 DEF Fine, e

HiveData(h, data) == data \in Seq(Int) /\ ToSet(data) \subseteq HeldInHive(h)

LEMMA CellHeld ==
  ASSUME NEW h, IsHive(h), NEW c
  PROVE  /\ Sig(h, c) = "nk" => /\ c \in DOMAIN h.cells /\ h.cells[c].time \in Int /\ h.cells[c].time \in HeldInHive(h)
                                /\ h.cells[c].values \in Seq(Int)
         /\ Sig(h, c) \in {"vk", "data"} => c \in DOMAIN h.cells /\ HiveData(h, h.cells[c].data)
         /\ Sig(h, c) \in {"li", "lf", "lh", "ri"} => c \in DOMAIN h.cells /\ h.cells[c].items \in Seq(Int)
  <1>1. CASE c \notin DOMAIN h.cells
    BY <1>1 DEF Sig
  <1>2. CASE c \in DOMAIN h.cells
    <2>1. Sig(h, c) = h.cells[c].sig
      BY <1>2 DEF Sig
    <2>2. HeldInCell(h, c) \subseteq HeldInHive(h)
      BY <1>2 DEF HeldInHive
    <2>3. /\ Sig(h, c) = "nk" => h.cells[c].time \in Nat /\ h.cells[c].values \in Seq(Int)
          /\ Sig(h, c) \in {"vk", "data"} => h.cells[c].data \in Seq(Int)
          /\ Sig(h, c) \in {"li", "lf", "lh", "ri"} => h.cells[c].items \in Seq(Int)
      BY <1>2, <2>1 DEF IsHive
    <2>4. CASE Sig(h, c) = "nk"
      <3>1. HeldInCell(h, c) = {h.cells[c].time}
        BY <2>4 DEF HeldInCell
      <3>2. QED
        BY <1>2, <2>2, <2>3, <2>4, <3>1
    <2>5. CASE Sig(h, c) \in {"vk", "data"}
      <3>1. HeldInCell(h, c) = ToSet(h.cells[c].data)
        BY <2>5 DEF HeldInCell
      <3>2. QED
        BY <1>2, <2>2, <2>3, <2>5, <3>1 DEF HiveData
    <2>6. QED
      BY <1>2, <2>3, <2>4, <2>5
  <1>3. QED
    BY <1>1, <1>2

LEMMA DataInHive ==
  ASSUME NEW h, NEW data, HiveData(h, data), NEW i \in DOMAIN data
  PROVE  data[i] \in Int /\ data[i] \in HeldInHive(h)
  BY DEF HiveData, ToSet

LEMMA ValuesFacts ==
  ASSUME NEW h, IsHive(h), NEW c, Sig(h, c) = "nk"
  PROVE  /\ IsList(Values(h, c))
         /\ \A v \in ToSet(Values(h, c)) : HiveData(h, v.data)
  <1> DEFINE s == h.cells[c].values
             I == {i \in DOMAIN s : GoodValue(h, s[i])}
             good == Picked(s, I)
             vs == [i \in DOMAIN good |-> ValueAt(h, good[i])]
  <1>1. s \in Seq(Int)
    BY CellHeld
  <1>2. Values(h, c) = vs
    BY DEF Values, Where
  <1>3. IsList(good) /\ ToSet(good) = {s[i] : i \in I}
    <2>1. IsList(s)
      BY <1>1, ListIs
    <2>2. I \in SUBSET DOMAIN s
      OBVIOUS
    <2> HIDE DEF s, I
    <2>3. QED
      BY <2>1, <2>2, WhereIs
  <1>4. \A v \in ToSet(good) : GoodValue(h, v)
    BY <1>3
  <1> HIDE DEF good
  <1>5. Len(good) \in Nat /\ DOMAIN good = 1 .. Len(good) /\ \A i \in 1 .. Len(good) : good[i] \in ToSet(good)
    BY <1>3 DEF IsList
  <1>6. ASSUME NEW v, GoodValue(h, v) PROVE HiveData(h, ValueAt(h, v).data)
    <2>1. Sig(h, v) = "vk" /\ (h.cells[v].inline \/ Sig(h, h.cells[v].at) = "data")
      BY <1>6 DEF GoodValue
    <2>2. ValueAt(h, v).data = Data(h, h.cells[v])
      BY DEF ValueAt
    <2>3. CASE h.cells[v].inline
      BY <2>1, <2>2, <2>3, CellHeld DEF Data
    <2>4. CASE ~h.cells[v].inline
      <3>1. Sig(h, h.cells[v].at) = "data"
        BY <2>1, <2>4
      <3>2. HiveData(h, h.cells[h.cells[v].at].data)
        BY <3>1, CellHeld
      <3>3. QED
        BY <2>2, <2>4, <3>2 DEF Data
    <2>5. QED
      BY <2>3, <2>4
  <1>7. \A i \in 1 .. Len(good) : HiveData(h, vs[i].data)
    BY <1>4, <1>5, <1>6
  <1>8. vs = [i \in 1 .. Len(good) |-> vs[i]]
    BY <1>5
  <1> HIDE DEF vs
  <1>9. IsList(vs) /\ ToSet(vs) = {vs[i] : i \in 1 .. Len(good)}
    BY <1>5, <1>8, ListFrom
  <1>10. QED
    BY <1>2, <1>7, <1>9

(* The lists of subkeys, through the lists of lists. *)
SubkeysLoop(g, h) ==
  g = [d \in 0 .. MaxNesting + 1 |->
         IF d = 0 THEN [l \in DOMAIN h.cells |-> <<>>] ELSE Expanded(h, g[d - 1])]

LEMMA SubkeysIsList ==
  ASSUME NEW h, IsHive(h), NEW list
  PROVE  IsList(Subkeys(h, list))
  <1> DEFINE L == DOMAIN h.cells
             n == MaxNesting + 1
             D == [L -> Seq(Int)]
             first == [l \in L |-> <<>>]
             After(f) == Expanded(h, f)
             next == [d \in 1 .. n |-> [f \in D |-> After(f)]]
  <1>1. n \in Nat /\ first \in D
    <2>1. <<>> \in Seq(Int)
      OBVIOUS
    <2>2. QED
      BY <2>1 DEF MaxNesting
  <1>2. ASSUME NEW f \in D PROVE After(f) \in D
    <2> SUFFICES ASSUME NEW l \in L PROVE After(f)[l] \in Seq(Int)
      BY DEF Expanded
    <2>1. CASE Sig(h, l) \in {"li", "lf", "lh"}
      <3>1. After(f)[l] = h.cells[l].items
        BY <2>1 DEF Expanded
      <3>2. QED
        BY <2>1, <3>1, CellHeld
    <2>2. CASE Sig(h, l) = "ri"
      <3> DEFINE items == h.cells[l].items
                 ss == [i \in DOMAIN items |-> IF items[i] \in L THEN f[items[i]] ELSE <<>>]
      <3>1. items \in Seq(Int)
        BY <2>2, CellHeld
      <3>2. After(f)[l] = Concat(ss)
        BY <2>2 DEF Expanded
      <3> HIDE DEF items
      <3>3. \A i \in DOMAIN items : ss[i] \in Seq(Int)
        <4>1. <<>> \in Seq(Int)
          OBVIOUS
        <4>2. QED
          BY <4>1
      <3>4. DOMAIN items = 1 .. Len(items) /\ Len(items) \in Nat
        BY <3>1
      <3>5. ss \in Seq(Seq(Int))
        BY <3>3, <3>4
      <3>6. QED
        BY <3>2, <3>5, ConcatFacts
    <2>3. CASE Sig(h, l) \notin {"li", "lf", "lh", "ri"}
      <3>1. After(f)[l] = <<>>
        BY <2>3 DEF Expanded
      <3>2. QED
        BY <3>1
    <2>4. QED
      BY <2>1, <2>2, <2>3
  <1> DEFINE g == CHOOSE e : SubkeysLoop(e, h)
  <1>3. list \in L => Subkeys(h, list) = g[n][list]
    BY DEF Subkeys, SubkeysLoop
  <1>4. \A e : SubkeysLoop(e, h) <=> e = [d \in 0 .. n |-> IF d = 0 THEN first ELSE After(e[d - 1])]
    BY DEF SubkeysLoop
  <1> HIDE DEF n, D, first, After, g
  <1>0. \A nx \in [1 .. n -> [D -> D]] :
          \E e \in [0 .. n -> D] : e[0] = first /\ \A d \in 1 .. n : e[d] = nx[d][e[d - 1]]
    BY <1>1, LoopDefined
  <1>5. \E e : SubkeysLoop(e, h)
    <2>1. next \in [1 .. n -> [D -> D]]
      BY <1>2
    <2>2. PICK e \in [0 .. n -> D] : e[0] = first /\ \A d \in 1 .. n : e[d] = next[d][e[d - 1]]
      BY <1>0, <2>1
    <2>3. \A d \in 0 .. n : e[d] = IF d = 0 THEN first ELSE After(e[d - 1])
      <3>1. \A d \in 1 .. n : d - 1 \in 0 .. n
        BY <1>1
      <3>2. \A d \in 1 .. n : e[d] = After(e[d - 1])
        BY <2>2, <3>1
      <3>3. QED
        BY <1>1, <2>2, <3>2
    <2>4. e = [d \in 0 .. n |-> e[d]]
      BY <2>2
    <2>5. QED
      BY <1>4, <2>3, <2>4
  <1>6. g = [d \in 0 .. n |-> IF d = 0 THEN first ELSE After(g[d - 1])]
    BY <1>4, <1>5 DEF g
  <1>7. \A d \in 0 .. n : g[d] \in D
    <2> DEFINE S == {d \in 0 .. n : g[d] \in D}
    <2>0. \A d \in 0 .. n : g[d] = IF d = 0 THEN first ELSE After(g[d - 1])
      BY <1>6
    <2>1. 0 \in S
      BY <1>1, <2>0
    <2>2. \A d \in 1 .. n : d - 1 \in S => d \in S
      BY <1>1, <1>2, <2>0
    <2> HIDE DEF S
    <2>3. 0 .. n \subseteq S
      BY <1>1, <2>1, <2>2, RangeInduction
    <2>4. QED
      BY <2>3 DEF S
  <1>8. CASE list \in L
    <2>1. g[n] \in D
      BY <1>1, <1>7
    <2>2. g[n][list] \in Seq(Int)
      BY <1>8, <2>1 DEF D
    <2>3. QED
      BY <1>3, <1>8, <2>2, ListIs
  <1>9. CASE list \notin L
    <2>1. Subkeys(h, list) = <<>>
      BY <1>9 DEF Subkeys
    <2>2. QED
      BY <2>1, EmptyList DEF FineList
  <1>10. QED
    BY <1>8, <1>9

IsKey(h, c) == Sig(h, c) = "nk"

LEMMA KeyByPathIs ==
  ASSUME NEW h, NEW path
  PROVE  KeyByPath(h, path) = NoCell \/ IsKey(h, KeyByPath(h, path))
  <1>1. \A c : KeyAt(h, c) = NoCell \/ IsKey(h, KeyAt(h, c))
    BY DEF KeyAt, Parses, IsKey
  <1>2. QED
    BY <1>1 DEF KeyByPath

LEMMA EmptyIsList == IsList(<<>>) /\ ToSet(<<>>) = {}
  BY DEF IsList, ToSet

LEMMA ChildKeysFacts ==
  ASSUME NEW h, IsHive(h), NEW path
  PROVE  IsList(ChildKeys(h, path)) /\ \A s \in ToSet(ChildKeys(h, path)) : IsKey(h, s)
  <1> DEFINE c == KeyByPath(h, path)
             all == Subkeys(h, h.cells[c].list)
             I == {i \in DOMAIN all : Parses(h, all[i]) /\ Named(h, all[i])}
  <1>1. ChildKeys(h, path) = ChildrenOf(h, c)
    BY DEF ChildKeys
  <1>2. CASE c = NoCell \/ ~HasSubkeys(h, c)
    <2>1. ChildrenOf(h, c) = <<>>
      BY <1>2 DEF ChildrenOf
    <2>2. QED
      BY <1>1, <2>1, EmptyIsList
  <1>3. CASE ~(c = NoCell \/ ~HasSubkeys(h, c))
    <2>1. ChildrenOf(h, c) = Picked(all, I)
      BY <1>3 DEF ChildrenOf, Where
    <2>2. IsList(all) /\ I \in SUBSET DOMAIN all
      BY SubkeysIsList
    <2>3. \A i \in I : IsKey(h, all[i])
      BY DEF Parses, IsKey
    <2> HIDE DEF all, I
    <2>4. IsList(Picked(all, I)) /\ ToSet(Picked(all, I)) = {all[i] : i \in I}
      BY <2>2, WhereIs
    <2>5. QED
      BY <1>1, <2>1, <2>3, <2>4
  <1>4. QED
    BY <1>2, <1>3

(* The values of a key but some, named by their positions. *)
LEMMA ListPlaces ==
  ASSUME NEW s, IsList(s)
  PROVE  Len(s) \in Nat /\ DOMAIN s = 1 .. Len(s) /\ \A i \in 1 .. Len(s) : s[i] \in ToSet(s)
  BY DEF IsList

LEMMA KeyShapes ==
  ASSUME NEW a \in Int, NEW b \in Int, NEW c \in Int, NEW d \in Int
  PROVE  /\ <<a>> \in [1 .. 1 -> Int]
         /\ <<a>> \o <<b, c>> \o <<d>> \in [1 .. 4 -> Int]
         /\ <<a, b>> \o <<c>> \in [1 .. 3 -> Int]
         /\ <<a, b>> \o <<c, d>> \in [1 .. 4 -> Int]
  <1>1. /\ <<a>> \in Seq(Int) /\ <<a, b>> \in Seq(Int) /\ <<b, c>> \in Seq(Int) /\ <<c>> \in Seq(Int)
        /\ <<c, d>> \in Seq(Int) /\ <<d>> \in Seq(Int)
    OBVIOUS
  <1>2. \A s \in Seq(Int) : s \in [1 .. Len(s) -> Int]
    OBVIOUS
  <1>3. <<a>> \o <<b, c>> \in Seq(Int) /\ Len(<<a>> \o <<b, c>>) = 3
    BY <1>1
  <1>4. <<a>> \o <<b, c>> \o <<d>> \in Seq(Int) /\ Len(<<a>> \o <<b, c>> \o <<d>>) = 4
    BY <1>1, <1>3
  <1>5. <<a, b>> \o <<c>> \in Seq(Int) /\ Len(<<a, b>> \o <<c>>) = 3
    BY <1>1
  <1>6. <<a, b>> \o <<c, d>> \in Seq(Int) /\ Len(<<a, b>> \o <<c, d>>) = 4
    BY <1>1
  <1>7. <<a>> \in [1 .. 1 -> Int]
    OBVIOUS
  <1>8. QED
    BY <1>2, <1>4, <1>5, <1>6, <1>7

LEMMA TimedFirstIs ==
  ASSUME NEW t \in Int
  PROVE  \E a, b \in Int : TimedFirst(t) = <<a, b>>
  BY DEF TimedFirst

(* A list of keyed entries, made item by item of another list. *)
LEMMA KeyedFrom ==
  ASSUME NEW m \in Nat, NEW s, s = [i \in 1 .. m |-> s[i]], NEW n, NEW f,
         \A i \in 1 .. m : FineKeyed(s[i], n, f)
  PROVE  FineKeys(s, n, f)
  <1>1. IsList(s) /\ ToSet(s) = {s[i] : i \in 1 .. m}
    BY ListFrom
  <1>2. QED
    BY <1>1 DEF FineKeys

LEMMA KeyedIs ==
  ASSUME NEW e, NEW k, NEW n, NEW f, Fine(e, f), k \in [1 .. n -> Int]
  PROVE  FineKeyed(Keyed(e, k), n, f)
  BY DEF Keyed, FineKeyed

-----------------------------------------------------------------------------
(* Lists of what was used last. *)

LEMMA MruOrderFacts ==
  ASSUME NEW h, NEW vs, IsList(vs), \A v \in ToSet(vs) : HiveData(h, v.data)
  PROVE  MruOrder(vs) \in Seq(Int)
  <1> DEFINE I == {i \in DOMAIN vs : vs[i].name \in MruLists}
             lists == Picked(vs, I)
             l == Head(lists)
             ends == {i \in DOMAIN l.data : l.name = "MRUListEx" /\ l.data[i] = Terminator}
             at == CHOOSE i \in ends : \A j \in ends : i <= j
  <1>1. IsList(lists) /\ ToSet(lists) = {vs[i] : i \in I}
    BY WhereIs
  <1>2. MruOrder(vs) = IF lists = <<>> THEN <<>> ELSE IF ends = {} THEN l.data ELSE SubSeq(l.data, 1, at - 1)
    BY DEF MruOrder, Where
  <1>3. CASE lists = <<>>
    BY <1>2, <1>3
  <1>4. CASE lists # <<>>
    <2>1. l \in ToSet(vs)
      <3>1. l \in ToSet(lists)
        BY <1>1, <1>4 DEF IsList
      <3> HIDE DEF l, lists
      <3>2. QED
        BY <1>1, <3>1 DEF ToSet
    <2>2. l.data \in Seq(Int)
      BY <2>1 DEF HiveData
    <2>3. CASE ends = {}
      BY <1>2, <1>4, <2>2, <2>3
    <2>4. CASE ends # {}
      <3>1. ends \subseteq 1 .. Len(l.data) /\ Len(l.data) \in Nat
        <4>1. DOMAIN l.data = 1 .. Len(l.data) /\ Len(l.data) \in Nat
          BY <2>2
        <4> HIDE DEF l
        <4>2. QED
          BY <4>1
      <3>2. at \in ends
        <4> HIDE DEF ends
        <4>1. ends \in SUBSET Nat
          BY <3>1
        <4>2. \E i \in ends : \A j \in ends : i <= j
          BY <2>4, <4>1, LeastNatural
        <4>3. QED
          BY <4>2
      <3>3. at \in 1 .. Len(l.data)
        BY <3>1, <3>2
      <3> HIDE DEF at, l
      <3>4. SubSeq(l.data, 1, at - 1) \in Seq(Int)
        BY <2>2, <3>3
      <3>5. QED
        BY <1>2, <1>4, <2>4, <3>4
    <2>5. QED
      BY <2>3, <2>4
  <1>5. QED
    BY <1>3, <1>4

LEMMA MruEntriesAreKeyed ==
  ASSUME NEW f, NEW h, IsHive(h), NEW c, IsKey(h, c), NEW kind \in {"run_mru", "recent_doc"}, NEW group
  PROVE  FineKeys(MruEntries(h, c, kind, group), 4, f)
  <1> DEFINE all == Values(h, c)
             I == {i \in DOMAIN all : all[i].name \notin MruLists}
             vs == Picked(all, I)
             order == MruOrder(all)
             pos(v) == {i \in DOMAIN order : SlotName[order[i] + 1] = v.name}
             slot(v) == IF pos(v) = {} THEN <<1, 0>> ELSE <<0, Min(pos(v))>>
             key(v) == <<Rank(group)>> \o slot(v) \o <<Rank(v.name)>>
             s == [i \in DOMAIN vs |-> Keyed(Entry(kind, NoTime, <<c, vs[i].name>>), key(vs[i]))]
  <1>1. MruEntries(h, c, kind, group) = s
    BY DEF MruEntries, MruKey, Where
  <1>2. IsList(all) /\ \A v \in ToSet(all) : HiveData(h, v.data)
    BY ValuesFacts DEF IsKey
  <1>3. IsList(vs)
    BY <1>2, WhereIs
  <1>4. order \in Seq(Int)
    BY <1>2, MruOrderFacts
  <1>5. \A v : key(v) \in [1 .. 4 -> Int]
    <2> SUFFICES ASSUME NEW v PROVE key(v) \in [1 .. 4 -> Int]
      OBVIOUS
    <2>1. pos(v) \in SUBSET Nat
      BY <1>4
    <2>2. \E a, b \in Int : slot(v) = <<a, b>>
      <3> HIDE DEF pos
      <3>1. CASE pos(v) = {}
        BY <3>1
      <3>2. CASE pos(v) # {}
        <4>1. \E x \in pos(v) : \A y \in pos(v) : x <= y
          BY <2>1, <3>2, LeastNatural
        <4>2. Min(pos(v)) \in pos(v)
          BY <4>1 DEF Min
        <4>3. Min(pos(v)) \in Int
          BY <2>1, <4>2
        <4>4. QED
          BY <3>2, <4>3
      <3>3. QED
        BY <3>1, <3>2
    <2>3. PICK a \in Int, b \in Int : slot(v) = <<a, b>>
      BY <2>2
    <2>4. Rank(group) \in Int /\ Rank(v.name) \in Int
      BY RankFacts
    <2> HIDE DEF slot
    <2> DEFINE x == Rank(group)
               y == Rank(v.name)
    <2>5. <<x>> \o <<a, b>> \o <<y>> \in [1 .. 4 -> Int]
      <3>1. x \in Int /\ y \in Int
        BY <2>4
      <3> HIDE DEF x, y
      <3>2. QED
        BY <3>1, KeyShapes
    <2>6. QED
      BY <2>3, <2>5
  <1> HIDE DEF vs, key
  <1>6. Len(vs) \in Nat /\ DOMAIN vs = 1 .. Len(vs)
    BY <1>3, ListPlaces
  <1>7. \A i \in 1 .. Len(vs) : FineKeyed(s[i], 4, f)
    <2> SUFFICES ASSUME NEW i \in 1 .. Len(vs) PROVE FineKeyed(s[i], 4, f)
      OBVIOUS
    <2>1. Fine(Entry(kind, NoTime, <<c, vs[i].name>>), f)
      <3>1. kind \in DOMAIN EventTypes /\ EventTypes[kind][2] # NoEvent
        BY DEF EventTypes, NoEvent
      <3>2. QED
        BY <3>1, PlainEntry
    <2>2. s[i] = Keyed(Entry(kind, NoTime, <<c, vs[i].name>>), key(vs[i]))
      BY <1>6
    <2>3. QED
      BY <1>5, <2>1, <2>2, KeyedIs
  <1>8. s = [i \in 1 .. Len(vs) |-> s[i]]
    BY <1>6
  <1> HIDE DEF s
  <1>9. FineKeys(s, 4, f)
    BY <1>6, <1>7, <1>8, KeyedFrom
  <1>10. QED
    BY <1>1, <1>9

-----------------------------------------------------------------------------
(* The providers of hives. *)

OfHive(p) == p.format = "hive" /\ IsHive(p.hive)

LEMMA HiveTimes ==
  ASSUME NEW p, OfHive(p)
  PROVE  /\ p.format # "cfbf" /\ Held(p) = HeldInHive(p.hive)
         /\ \A c : IsKey(p.hive, c) => TimeOf(FileTime(p.hive.cells[c].time), p)
         /\ \A data : HiveData(p.hive, data) => \A i \in DOMAIN data : TimeOf(FileTime(data[i]), p)
  <1>1. p.format # "cfbf" /\ Held(p) = HeldInHive(p.hive)
    BY DEF OfHive, Held
  <1>2. ASSUME NEW c, IsKey(p.hive, c) PROVE TimeOf(FileTime(p.hive.cells[c].time), p)
    BY <1>1, <1>2, CellHeld, FileTimeIs DEF IsKey, OfHive
  <1>3. ASSUME NEW data, HiveData(p.hive, data), NEW i \in DOMAIN data PROVE TimeOf(FileTime(data[i]), p)
    BY <1>1, <1>3, DataInHive, FileTimeIs
  <1>4. QED
    BY <1>1, <1>2, <1>3

LEMMA TimeIsNumber ==
  ASSUME NEW t, NEW f, TimeOf(t, f)
  PROVE  t \in Int
  BY DEF TimeOf, NoTime

LEMMA RunMruIsFair ==
  ASSUME NEW p, OfHive(p)
  PROVE  FairResult(RunMru(p.hive), p)
  <1> DEFINE h == p.hive
             c == KeyByPath(h, <<"Explorer", "RunMRU">>)
             s == MruEntries(h, c, "run_mru", "")
  <1>1. RunMru(h) = IF c = NoCell THEN Unsupported({}) ELSE Found(Sorted(s), {})
    BY DEF RunMru
  <1>2. c = NoCell \/ IsKey(h, c)
    BY KeyByPathIs
  <1> HIDE DEF c
  <1>3. CASE c = NoCell
    BY <1>1, <1>3, NoneIsFair
  <1>4. CASE c # NoCell
    <2>1. FineKeys(s, 4, p)
      BY <1>2, <1>4, MruEntriesAreKeyed DEF OfHive
    <2>2. FineList(Sorted(s), p)
      BY <2>1, SortedIsFine
    <2>3. QED
      BY <1>1, <1>4, <2>2, FoundIsFair
  <1>5. QED
    BY <1>3, <1>4

LEMMA TypedPathsAreFine ==
  ASSUME NEW p, OfHive(p)
  PROVE  FineList(TypedPaths(p.hive), p)
  <1> DEFINE h == p.hive
             c == KeyByPath(h, <<"Explorer", "TypedPaths">>)
             all == Values(h, c)
             I == {i \in DOMAIN all : all[i].name \in Urls}
             vs == IF c = NoCell THEN <<>> ELSE Picked(all, I)
             s == [i \in DOMAIN vs |-> Keyed(Entry("typed_path", NoTime, <<c, vs[i].name>>), <<Rank(vs[i].name)>>)]
  <1>1. TypedPaths(h) = Sorted(s)
    BY DEF TypedPaths, Where
  <1>2. c = NoCell \/ IsKey(h, c)
    BY KeyByPathIs
  <1>3. IsList(vs)
    <2>1. CASE c = NoCell
      BY <2>1, EmptyIsList
    <2>2. CASE c # NoCell
      <3>1. IsList(all)
        BY <1>2, <2>2, ValuesFacts DEF OfHive, IsKey
      <3>2. IsList(Picked(all, I))
        BY <3>1, WhereIs
      <3>3. QED
        BY <2>2, <3>2
    <2>3. QED
      BY <2>1, <2>2
  <1> HIDE DEF vs, c
  <1>4. Len(vs) \in Nat /\ DOMAIN vs = 1 .. Len(vs)
    BY <1>3, ListPlaces
  <1>5. ASSUME NEW i \in 1 .. Len(vs) PROVE FineKeyed(s[i], 1, p)
    <2>1. Fine(Entry("typed_path", NoTime, <<c, vs[i].name>>), p)
      <3>1. "typed_path" \in DOMAIN EventTypes /\ EventTypes["typed_path"][2] # NoEvent
        BY DEF EventTypes, NoEvent
      <3>2. QED
        BY <3>1, PlainEntry
    <2>2. <<Rank(vs[i].name)>> \in [1 .. 1 -> Int]
      BY RankFacts
    <2>3. s[i] = Keyed(Entry("typed_path", NoTime, <<c, vs[i].name>>), <<Rank(vs[i].name)>>)
      BY <1>4
    <2>4. QED
      BY <2>1, <2>2, <2>3, KeyedIs
  <1>6. s = [i \in 1 .. Len(vs) |-> s[i]]
    BY <1>4
  <1> HIDE DEF s
  <1>7. FineKeys(s, 1, p)
    BY <1>4, <1>5, <1>6, KeyedFrom
  <1>8. QED
    BY <1>1, <1>7, SortedIsFine

LEMMA RecentDocsIsFair ==
  ASSUME NEW p, OfHive(p)
  PROVE  FairResult(RecentDocs(p.hive), p)
  <1> DEFINE h == p.hive
             typed == TypedPaths(h)
             base == KeyByPath(h, <<"Explorer", "RecentDocs">>)
             below == ChildKeys(h, <<"Explorer", "RecentDocs">>)
             top == MruEntries(h, base, "recent_doc", "(all)")
             ss == [i \in DOMAIN below |-> MruEntries(h, below[i], "recent_doc", h.cells[below[i]].name)]
             recent == Sorted(top \o Concat(ss))
  <1>1. RecentDocs(h) = IF base = NoCell
                          THEN IF typed = <<>> THEN Unsupported({}) ELSE Result("partial", {}, "none", typed)
                          ELSE Found(typed \o recent, {})
    BY DEF RecentDocs
  <1>2. FineList(typed, p)
    BY TypedPathsAreFine
  <1>3. base = NoCell \/ IsKey(h, base)
    BY KeyByPathIs
  <1>4. IsList(below) /\ \A c \in ToSet(below) : IsKey(h, c)
    BY ChildKeysFacts DEF OfHive
  <1> HIDE DEF typed, base, below
  <1>5. Len(below) \in Nat /\ DOMAIN below = 1 .. Len(below) /\ \A i \in 1 .. Len(below) : IsKey(h, below[i])
    BY <1>4, ListPlaces
  <1>6. CASE base = NoCell
    <2>1. FairResult(Result("partial", {}, "none", typed), p)
      BY <1>2 DEF FairResult, Candid, Result
    <2>2. QED
      BY <1>1, <1>6, <2>1, NoneIsFair
  <1>7. CASE base # NoCell
    <2>1. FineKeys(top, 4, p)
      BY <1>3, <1>7, MruEntriesAreKeyed DEF OfHive
    <2>2. \A i \in 1 .. Len(below) : FineKeys(ss[i], 4, p)
      BY <1>5, MruEntriesAreKeyed DEF OfHive
    <2>3. ss = [i \in 1 .. Len(below) |-> ss[i]]
      BY <1>5
    <2> HIDE DEF ss, top
    <2>4. FineKeys(Concat(ss), 4, p)
      BY <1>5, <2>2, <2>3, ConcatIsKeyed
    <2>5. FineKeys(top \o Concat(ss), 4, p)
      BY <2>1, <2>4, JoinIsKeyed
    <2>6. FineList(recent, p)
      BY <2>5, SortedIsFine
    <2> HIDE DEF recent
    <2>7. FineList(typed \o recent, p)
      BY <1>2, <2>6, JoinIsFine
    <2>8. QED
      BY <1>1, <1>7, <2>7, FoundIsFair
  <1>8. QED
    BY <1>6, <1>7

LEMMA UserAssistIsFair ==
  ASSUME NEW p, OfHive(p)
  PROVE  FairResult(UserAssist(p.hive), p)
  <1> DEFINE h == p.hive
             guids == ChildKeys(h, <<"Explorer", "UserAssist">>)
             count(g) == KeyByPath(h, <<"Explorer", "UserAssist", h.cells[g].name, "Count">>)
             ran(v) == IF Len(v.data) < 2 THEN NoTime ELSE FileTime(v.data[2])
             keyed(c, v) == Keyed(Entry("program", ran(v), <<c, v.name>>), <<Rank(Rot13(v.name))>>)
             used(c) == IF c = NoCell THEN <<>> ELSE [i \in DOMAIN Values(h, c) |-> keyed(c, Values(h, c)[i])]
             ss == [i \in DOMAIN guids |-> used(count(guids[i]))]
  <1>1. UserAssist(h) = IF guids = <<>> THEN Unsupported({}) ELSE Found(Sorted(Concat(ss)), {})
    BY DEF UserAssist
  <1>2. IsList(guids)
    BY ChildKeysFacts DEF OfHive
  <1>3. Len(guids) \in Nat /\ DOMAIN guids = 1 .. Len(guids)
    BY <1>2, ListPlaces
  <1>4. ASSUME NEW v, HiveData(h, v.data), NEW c PROVE FineKeyed(keyed(c, v), 1, p)
    <2>1. TimeOf(ran(v), p)
      <3>1. CASE Len(v.data) < 2
        BY <3>1 DEF TimeOf
      <3>2. CASE ~(Len(v.data) < 2)
        <4>1. 2 \in DOMAIN v.data
          BY <1>4, <3>2 DEF HiveData
        <4>2. QED
          BY <1>4, <3>2, <4>1, HiveTimes
      <3>3. QED
        BY <3>1, <3>2
    <2>2. "program" \in DOMAIN EventTypes /\ EventTypes["program"][1] # NoEvent /\ EventTypes["program"][2] # NoEvent
      BY DEF EventTypes, NoEvent
    <2> HIDE DEF ran
    <2>3. Fine(Entry("program", ran(v), <<c, v.name>>), p)
      BY <2>1, <2>2, DatedEntry, HiveTimes
    <2>4. <<Rank(Rot13(v.name))>> \in [1 .. 1 -> Int]
      BY RankFacts
    <2>5. QED
      BY <2>3, <2>4, KeyedIs
  <1> HIDE DEF keyed, ran
  <1>5. ASSUME NEW c, c = NoCell \/ IsKey(h, c) PROVE FineKeys(used(c), 1, p)
    <2>1. CASE c = NoCell
      BY <2>1, EmptyList
    <2>2. CASE c # NoCell
      <3> DEFINE vs == Values(h, c)
                 s == [i \in DOMAIN vs |-> keyed(c, vs[i])]
      <3>1. IsList(vs) /\ \A v \in ToSet(vs) : HiveData(h, v.data)
        BY <1>5, <2>2, ValuesFacts DEF OfHive, IsKey
      <3>2. used(c) = s
        BY <2>2
      <3> HIDE DEF vs
      <3>3. Len(vs) \in Nat /\ DOMAIN vs = 1 .. Len(vs) /\ \A i \in 1 .. Len(vs) : HiveData(h, vs[i].data)
        BY <3>1, ListPlaces
      <3>4. \A i \in 1 .. Len(vs) : FineKeyed(s[i], 1, p)
        BY <1>4, <3>3
      <3>5. s = [i \in 1 .. Len(vs) |-> s[i]]
        BY <3>3
      <3> HIDE DEF s
      <3>6. FineKeys(s, 1, p)
        BY <3>3, <3>4, <3>5, KeyedFrom
      <3>7. QED
        BY <3>2, <3>6
    <2>3. QED
      BY <2>1, <2>2
  <1>6. \A g : count(g) = NoCell \/ IsKey(h, count(g))
    BY KeyByPathIs
  <1> HIDE DEF used, count, guids
  <1>7. \A i \in 1 .. Len(guids) : FineKeys(ss[i], 1, p)
    BY <1>3, <1>5, <1>6
  <1>8. ss = [i \in 1 .. Len(guids) |-> ss[i]]
    BY <1>3
  <1> HIDE DEF ss
  <1>9. FineKeys(Concat(ss), 1, p)
    BY <1>3, <1>7, <1>8, ConcatIsKeyed
  <1>10. FineList(Sorted(Concat(ss)), p)
    BY <1>9, SortedIsFine
  <1>11. QED
    BY <1>1, <1>10, FoundIsFair, NoneIsFair

(* Entries of keys, by the time each was last written. *)
LEMMA TimedKeyed ==
  ASSUME NEW f, f.format # "cfbf", NEW t, TimeOf(t, f), NEW kind \in {"application", "bam", "dam", "service", "device"},
         NEW of, NEW a \in Int, NEW b \in Int
  PROVE  /\ FineKeyed(Keyed(Entry(kind, t, of), TimedFirst(t) \o <<a>>), 3, f)
         /\ FineKeyed(Keyed(Entry(kind, t, of), TimedFirst(t) \o <<a, b>>), 4, f)
         /\ FineKeyed(Keyed(Entry(kind, t, of), <<a>>), 1, f)
  <1>1. kind \in DOMAIN EventTypes /\ EventTypes[kind][1] # NoEvent /\ EventTypes[kind][2] # NoEvent
    BY DEF EventTypes, NoEvent
  <1>2. Fine(Entry(kind, t, of), f)
    BY <1>1, DatedEntry
  <1>3. t \in Int
    BY TimeIsNumber
  <1>4. PICK x \in Int, y \in Int : TimedFirst(t) = <<x, y>>
    BY <1>3, TimedFirstIs
  <1>5. TimedFirst(t) \o <<a>> \in [1 .. 3 -> Int] /\ TimedFirst(t) \o <<a, b>> \in [1 .. 4 -> Int]
    BY <1>4, KeyShapes
  <1>6. <<a>> \in [1 .. 1 -> Int]
    BY KeyShapes
  <1>7. QED
    BY <1>2, <1>5, <1>6, KeyedIs

LEMMA FindValueFacts ==
  ASSUME NEW h, NEW vs, IsList(vs), \A v \in ToSet(vs) : HiveData(h, v.data), NEW name
  PROVE  HiveData(h, FindValue(vs, name).data)
  <1> DEFINE I == {i \in DOMAIN vs : vs[i].name = name}
             hits == Picked(vs, I)
             none == [name |-> "", type |-> 0, data |-> <<>>]
  <1>1. FindValue(vs, name) = IF hits = <<>> THEN none ELSE Head(hits)
    BY DEF FindValue, Where
  <1>2. IsList(hits) /\ ToSet(hits) = {vs[i] : i \in I}
    BY WhereIs
  <1>3. HiveData(h, none.data)
    BY DEF HiveData, ToSet
  <1>4. \A x \in ToSet(hits) : x \in ToSet(vs)
    BY <1>2 DEF ToSet
  <1> HIDE DEF hits, none
  <1>5. hits # <<>> => Head(hits) \in ToSet(hits)
    BY <1>2 DEF IsList
  <1>6. QED
    BY <1>1, <1>3, <1>4, <1>5

LEMMA AmcacheIsFair ==
  ASSUME NEW p, OfHive(p)
  PROVE  FairResult(Amcache(p.hive), p)
  <1> DEFINE h == p.hive
             apps == ChildKeys(h, <<"Root", "InventoryApplication">>)
             at(c) == h.cells[c].time
             says(c) == FileTime(at(c)) # NoTime \/ \E i \in DOMAIN Values(h, c) : Values(h, c)[i].data # <<>>
             path(c) == FindValue(Values(h, c), "LowerCaseLongPath").data
             first(c) == IF path(c) = <<>> THEN 0 ELSE path(c)[1]
             key(c) == TimedFirst(FileTime(at(c))) \o <<first(c)>>
             I == {i \in DOMAIN apps : says(apps[i])}
             kept == Picked(apps, I)
             s == [i \in DOMAIN kept |-> Keyed(Entry("application", FileTime(at(kept[i])), kept[i]), key(kept[i]))]
  <1>1. Amcache(h) = IF apps = <<>> THEN Unsupported({}) ELSE Found(Sorted(s), {})
    BY DEF Amcache, Where
  <1>2. IsList(apps) /\ \A c \in ToSet(apps) : IsKey(h, c)
    BY ChildKeysFacts DEF OfHive
  <1>3. IsList(kept) /\ ToSet(kept) = {apps[i] : i \in I}
    <2> HIDE DEF says, apps
    <2>1. QED
      BY <1>2, WhereIs
  <1>4. \A c \in ToSet(kept) : IsKey(h, c)
    BY <1>2, <1>3 DEF ToSet
  <1> HIDE DEF apps, kept, says
  <1>5. Len(kept) \in Nat /\ DOMAIN kept = 1 .. Len(kept) /\ \A i \in 1 .. Len(kept) : IsKey(h, kept[i])
    BY <1>3, <1>4, ListPlaces
  <1>6. ASSUME NEW c, IsKey(h, c) PROVE FineKeyed(Keyed(Entry("application", FileTime(at(c)), c), key(c)), 3, p)
    <2>1. HiveData(h, path(c))
      <3>1. IsList(Values(h, c)) /\ \A v \in ToSet(Values(h, c)) : HiveData(h, v.data)
        BY <1>6, ValuesFacts DEF OfHive, IsKey
      <3>2. QED
        BY <3>1, FindValueFacts
    <2>2. first(c) \in Int
      <3> HIDE DEF path
      <3>1. path(c) \in Seq(Int)
        BY <2>1 DEF HiveData
      <3>2. QED
        BY <3>1
    <2>3. TimeOf(FileTime(at(c)), p) /\ p.format # "cfbf"
      BY <1>6, HiveTimes
    <2> HIDE DEF first, at
    <2>4. QED
      BY <2>2, <2>3, TimedKeyed
  <1> HIDE DEF key, at
  <1>7. \A i \in 1 .. Len(kept) : FineKeyed(s[i], 3, p)
    BY <1>5, <1>6
  <1>8. s = [i \in 1 .. Len(kept) |-> s[i]]
    BY <1>5
  <1> HIDE DEF s
  <1>9. FineKeys(s, 3, p)
    BY <1>5, <1>7, <1>8, KeyedFrom
  <1>10. FineList(Sorted(s), p)
    BY <1>9, SortedIsFine
  <1>11. QED
    BY <1>1, <1>10, FoundIsFair, NoneIsFair

LEMMA BamDamIsFair ==
  ASSUME NEW p, OfHive(p)
  PROVE  FairResult(BamDam(p.hive), p)
  <1> DEFINE h == p.hive
             set == ControlSet(h)
             sids(source) == ChildKeys(h, <<set.name, "Services", source, "UserSettings">>)
             J(c) == {i \in DOMAIN Values(h, c) : Values(h, c)[i].name # "Version"}
             vals(c) == Picked(Values(h, c), J(c))
             keyed(source, c, v) == Keyed(Entry(source, Blob(v.data), <<c, v.name>>),
                                          TimedFirst(Blob(v.data)) \o <<Rank(source), Rank(v.name)>>)
             ran(source, c) == [i \in DOMAIN vals(c) |-> keyed(source, c, vals(c)[i])]
             ss(source) == [i \in DOMAIN sids(source) |-> ran(source, sids(source)[i])]
             entries == Sorted(Concat(ss("bam")) \o Concat(ss("dam")))
  <1>1. BamDam(h) = IF entries = <<>> THEN Unsupported(set.warnings) ELSE Found(entries, set.warnings)
    BY DEF BamDam, Where
  <1>2. ASSUME NEW v, HiveData(h, v.data), NEW source \in {"bam", "dam"}, NEW c
        PROVE  FineKeyed(keyed(source, c, v), 4, p)
    <2>1. TimeOf(Blob(v.data), p)
      <3>1. v.data \in Seq(Int)
        BY <1>2 DEF HiveData
      <3>2. CASE v.data = <<>>
        BY <3>2 DEF Blob, TimeOf
      <3>3. CASE v.data # <<>>
        <4>1. 1 \in DOMAIN v.data /\ Len(v.data) \in DOMAIN v.data
          BY <3>1, <3>3
        <4>2. TimeOf(FileTime(v.data[1]), p) /\ TimeOf(FileTime(v.data[Len(v.data)]), p)
          BY <1>2, <4>1, HiveTimes
        <4>3. QED
          BY <3>3, <4>2 DEF Blob, Last
      <3>4. QED
        BY <3>2, <3>3
    <2>2. Rank(source) \in Int /\ Rank(v.name) \in Int /\ p.format # "cfbf"
      BY RankFacts, HiveTimes
    <2>3. QED
      BY <2>1, <2>2, TimedKeyed
  <1> HIDE DEF keyed
  <1>3. ASSUME NEW source \in {"bam", "dam"}, NEW c, IsKey(h, c) PROVE FineKeys(ran(source, c), 4, p)
    <2> DEFINE vs == vals(c)
               s == [i \in DOMAIN vs |-> keyed(source, c, vs[i])]
    <2>1. IsList(Values(h, c)) /\ \A v \in ToSet(Values(h, c)) : HiveData(h, v.data)
      BY <1>3, ValuesFacts DEF OfHive, IsKey
    <2>2. IsList(vs) /\ ToSet(vs) = {Values(h, c)[i] : i \in J(c)}
      BY <2>1, WhereIs
    <2>3. \A v \in ToSet(vs) : HiveData(h, v.data)
      BY <2>1, <2>2 DEF ToSet
    <2>4. ran(source, c) = s
      OBVIOUS
    <2> HIDE DEF vs, ran
    <2>5. Len(vs) \in Nat /\ DOMAIN vs = 1 .. Len(vs) /\ \A i \in 1 .. Len(vs) : HiveData(h, vs[i].data)
      BY <2>2, <2>3, ListPlaces
    <2>6. \A i \in 1 .. Len(vs) : FineKeyed(s[i], 4, p)
      BY <1>2, <2>5
    <2>7. s = [i \in 1 .. Len(vs) |-> s[i]]
      BY <2>5
    <2> HIDE DEF s
    <2>8. FineKeys(s, 4, p)
      BY <2>5, <2>6, <2>7, KeyedFrom
    <2>9. QED
      BY <2>4, <2>8
  <1> HIDE DEF ran
  <1>4. ASSUME NEW source \in {"bam", "dam"} PROVE FineKeys(Concat(ss(source)), 4, p)
    <2> DEFINE cs == sids(source)
               s == ss(source)
    <2>1. IsList(cs) /\ \A c \in ToSet(cs) : IsKey(h, c)
      BY ChildKeysFacts DEF OfHive
    <2>2. s = [i \in DOMAIN cs |-> ran(source, cs[i])]
      OBVIOUS
    <2> HIDE DEF cs, s
    <2>3. Len(cs) \in Nat /\ DOMAIN cs = 1 .. Len(cs) /\ \A i \in 1 .. Len(cs) : IsKey(h, cs[i])
      BY <2>1, ListPlaces
    <2>4. s = [i \in 1 .. Len(cs) |-> s[i]] /\ \A i \in 1 .. Len(cs) : s[i] = ran(source, cs[i])
      BY <2>2, <2>3
    <2>5. \A i \in 1 .. Len(cs) : FineKeys(s[i], 4, p)
      BY <1>3, <2>3, <2>4
    <2>6. FineKeys(Concat(s), 4, p)
      BY <2>3, <2>4, <2>5, ConcatIsKeyed
    <2>7. QED
      BY <2>6 DEF s
  <1> HIDE DEF ss
  <1>5. FineKeys(Concat(ss("bam")) \o Concat(ss("dam")), 4, p)
    BY <1>4, JoinIsKeyed
  <1>6. FineList(entries, p)
    BY <1>5, SortedIsFine
  <1> HIDE DEF entries
  <1>7. QED
    BY <1>1, <1>6, FoundIsFair, NoneIsFair

LEMMA AppCompatCacheIsFair ==
  ASSUME NEW p, OfHive(p)
  PROVE  FairResult(AppCompatCache(p.hive), p)
  <1> DEFINE h == p.hive
             set == ControlSet(h)
             c == KeyByPath(h, <<set.name, "AppCompatCache">>)
             v == FindValue(Values(h, c), "AppCompatCache")
             paths == {v.data[i] : i \in DOMAIN v.data} \ {NoPath, HalfCharacter}
             all == set.warnings \union (IF v.type # Binary THEN {"value type"} ELSE {})
                      \union (IF Last(v.data) = HalfCharacter THEN {"odd length"} ELSE {})
             sorted == Arranged(paths, {x \in paths \X paths : x[1] < x[2]})
             s == [i \in DOMAIN sorted |-> Entry("path", NoTime, <<c, sorted[i]>>)]
  <1>1. AppCompatCache(h) =
          IF c = NoCell THEN NotThere(set.warnings)
          ELSE IF v.name # "AppCompatCache" THEN Unsupported(set.warnings)
          ELSE IF v.data = <<>> THEN Partial(set.warnings)
          ELSE IF paths = {} THEN NotThere(all)
          ELSE Found(s, all)
    BY Zenon DEF AppCompatCache, CachedPaths
  <1>2. c = NoCell \/ IsKey(h, c)
    BY KeyByPathIs
  <1> HIDE DEF c, all
  <1>3. ASSUME c # NoCell PROVE FineList(s, p)
    <2>1. IsList(Values(h, c)) /\ \A x \in ToSet(Values(h, c)) : HiveData(h, x.data)
      BY <1>2, <1>3, ValuesFacts DEF OfHive, IsKey
    <2>2. HiveData(h, v.data)
      BY <2>1, FindValueFacts
    <2> HIDE DEF v
    <2>3. v.data \in Seq(Int)
      BY <2>2 DEF HiveData
    <2>4. IsFiniteSet(paths)
      <3> DEFINE n == Len(v.data)
                 S == {v.data[i] : i \in 1 .. n}
      <3>1. n \in Nat /\ DOMAIN v.data = 1 .. n
        BY <2>3
      <3>2. IsFiniteSet(1 .. n)
        BY <3>1, FS_Interval
      <3>3. IsFiniteSet(S)
        <4> DEFINE g == [i \in 1 .. n |-> v.data[i]]
        <4>1. g \in Surjection(1 .. n, S)
          BY DEF Surjection
        <4>2. QED
          BY <3>2, <4>1, FS_Surjection
      <3>4. paths \subseteq S
        BY <3>1
      <3>5. QED
        BY <3>3, <3>4, FS_Subset
    <2>5. Cardinality(paths) \in Nat
      BY <2>4, FS_CardinalityType
    <2>6. DOMAIN sorted = 1 .. Cardinality(paths)
      BY DEF Arranged
    <2> DEFINE m == Cardinality(paths)
    <2> HIDE DEF sorted
    <2>7. s = [i \in 1 .. m |-> s[i]] /\ \A i \in 1 .. m : s[i] = Entry("path", NoTime, <<c, sorted[i]>>)
      BY <2>6
    <2>8. \A i \in 1 .. m : Fine(s[i], p)
      <3>1. "path" \in DOMAIN EventTypes /\ EventTypes["path"][2] # NoEvent
        BY DEF EventTypes, NoEvent
      <3>2. QED
        BY <2>7, <3>1, PlainEntry
    <2> HIDE DEF s, m
    <2>9. IsList(s) /\ ToSet(s) = {s[i] : i \in 1 .. m}
      BY <2>5, <2>7, ListFrom DEF m
    <2>10. QED
      BY <2>8, <2>9 DEF FineList
  <1> HIDE DEF s
  <1>4. QED
    BY <1>1, <1>3, FoundIsFair, NoneIsFair

LEMMA ServicesIsFair ==
  ASSUME NEW p, OfHive(p)
  PROVE  FairResult(Services(p.hive), p)
  <1> DEFINE h == p.hive
             set == ControlSet(h)
             base == <<set.name, "Services">>
             below == ChildKeys(h, base)
             name(c) == h.cells[c].name
             dll(c) == KeyByPath(h, base \o <<name(c), "Parameters">>)
             keyed(c) == Keyed(Entry("service", FileTime(h.cells[c].time), <<c, dll(c)>>), <<Rank(name(c))>>)
             s == [i \in DOMAIN below |-> keyed(below[i])]
  <1>1. Services(h) = IF below = <<>> THEN NotThere(set.warnings) ELSE Found(Sorted(s), set.warnings)
    BY DEF Services
  <1>2. IsList(below) /\ \A c \in ToSet(below) : IsKey(h, c)
    BY ChildKeysFacts DEF OfHive
  <1> HIDE DEF below
  <1>3. Len(below) \in Nat /\ DOMAIN below = 1 .. Len(below) /\ \A i \in 1 .. Len(below) : IsKey(h, below[i])
    BY <1>2, ListPlaces
  <1>4. ASSUME NEW c, IsKey(h, c) PROVE FineKeyed(keyed(c), 1, p)
    <2>1. TimeOf(FileTime(h.cells[c].time), p) /\ p.format # "cfbf" /\ Rank(name(c)) \in Int
      BY <1>4, HiveTimes, RankFacts
    <2> HIDE DEF dll, name
    <2>2. QED
      BY <2>1, TimedKeyed
  <1> HIDE DEF keyed
  <1>5. \A i \in 1 .. Len(below) : FineKeyed(s[i], 1, p)
    BY <1>3, <1>4
  <1>6. s = [i \in 1 .. Len(below) |-> s[i]]
    BY <1>3
  <1> HIDE DEF s
  <1>7. FineKeys(s, 1, p)
    BY <1>3, <1>5, <1>6, KeyedFrom
  <1>8. FineList(Sorted(s), p)
    BY <1>7, SortedIsFine
  <1>9. QED
    BY <1>1, <1>8, FoundIsFair, NoneIsFair

LEMMA UsbIsFair ==
  ASSUME NEW p, OfHive(p)
  PROVE  FairResult(Usb(p.hive), p)
  <1> DEFINE h == p.hive
             set == ControlSet(h)
             base == <<set.name, "USBSTOR">>
             devices == ChildKeys(h, base)
             name(c) == h.cells[c].name
             time(c) == FileTime(h.cells[c].time)
             kids(d) == ChildKeys(h, base \o <<name(d)>>)
             keyed(d, c) == Keyed(Entry("device", time(c), <<d, c>>), TimedFirst(time(c)) \o <<Rank(name(d)), Rank(name(c))>>)
             under(d) == [i \in DOMAIN kids(d) |-> keyed(d, kids(d)[i])]
             ss == [i \in DOMAIN devices |-> under(devices[i])]
             entries == Sorted(Concat(ss))
  <1>1. Usb(h) = IF devices = <<>> \/ entries = <<>> THEN NotThere(set.warnings) ELSE Found(entries, set.warnings)
    BY DEF Usb
  <1>2. IsList(devices)
    BY ChildKeysFacts DEF OfHive
  <1>3. ASSUME NEW d, NEW c, IsKey(h, c) PROVE FineKeyed(keyed(d, c), 4, p)
    <2>1. TimeOf(time(c), p) /\ p.format # "cfbf" /\ Rank(name(c)) \in Int /\ Rank(name(d)) \in Int
      BY <1>3, HiveTimes, RankFacts
    <2> HIDE DEF time, name
    <2>2. QED
      BY <2>1, TimedKeyed
  <1> HIDE DEF keyed
  <1>4. ASSUME NEW d PROVE FineKeys(under(d), 4, p)
    <2> DEFINE cs == kids(d)
               s == under(d)
    <2>1. IsList(cs) /\ \A c \in ToSet(cs) : IsKey(h, c)
      BY ChildKeysFacts DEF OfHive
    <2>2. s = [i \in DOMAIN cs |-> keyed(d, cs[i])]
      OBVIOUS
    <2> HIDE DEF cs, s
    <2>3. Len(cs) \in Nat /\ DOMAIN cs = 1 .. Len(cs) /\ \A i \in 1 .. Len(cs) : IsKey(h, cs[i])
      BY <2>1, ListPlaces
    <2>4. s = [i \in 1 .. Len(cs) |-> s[i]] /\ \A i \in 1 .. Len(cs) : s[i] = keyed(d, cs[i])
      BY <2>2, <2>3
    <2>5. \A i \in 1 .. Len(cs) : FineKeyed(s[i], 4, p)
      BY <1>3, <2>3, <2>4
    <2>6. FineKeys(s, 4, p)
      BY <2>3, <2>4, <2>5, KeyedFrom
    <2>7. QED
      BY <2>6 DEF s
  <1> HIDE DEF under, devices
  <1>5. Len(devices) \in Nat /\ DOMAIN devices = 1 .. Len(devices)
    BY <1>2, ListPlaces
  <1>6. ss = [i \in 1 .. Len(devices) |-> ss[i]] /\ \A i \in 1 .. Len(devices) : FineKeys(ss[i], 4, p)
    BY <1>4, <1>5
  <1> HIDE DEF ss
  <1>7. FineKeys(Concat(ss), 4, p)
    BY <1>5, <1>6, ConcatIsKeyed
  <1>8. FineList(entries, p)
    BY <1>7, SortedIsFine
  <1> HIDE DEF entries
  <1>9. QED
    BY <1>1, <1>8, FoundIsFair, NoneIsFair

(* Whatever is read of a hive, a file that is none has failed. *)
LEMMA InHiveIsFair ==
  ASSUME NEW p, IsFile(p), p.read = "none", NEW r, OfHive(p) => FairResult(r, p)
  PROVE  FairResult(InHive(p, r), p)
  <1> DEFINE bad == Failed("not a hive")
  <1>1. InHive(p, r) = IF p.format # "hive" \/ ~Opens(p.hive) THEN bad ELSE r
    BY Zenon DEF InHive
  <1>2. FairResult(bad, p)
    BY NoneIsFair
  <1> HIDE DEF bad
  <1>3. p.format = "hive" => OfHive(p)
    BY DEF IsFile, OfHive
  <1>4. QED
    BY <1>1, <1>2, <1>3

-----------------------------------------------------------------------------
(* The providers of small files. *)

LEMMA OneEntry ==
  ASSUME NEW e, NEW f, Fine(e, f)
  PROVE  FineList(<<e>>, f)
  BY DEF FineList, IsList, ToSet

LEMMA RecycleBinIsFair ==
  ASSUME NEW p, IsFile(p), p.read = "none"
  PROVE  FairResult(RecycleBin(p), p)
  <1> DEFINE bad == Failed("too short")
             W == (IF p.version \in {1, 2} THEN {} ELSE {"version"})
                    \union (IF p.path = "none" THEN {"no original path"} ELSE {})
             e == Entry("deletion", FileTime(p.time), p.path)
  <1>1. RecycleBin(p) = IF p.format # "recycle" THEN bad ELSE Found(<<e>>, W)
    BY Zenon DEF RecycleBin
  <1>2. FairResult(bad, p)
    BY NoneIsFair
  <1> HIDE DEF bad, W
  <1>3. CASE p.format = "recycle"
    <2>1. p.time \in Nat
      BY <1>3 DEF IsFile
    <2>2. p.time \in Held(p)
      BY <1>3 DEF Held
    <2>3. TimeOf(FileTime(p.time), p)
      BY <2>1, <2>2, FileTimeIs
    <2>4. "deletion" \in DOMAIN EventTypes /\ EventTypes["deletion"][1] # NoEvent /\ EventTypes["deletion"][2] # NoEvent
      BY DEF EventTypes, NoEvent
    <2>5. Fine(e, p)
      BY <1>3, <2>3, <2>4, DatedEntry
    <2>6. QED
      BY <1>1, <1>3, <2>5, OneEntry, FoundIsFair
  <1>4. QED
    BY <1>1, <1>2, <1>3

LEMMA LinkEntry ==
  ASSUME NEW f, f.format # "cfbf", NEW t, TimeOf(t, f), NEW kind \in {"created", "modified", "accessed"}, NEW of
  PROVE  Fine(Entry(kind, t, of), f)
  <1> DEFINE e == Entry(kind, t, of)
  <1>1. e.kind = kind /\ e.time = t
    BY DEF Entry
  <1>2. t \in Int /\ kind \in DOMAIN EventTypes
    BY TimeIsNumber DEF EventTypes
  <1> HIDE DEF e
  <1>3. Telling(e)
    BY <1>1, <1>2 DEF Telling
  <1>4. DatedFrom(e, f)
    BY <1>1 DEF DatedFrom, TimeOf
  <1>5. QED
    BY <1>3, <1>4 DEF Fine, e

(* A link's state, and its times where it has any. *)
LEMMA ParseLnkFacts ==
  ASSUME NEW p
  PROVE  /\ ParseLnk(p).error # "none" => ParseLnk(p).state = "failed"
         /\ ParseLnk(p).warnings # {} => ParseLnk(p).state \in {"failed", "partial"}
         /\ \A i \in 1 .. 3 : ParseLnk(p).times[i] \in {NoTime, FileTime(p.times[i])}
  <1> DEFINE ts == [i \in 1 .. 3 |-> FileTime(p.times[i])]
             none == <<NoTime, NoTime, NoTime>>
             short == {"item list truncated"}
  <1>1. \E any, W, V, F :
          \/ p.header # "ok" /\ ParseLnk(p) = Lnk("failed", {}, p.header, {}, none)
          \/ ParseLnk(p) = Lnk("partial", short, "none", {}, ts)
          \/ ParseLnk(p) = Lnk(IF any /\ W = {} THEN "parsed" ELSE "partial", IF any THEN W ELSE W \union V, "none", F, ts)
    <2> DEFINE ids == IF "idlist" \notin p.flags THEN 0 ELSE IF p.body = <<>> THEN 1 ELSE 1 + p.body[1]
               info  == "linkinfo" \in p.flags /\ ids < Len(p.body)
               size  == p.body[ids + 1]
               fits  == size > 0 /\ ids + size <= Len(p.body)
               start == [cursor   |-> IF info THEN ids + size ELSE ids,
                         fields   |-> IF info /\ fits /\ size > 1
                                        THEN {[field |-> "target", at |-> ids + 2]} ELSE {},
                         warnings |-> IF info /\ ~fits THEN {"link information truncated"} ELSE {}]
               end   == ReadStrings(p, start)
               any   == end.fields # {} \/ \E i \in 1 .. 3 : ts[i] # NoTime
               V     == {"no field"}
    <2>1. ParseLnk(p) =
            IF p.header # "ok" THEN Lnk("failed", {}, p.header, {}, none)
            ELSE IF ids > Len(p.body) THEN Lnk("partial", short, "none", {}, ts)
            ELSE Lnk(IF any /\ end.warnings = {} THEN "parsed" ELSE "partial",
                     IF any THEN end.warnings ELSE end.warnings \union V, "none", end.fields, ts)
      BY Zenon DEF ParseLnk
    <2> HIDE DEF ids, info, size, fits, start, end, any, V, ts, none, short
    <2>2. QED
      BY Zenon, <2>1
  <1> HIDE DEF short
  <1>2. PICK any, W, V, F :
          \/ p.header # "ok" /\ ParseLnk(p) = Lnk("failed", {}, p.header, {}, none)
          \/ ParseLnk(p) = Lnk("partial", short, "none", {}, ts)
          \/ ParseLnk(p) = Lnk(IF any /\ W = {} THEN "parsed" ELSE "partial", IF any THEN W ELSE W \union V, "none", F, ts)
    BY <1>1
  <1>3. \A i \in 1 .. 3 : none[i] = NoTime /\ ts[i] = FileTime(p.times[i])
    <2>1. \A i \in 1 .. 3 : i = 1 \/ i = 2 \/ i = 3
      OBVIOUS
    <2>2. QED
      BY <2>1
  <1> HIDE DEF none, ts
  <1>4. QED
    BY <1>2, <1>3 DEF Lnk

LEMMA ShellLinkIsFair ==
  ASSUME NEW p, IsFile(p), p.read = "none"
  PROVE  FairResult(ShellLink(p), p)
  <1> DEFINE bad == Failed("too short")
             l == ParseLnk(p)
             a == Entry("created", l.times[1], l.fields)
             b == Entry("modified", l.times[3], l.fields)
             c == Entry("accessed", l.times[2], l.fields)
             s == <<a, b, c>>
  <1>1. ShellLink(p) = IF p.format # "lnk" THEN bad ELSE Result(l.state, l.warnings, l.error, s)
    BY Zenon DEF ShellLink
  <1>2. FairResult(bad, p)
    BY NoneIsFair
  <1> HIDE DEF bad
  <1>3. CASE p.format = "lnk"
    <2>1. p.times \in [1 .. 3 -> Nat]
      BY <1>3 DEF IsFile, IsLink
    <2>2. Held(p) = ToSet(p.times)
      BY <1>3 DEF Held
    <2>3. \A i \in 1 .. 3 : TimeOf(FileTime(p.times[i]), p)
      <3>1. \A i \in 1 .. 3 : p.times[i] \in Int /\ p.times[i] \in Held(p)
        BY <2>1, <2>2 DEF ToSet
      <3>2. QED
        BY <3>1, FileTimeIs
    <2>4. \A i \in 1 .. 3 : TimeOf(l.times[i], p)
      BY <2>3, ParseLnkFacts DEF TimeOf
    <2>5. /\ l.error # "none" => l.state = "failed"
          /\ l.warnings # {} => l.state \in {"failed", "partial"}
      BY ParseLnkFacts
    <2> HIDE DEF l
    <2>6. 1 \in 1 .. 3 /\ 2 \in 1 .. 3 /\ 3 \in 1 .. 3
      OBVIOUS
    <2>7. Fine(a, p) /\ Fine(b, p) /\ Fine(c, p)
      <3>1. TimeOf(l.times[1], p) /\ TimeOf(l.times[2], p) /\ TimeOf(l.times[3], p) /\ p.format # "cfbf"
        BY <1>3, <2>4, <2>6
      <3>2. QED
        BY <3>1, LinkEntry
    <2> HIDE DEF a, b, c
    <2>8. IsList(s) /\ ToSet(s) = {a, b, c}
      <3>1. s \in Seq({a, b, c}) /\ DOMAIN s = 1 .. 3 /\ s[1] = a /\ s[2] = b /\ s[3] = c
        OBVIOUS
      <3> HIDE DEF s
      <3>2. ToSet(s) = {a, b, c}
        BY <3>1 DEF ToSet
      <3>3. QED
        BY <3>1, <3>2 DEF IsList
    <2>9. FineList(s, p)
      BY <2>7, <2>8 DEF FineList
    <2> HIDE DEF s
    <2>10. FairResult(Result(l.state, l.warnings, l.error, s), p)
      BY <2>5, <2>9 DEF FairResult, Candid, Result
    <2>11. QED
      BY <1>1, <1>3, <2>10
  <1>4. QED
    BY <1>1, <1>2, <1>3

-----------------------------------------------------------------------------
LEMMA ItemIs ==
  ASSUME NEW X, NEW s \in Seq(X), NEW i \in DOMAIN s
  PROVE  s[i] \in X
  OBVIOUS

LEMMA FineFrom ==
  ASSUME NEW n \in Nat, NEW s, s = [i \in 1 .. n |-> s[i]], NEW f, \A i \in 1 .. n : Fine(s[i], f)
  PROVE  FineList(s, f)
  <1>1. IsList(s) /\ ToSet(s) = {s[i] : i \in 1 .. n}
    BY ListFrom
  <1>2. QED
    BY <1>1 DEF FineList

(* The first items of a row of numbers a file holds are such numbers. *)
LEMMA CutIs ==
  ASSUME NEW s \in Seq(Int), NEW n \in Nat
  PROVE  LET t == SubSeq(s, 1, Least(Len(s), n)) IN IsList(t) /\ ToSet(t) \subseteq ToSet(s) /\ ToSet(t) \subseteq Int
  <1> DEFINE m == Least(Len(s), n)
             t == SubSeq(s, 1, m)
  <1>1. m \in 0 .. Len(s)
    BY DEF Least
  <1> HIDE DEF m
  <1>2. t \in Seq(Int) /\ Len(t) = m /\ \A i \in 1 .. m : t[i] = s[i]
    BY <1>1, SubSeqFacts
  <1> HIDE DEF t
  <1>3. ToSet(t) \subseteq ToSet(s)
    <2> SUFFICES ASSUME NEW i \in DOMAIN t PROVE t[i] \in ToSet(s)
      BY DEF ToSet
    <2>1. i \in 1 .. m /\ i \in DOMAIN s
      BY <1>1, <1>2
    <2>2. QED
      BY <1>2, <2>1 DEF ToSet
  <1>4. IsList(t) /\ ToSet(t) \subseteq Int
    BY <1>2, ListIs
  <1>5. QED
    BY <1>3, <1>4 DEF t, m

LEMMA RunEntry ==
  ASSUME NEW f, f.format # "cfbf", NEW t, TimeOf(t, f), t # NoTime, NEW of
  PROVE  Fine(Entry("run", t, of), f)
  <1> DEFINE e == Entry("run", t, of)
  <1>1. e.kind = "run" /\ e.time = t
    BY DEF Entry
  <1>2. t \in Int
    BY TimeIsNumber
  <1>3. "run" \in DOMAIN EventTypes /\ EventTypes["run"][1] # NoEvent
    BY DEF EventTypes, NoEvent
  <1> HIDE DEF e
  <1>4. Telling(e)
    BY <1>1, <1>2, <1>3 DEF Telling, TypeOf
  <1>5. DatedFrom(e, f)
    BY <1>1 DEF DatedFrom, TimeOf
  <1>6. QED
    BY <1>4, <1>5 DEF Fine, e

LEMMA PrefetchIsFair ==
  ASSUME NEW p, IsFile(p), p.read = "none"
  PROVE  FairResult(Prefetch(p), p)
  <1> DEFINE bad == Failed("signature")
             known == p.version \in {17, 23, 26, 30}
             wanted == SubSeq(p.times, 1, Least(Len(p.times), RunTimes(p.version)))
             I == {i \in DOMAIN wanted : FileTime(wanted[i]) # NoTime}
             dates == Picked(wanted, I)
             useful == p.name \/ known \/ dates # <<>>
             said == (IF known THEN {} ELSE {"version"})
                       \union (IF Len(wanted) < RunTimes(p.version) THEN {"times truncated"} ELSE {})
                       \union (IF useful THEN {} ELSE {"no field"})
             runs == [i \in DOMAIN dates |-> Entry("run", FileTime(dates[i]), i)]
             e == Entry("observed", NoTime, 0)
             seen == IF dates = <<>> /\ (p.name \/ known) THEN <<e>> ELSE <<>>
             state == IF useful /\ said = {} THEN "parsed" ELSE "partial"
  <1>1. Prefetch(p) = IF p.format # "pf" THEN bad ELSE Result(state, said, "none", runs \o seen)
    BY Zenon DEF Prefetch, Where
  <1>2. FairResult(bad, p)
    BY NoneIsFair
  <1>3. said # {} => state \in {"failed", "partial"}
    <2> HIDE DEF said, useful
    <2>1. QED
      OBVIOUS
  <1> HIDE DEF bad, said, useful, state
  <1>4. CASE p.format = "pf"
    <2>1. p.times \in Seq(Int) /\ Held(p) = ToSet(p.times)
      <3>1. p.times \in Seq(Nat)
        BY <1>4 DEF IsFile
      <3>2. QED
        BY <1>4, <3>1 DEF Held
    <2>2. RunTimes(p.version) \in Nat
      BY DEF RunTimes
    <2>3. IsList(wanted) /\ ToSet(wanted) \subseteq Held(p) /\ ToSet(wanted) \subseteq Int
      BY <2>1, <2>2, CutIs
    <2> HIDE DEF wanted
    <2>4. I \in SUBSET DOMAIN wanted
      OBVIOUS
    <2>5. IsList(dates) /\ ToSet(dates) = {wanted[i] : i \in I}
      BY <2>3, <2>4, WhereIs
    <2>6. \A t \in ToSet(dates) : FileTime(t) # NoTime /\ TimeOf(FileTime(t), p)
      <3> SUFFICES ASSUME NEW t \in ToSet(dates) PROVE FileTime(t) # NoTime /\ TimeOf(FileTime(t), p)
        OBVIOUS
      <3>1. PICK i \in I : t = wanted[i]
        BY <2>5
      <3>2. FileTime(t) # NoTime /\ i \in DOMAIN wanted
        BY <3>1
      <3>3. t \in ToSet(wanted)
        BY <3>1, <3>2 DEF ToSet
      <3>4. QED
        BY <2>3, <3>2, <3>3, FileTimeIs
    <2> HIDE DEF dates, I
    <2>7. Len(dates) \in Nat /\ DOMAIN dates = 1 .. Len(dates) /\ \A i \in 1 .. Len(dates) : dates[i] \in ToSet(dates)
      BY <2>5, ListPlaces
    <2>8. \A i \in 1 .. Len(dates) : Fine(runs[i], p)
      <3> SUFFICES ASSUME NEW i \in 1 .. Len(dates) PROVE Fine(Entry("run", FileTime(dates[i]), i), p)
        BY <2>7
      <3>1. FileTime(dates[i]) # NoTime /\ TimeOf(FileTime(dates[i]), p) /\ p.format # "cfbf"
        BY <1>4, <2>6, <2>7
      <3>2. QED
        BY <3>1, RunEntry
    <2>9. runs = [i \in 1 .. Len(dates) |-> runs[i]]
      BY <2>7
    <2> HIDE DEF runs
    <2>10. FineList(runs, p)
      BY <2>7, <2>8, <2>9, FineFrom
    <2>11. FineList(seen, p)
      <3>1. "observed" \in DOMAIN EventTypes /\ EventTypes["observed"][2] # NoEvent
        BY DEF EventTypes, NoEvent
      <3>2. Fine(e, p)
        BY <3>1, PlainEntry
      <3> HIDE DEF e
      <3>3. QED
        BY <3>2, OneEntry, EmptyList
    <2> HIDE DEF seen
    <2>12. FineList(runs \o seen, p)
      BY <2>10, <2>11, JoinIsFine
    <2>13. FairResult(Result(state, said, "none", runs \o seen), p)
      BY <1>3, <2>12 DEF FairResult, Candid, Result
    <2>14. QED
      BY <1>1, <1>4, <2>13
  <1>5. QED
    BY <1>1, <1>2, <1>4

LEMMA RowsAreFine ==
  ASSUME NEW f, f.format # "cfbf", NEW table \in Seq(Int), ToSet(table) \subseteq Held(f),
         NEW kind \in {"visit", "download"}
  PROVE  FineList(Rows(table, kind), f)
  <1> DEFINE cut == SubSeq(table, 1, Least(Len(table), RowLimit))
             rs == IF table = NoTable THEN <<>> ELSE cut
             s == [i \in DOMAIN rs |-> Entry(kind, FileTime(rs[i]), i)]
  <1>1. IsList(cut) /\ ToSet(cut) \subseteq ToSet(table) /\ ToSet(cut) \subseteq Int
    BY CutIs, ProvidersAssumption
  <1> HIDE DEF cut
  <1>2. IsList(rs) /\ ToSet(rs) \subseteq Held(f) /\ ToSet(rs) \subseteq Int
    BY <1>1, EmptyIsList
  <1>3. Rows(table, kind) = s
    BY Zenon DEF Rows, cut
  <1> HIDE DEF rs
  <1>4. Len(rs) \in Nat /\ DOMAIN rs = 1 .. Len(rs) /\ \A i \in 1 .. Len(rs) : rs[i] \in ToSet(rs)
    BY <1>2, ListPlaces
  <1>5. kind \in DOMAIN EventTypes /\ EventTypes[kind][1] # NoEvent /\ EventTypes[kind][2] # NoEvent
    BY DEF EventTypes, NoEvent
  <1>6. \A i \in 1 .. Len(rs) : Fine(s[i], f)
    <2> SUFFICES ASSUME NEW i \in 1 .. Len(rs) PROVE Fine(Entry(kind, FileTime(rs[i]), i), f)
      BY <1>4
    <2>1. TimeOf(FileTime(rs[i]), f)
      BY <1>2, <1>4, FileTimeIs
    <2>2. QED
      BY <1>5, <2>1, DatedEntry
  <1>7. s = [i \in 1 .. Len(rs) |-> s[i]]
    BY <1>4
  <1> HIDE DEF s
  <1>8. QED
    BY <1>3, <1>4, <1>6, <1>7, FineFrom

LEMMA HistoryIsFair ==
  ASSUME NEW p, IsFile(p), p.read = "none"
  PROVE  FairResult(History(p), p)
  <1> DEFINE bad == Partial({"visits", "downloads", "no row"})
             a == Rows(p.visits, "visit")
             b == Rows(p.downloads, "download")
             W == {t \in {"visits", "downloads"} : (IF t = "visits" THEN p.visits ELSE p.downloads) = NoTable}
                    \union (IF a \o b = <<>> THEN {"no row"} ELSE {})
  <1>1. History(p) = IF p.format # "sqlite" THEN bad ELSE Found(a \o b, W)
    BY Zenon DEF History
  <1>2. FairResult(bad, p)
    BY NoneIsFair
  <1> HIDE DEF bad, W
  <1>3. CASE p.format = "sqlite"
    <2>1. p.visits \in Seq(Int) /\ p.downloads \in Seq(Int)
      BY <1>3 DEF IsFile
    <2>2. Held(p) = ToSet(p.visits) \union ToSet(p.downloads)
      BY <1>3 DEF Held
    <2>3. FineList(a, p) /\ FineList(b, p)
      BY <1>3, <2>1, <2>2, RowsAreFine
    <2> HIDE DEF a, b
    <2>4. FineList(a \o b, p)
      BY <2>3, JoinIsFine
    <2>5. QED
      BY <1>1, <1>3, <2>4, FoundIsFair
  <1>4. QED
    BY <1>1, <1>2, <1>3

(* The first value of a key in a report, a number it holds or none. *)
LEMMA ReportIsFair ==
  ASSUME NEW p, IsFile(p), p.read = "none"
  PROVE  FairResult(Report(p), p)
  <1> DEFINE vs(k) == Picked(p.lines, {i \in DOMAIN p.lines : p.lines[i].key = k})
             value(k) == IF vs(k) = <<>> THEN 0 ELSE Head(vs(k)).value
             u == FileTime(value("eventtime"))
             v == FileTime(value("reporttime"))
             time == IF u # NoTime THEN u ELSE v
             any == time # NoTime \/ \E k \in WerFields : value(k) # 0
             W == (IF any THEN {} ELSE {"no field"}) \union (IF p.fallback THEN {"fallback charset"} ELSE {})
             e == Entry("report", time, any)
             bad == Partial({})
             other == Unsupported({})
  <1>1. Report(p) = IF p.format = "empty" THEN bad ELSE IF p.format # "text" THEN other ELSE Found(<<e>>, W)
    BY Zenon DEF Report, Where
  <1>2. FairResult(bad, p) /\ FairResult(other, p)
    BY NoneIsFair
  <1> HIDE DEF bad, other, W
  <1>3. CASE p.format = "text"
    <2> DEFINE X == [key : STRING, value : Nat]
    <2>1. p.lines \in Seq(X) /\ Held(p) = {p.lines[k].value : k \in DOMAIN p.lines}
      BY <1>3 DEF IsFile, Held
    <2>2. ASSUME NEW k PROVE TimeOf(FileTime(value(k)), p)
      <3> DEFINE I == {i \in DOMAIN p.lines : p.lines[i].key = k}
                 t == Picked(p.lines, I)
      <3>1. value(k) = IF t = <<>> THEN 0 ELSE Head(t).value
        OBVIOUS
      <3>2. I \in SUBSET DOMAIN p.lines /\ IsList(p.lines)
        BY <2>1, ListIs
      <3>3. IsList(t) /\ ToSet(t) = {p.lines[i] : i \in I}
        BY <3>2, WhereIs
      <3> HIDE DEF t, value
      <3>4. CASE t = <<>>
        BY <3>1, <3>4 DEF TimeOf, FileTime, NoTime, Epoch
      <3>5. CASE t # <<>>
        <4>1. t \in Seq(ToSet(t))
          BY <3>3 DEF IsList
        <4>2. Head(t) \in ToSet(t)
          BY <3>5, <4>1
        <4>3. PICK i \in I : Head(t) = p.lines[i]
          BY <3>3, <4>2
        <4>4. p.lines[i].value \in Nat /\ p.lines[i].value \in Held(p)
          <5>1. i \in DOMAIN p.lines
            BY <3>2
          <5>2. p.lines[i] \in X
            BY <2>1, <5>1, ItemIs
          <5>3. QED
            BY <2>1, <5>1, <5>2
        <4>5. QED
          BY <3>1, <3>5, <4>3, <4>4, FileTimeIs
      <3>6. QED
        BY <3>4, <3>5
    <2> HIDE DEF value
    <2>3. TimeOf(u, p) /\ TimeOf(v, p)
      BY <2>2
    <2> HIDE DEF u, v
    <2>4. TimeOf(time, p)
      BY <2>3
    <2> HIDE DEF time, any
    <2>5. "report" \in DOMAIN EventTypes /\ EventTypes["report"][1] # NoEvent /\ EventTypes["report"][2] # NoEvent
      BY DEF EventTypes, NoEvent
    <2>6. Fine(e, p)
      BY <1>3, <2>4, <2>5, DatedEntry
    <2> HIDE DEF e
    <2>7. QED
      BY <1>1, <1>3, <2>6, OneEntry, FoundIsFair
  <1> HIDE DEF e
  <1>4. QED
    BY <1>1, <1>2, <1>3

-----------------------------------------------------------------------------
LEMMA SeqFrom ==
  ASSUME NEW X, NEW n \in Nat, NEW s, s = [i \in 1 .. n |-> s[i]], \A i \in 1 .. n : s[i] \in X
  PROVE  s \in Seq(X)
  OBVIOUS

LEMMA ConcatIsList ==
  ASSUME NEW m \in Nat, NEW ss, ss = [i \in 1 .. m |-> ss[i]], \A i \in 1 .. m : IsList(ss[i])
  PROVE  IsList(Concat(ss))
  <1> DEFINE X == UNION {ToSet(ss[i]) : i \in 1 .. m}
  <1>1. \A i \in 1 .. m : ss[i] \in Seq(X)
    <2> SUFFICES ASSUME NEW i \in 1 .. m PROVE ss[i] \in Seq(X)
      OBVIOUS
    <2>1. ss[i] \in Seq(ToSet(ss[i])) /\ ToSet(ss[i]) \subseteq X
      BY DEF IsList
    <2>2. QED
      BY <2>1
  <1> HIDE DEF X
  <1>2. ss \in Seq(Seq(X))
    BY <1>1
  <1>3. Concat(ss) \in Seq(X)
    BY <1>2, ConcatFacts
  <1>4. QED
    BY <1>3, ListIs

LEMMA SrumTables ==
  ASSUME NEW p, p.pages \in Seq(Pages)
  PROVE  IsList(ParseSrum(p).tables)
  <1> DEFINE ts == [i \in DOMAIN p.pages |-> Tags(p.pages[i], p.pageSize)]
             tags == Concat(ts)
             read == Picked(tags, {i \in DOMAIN tags : ~tags[i].empty /\ tags[i].inside})
             J(i) == {k \in DOMAIN Tables : /\ Tables[k] \in read[i].tables
                                            /\ \A j \in 1 .. i - 1 : Tables[k] \notin read[j].tables}
             fs == [i \in DOMAIN read |-> Picked(Tables, J(i))]
             found == Concat(fs)
  <1>1. ParseSrum(p).tables = <<>> \/ ParseSrum(p).tables = found
    <2> DEFINE A == [valid |-> p.header = "page size", tables |-> <<>>, warnings |-> {p.header}]
               B == [valid |-> TRUE, tables |-> <<>>, warnings |-> {"no data page"}]
               W == (IF \E i \in DOMAIN tags : ~tags[i].empty /\ ~tags[i].inside THEN {"tag out of range"} ELSE {})
                           \union (IF found = <<>> THEN {"no table"} ELSE {})
               V == {"no data page"}
    <2>1. ParseSrum(p) = IF p.header # "ok" THEN A ELSE IF p.pages = <<>> THEN [valid |-> TRUE, tables |-> <<>>, warnings |-> V]
                         ELSE [valid |-> TRUE, tables |-> found, warnings |-> W]
      BY Zenon DEF ParseSrum, Where
    <2>2. A.tables = <<>>
      <3> DEFINE b == p.header = "page size"
      <3>1. A = [valid |-> b, tables |-> <<>>, warnings |-> {p.header}]
        BY Zenon
      <3> HIDE DEF A, b
      <3>2. QED
        BY <3>1
    <2> HIDE DEF A, W, V, found
    <2>3. QED
      BY <2>1, <2>2
  <1>2. \A i \in 1 .. Len(p.pages) : ts[i] \in Seq(PageTags)
    <2>1. \A i \in 1 .. Len(p.pages) : p.pages[i].tags \in Seq(PageTags)
      <3>1. \A page \in Pages : page.tags \in Seq(PageTags)
        BY DEF Pages
      <3>2. \A i \in 1 .. Len(p.pages) : p.pages[i] \in Pages
        OBVIOUS
      <3>3. QED
        BY <3>1, <3>2
    <2>2. <<>> \in Seq(PageTags)
      OBVIOUS
    <2>3. QED
      BY <2>1, <2>2 DEF Tags
  <1>3. ts \in Seq(Seq(PageTags))
    <2>1. ts = [i \in 1 .. Len(p.pages) |-> ts[i]] /\ Len(p.pages) \in Nat
      OBVIOUS
    <2> DEFINE X == Seq(PageTags)
    <2>2. \A i \in 1 .. Len(p.pages) : ts[i] \in X
      BY <1>2
    <2> HIDE DEF ts, X
    <2>3. ts \in Seq(X)
      BY <2>1, <2>2, SeqFrom
    <2>4. QED
      BY <2>3 DEF X
  <1> HIDE DEF ts
  <1>4. IsList(tags)
    BY <1>3, ConcatFacts, ListIs
  <1> HIDE DEF tags
  <1>5. IsList(read)
    <2> DEFINE I == {i \in DOMAIN tags : ~tags[i].empty /\ tags[i].inside}
    <2>1. I \in SUBSET DOMAIN tags
      OBVIOUS
    <2> HIDE DEF I
    <2>2. IsList(Picked(tags, I))
      BY <1>4, <2>1, WhereIs
    <2>3. QED
      BY <2>2 DEF I
  <1> HIDE DEF read
  <1>6. Len(read) \in Nat /\ DOMAIN read = 1 .. Len(read)
    BY <1>5, ListPlaces
  <1>7. \A i \in 1 .. Len(read) : IsList(Picked(Tables, J(i)))
    <2> SUFFICES ASSUME NEW i \in 1 .. Len(read) PROVE IsList(Picked(Tables, J(i)))
      OBVIOUS
    <2>1. J(i) \in SUBSET DOMAIN Tables
      OBVIOUS
    <2>2. IsList(Tables)
      <3>1. Tables \in Seq(ToSet(Tables))
        BY DEF Tables, ToSet
      <3>2. QED
        BY <3>1 DEF IsList
    <2> HIDE DEF J
    <2>3. QED
      BY <2>1, <2>2, WhereIs
  <1> HIDE DEF J
  <1>8. \A i \in 1 .. Len(read) : IsList(fs[i])
    BY <1>6, <1>7
  <1>9. fs = [i \in 1 .. Len(read) |-> fs[i]]
    BY <1>6
  <1> HIDE DEF fs
  <1>10. IsList(found)
    BY <1>6, <1>8, <1>9, ConcatIsList
  <1>11. QED
    BY <1>1, <1>10, EmptyIsList

LEMMA SrumIsFair ==
  ASSUME NEW p, IsFile(p), p.read = "none"
  PROVE  FairResult(Srum(p), p)
  <1> DEFINE bad == Failed("signature")
             s == ParseSrum(p)
             ts == s.tables
             W == s.warnings
             es == [i \in DOMAIN ts |-> Entry("table", NoTime, ts[i])]
  <1>1. Srum(p) = IF p.format # "ese" \/ ~s.valid THEN bad ELSE Found(es, W)
    BY Zenon DEF Srum
  <1>2. FairResult(bad, p)
    BY NoneIsFair
  <1> HIDE DEF bad
  <1>3. CASE p.format = "ese"
    <2>1. IsList(ts)
      BY <1>3, SrumTables DEF IsFile
    <2> HIDE DEF ts, s, W
    <2>2. Len(ts) \in Nat /\ DOMAIN ts = 1 .. Len(ts)
      BY <2>1, ListPlaces
    <2>3. "table" \in DOMAIN EventTypes /\ EventTypes["table"][2] # NoEvent
      BY DEF EventTypes, NoEvent
    <2>4. \A i \in 1 .. Len(ts) : Fine(es[i], p)
      BY <2>2, <2>3, PlainEntry
    <2>5. es = [i \in 1 .. Len(ts) |-> es[i]]
      BY <2>2
    <2> HIDE DEF es
    <2>6. FineList(es, p)
      BY <2>2, <2>4, <2>5, FineFrom
    <2>7. QED
      BY <1>1, <1>2, <1>3, <2>6, FoundIsFair
  <1> HIDE DEF es, W
  <1>4. QED
    BY <1>1, <1>2, <1>3

-----------------------------------------------------------------------------
(* What a task reads: its date is always one of the texts. *)
TaskFields == {"stack", "root", "trigger", "date", "command", "enabled", "summaries", "broken"}
Reads(s, f) == s = [x \in TaskFields |-> s[x]] /\ TimeOf(s.date, f)

LEMMA TaskTokenKeeps ==
  ASSUME NEW f, NEW s, Reads(s, f), NEW tok \in TaskTokens, tok.value \in Held(f)
  PROVE  Reads(TaskToken(s, tok), f)
  <1>1. tok.value \in Int /\ TimeOf(FileTime(tok.value), f)
    <2>1. tok.value \in Int
      BY DEF TaskTokens
    <2>2. QED
      BY <2>1, FileTimeIs
  <1> DEFINE now == IF FileTime(tok.value) = NoTime THEN s.date ELSE FileTime(tok.value)
             under == IF s.stack = <<>> THEN "" ELSE Last(s.stack)
             closes == s.trigger # <<>> /\ s.trigger[1].type = tok.name
             st == Append(s.stack, tok.name)
             tr == IF under = "Triggers" THEN <<[type |-> tok.name, start |-> 0, enabled |-> 0]>> ELSE s.trigger
             tr2 == IF closes THEN <<>> ELSE s.trigger
             su == IF closes THEN Append(s.summaries, s.trigger[1]) ELSE s.summaries
             tr3 == [s.trigger EXCEPT ![1].enabled = tok.value]
             tr4 == [s.trigger EXCEPT ![1].start = tok.value]
             fr == Front(s.stack)
  <1>2. TimeOf(now, f)
    BY <1>1 DEF Reads
  <1>3. \/ TaskToken(s, tok) \in {s, [s EXCEPT !.broken = TRUE],
             [s EXCEPT !.stack = st, !.root = TRUE, !.trigger = tr],
             [s EXCEPT !.date = now],
             [s EXCEPT !.command = tok.value], [s EXCEPT !.enabled = tok.value],
             [s EXCEPT !.trigger = tr3], [s EXCEPT !.trigger = tr4],
             [s EXCEPT !.stack = fr, !.trigger = tr2, !.summaries = su]}
    BY DEF TaskToken
  <1> HIDE DEF now, under, closes, st, tr, tr2, su, tr3, tr4, fr
  <1>4. \A t \in {s, [s EXCEPT !.broken = TRUE],
             [s EXCEPT !.stack = st, !.root = TRUE, !.trigger = tr],
             [s EXCEPT !.date = now],
             [s EXCEPT !.command = tok.value], [s EXCEPT !.enabled = tok.value],
             [s EXCEPT !.trigger = tr3], [s EXCEPT !.trigger = tr4],
             [s EXCEPT !.stack = fr, !.trigger = tr2, !.summaries = su]} : Reads(t, f)
    BY <1>2 DEF Reads, TaskFields
  <1>5. QED
    BY <1>3, <1>4

TaskStart == [stack |-> <<>>, root |-> FALSE, trigger |-> <<>>, date |-> NoTime, command |-> 0,
              enabled |-> 0, summaries |-> <<>>, broken |-> FALSE]
TaskNext(s, tok) == IF s.broken THEN s ELSE TaskToken(s, tok)
TaskLoop(g, tokens, n) ==
  g = [k \in 0 .. n |-> IF k = 0 THEN TaskStart ELSE TaskNext(g[k - 1], tokens[k])]

LEMMA TaskIsRead ==
  ASSUME NEW f, NEW tokens \in Seq(TaskTokens), \A k \in DOMAIN tokens : tokens[k].value \in Held(f)
  PROVE  TimeOf(ReadTask(tokens).date, f)
  <1> DEFINE n == Len(tokens)
             g == CHOOSE e : TaskLoop(e, tokens, n)
             S == {m \in 0 .. n : \E e : TaskLoop(e, tokens, m)}
  <1>1. ReadTask(tokens) = g[n]
    BY Zenon DEF ReadTask, TaskLoop, TaskStart, TaskNext
  <1>2. n \in Nat
    OBVIOUS
  <1>3. \A e, m : TaskLoop(e, tokens, m) <=>
                    e = [k \in 0 .. m |-> IF k = 0 THEN TaskStart ELSE TaskNext(e[k - 1], tokens[k])]
    BY DEF TaskLoop
  <1> HIDE DEF n, g
  <1>4. 0 \in S
    <2> DEFINE e == [k \in 0 .. 0 |-> TaskStart]
    <2>1. e = [k \in 0 .. 0 |-> IF k = 0 THEN TaskStart ELSE TaskNext(e[k - 1], tokens[k])]
      OBVIOUS
    <2> HIDE DEF e
    <2>2. TaskLoop(e, tokens, 0)
      BY <1>3, <2>1
    <2>3. QED
      BY <1>2, <2>2
  <1>5. \A m \in 1 .. n : m - 1 \in S => m \in S
    <2> SUFFICES ASSUME NEW m \in 1 .. n, m - 1 \in S PROVE m \in S
      OBVIOUS
    <2>1. PICK d : TaskLoop(d, tokens, m - 1)
      OBVIOUS
    <2> DEFINE e == [k \in 0 .. m |-> IF k = m THEN TaskNext(d[m - 1], tokens[m]) ELSE d[k]]
    <2>2. d = [k \in 0 .. m - 1 |-> IF k = 0 THEN TaskStart ELSE TaskNext(d[k - 1], tokens[k])]
      BY <1>3, <2>1
    <2>3. \A k \in 0 .. m : e[k] = IF k = 0 THEN TaskStart ELSE TaskNext(e[k - 1], tokens[k])
      BY <1>2, <2>2
    <2>4. e = [k \in 0 .. m |-> e[k]]
      OBVIOUS
    <2> HIDE DEF e
    <2>5. TaskLoop(e, tokens, m)
      <3>1. e = [k \in 0 .. m |-> IF k = 0 THEN TaskStart ELSE TaskNext(e[k - 1], tokens[k])]
        BY <2>3, <2>4
      <3>2. QED
        BY <1>3, <3>1
    <2>6. QED
      BY <2>5
  <1> HIDE DEF S
  <1>6. 0 .. n \subseteq S
    BY <1>2, <1>4, <1>5, RangeInduction
  <1>7. \E e : TaskLoop(e, tokens, n)
    BY <1>2, <1>6 DEF S
  <1>8. g = [k \in 0 .. n |-> IF k = 0 THEN TaskStart ELSE TaskNext(g[k - 1], tokens[k])]
    BY <1>3, <1>7 DEF g
  <1> DEFINE R == {k \in 0 .. n : Reads(g[k], f)}
  <1>9. \A k \in 0 .. n : g[k] = IF k = 0 THEN TaskStart ELSE TaskNext(g[k - 1], tokens[k])
    BY <1>8
  <1>10. 0 \in R
    <2>1. g[0] = TaskStart
      BY <1>2, <1>9
    <2>2. Reads(TaskStart, f)
      BY DEF Reads, TaskStart, TaskFields, TimeOf
    <2>3. QED
      BY <1>2, <2>1, <2>2
  <1>11. \A k \in 1 .. n : k - 1 \in R => k \in R
    <2> SUFFICES ASSUME NEW k \in 1 .. n, k - 1 \in R PROVE Reads(g[k], f)
      OBVIOUS
    <2>1. g[k] = TaskNext(g[k - 1], tokens[k])
      BY <1>2, <1>9
    <2>2. k \in DOMAIN tokens
      BY DEF n
    <2>3. tokens[k] \in TaskTokens /\ tokens[k].value \in Held(f)
      BY <2>2, ItemIs
    <2>4. QED
      BY <2>1, <2>3, TaskTokenKeeps DEF TaskNext
  <1> HIDE DEF R
  <1>12. 0 .. n \subseteq R
    BY <1>2, <1>10, <1>11, RangeInduction
  <1>13. Reads(g[n], f)
    <2>1. n \in R
      BY <1>2, <1>12
    <2>2. QED
      BY <2>1 DEF R
  <1>14. QED
    BY <1>1, <1>13 DEF Reads

LEMMA ScheduledTaskIsFair ==
  ASSUME NEW p, IsFile(p), p.read = "none"
  PROVE  FairResult(ScheduledTask(p), p)
  <1> DEFINE t == ReadTask(p.tokens)
             any == t.date # NoTime \/ t.command # 0 \/ t.enabled # 0 \/ t.summaries # <<>>
             W == IF any THEN {} ELSE {"no field"}
             e == Entry("task", t.date, t.summaries)
             empty == Partial({})
             other == Unsupported({})
             bad == Failed("xml")
             broken == t.broken \/ ~t.root \/ t.stack # <<>>
  <1>1. ScheduledTask(p) = IF p.format = "empty" THEN empty ELSE IF p.format # "xml" THEN other
                           ELSE IF broken THEN bad ELSE Found(<<e>>, W)
    BY Zenon DEF ScheduledTask
  <1>2. FairResult(empty, p) /\ FairResult(other, p) /\ FairResult(bad, p)
    BY NoneIsFair
  <1> HIDE DEF empty, other, bad, broken, W, any
  <1>3. CASE p.format = "xml"
    <2>1. p.tokens \in Seq(TaskTokens) /\ Held(p) = {p.tokens[k].value : k \in DOMAIN p.tokens}
      BY <1>3 DEF IsFile, Held
    <2>2. TimeOf(t.date, p)
      BY <2>1, TaskIsRead
    <2>3. "task" \in DOMAIN EventTypes /\ EventTypes["task"][1] # NoEvent /\ EventTypes["task"][2] # NoEvent
      BY DEF EventTypes, NoEvent
    <2> HIDE DEF t
    <2>4. Fine(e, p)
      BY <1>3, <2>2, <2>3, DatedEntry
    <2> HIDE DEF e
    <2>5. QED
      BY <1>1, <1>2, <2>4, OneEntry, FoundIsFair
  <1> HIDE DEF e, t
  <1>4. QED
    BY <1>1, <1>2, <1>3

-----------------------------------------------------------------------------
(* What an event reads: its time is the header's or one of its values. *)
EventFields == {"stack", "key", "root", "ended", "over", "consumed", "read", "id", "provider", "time", "data"}
EventReads(s, f) == s = [x \in EventFields |-> s[x]] /\ TimeOf(s.time, f)

LEMMA SameTime ==
  ASSUME NEW f, NEW s, EventReads(s, f), NEW a, NEW b, NEW c
  PROVE  /\ EventReads([s EXCEPT !.read = a], f)
         /\ EventReads([s EXCEPT !.key = a], f)
         /\ EventReads([s EXCEPT !.over = a], f)
         /\ EventReads([s EXCEPT !.over = a, !.ended = b], f)
         /\ EventReads([s EXCEPT !.consumed = a], f)
         /\ EventReads([s EXCEPT !.stack = a, !.root = b], f)
         /\ EventReads([s EXCEPT !.stack = a, !.key = b], f)
         /\ EventReads([s EXCEPT !.provider = a, !.consumed = b], f)
         /\ EventReads([s EXCEPT !.id = a, !.consumed = b], f)
         /\ EventReads([s EXCEPT !.data = a, !.key = b, !.consumed = c], f)
  BY DEF EventReads, EventFields

LEMMA AttributeKeeps ==
  ASSUME NEW f, NEW s, EventReads(s, f), NEW name, NEW v \in Int, v \in Held(f)
  PROVE  EventReads(Attribute(s, name, v), f)
  <1>1. TimeOf(FileTime(v), f)
    BY FileTimeIs
  <1> DEFINE a == Within(s.stack, System("Provider")) /\ name = "Name"
             b == Within(s.stack, System("TimeCreated")) /\ name = "SystemTime" /\ FileTime(v) # NoTime
             c == Within(s.stack, EventData) /\ name = "Name"
             q == s.consumed \/ v # 0
             t == [s EXCEPT !.time = v, !.consumed = TRUE]
  <1>2. b => EventReads(t, f)
    BY <1>1 DEF EventReads, EventFields, TimeOf, FileTime, NoTime
  <1>3. \/ Attribute(s, name, v) = s
        \/ Attribute(s, name, v) = [s EXCEPT !.provider = v, !.consumed = q]
        \/ b /\ Attribute(s, name, v) = t
        \/ Attribute(s, name, v) = [s EXCEPT !.key = v]
    BY DEF Attribute
  <1> HIDE DEF b, t
  <1> DEFINE t1 == [s EXCEPT !.provider = v, !.consumed = q]
             t2 == [s EXCEPT !.key = v]
  <1>4. EventReads(t1, f) /\ EventReads(t2, f)
    BY Zenon, SameTime
  <1>5. Attribute(s, name, v) \in {s, t, t1, t2} /\ (Attribute(s, name, v) = t => b \/ Attribute(s, name, v) \in {s, t1, t2})
    BY <1>3
  <1> HIDE DEF t1, t2
  <1>6. QED
    BY <1>2, <1>4, <1>5

LEMMA ContentKeeps ==
  ASSUME NEW f, NEW s, EventReads(s, f), NEW v
  PROVE  EventReads(Content(s, v), f)
  <1> DEFINE q == s.consumed \/ v # 0
             d == Append(s.data, <<s.key, v, s.read>>)
  <1>1. Content(s, v) \in {s, [s EXCEPT !.id = v, !.consumed = q], [s EXCEPT !.consumed = q],
                           [s EXCEPT !.data = d, !.key = 0, !.consumed = TRUE]}
    BY DEF Content
  <1> DEFINE t1 == [s EXCEPT !.id = v, !.consumed = q]
             t2 == [s EXCEPT !.consumed = q]
             t3 == [s EXCEPT !.data = d, !.key = 0, !.consumed = TRUE]
  <1>2. EventReads(t1, f) /\ EventReads(t2, f) /\ EventReads(t3, f)
    BY Zenon, SameTime
  <1>3. Content(s, v) \in {s, t1, t2, t3}
    BY <1>1
  <1> HIDE DEF t1, t2, t3
  <1>4. QED
    BY <1>2, <1>3

LEMMA TokenKeeps ==
  ASSUME NEW f, NEW s, EventReads(s, f), NEW tok \in XmlTokens, tok.value \in Held(f),
         NEW subs \in Seq(Nat), ToSet(subs) \subseteq Held(f)
  PROVE  EventReads(Token(s, tok, subs), f)
  <1> DEFINE v == IF tok.index = 0 THEN tok.value
                  ELSE IF tok.index <= Len(subs) THEN subs[tok.index] ELSE Missing
             r == s.read + 1
             t == [s EXCEPT !.read = r]
  <1>1. v # Missing => v \in Int /\ v \in Held(f)
    <2>1. tok.value \in Nat /\ tok.index \in Nat
      BY DEF XmlTokens
    <2>2. CASE tok.index \in 1 .. Len(subs)
      <3>1. subs[tok.index] \in Nat /\ subs[tok.index] \in Held(f)
        BY <2>2 DEF ToSet
      <3>2. QED
        BY <2>2, <3>1
    <2>3. QED
      BY <2>1, <2>2
  <1> HIDE DEF v, r
  <1>2. EventReads(t, f)
    BY Zenon, SameTime
  <1> DEFINE opened == Open(t, tok.name)
             closed == Close(t)
             attr == Attribute(t, tok.name, v)
             cont == Content(t, v)
             mal == Malformed(t)
             end == [t EXCEPT !.over = TRUE, !.ended = TRUE]
             same == Token(s, tok, subs) \in {s, t, opened, closed, cont, mal, end}
  <1>3. \/ same
        \/ v # Missing /\ Token(s, tok, subs) = attr
    BY DEF Token, v, r
  <1>4. EventReads(opened, f) /\ EventReads(closed, f) /\ EventReads(cont, f) /\ EventReads(mal, f) /\ EventReads(end, f)
    <2>1. EventReads(cont, f)
      BY <1>2, ContentKeeps
    <2> HIDE DEF t
    <2>2. EventReads(opened, f)
      <3> DEFINE a == Append(t.stack, tok.name)
                 b == t.root \/ (t.stack = <<>> /\ tok.name = "Event")
      <3>1. opened = [t EXCEPT !.stack = a, !.root = b]
        BY DEF Open
      <3> HIDE DEF a, b, opened
      <3>2. QED
        BY <1>2, <3>1, SameTime
    <2>3. EventReads(closed, f)
      <3> DEFINE a == Front(t.stack)
      <3>1. closed = [t EXCEPT !.stack = a, !.key = 0]
        BY DEF Close
      <3> HIDE DEF a, closed
      <3>2. QED
        BY <1>2, <3>1, SameTime
    <2>4. EventReads(mal, f) /\ EventReads(end, f)
      BY <1>2, SameTime DEF Malformed
    <2>5. QED
      BY <2>1, <2>2, <2>3, <2>4
  <1>5. v # Missing => EventReads(attr, f)
    BY <1>1, <1>2, AttributeKeeps
  <1> HIDE DEF t, opened, closed, attr, cont, mal, end
  <1>6. QED
    BY <1>2, <1>3, <1>4, <1>5

-----------------------------------------------------------------------------
EventStart(x) == [stack |-> <<>>, key |-> 0, root |-> FALSE, ended |-> FALSE, over |-> FALSE,
                  consumed |-> FALSE, read |-> 0, id |-> 0, provider |-> 0, time |-> x.time, data |-> <<>>]
EventLoop(g, x, n) ==
  g = [k \in 0 .. n |-> IF k = 0 THEN EventStart(x) ELSE Token(g[k - 1], x.tokens[k], x.subs)]

LEMMA EventIsRead ==
  ASSUME NEW f, NEW x, TimeOf(x.time, f), x.tokens \in Seq(XmlTokens), \A k \in DOMAIN x.tokens : x.tokens[k].value \in Held(f),
         x.subs \in Seq(Nat), ToSet(x.subs) \subseteq Held(f)
  PROVE  TimeOf(ReadEvent(x).time, f)
  <1> DEFINE n == Len(x.tokens)
             first == EventStart(x)
             g == CHOOSE e : EventLoop(e, x, n)
             S == {m \in 0 .. n : \E e : EventLoop(e, x, m)}
  <1>1. ReadEvent(x) = IF x.header THEN g[n] ELSE first
    BY Zenon DEF ReadEvent, EventLoop, EventStart
  <1>2. n \in Nat
    OBVIOUS
  <1>3. \A e, m : EventLoop(e, x, m) <=>
                    e = [k \in 0 .. m |-> IF k = 0 THEN first ELSE Token(e[k - 1], x.tokens[k], x.subs)]
    BY DEF EventLoop
  <1>0. EventReads(first, f)
    BY DEF EventReads, EventStart, EventFields
  <1> HIDE DEF n, g, first
  <1>4. 0 \in S
    <2> DEFINE e == [k \in 0 .. 0 |-> first]
    <2>1. e = [k \in 0 .. 0 |-> IF k = 0 THEN first ELSE Token(e[k - 1], x.tokens[k], x.subs)]
      OBVIOUS
    <2> HIDE DEF e
    <2>2. EventLoop(e, x, 0)
      BY <1>3, <2>1
    <2>3. QED
      BY <1>2, <2>2
  <1>5. \A m \in 1 .. n : m - 1 \in S => m \in S
    <2> SUFFICES ASSUME NEW m \in 1 .. n, m - 1 \in S PROVE m \in S
      OBVIOUS
    <2>1. PICK d : EventLoop(d, x, m - 1)
      OBVIOUS
    <2> DEFINE e == [k \in 0 .. m |-> IF k = m THEN Token(d[m - 1], x.tokens[m], x.subs) ELSE d[k]]
    <2>2. d = [k \in 0 .. m - 1 |-> IF k = 0 THEN first ELSE Token(d[k - 1], x.tokens[k], x.subs)]
      BY <1>3, <2>1
    <2>3. \A k \in 0 .. m : e[k] = IF k = 0 THEN first ELSE Token(e[k - 1], x.tokens[k], x.subs)
      BY <1>2, <2>2
    <2>4. e = [k \in 0 .. m |-> e[k]]
      OBVIOUS
    <2> HIDE DEF e
    <2>5. EventLoop(e, x, m)
      <3>1. e = [k \in 0 .. m |-> IF k = 0 THEN first ELSE Token(e[k - 1], x.tokens[k], x.subs)]
        BY <2>3, <2>4
      <3>2. QED
        BY <1>3, <3>1
    <2>6. QED
      BY <2>5
  <1> HIDE DEF S
  <1>6. 0 .. n \subseteq S
    BY <1>2, <1>4, <1>5, RangeInduction
  <1>7. \E e : EventLoop(e, x, n)
    BY <1>2, <1>6 DEF S
  <1>8. g = [k \in 0 .. n |-> IF k = 0 THEN first ELSE Token(g[k - 1], x.tokens[k], x.subs)]
    BY <1>3, <1>7 DEF g
  <1> DEFINE R == {k \in 0 .. n : EventReads(g[k], f)}
  <1>9. \A k \in 0 .. n : g[k] = IF k = 0 THEN first ELSE Token(g[k - 1], x.tokens[k], x.subs)
    BY <1>8
  <1>10. 0 \in R
    BY <1>0, <1>2, <1>9
  <1>11. \A k \in 1 .. n : k - 1 \in R => k \in R
    <2> SUFFICES ASSUME NEW k \in 1 .. n, k - 1 \in R PROVE EventReads(g[k], f)
      OBVIOUS
    <2>1. g[k] = Token(g[k - 1], x.tokens[k], x.subs)
      BY <1>2, <1>9
    <2>2. k \in DOMAIN x.tokens
      BY DEF n
    <2>3. x.tokens[k] \in XmlTokens /\ x.tokens[k].value \in Held(f)
      BY <2>2, ItemIs
    <2>4. QED
      BY <2>1, <2>3, TokenKeeps
  <1> HIDE DEF R
  <1>12. 0 .. n \subseteq R
    BY <1>2, <1>10, <1>11, RangeInduction
  <1>13. EventReads(g[n], f)
    <2>1. n \in R
      BY <1>2, <1>12
    <2>2. QED
      BY <2>1 DEF R
  <1>14. QED
    BY <1>0, <1>1, <1>13 DEF EventReads

(* A record's event. *)
LEMMA LogEventIs ==
  ASSUME NEW p, p.format = "evtx", IsLog(p), NEW n \in DOMAIN p.chunks, NEW at \in DOMAIN p.chunks[n].record, NEW k
  PROVE  TimeOf(LogEvent(k, at, p.chunks[n].record[at]).time, p)
  <1> DEFINE c == p.chunks[n]
             r == c.record[at]
             x == [r.xml EXCEPT !.time = FileTime(@)]
  <1>1. c \in LogChunks
    BY ItemIs DEF IsLog
  <1>2. c.record \in Seq(LogRecords)
    BY <1>1 DEF LogChunks
  <1>3. r \in LogRecords /\ r \in ToSet(c.record)
    BY <1>2, ItemIs DEF ToSet
  <1>4. r.xml \in XmlEvents
    BY <1>3 DEF LogRecords
  <1>5. HeldInEvent(r.xml) \subseteq Held(p)
    <2>1. Held(p) = UNION {UNION {HeldInEvent(q.xml) : q \in ToSet(p.chunks[m].record)} : m \in DOMAIN p.chunks}
      BY DEF Held
    <2>2. QED
      BY <1>3, <2>1
  <1> HIDE DEF c, r
  <1>6. /\ r.xml.time \in Nat /\ r.xml.time \in HeldInEvent(r.xml)
        /\ r.xml.tokens \in Seq(XmlTokens) /\ \A i \in DOMAIN r.xml.tokens : r.xml.tokens[i].value \in HeldInEvent(r.xml)
        /\ r.xml.subs \in Seq(Nat) /\ ToSet(r.xml.subs) \subseteq HeldInEvent(r.xml)
    BY <1>4 DEF XmlEvents, HeldInEvent
  <1>7. x.time = FileTime(r.xml.time) /\ x.tokens = r.xml.tokens /\ x.subs = r.xml.subs
    BY <1>4 DEF XmlEvents
  <1>8. TimeOf(x.time, p)
    BY <1>5, <1>6, <1>7, FileTimeIs
  <1>9. /\ x.tokens \in Seq(XmlTokens) /\ \A i \in DOMAIN x.tokens : x.tokens[i].value \in Held(p)
        /\ x.subs \in Seq(Nat) /\ ToSet(x.subs) \subseteq Held(p)
    BY <1>5, <1>6, <1>7
  <1> HIDE DEF x
  <1>10. TimeOf(ReadEvent(x).time, p)
    BY <1>8, <1>9, EventIsRead
  <1>11. LogEvent(k, at, r).time = ReadEvent(x).time
    BY DEF LogEvent, EventOf, x
  <1>12. QED
    BY <1>10, <1>11 DEF r, c

-----------------------------------------------------------------------------
LEMMA AppendIsList ==
  ASSUME NEW s, IsList(s), NEW e
  PROVE  IsList(Append(s, e)) /\ ToSet(Append(s, e)) = ToSet(s) \union {e}
  <1> DEFINE X == ToSet(s) \union {e}
             t == Append(s, e)
  <1>1. s \in Seq(X) /\ e \in X
    BY DEF IsList
  <1>2. \A i \in 1 .. Len(s) : s[i] \in ToSet(s)
    BY ListPlaces
  <1> HIDE DEF X
  <1>3. t \in Seq(X) /\ Len(t) = Len(s) + 1 /\ t[Len(s) + 1] = e /\ \A i \in 1 .. Len(s) : t[i] = s[i]
    BY <1>1
  <1> HIDE DEF t
  <1>4. DOMAIN t = 1 .. Len(s) + 1 /\ Len(s) \in Nat /\ DOMAIN s = 1 .. Len(s)
    BY <1>1, <1>3
  <1>5. ToSet(t) \subseteq X
    BY <1>3, ListIs
  <1>6. X \subseteq ToSet(t)
    <2>1. e \in ToSet(t)
      BY <1>3, <1>4 DEF ToSet
    <2>2. ToSet(s) \subseteq ToSet(t)
      BY <1>3, <1>4 DEF ToSet
    <2>3. QED
      BY <2>1, <2>2 DEF X
  <1>7. QED
    BY <1>3, <1>5, <1>6, ListIs DEF X, t

(* What an event's tokens say; a name the last k of them still hold; data    *)
(* that have their own name.                                                 *)
Said(x, m) == IF x.tokens[m].index = 0 THEN x.tokens[m].value ELSE x.subs[x.tokens[m].index]
NamedIn(x, key, k) ==
  \E m \in 1 .. k : /\ x.tokens[m].t = "attr" /\ x.tokens[m].name = "Name" /\ Said(x, m) = key
                    /\ \A q \in m + 1 .. k : x.tokens[q].t # "close"
Owned(x, d) ==
  /\ d[3] \in DOMAIN x.tokens /\ x.tokens[d[3]].t = "value" /\ Said(x, d[3]) = d[2]
  /\ d[1] # 0 => NamedIn(x, d[1], d[3] - 1)
Owns(s, x, k) ==
  /\ s = [y \in EventFields |-> s[y]]
  /\ IsList(s.data) /\ \A d \in ToSet(s.data) : Owned(x, d)
  /\ ~s.over => s.read = k /\ (s.key # 0 => NamedIn(x, s.key, k))

LEMMA NameStays ==
  ASSUME NEW x, NEW key, NEW k \in Nat, NamedIn(x, key, k), x.tokens[k + 1].t # "close"
  PROVE  NamedIn(x, key, k + 1)
  <1>1. PICK m \in 1 .. k : /\ x.tokens[m].t = "attr" /\ x.tokens[m].name = "Name" /\ Said(x, m) = key
                            /\ \A q \in m + 1 .. k : x.tokens[q].t # "close"
    BY DEF NamedIn
  <1>2. m \in 1 .. k + 1 /\ \A q \in m + 1 .. k + 1 : q = k + 1 \/ q \in m + 1 .. k
    OBVIOUS
  <1>3. \A q \in m + 1 .. k + 1 : x.tokens[q].t # "close"
    BY <1>1, <1>2
  <1>4. QED
    BY <1>1, <1>2, <1>3 DEF NamedIn

LEMMA TokenOwns ==
  ASSUME NEW x, x.tokens \in Seq(XmlTokens), x.subs \in Seq(Nat), NEW k \in Nat, k + 1 \in DOMAIN x.tokens,
         NEW s, Owns(s, x, k)
  PROVE  Owns(Token(s, x.tokens[k + 1], x.subs), x, k + 1)
  <1> DEFINE tok == x.tokens[k + 1]
             subs == x.subs
             v == IF tok.index = 0 THEN tok.value
                  ELSE IF tok.index <= Len(subs) THEN subs[tok.index] ELSE Missing
             r == s.read + 1
             t == [s EXCEPT !.read = r]
             new == Token(s, tok, subs)
             at == k + 1
             end == [t EXCEPT !.over = TRUE, !.ended = TRUE]
  <1>1. CASE s.over
    <2>1. new = s
      BY <1>1 DEF Token
    <2>2. QED
      BY <1>1, <2>1 DEF Owns
  <1>2. CASE ~s.over
    <2>1. new = CASE tok.t = "end"  -> end
                  [] tok.t = "skip" -> t
                  [] tok.t = "open" /\ tok.name # "" /\ Len(s.stack) < MaxDepth -> Open(t, tok.name)
                  [] tok.t = "close" /\ s.stack # <<>> -> Close(t)
                  [] tok.t = "attr" /\ v # Missing /\ s.stack # <<>> -> Attribute(t, tok.name, v)
                  [] tok.t = "value" /\ v # Missing -> Content(t, v)
                  [] OTHER -> Malformed(t)
      BY <1>2, Zenon DEF Token
    <2>2. v # Missing => Said(x, at) = v
      BY DEF Said
    <2>3. /\ t = [y \in EventFields |-> t[y]] /\ t.read = at /\ t.key = s.key /\ t.data = s.data /\ t.over = s.over
      BY <1>2 DEF Owns, EventFields
    <2>4. IsList(s.data) /\ (\A d \in ToSet(s.data) : Owned(x, d)) /\ (s.key # 0 => NamedIn(x, s.key, k))
      BY <1>2 DEF Owns
    <2>5. tok.t # "close" /\ s.key # 0 => NamedIn(x, s.key, at)
      BY <2>4, NameStays
    <2> HIDE DEF t, new, v
    <2>6. ASSUME NEW u, u = [y \in EventFields |-> u[y]], u.data = s.data,
                 u.over \/ (u.read = at /\ (u.key = 0 \/ (u.key = s.key /\ tok.t # "close") \/ NamedIn(x, u.key, at)))
          PROVE  Owns(u, x, at)
      BY <2>4, <2>5, <2>6 DEF Owns
    <2>7. Owns(t, x, at) \/ tok.t = "close"
      BY <2>3, <2>6
    <2>8. Owns(end, x, at)
      <3> DEFINE u == end
      <3>1. u = [y \in EventFields |-> u[y]] /\ u.data = s.data /\ u.over
        BY <2>3 DEF EventFields
      <3> HIDE DEF u
      <3>2. Owns(u, x, at)
        BY <3>1, <2>6
      <3>3. QED
        BY <3>2 DEF u
    <2>9. Owns(Malformed(t), x, at)
      <3> DEFINE u == Malformed(t)
      <3>1. u = [y \in EventFields |-> u[y]] /\ u.data = s.data /\ u.over
        BY <2>3 DEF EventFields, Malformed
      <3> HIDE DEF u
      <3>2. Owns(u, x, at)
        BY <3>1, <2>6
      <3>3. QED
        BY <3>2 DEF u
    <2>10. Owns(Close(t), x, at)
      <3> DEFINE u == Close(t)
      <3>1. u = [y \in EventFields |-> u[y]] /\ u.data = s.data /\ u.over = t.over /\ u.read = at /\ u.key = 0
        BY <2>3 DEF EventFields, Close
      <3> HIDE DEF u
      <3>2. Owns(u, x, at)
        BY <3>1, <2>6
      <3>3. QED
        BY <3>2 DEF u
    <2>11. ASSUME tok.t = "open" PROVE Owns(Open(t, tok.name), x, at)
      <3> DEFINE u == Open(t, tok.name)
      <3>1. u = [y \in EventFields |-> u[y]] /\ u.data = s.data /\ u.over = t.over /\ u.read = at /\ u.key = s.key
        BY <2>3 DEF EventFields, Open
      <3> HIDE DEF u
      <3>2. Owns(u, x, at)
        BY <2>11, <3>1, <2>6
      <3>3. QED
        BY <3>2 DEF u
    <2>12. ASSUME tok.t = "attr", v # Missing PROVE Owns(Attribute(t, tok.name, v), x, at)
      <3> DEFINE u == Attribute(t, tok.name, v)
      <3>1. /\ u = [y \in EventFields |-> u[y]] /\ u.data = s.data /\ u.over = t.over /\ u.read = at
            /\ u.key = s.key \/ (u.key = v /\ tok.name = "Name")
        <4> DEFINE q == t.consumed \/ v # 0
                   t1 == [t EXCEPT !.provider = v, !.consumed = q]
                   t2 == [t EXCEPT !.time = v, !.consumed = TRUE]
                   t3 == [t EXCEPT !.key = v]
        <4>1. u \in {t, t1, t2} \/ (u = t3 /\ tok.name = "Name")
          BY DEF Attribute
        <4> HIDE DEF u, q
        <4>2. \A w \in {t, t1, t2} : /\ w = [y \in EventFields |-> w[y]] /\ w.data = s.data /\ w.over = t.over
                                     /\ w.read = at /\ w.key = s.key
          BY <2>3 DEF EventFields
        <4>3. t3 = [y \in EventFields |-> t3[y]] /\ t3.data = s.data /\ t3.over = t.over /\ t3.read = at /\ t3.key = v
          BY <2>3 DEF EventFields
        <4> HIDE DEF t1, t2, t3
        <4>4. QED
          BY <4>1, <4>2, <4>3
      <3>2. tok.name = "Name" => NamedIn(x, v, at)
        <4>1. at \in 1 .. at /\ \A q \in at + 1 .. at : FALSE
          OBVIOUS
        <4>2. QED
          BY <2>2, <2>12, <4>1 DEF NamedIn
      <3> HIDE DEF u
      <3>3. Owns(u, x, at)
        BY <2>12, <3>1, <3>2, <2>6
      <3>4. QED
        BY <3>3 DEF u
    <2>13. ASSUME tok.t = "value", v # Missing PROVE Owns(Content(t, v), x, at)
      <3> DEFINE u == Content(t, v)
                 q == t.consumed \/ v # 0
                 d == <<s.key, v, at>>
                 ds == Append(s.data, d)
                 t1 == [t EXCEPT !.id = v, !.consumed = q]
                 t2 == [t EXCEPT !.consumed = q]
                 t3 == [t EXCEPT !.data = ds, !.key = 0, !.consumed = TRUE]
      <3>1. u \in {t, t1, t2, t3}
        BY <2>3 DEF Content
      <3> HIDE DEF u, q
      <3>2. Owned(x, d)
        <4>1. d[1] = s.key /\ d[2] = v /\ d[3] = at /\ at - 1 = k
          OBVIOUS
        <4> HIDE DEF d
        <4>2. QED
          BY <2>2, <2>4, <2>13, <4>1 DEF Owned
      <3> HIDE DEF d
      <3>3. IsList(ds) /\ ToSet(ds) = ToSet(s.data) \union {d}
        BY <2>4, AppendIsList
      <3> HIDE DEF ds
      <3>4. Owns(t3, x, at)
        <4>1. t3 = [y \in EventFields |-> t3[y]] /\ t3.data = ds /\ t3.read = at /\ t3.key = 0
          BY <2>3 DEF EventFields
        <4> HIDE DEF t3
        <4>2. QED
          BY <2>4, <3>2, <3>3, <4>1 DEF Owns
      <3>5. \A w \in {t, t1, t2} : /\ w = [y \in EventFields |-> w[y]] /\ w.data = s.data /\ w.over = t.over
                                   /\ w.read = at /\ w.key = s.key
        BY <2>3 DEF EventFields
      <3> HIDE DEF t1, t2, t3
      <3>6. Owns(t, x, at) /\ Owns(t1, x, at) /\ Owns(t2, x, at)
        BY <2>6, <2>13, <3>5
      <3>7. QED
        BY <3>1, <3>4, <3>6 DEF u
    <2> HIDE DEF end
    <2>14. Owns(new, x, at)
      <3> DEFINE o == Open(t, tok.name)
                 a == Attribute(t, tok.name, v)
                 c == Content(t, v)
                 m == Malformed(t)
                 e == Close(t)
      <3>1. \/ new = end \/ new = m \/ new = e
            \/ tok.t # "close" /\ new = t
            \/ tok.t = "open" /\ new = o
            \/ tok.t = "attr" /\ v # Missing /\ new = a
            \/ tok.t = "value" /\ v # Missing /\ new = c
        <4> HIDE DEF o, a, c, m, e, tok
        <4>1. new = CASE tok.t = "end"  -> end
                  [] tok.t = "skip" -> t
                  [] tok.t = "open" /\ tok.name # "" /\ Len(s.stack) < MaxDepth -> o
                  [] tok.t = "close" /\ s.stack # <<>> -> e
                  [] tok.t = "attr" /\ v # Missing /\ s.stack # <<>> -> a
                  [] tok.t = "value" /\ v # Missing -> c
                  [] OTHER -> m
          BY <2>1 DEF o, a, c, m, e
        <4>2. QED
          BY <4>1
      <3>2. QED
        BY <2>7, <2>8, <2>9, <2>10, <2>11, <2>12, <2>13, <3>1
    <2>15. QED
      BY <2>14 DEF new
  <1>3. QED
    BY <1>1, <1>2

LEMMA EventIsOwned ==
  ASSUME NEW x, x.tokens \in Seq(XmlTokens), x.subs \in Seq(Nat)
  PROVE  /\ IsList(ReadEvent(x).data)
         /\ \A d \in ToSet(ReadEvent(x).data) : Owned(x, d)
  <1> DEFINE n == Len(x.tokens)
             first == EventStart(x)
             g == CHOOSE e : EventLoop(e, x, n)
             S == {m \in 0 .. n : \E e : EventLoop(e, x, m)}
  <1>1. ReadEvent(x) = IF x.header THEN g[n] ELSE first
    BY Zenon DEF ReadEvent, EventLoop, EventStart
  <1>2. n \in Nat
    OBVIOUS
  <1>20. DOMAIN x.tokens = 1 .. n
    OBVIOUS
  <1>0. Owns(first, x, 0)
    <2>1. first = [y \in EventFields |-> first[y]] /\ first.data = <<>> /\ first.read = 0 /\ first.key = 0
      BY DEF EventStart, EventFields
    <2> HIDE DEF first
    <2>2. QED
      BY <2>1, EmptyIsList DEF Owns
  <1>3. \A e, m : EventLoop(e, x, m) <=>
                    e = [k \in 0 .. m |-> IF k = 0 THEN first ELSE Token(e[k - 1], x.tokens[k], x.subs)]
    BY DEF EventLoop
  <1> HIDE DEF n, g, first
  <1>4. 0 \in S
    <2> DEFINE e == [k \in 0 .. 0 |-> first]
    <2>1. e = [k \in 0 .. 0 |-> IF k = 0 THEN first ELSE Token(e[k - 1], x.tokens[k], x.subs)]
      OBVIOUS
    <2> HIDE DEF e
    <2>2. EventLoop(e, x, 0)
      BY <1>3, <2>1
    <2>3. QED
      BY <1>2, <2>2
  <1>5. \A m \in 1 .. n : m - 1 \in S => m \in S
    <2> SUFFICES ASSUME NEW m \in 1 .. n, m - 1 \in S PROVE m \in S
      OBVIOUS
    <2>1. PICK d : EventLoop(d, x, m - 1)
      OBVIOUS
    <2> DEFINE e == [k \in 0 .. m |-> IF k = m THEN Token(d[m - 1], x.tokens[m], x.subs) ELSE d[k]]
    <2>2. d = [k \in 0 .. m - 1 |-> IF k = 0 THEN first ELSE Token(d[k - 1], x.tokens[k], x.subs)]
      BY <1>3, <2>1
    <2>3. \A k \in 0 .. m : e[k] = IF k = 0 THEN first ELSE Token(e[k - 1], x.tokens[k], x.subs)
      BY <1>2, <2>2
    <2>4. e = [k \in 0 .. m |-> e[k]]
      OBVIOUS
    <2> HIDE DEF e
    <2>5. EventLoop(e, x, m)
      <3>1. e = [k \in 0 .. m |-> IF k = 0 THEN first ELSE Token(e[k - 1], x.tokens[k], x.subs)]
        BY <2>3, <2>4
      <3>2. QED
        BY <1>3, <3>1
    <2>6. QED
      BY <2>5
  <1> HIDE DEF S
  <1>6. 0 .. n \subseteq S
    BY <1>2, <1>4, <1>5, RangeInduction
  <1>7. \E e : EventLoop(e, x, n)
    BY <1>2, <1>6 DEF S
  <1>8. g = [k \in 0 .. n |-> IF k = 0 THEN first ELSE Token(g[k - 1], x.tokens[k], x.subs)]
    BY <1>3, <1>7 DEF g
  <1> DEFINE R == {k \in 0 .. n : Owns(g[k], x, k)}
  <1>9. \A k \in 0 .. n : g[k] = IF k = 0 THEN first ELSE Token(g[k - 1], x.tokens[k], x.subs)
    BY <1>8
  <1>10. 0 \in R
    BY <1>0, <1>2, <1>9
  <1>11. \A k \in 1 .. n : k - 1 \in R => k \in R
    <2> SUFFICES ASSUME NEW k \in 1 .. n, k - 1 \in R PROVE Owns(g[k], x, k)
      OBVIOUS
    <2>1. g[k] = Token(g[k - 1], x.tokens[k], x.subs)
      BY <1>2, <1>9
    <2> DEFINE j == k - 1
    <2>2. j \in Nat /\ k = j + 1 /\ j + 1 \in DOMAIN x.tokens /\ Owns(g[j], x, j)
      BY <1>2, <1>20 DEF R
    <2> HIDE DEF j
    <2>3. Owns(Token(g[j], x.tokens[j + 1], x.subs), x, j + 1)
      BY <2>2, TokenOwns
    <2>4. QED
      BY <2>1, <2>2, <2>3 DEF j
  <1> HIDE DEF R
  <1>12. 0 .. n \subseteq R
    BY <1>2, <1>10, <1>11, RangeInduction
  <1>13. Owns(g[n], x, n)
    <2>1. n \in R
      BY <1>2, <1>12
    <2>2. QED
      BY <2>1 DEF R
  <1>14. QED
    BY <1>0, <1>1, <1>13 DEF Owns

-----------------------------------------------------------------------------
(* An event holds what its own record says. *)
XmlAt(p, of) == p.chunks[of[1]].record[of[2]].xml
Quoted(e, p) == IsList(e.data) /\ \A d \in ToSet(e.data) : Owned(XmlAt(p, e.of), d)

LEMMA LogEventQuotes ==
  ASSUME NEW p, p.format = "evtx", IsLog(p), NEW n \in DOMAIN p.chunks, NEW at \in DOMAIN p.chunks[n].record
  PROVE  Quoted(LogEvent(n, at, p.chunks[n].record[at]), p)
  <1> DEFINE c == p.chunks[n]
             r == c.record[at]
             x == [r.xml EXCEPT !.time = FileTime(@)]
             e == LogEvent(n, at, r)
  <1>1. c \in LogChunks
    BY ItemIs DEF IsLog
  <1>2. c.record \in Seq(LogRecords)
    BY <1>1 DEF LogChunks
  <1>3. r.xml \in XmlEvents
    <2>1. r \in LogRecords
      BY <1>2, ItemIs
    <2>2. QED
      BY <2>1 DEF LogRecords
  <1>4. e.of = <<n, at>> /\ e.data = ReadEvent(x).data
    BY DEF LogEvent, EventOf
  <1> HIDE DEF e
  <1>5. XmlAt(p, e.of) = r.xml
    BY <1>4 DEF XmlAt
  <1> HIDE DEF c, r
  <1>6. x.tokens = r.xml.tokens /\ x.subs = r.xml.subs /\ x.tokens \in Seq(XmlTokens) /\ x.subs \in Seq(Nat)
    BY <1>3 DEF XmlEvents
  <1> HIDE DEF x
  <1>7. IsList(e.data) /\ \A d \in ToSet(e.data) : Owned(x, d)
    BY <1>4, <1>6, EventIsOwned
  <1>8. \A d : Owned(x, d) <=> Owned(r.xml, d)
    BY <1>6 DEF Owned, NamedIn, Said
  <1>9. Quoted(e, p)
    BY <1>5, <1>7, <1>8 DEF Quoted
  <1>10. QED
    BY <1>9 DEF e, r, c

(* What a log reads: the times of its events, and what they hold. *)
LogFields == {"at", "over", "chunks", "events", "warnings"}
Logs(st, f) ==
  /\ st = [x \in LogFields |-> st[x]] /\ st.at \in Nat
  /\ IsList(st.events) /\ \A e \in ToSet(st.events) : TimeOf(e.time, f) /\ Quoted(e, f)

LEMMA RecordKeeps ==
  ASSUME NEW p, p.format = "evtx", IsLog(p), NEW n \in DOMAIN p.chunks, NEW st, Logs(st, p), st.at >= 1
  PROVE  Logs(ReadRecord(n, p.chunks[n], st), p) /\ ReadRecord(n, p.chunks[n], st).at >= 1
  <1> DEFINE c == p.chunks[n]
             r == c.record[st.at]
             t == ReadRecord(n, c, st)
             e == LogEvent(n, st.at, r)
             A == {"record truncated"}
             B == {"record size mismatch"}
             C == {"malformed payload"}
             wa == st.warnings \union A
             wb == st.warnings \union B
             wc == st.warnings \union (IF e.good THEN {} ELSE C)
             es == Append(st.events, e)
             to == st.at + r.size
             t1 == [st EXCEPT !.over = TRUE]
             t2 == [st EXCEPT !.over = TRUE, !.warnings = wa]
             t3 == [st EXCEPT !.over = TRUE, !.warnings = wb]
             t4 == [st EXCEPT !.at = to, !.events = es, !.warnings = wc]
             stops == \/ st.over \/ st.at >= Bound(c, Reserved(c.first, c.size)) \/ Len(st.events) >= RecordCap
                      \/ st.at > c.file \/ r.size = 0
             cut == r.size < 0 \/ st.at + r.size > Least(c.size, c.file) + 1
  <1>1. t = IF stops THEN t1 ELSE IF cut THEN t2 ELSE IF r.trailer # r.size THEN t3 ELSE t4
    BY Zenon DEF ReadRecord, Taken
  <1>2. c \in LogChunks /\ Len(c.record) = c.size
    BY ItemIs DEF IsLog
  <1>3. c.record \in Seq(LogRecords) /\ c.size \in Nat /\ c.free \in Nat /\ c.first \in Nat
    BY <1>2 DEF LogChunks
  <1>4. DOMAIN c.record = 1 .. c.size
    BY <1>2, <1>3
  <1>5. ~stops => st.at \in 1 .. c.size /\ r.size # 0
    <2> HIDE DEF c, r
    <2>1. Bound(c, Reserved(c.first, c.size)) <= c.size + 1
      BY <1>3 DEF Bound, Reserved
    <2>2. Bound(c, Reserved(c.first, c.size)) \in Nat
      BY <1>3 DEF Bound, Reserved
    <2>3. QED
      BY <1>3, <2>1, <2>2 DEF Logs
  <1>6. ~stops /\ ~cut => to \in Nat /\ to >= 1 /\ TimeOf(e.time, p) /\ Quoted(e, p)
    <2> SUFFICES ASSUME ~stops, ~cut PROVE to \in Nat /\ to >= 1 /\ TimeOf(e.time, p) /\ Quoted(e, p)
      OBVIOUS
    <2>1. st.at \in DOMAIN c.record
      BY <1>4, <1>5
    <2>2. r \in LogRecords
      BY <1>3, <2>1, ItemIs
    <2>3. TimeOf(e.time, p) /\ Quoted(e, p)
      BY <2>1, LogEventIs, LogEventQuotes
    <2>4. r.size \in Int /\ ~(r.size < 0)
      BY <2>2 DEF LogRecords
    <2> HIDE DEF r
    <2>5. QED
      BY <2>3, <2>4 DEF Logs
  <1> HIDE DEF stops, cut, wa, wb, wc, to, e, c, r
  <1>7. IsList(es) /\ ToSet(es) = ToSet(st.events) \union {e}
    BY AppendIsList DEF Logs
  <1> HIDE DEF es
  <1>8. t1.at = st.at /\ t2.at = st.at /\ t3.at = st.at /\ t4.at = to
    BY DEF Logs, LogFields
  <1>9. Logs(t1, p) /\ Logs(t2, p) /\ Logs(t3, p)
    BY DEF Logs, LogFields
  <1>10. ~stops /\ ~cut => Logs(t4, p)
    <2>1. t4.at = to /\ t4.events = es /\ t4 = [x \in LogFields |-> t4[x]]
      BY DEF Logs, LogFields
    <2> HIDE DEF t4
    <2>2. ~stops /\ ~cut => \A q \in ToSet(es) : TimeOf(q.time, p) /\ Quoted(q, p)
      BY <1>6, <1>7 DEF Logs
    <2>3. QED
      BY <1>6, <1>7, <2>1, <2>2 DEF Logs
  <1> HIDE DEF t, t1, t2, t3, t4
  <1>11. Logs(t, p) /\ t.at >= 1
    BY <1>1, <1>6, <1>8, <1>9, <1>10
  <1>12. QED
    BY <1>11 DEF t, c

-----------------------------------------------------------------------------
ChunkStart(c, st) ==
  [st EXCEPT !.at = Reserved(c.first, c.size), !.over = FALSE, !.chunks = @ + 1,
             !.warnings = @ \union (IF c.first \in 1 .. c.size THEN {} ELSE {"first record"})]
ChunkLoop(g, n, c, st, m) ==
  g = [k \in 0 .. m |-> IF k = 0 THEN ChunkStart(c, st) ELSE ReadRecord(n, c, g[k - 1])]

LEMMA ChunkKeeps ==
  ASSUME NEW p, p.format = "evtx", IsLog(p), NEW q \in DOMAIN p.chunks, NEW st, Logs(st, p)
  PROVE  Logs(ReadChunk(q, p.chunks[q], st), p)
  <1> DEFINE c == p.chunks[q]
             n == c.size + 1
             first == ChunkStart(c, st)
             g == CHOOSE e : ChunkLoop(e, q, c, st, n)
             S == {m \in 0 .. n : \E e : ChunkLoop(e, q, c, st, m)}
             W == {"chunk signature"}
             bad == [st EXCEPT !.warnings = @ \union W]
  <1>1. ReadChunk(q, c, st) = CASE c.signature = "zero" -> st [] c.signature = "bad" -> bad [] c.signature = "chunk" -> g[n]
    BY Zenon DEF ReadChunk, ChunkLoop, ChunkStart
  <1>2. n \in Nat /\ c.signature \in {"chunk", "zero", "bad"}
    <2>1. c \in LogChunks
      BY ItemIs DEF IsLog
    <2>2. QED
      BY <2>1 DEF LogChunks
  <1>0. Logs(first, p) /\ first.at >= 1
    <2>1. c \in LogChunks
      BY ItemIs DEF IsLog
    <2>2. Reserved(c.first, c.size) \in Nat /\ Reserved(c.first, c.size) >= 1
      BY <2>1 DEF LogChunks, Reserved
    <2> DEFINE a == Reserved(c.first, c.size)
               V == st.warnings \union (IF c.first \in 1 .. c.size THEN {} ELSE {"first record"})
    <2>3. first = [st EXCEPT !.at = a, !.over = FALSE, !.chunks = @ + 1, !.warnings = V]
      BY Zenon DEF ChunkStart
    <2> HIDE DEF V, a, first
    <2>4. first = [x \in LogFields |-> first[x]] /\ first.at = a /\ first.events = st.events
      BY <2>3 DEF Logs, LogFields
    <2>5. QED
      BY <2>2, <2>4 DEF a, Logs
  <1>20. Logs(bad, p)
    <2> HIDE DEF W
    <2>1. QED
      BY DEF Logs, LogFields
  <1> HIDE DEF bad
  <1>3. \A e, m : ChunkLoop(e, q, c, st, m) <=>
                    e = [k \in 0 .. m |-> IF k = 0 THEN first ELSE ReadRecord(q, c, e[k - 1])]
    BY DEF ChunkLoop
  <1> HIDE DEF n, g, first
  <1>4. 0 \in S
    <2> DEFINE e == [k \in 0 .. 0 |-> first]
    <2>1. e = [k \in 0 .. 0 |-> IF k = 0 THEN first ELSE ReadRecord(q, c, e[k - 1])]
      OBVIOUS
    <2> HIDE DEF e
    <2>2. ChunkLoop(e, q, c, st, 0)
      BY <1>3, <2>1
    <2>3. QED
      BY <1>2, <2>2
  <1>5. \A m \in 1 .. n : m - 1 \in S => m \in S
    <2> SUFFICES ASSUME NEW m \in 1 .. n, m - 1 \in S PROVE m \in S
      OBVIOUS
    <2>1. PICK d : ChunkLoop(d, q, c, st, m - 1)
      OBVIOUS
    <2> DEFINE e == [k \in 0 .. m |-> IF k = m THEN ReadRecord(q, c, d[m - 1]) ELSE d[k]]
    <2>2. d = [k \in 0 .. m - 1 |-> IF k = 0 THEN first ELSE ReadRecord(q, c, d[k - 1])]
      BY <1>3, <2>1
    <2>3. \A k \in 0 .. m : e[k] = IF k = 0 THEN first ELSE ReadRecord(q, c, e[k - 1])
      BY <1>2, <2>2
    <2>4. e = [k \in 0 .. m |-> e[k]]
      OBVIOUS
    <2> HIDE DEF e
    <2>5. ChunkLoop(e, q, c, st, m)
      <3>1. e = [k \in 0 .. m |-> IF k = 0 THEN first ELSE ReadRecord(q, c, e[k - 1])]
        BY <2>3, <2>4
      <3>2. QED
        BY <1>3, <3>1
    <2>6. QED
      BY <2>5
  <1> HIDE DEF S
  <1>6. 0 .. n \subseteq S
    BY <1>2, <1>4, <1>5, RangeInduction
  <1>7. \E e : ChunkLoop(e, q, c, st, n)
    BY <1>2, <1>6 DEF S
  <1>8. g = [k \in 0 .. n |-> IF k = 0 THEN first ELSE ReadRecord(q, c, g[k - 1])]
    BY <1>3, <1>7 DEF g
  <1> DEFINE R == {k \in 0 .. n : (Logs(g[k], p) /\ g[k].at >= 1)}
  <1>9. \A k \in 0 .. n : g[k] = IF k = 0 THEN first ELSE ReadRecord(q, c, g[k - 1])
    BY <1>8
  <1>10. 0 \in R
    BY <1>0, <1>2, <1>9
  <1>11. \A k \in 1 .. n : k - 1 \in R => k \in R
    <2> SUFFICES ASSUME NEW k \in 1 .. n, k - 1 \in R PROVE (Logs(g[k], p) /\ g[k].at >= 1)
      OBVIOUS
    <2>1. g[k] = ReadRecord(q, c, g[k - 1])
      BY <1>2, <1>9
    <2>2. Logs(g[k - 1], p) /\ g[k - 1].at >= 1
      BY DEF R
    <2>3. QED
      BY <2>1, <2>2, RecordKeeps
  <1> HIDE DEF R
  <1>12. 0 .. n \subseteq R
    BY <1>2, <1>10, <1>11, RangeInduction
  <1>13. (Logs(g[n], p) /\ g[n].at >= 1)
    <2>1. n \in R
      BY <1>2, <1>12
    <2>2. QED
      BY <2>1 DEF R
  <1>14. Logs(ReadChunk(q, c, st), p)
    <2> HIDE DEF c
    <2>1. QED
      BY <1>1, <1>2, <1>13, <1>20
  <1>15. QED
    BY <1>14

LogStart == [at |-> 0, over |-> FALSE, chunks |-> 0, events |-> <<>>, warnings |-> {}]
LogLoop(g, chunks, m) ==
  g = [n \in 0 .. m |-> IF n = 0 THEN LogStart ELSE ReadChunk(n, chunks[n], g[n - 1])]

LEMMA LogIsRead ==
  ASSUME NEW p, p.format = "evtx", IsLog(p)
  PROVE  Logs(ReadLog(p.chunks), p)
  <1> DEFINE chunks == p.chunks
             n == Len(chunks)
             first == LogStart
             g == CHOOSE e : LogLoop(e, chunks, n)
             S == {m \in 0 .. n : \E e : LogLoop(e, chunks, m)}
  <1>1. ReadLog(p.chunks) = Capped(g[n])
    BY Zenon DEF ReadLog, LogLoop, LogStart
  <1>2. n \in Nat /\ DOMAIN chunks = 1 .. n
    BY DEF IsLog
  <1>0. Logs(first, p)
    <2>1. IsList(<<>>) /\ ToSet(<<>>) = {}
      BY EmptyIsList
    <2>2. QED
      BY <2>1 DEF Logs, LogStart, LogFields
  <1>3. \A e, m : LogLoop(e, chunks, m) <=>
                    e = [k \in 0 .. m |-> IF k = 0 THEN first ELSE ReadChunk(k, chunks[k], e[k - 1])]
    BY DEF LogLoop
  <1> HIDE DEF n, g, first
  <1>4. 0 \in S
    <2> DEFINE e == [k \in 0 .. 0 |-> first]
    <2>1. e = [k \in 0 .. 0 |-> IF k = 0 THEN first ELSE ReadChunk(k, chunks[k], e[k - 1])]
      OBVIOUS
    <2> HIDE DEF e
    <2>2. LogLoop(e, chunks, 0)
      BY <1>3, <2>1
    <2>3. QED
      BY <1>2, <2>2
  <1>5. \A m \in 1 .. n : m - 1 \in S => m \in S
    <2> SUFFICES ASSUME NEW m \in 1 .. n, m - 1 \in S PROVE m \in S
      OBVIOUS
    <2>1. PICK d : LogLoop(d, chunks, m - 1)
      OBVIOUS
    <2> DEFINE e == [k \in 0 .. m |-> IF k = m THEN ReadChunk(m, chunks[m], d[m - 1]) ELSE d[k]]
    <2>2. d = [k \in 0 .. m - 1 |-> IF k = 0 THEN first ELSE ReadChunk(k, chunks[k], d[k - 1])]
      BY <1>3, <2>1
    <2>3. \A k \in 0 .. m : e[k] = IF k = 0 THEN first ELSE ReadChunk(k, chunks[k], e[k - 1])
      BY <1>2, <2>2
    <2>4. e = [k \in 0 .. m |-> e[k]]
      OBVIOUS
    <2> HIDE DEF e
    <2>5. LogLoop(e, chunks, m)
      <3>1. e = [k \in 0 .. m |-> IF k = 0 THEN first ELSE ReadChunk(k, chunks[k], e[k - 1])]
        BY <2>3, <2>4
      <3>2. QED
        BY <1>3, <3>1
    <2>6. QED
      BY <2>5
  <1> HIDE DEF S
  <1>6. 0 .. n \subseteq S
    BY <1>2, <1>4, <1>5, RangeInduction
  <1>7. \E e : LogLoop(e, chunks, n)
    BY <1>2, <1>6 DEF S
  <1>8. g = [k \in 0 .. n |-> IF k = 0 THEN first ELSE ReadChunk(k, chunks[k], g[k - 1])]
    BY <1>3, <1>7 DEF g
  <1> DEFINE R == {k \in 0 .. n : Logs(g[k], p)}
  <1>9. \A k \in 0 .. n : g[k] = IF k = 0 THEN first ELSE ReadChunk(k, chunks[k], g[k - 1])
    BY <1>8
  <1>10. 0 \in R
    BY <1>0, <1>2, <1>9
  <1>11. \A k \in 1 .. n : k - 1 \in R => k \in R
    <2> SUFFICES ASSUME NEW k \in 1 .. n, k - 1 \in R PROVE Logs(g[k], p)
      OBVIOUS
    <2>1. g[k] = ReadChunk(k, chunks[k], g[k - 1])
      BY <1>2, <1>9
    <2>2. Logs(g[k - 1], p) /\ k \in DOMAIN p.chunks
      BY <1>2 DEF R
    <2>3. QED
      BY <2>1, <2>2, ChunkKeeps
  <1> HIDE DEF R
  <1>12. 0 .. n \subseteq R
    BY <1>2, <1>10, <1>11, RangeInduction
  <1>13. Logs(g[n], p)
    <2>1. n \in R
      BY <1>2, <1>12
    <2>2. QED
      BY <2>1 DEF R
  <1>14. Logs(Capped(g[n]), p)
    <2> DEFINE s == g[n]
               V == s.warnings \union (IF Len(s.events) >= RecordCap THEN {"cap reached"} ELSE {})
               t == [s EXCEPT !.warnings = V]
    <2>1. Capped(s) = t
      BY Zenon DEF Capped
    <2>2. Logs(s, p)
      BY <1>13
    <2> HIDE DEF s, V
    <2>3. Logs(t, p)
      BY <2>2 DEF Logs, LogFields
    <2> HIDE DEF t
    <2>4. Logs(Capped(s), p)
      BY <2>1, <2>3
    <2>5. QED
      BY <2>4 DEF s
  <1>15. QED
    BY <1>1, <1>14

LEMMA EventLogIsFair ==
  ASSUME NEW p, IsFile(p), p.read = "none", NEW primary
  PROVE  FairResult(EventLog(p, primary), p)
  <1> DEFINE bad == Failed("truncated")
             other == Unsupported({})
             log == ReadLog(p.chunks)
             none == Unsupported(log.warnings)
             W == log.warnings \union (IF primary THEN {} ELSE {"generic channel"})
             row(x) == [kind |-> "event", time |-> x.time, of |-> x.of, id |-> x.id,
                        sysmon |-> x.provider = Sysmon, data |-> x.data]
             es == [i \in DOMAIN log.events |-> row(log.events[i])]
  <1>1. EventLog(p, primary) = IF p.format = "short" THEN bad ELSE IF p.format # "evtx" THEN other
                               ELSE IF log.chunks = 0 THEN none ELSE Found(es, W)
    BY Zenon DEF EventLog, LogDetails
  <1>2. FairResult(bad, p) /\ FairResult(other, p) /\ FairResult(none, p)
    BY NoneIsFair
  <1> HIDE DEF bad, other, none, W
  <1>3. CASE p.format = "evtx"
    <2>1. IsLog(p)
      BY <1>3 DEF IsFile
    <2>2. Logs(log, p)
      BY <1>3, <2>1, LogIsRead
    <2> HIDE DEF log
    <2>3. Len(log.events) \in Nat /\ DOMAIN log.events = 1 .. Len(log.events)
          /\ \A i \in 1 .. Len(log.events) : TimeOf(log.events[i].time, p)
      BY <2>2, ListPlaces DEF Logs
    <2>4. "event" \in DOMAIN EventTypes /\ EventTypes["event"][1] # NoEvent /\ EventTypes["event"][2] # NoEvent
      BY DEF EventTypes, NoEvent
    <2>5. ASSUME NEW x, TimeOf(x.time, p) PROVE Fine(row(x), p)
      <3> DEFINE e == row(x)
      <3>1. e.kind = "event" /\ e.time = x.time
        OBVIOUS
      <3> HIDE DEF e
      <3>2. Telling(e)
        BY <2>4, <2>5, <3>1, TimeIsNumber DEF Telling, TypeOf
      <3>3. DatedFrom(e, p)
        BY <1>3, <2>5, <3>1 DEF DatedFrom, TimeOf
      <3>4. Fine(e, p)
        BY <3>2, <3>3 DEF Fine
      <3>5. QED
        BY <3>4 DEF e
    <2> HIDE DEF row
    <2>6. \A i \in 1 .. Len(log.events) : Fine(es[i], p)
      BY <2>3, <2>5
    <2>7. es = [i \in 1 .. Len(log.events) |-> es[i]]
      BY <2>3
    <2> HIDE DEF es
    <2>8. FineList(es, p)
      BY <2>3, <2>6, <2>7, FineFrom
    <2>9. QED
      BY <1>1, <1>2, <1>3, <2>8, FoundIsFair
  <1> HIDE DEF es, log
  <1>4. QED
    BY <1>1, <1>2, <1>3

-----------------------------------------------------------------------------
ChainFields == {"at", "data", "error"}
Hops(st) == st = [x \in ChainFields |-> st[x]] /\ IsList(st.data)
ChainLoop(g, table, room, start, m) ==
  g = [k \in 0 .. m |-> IF k = 0 THEN [at |-> start, data |-> <<>>, error |-> "none"]
                        ELSE Hop(table, room, g[k - 1])]

LEMMA HopKeeps ==
  ASSUME NEW table, NEW room, NEW st, Hops(st)
  PROVE  Hops(Hop(table, room, st))
  <1> DEFINE d == Append(st.data, st.at)
             a == table[st.at]
             e1 == "outside the table"
             e3 == "out of range"
             t1 == [st EXCEPT !.error = e1]
             t2 == [st EXCEPT !.error = "loop"]
             t3 == [st EXCEPT !.error = e3]
             t4 == [st EXCEPT !.data = d, !.at = a]
  <1>1. Hop(table, room, st) \in {st, t1, t2, t3, t4}
    <2>1. Hop(table, room, st) = IF st.error # "none" \/ st.at = EndOfChain THEN st
                                 ELSE IF st.at \notin DOMAIN table THEN t1
                                 ELSE IF \E i \in DOMAIN st.data : st.data[i] = st.at THEN t2
                                 ELSE IF st.at >= room THEN t3 ELSE t4
      BY Zenon DEF Hop
    <2> HIDE DEF t1, t2, t3, t4
    <2>2. QED
      BY <2>1
  <1>2. IsList(d)
    BY AppendIsList DEF Hops
  <1> HIDE DEF d, a, e1, e3
  <1>3. Hops(t1) /\ Hops(t2) /\ Hops(t3) /\ Hops(t4)
    BY <1>2 DEF Hops, ChainFields
  <1> HIDE DEF t1, t2, t3, t4
  <1>4. QED
    BY <1>1, <1>3

LEMMA ChainIsRead ==
  ASSUME NEW table, IsFiniteSet(DOMAIN table), NEW room, NEW start
  PROVE  IsList(Chain(table, room, start).data)
  <1> DEFINE n == Cardinality(DOMAIN table) + 1
             first == [at |-> start, data |-> <<>>, error |-> "none"]
             g == CHOOSE e : ChainLoop(e, table, room, start, n)
             S == {m \in 0 .. n : \E e : ChainLoop(e, table, room, start, m)}
  <1>1. Chain(table, room, start) = g[n]
    BY Zenon DEF Chain, ChainLoop
  <1>2. n \in Nat
    BY FS_CardinalityType
  <1>0. Hops(first)
    <2>1. IsList(<<>>)
      BY EmptyIsList
    <2>2. QED
      BY <2>1 DEF Hops, ChainFields
  <1>3. \A e, m : ChainLoop(e, table, room, start, m) <=>
                    e = [k \in 0 .. m |-> IF k = 0 THEN first ELSE Hop(table, room, e[k - 1])]
    BY DEF ChainLoop
  <1> HIDE DEF n, g, first
  <1>4. 0 \in S
    <2> DEFINE e == [k \in 0 .. 0 |-> first]
    <2>1. e = [k \in 0 .. 0 |-> IF k = 0 THEN first ELSE Hop(table, room, e[k - 1])]
      OBVIOUS
    <2> HIDE DEF e
    <2>2. ChainLoop(e, table, room, start, 0)
      BY <1>3, <2>1
    <2>3. QED
      BY <1>2, <2>2
  <1>5. \A m \in 1 .. n : m - 1 \in S => m \in S
    <2> SUFFICES ASSUME NEW m \in 1 .. n, m - 1 \in S PROVE m \in S
      OBVIOUS
    <2>1. PICK d : ChainLoop(d, table, room, start, m - 1)
      OBVIOUS
    <2> DEFINE e == [k \in 0 .. m |-> IF k = m THEN Hop(table, room, d[m - 1]) ELSE d[k]]
    <2>2. d = [k \in 0 .. m - 1 |-> IF k = 0 THEN first ELSE Hop(table, room, d[k - 1])]
      BY <1>3, <2>1
    <2>3. \A k \in 0 .. m : e[k] = IF k = 0 THEN first ELSE Hop(table, room, e[k - 1])
      BY <1>2, <2>2
    <2>4. e = [k \in 0 .. m |-> e[k]]
      OBVIOUS
    <2> HIDE DEF e
    <2>5. ChainLoop(e, table, room, start, m)
      <3>1. e = [k \in 0 .. m |-> IF k = 0 THEN first ELSE Hop(table, room, e[k - 1])]
        BY <2>3, <2>4
      <3>2. QED
        BY <1>3, <3>1
    <2>6. QED
      BY <2>5
  <1> HIDE DEF S
  <1>6. 0 .. n \subseteq S
    BY <1>2, <1>4, <1>5, RangeInduction
  <1>7. \E e : ChainLoop(e, table, room, start, n)
    BY <1>2, <1>6 DEF S
  <1>8. g = [k \in 0 .. n |-> IF k = 0 THEN first ELSE Hop(table, room, g[k - 1])]
    BY <1>3, <1>7 DEF g
  <1> DEFINE R == {k \in 0 .. n : Hops(g[k])}
  <1>9. \A k \in 0 .. n : g[k] = IF k = 0 THEN first ELSE Hop(table, room, g[k - 1])
    BY <1>8
  <1>10. 0 \in R
    BY <1>0, <1>2, <1>9
  <1>11. \A k \in 1 .. n : k - 1 \in R => k \in R
    <2> SUFFICES ASSUME NEW k \in 1 .. n, k - 1 \in R PROVE Hops(g[k])
      OBVIOUS
    <2>1. g[k] = Hop(table, room, g[k - 1])
      BY <1>2, <1>9
    <2>2. Hops(g[k - 1])
      BY DEF R
    <2>3. QED
      BY <2>1, <2>2, HopKeeps
  <1> HIDE DEF R
  <1>12. 0 .. n \subseteq R
    BY <1>2, <1>10, <1>11, RangeInduction
  <1>13. Hops(g[n])
    <2>1. n \in R
      BY <1>2, <1>12
    <2>2. QED
      BY <2>1 DEF R
  <1>14. QED
    BY <1>1, <1>13 DEF Hops

(* A stream has no more than the size the directory gives it. *)
LEMMA StreamIsCut ==
  ASSUME NEW p, IsCompound(p)
  PROVE  /\ ReadStream(p, p.destList).size \in Nat
         /\ ReadStream(p, p.destList).size <= p.destList.size
  <1> DEFINE stream == p.destList
             big == InFat(p, stream)
             x == Chain(p.fat, p.sectors, stream.start)
             y == Chain(p.miniFat, Minis(p), stream.start)
             read == IF big THEN x ELSE y
             unit == IF big THEN p.sectorSize ELSE p.miniSize
             none == [size |-> 0, data |-> <<>>, error |-> "none"]
             size == IF read.error = "none" THEN Least(stream.size, unit * Len(read.data)) ELSE 0
             some == [size |-> size, data |-> read.data, error |-> read.error]
  <1>1. ReadStream(p, stream) = IF stream.size = 0 \/ NoData(stream.start) THEN none ELSE some
    BY Zenon DEF ReadStream
  <1>2. stream.size \in Nat /\ unit \in Nat
    BY DEF IsCompound, IsStream
  <1>3. IsList(x.data) /\ IsList(y.data)
    BY ChainIsRead DEF IsCompound, IsTable
  <1> HIDE DEF x, y, big, unit, stream
  <1>4. Len(read.data) \in Nat
    <2>1. Len(x.data) \in Nat /\ Len(y.data) \in Nat
      BY <1>3, ListPlaces
    <2>2. QED
      BY <2>1
  <1> HIDE DEF read
  <1>5. size \in Nat /\ size <= stream.size
    BY <1>2, <1>4 DEF Least
  <1> HIDE DEF size
  <1>6. none.size = 0 /\ some.size = size
    OBVIOUS
  <1> HIDE DEF none, some
  <1>7. QED
    BY <1>1, <1>2, <1>5, <1>6 DEF stream

-----------------------------------------------------------------------------
(* What is read of the list of destinations. *)
ListFields == {"at", "entries", "warnings", "cut"}
Listing(st, p) == st = [x \in ListFields |-> st[x]] /\ st.at \in Int /\ FineList(st.entries, p)

(* An entry's time is only taken with the layout that is trusted. *)
LEMMA ListedIsFine ==
  ASSUME NEW p, p.format = "cfbf", IsCompound(p), NEW size \in Nat, size <= p.destList.size, NEW off \in Int,
         NEW x \in {Layouts[1], Layouts[2]}, Fits(ListedAt(p.list, off), x, size - off)
  PROVE  /\ Fine(Entry("entry", IF x.trusted THEN FileTime(ListedAt(p.list, off).time) ELSE NoTime, off), p)
         /\ off + Extent(ListedAt(p.list, off), x) \in Int
  <1> DEFINE e == ListedAt(p.list, off)
             t == IF x.trusted THEN FileTime(e.time) ELSE NoTime
             r == Entry("entry", t, off)
  <1>1. /\ Layouts[1].fixed = 114 /\ Layouts[1].trusted = TRUE
        /\ Layouts[2].fixed = 128 /\ Layouts[2].trusted = FALSE
    BY DEF Layouts
  <1>2. e.chars[1] \in Nat /\ e.chars[2] \in Nat /\ e.time \in Nat
    <2>1. CASE off \in DOMAIN p.list
      BY <2>1 DEF IsCompound, ListedAt
    <2>2. CASE off \notin DOMAIN p.list
      BY <2>2 DEF ListedAt, Noise, MaxChars
    <2>3. QED
      BY <2>1, <2>2
  <1>3. off \notin DOMAIN p.list => e.time = 0
    BY DEF ListedAt, Noise
  <1>4. off \in DOMAIN p.list => e = p.list[off] /\ e.time \in Held(p)
    BY DEF ListedAt, Held
  <1> HIDE DEF e
  <1>5. t # NoTime => /\ t >= Epoch /\ t = e.time /\ x = Layouts[1] /\ off \in DOMAIN p.list
    <2>1. e.time = 0 => FileTime(e.time) = NoTime
      BY DEF FileTime, Epoch
    <2>2. QED
      BY <1>1, <1>2, <1>3, <2>1 DEF FileTime, Epoch, NoTime
  <1>6. t # NoTime => 114 + 2 * e.chars[1] <= size - off
    BY <1>1, <1>5 DEF Fits, Extent, Chars, e
  <1>7. off + Extent(e, x) \in Int
    BY <1>1, <1>2 DEF Extent, Chars
  <1>8. t \in Int
    BY <1>2 DEF FileTime, NoTime
  <1> HIDE DEF t
  <1>9. r.kind = "entry" /\ r.time = t /\ r.of = off
    BY DEF Entry
  <1> HIDE DEF r
  <1>10. "entry" \in DOMAIN EventTypes /\ EventTypes["entry"][1] # NoEvent /\ EventTypes["entry"][2] # NoEvent
    BY DEF EventTypes, NoEvent
  <1>11. Telling(r)
    BY <1>8, <1>9, <1>10 DEF Telling, TypeOf
  <1>12. t # NoTime => 114 + 2 * p.list[off].chars[1] <= p.destList.size - off
    <2>1. p.destList.size \in Nat
      BY DEF IsCompound, IsStream
    <2>2. QED
      BY <1>2, <1>4, <1>5, <1>6, <2>1
  <1>13. DatedFrom(r, p)
    BY <1>4, <1>5, <1>9, <1>12 DEF DatedFrom
  <1>14. Fine(r, p)
    BY <1>11, <1>13 DEF Fine
  <1>15. QED
    BY <1>7, <1>14 DEF r, t, e

-----------------------------------------------------------------------------
LEMMA ListedKeeps ==
  ASSUME NEW p, p.format = "cfbf", IsCompound(p), NEW size \in Nat, size <= p.destList.size, NEW st, Listing(st, p)
  PROVE  Listing(ReadListed(p, size, st), p)
  <1> DEFINE e == ListedAt(p.list, st.at)
             I == {i \in DOMAIN Layouts : Fits(e, Layouts[i], size - st.at)}
             l == Picked(Layouts, I)
             A == {"entries truncated"}
             wa == st.warnings \union A
             wb == st.warnings \union LinkWarnings(p, e)
                     \union (IF Head(l).trusted THEN {} ELSE {"layout not trusted"})
                     \union (IF Head(l).trusted /\ e.pin \notin {0, 1, FreeSector} THEN {"pin state"} ELSE {})
             r == Entry("entry", IF Head(l).trusted THEN FileTime(e.time) ELSE NoTime, st.at)
             es == Append(st.entries, r)
             to == st.at + Extent(e, Head(l))
             t1 == [st EXCEPT !.cut = TRUE, !.warnings = wa]
             t2 == [st EXCEPT !.at = to, !.entries = es, !.warnings = wb]
             t == ReadListed(p, size, st)
  <1>1. t = IF st.cut \/ st.at + Layouts[1].fixed > size THEN st ELSE IF l = <<>> THEN t1 ELSE t2
    BY Zenon DEF ReadListed, Where
  <1>2. I \in SUBSET DOMAIN Layouts /\ IsList(Layouts) /\ DOMAIN Layouts = {1, 2}
    <2> DEFINE x == [fixed |-> 114, trusted |-> TRUE]
               y == [fixed |-> 128, trusted |-> FALSE]
    <2>1. Layouts = <<x, y>>
      BY DEF Layouts
    <2> HIDE DEF x, y
    <2>2. <<x, y>> \in Seq({x, y}) /\ DOMAIN <<x, y>> = {1, 2}
      OBVIOUS
    <2>3. QED
      BY <2>1, <2>2, ListIs
  <1> HIDE DEF I
  <1>3. IsList(l) /\ ToSet(l) = {Layouts[i] : i \in I}
    BY <1>2, WhereIs
  <1> HIDE DEF l, wa, wb, t1, t
  <1>4. l # <<>> => Fine(r, p) /\ to \in Int
    <2> SUFFICES ASSUME l # <<>> PROVE Fine(r, p) /\ to \in Int
      OBVIOUS
    <2> DEFINE x == Head(l)
               off == st.at
    <2>1. l \in Seq(ToSet(l))
      BY <1>3 DEF IsList
    <2>2. x \in ToSet(l)
      BY <2>1
    <2>3. PICK i \in I : x = Layouts[i]
      BY <1>3, <2>2
    <2> HIDE DEF x
    <2>4. x \in {Layouts[1], Layouts[2]}
      BY <1>2, <2>3
    <2>5. Fits(ListedAt(p.list, off), x, size - off)
      BY <2>3 DEF I
    <2>6. off \in Int
      BY DEF Listing
    <2> HIDE DEF off
    <2>7. /\ Fine(Entry("entry", IF x.trusted THEN FileTime(ListedAt(p.list, off).time) ELSE NoTime, off), p)
          /\ off + Extent(ListedAt(p.list, off), x) \in Int
      BY <2>4, <2>5, <2>6, ListedIsFine
    <2>8. QED
      BY <2>7 DEF x, off
  <1> HIDE DEF r, to, e
  <1>5. l # <<>> => FineList(es, p)
    <2>1. IsList(es) /\ ToSet(es) = ToSet(st.entries) \union {r}
      BY AppendIsList DEF Listing, FineList
    <2>2. QED
      BY <1>4, <2>1 DEF Listing, FineList
  <1> HIDE DEF es
  <1>6. l # <<>> => Listing(t2, p)
    BY <1>4, <1>5 DEF Listing, ListFields
  <1>7. Listing(t1, p)
    BY DEF Listing, ListFields, t1
  <1> HIDE DEF t2
  <1>8. Listing(t, p)
    BY <1>1, <1>6, <1>7
  <1>9. QED
    BY <1>8 DEF t

ListStart == [at |-> ListHeader, entries |-> <<>>, warnings |-> {}, cut |-> FALSE]
ListLoop(g, c, size, m) ==
  g = [k \in 0 .. m |-> IF k = 0 THEN ListStart ELSE ReadListed(c, size, g[k - 1])]

LEMMA ListIsRead ==
  ASSUME NEW p, p.format = "cfbf", IsCompound(p), NEW size \in Nat, size <= p.destList.size
  PROVE  FineList(ReadList(p, size).entries, p)
  <1> DEFINE n == size \div Layouts[1].fixed
             first == ListStart
             g == CHOOSE e : ListLoop(e, p, size, n)
             S == {m \in 0 .. n : \E e : ListLoop(e, p, size, m)}
  <1>1. ReadList(p, size) = g[n]
    BY Zenon DEF ReadList, ListLoop, ListStart
  <1>2. n \in Nat
    <2>1. Layouts[1].fixed = 114
      BY DEF Layouts
    <2>2. QED
      BY <2>1
  <1>0. Listing(first, p)
    <2>1. FineList(<<>>, p)
      BY EmptyList
    <2>2. QED
      BY <2>1 DEF Listing, ListFields, ListStart, ListHeader
  <1>3. \A e, m : ListLoop(e, p, size, m) <=>
                    e = [k \in 0 .. m |-> IF k = 0 THEN first ELSE ReadListed(p, size, e[k - 1])]
    BY DEF ListLoop
  <1> HIDE DEF n, g, first
  <1>4. 0 \in S
    <2> DEFINE e == [k \in 0 .. 0 |-> first]
    <2>1. e = [k \in 0 .. 0 |-> IF k = 0 THEN first ELSE ReadListed(p, size, e[k - 1])]
      OBVIOUS
    <2> HIDE DEF e
    <2>2. ListLoop(e, p, size, 0)
      BY <1>3, <2>1
    <2>3. QED
      BY <1>2, <2>2
  <1>5. \A m \in 1 .. n : m - 1 \in S => m \in S
    <2> SUFFICES ASSUME NEW m \in 1 .. n, m - 1 \in S PROVE m \in S
      OBVIOUS
    <2>1. PICK d : ListLoop(d, p, size, m - 1)
      OBVIOUS
    <2> DEFINE e == [k \in 0 .. m |-> IF k = m THEN ReadListed(p, size, d[m - 1]) ELSE d[k]]
    <2>2. d = [k \in 0 .. m - 1 |-> IF k = 0 THEN first ELSE ReadListed(p, size, d[k - 1])]
      BY <1>3, <2>1
    <2>3. \A k \in 0 .. m : e[k] = IF k = 0 THEN first ELSE ReadListed(p, size, e[k - 1])
      BY <1>2, <2>2
    <2>4. e = [k \in 0 .. m |-> e[k]]
      OBVIOUS
    <2> HIDE DEF e
    <2>5. ListLoop(e, p, size, m)
      <3>1. e = [k \in 0 .. m |-> IF k = 0 THEN first ELSE ReadListed(p, size, e[k - 1])]
        BY <2>3, <2>4
      <3>2. QED
        BY <1>3, <3>1
    <2>6. QED
      BY <2>5
  <1> HIDE DEF S
  <1>6. 0 .. n \subseteq S
    BY <1>2, <1>4, <1>5, RangeInduction
  <1>7. \E e : ListLoop(e, p, size, n)
    BY <1>2, <1>6 DEF S
  <1>8. g = [k \in 0 .. n |-> IF k = 0 THEN first ELSE ReadListed(p, size, g[k - 1])]
    BY <1>3, <1>7 DEF g
  <1> DEFINE R == {k \in 0 .. n : Listing(g[k], p)}
  <1>9. \A k \in 0 .. n : g[k] = IF k = 0 THEN first ELSE ReadListed(p, size, g[k - 1])
    BY <1>8
  <1>10. 0 \in R
    BY <1>0, <1>2, <1>9
  <1>11. \A k \in 1 .. n : k - 1 \in R => k \in R
    <2> SUFFICES ASSUME NEW k \in 1 .. n, k - 1 \in R PROVE Listing(g[k], p)
      OBVIOUS
    <2>1. g[k] = ReadListed(p, size, g[k - 1])
      BY <1>2, <1>9
    <2>2. Listing(g[k - 1], p)
      BY DEF R
    <2>3. QED
      BY <2>1, <2>2, ListedKeeps
  <1> HIDE DEF R
  <1>12. 0 .. n \subseteq R
    BY <1>2, <1>10, <1>11, RangeInduction
  <1>13. Listing(g[n], p)
    <2>1. n \in R
      BY <1>2, <1>12
    <2>2. QED
      BY <2>1 DEF R
  <1>14. QED
    BY <1>1, <1>13 DEF Listing

LEMMA JumpListIsFair ==
  ASSUME NEW p, IsFile(p), p.read = "none"
  PROVE  FairResult(JumpList(p), p)
  <1> DEFINE fault == OpenCfbf(p)
             bytes == ReadStream(p, p.destList)
             size == bytes.size
             list == ReadList(p, size)
             es == list.entries
             W == list.warnings
             a == Failed("signature")
             b == Failed(fault)
             c == Partial({"no list"})
             d == Failed(bytes.error)
             f == Partial({"list truncated"})
  <1>1. JumpList(p) = IF p.format # "cfbf" THEN a ELSE IF fault # "none" THEN b ELSE IF ~p.listed THEN c
                      ELSE IF bytes.error # "none" THEN d ELSE IF size < ListHeader THEN f ELSE Found(es, W)
    BY Zenon DEF JumpList, FoundAll
  <1>2. FairResult(a, p) /\ FairResult(b, p) /\ FairResult(c, p) /\ FairResult(d, p) /\ FairResult(f, p)
    BY NoneIsFair
  <1>3. p.format = "cfbf" => FairResult(Found(es, W), p)
    <2> SUFFICES ASSUME p.format = "cfbf" PROVE FairResult(Found(es, W), p)
      OBVIOUS
    <2>1. IsCompound(p)
      BY DEF IsFile
    <2>2. size \in Nat /\ size <= p.destList.size
      BY <2>1, StreamIsCut
    <2> HIDE DEF size
    <2>3. FineList(es, p)
      BY <2>1, <2>2, ListIsRead
    <2> HIDE DEF es, W
    <2>4. QED
      BY <2>3, FoundIsFair
  <1> HIDE DEF fault, bytes, size, list, es, W, a, b, c, d, f
  <1>4. QED
    BY <1>1, <1>2, <1>3

-----------------------------------------------------------------------------
(* The providers by their names. *)
ProviderNames == {
  "windows.recycle_bin_i", "windows.lnk_summary", "windows.prefetch_summary",
  "windows.registry_run_mru", "windows.registry_recent_docs", "windows.registry_userassist",
  "windows.amcache", "windows.bam_dam", "windows.appcompatcache_v1", "windows.services_v1",
  "windows.usb_registry_v1", "windows.scheduled_task_v1", "windows.wer_v1", "windows.evtx_v1",
  "windows.srum_metadata_probe", "windows.chromium_history", "windows.jump_list_v1" }

LEMMA ParseIsFair ==
  ASSUME NEW p, IsFile(p), p.read = "none", NEW row, NEW name \in ProviderNames
  PROVE  FairResult(Parse(name, row, p), p)
  <1> DEFINE r1 == RecycleBin(p)
             r2 == ShellLink(p)
             r3 == Prefetch(p)
             r4 == InHive(p, RunMru(p.hive))
             r5 == InHive(p, RecentDocs(p.hive))
             r6 == InHive(p, UserAssist(p.hive))
             r7 == InHive(p, Amcache(p.hive))
             r8 == InHive(p, BamDam(p.hive))
             r9 == InHive(p, AppCompatCache(p.hive))
             r10 == InHive(p, Services(p.hive))
             r11 == InHive(p, Usb(p.hive))
             r12 == ScheduledTask(p)
             r13 == Report(p)
             r14 == EventLog(p, "primary" \in row.marks)
             r15 == Srum(p)
             r16 == History(p)
             r17 == JumpList(p)
  <1>1. FairResult(r1, p) /\ FairResult(r2, p) /\ FairResult(r3, p)
    BY RecycleBinIsFair, ShellLinkIsFair, PrefetchIsFair
  <1>2. FairResult(r4, p)
    <2> DEFINE x == RunMru(p.hive)
    <2>1. OfHive(p) => FairResult(x, p)
      BY RunMruIsFair
    <2> HIDE DEF x
    <2>2. FairResult(InHive(p, x), p)
      BY <2>1, InHiveIsFair
    <2>3. QED
      BY <2>2 DEF x
  <1>3. FairResult(r5, p)
    <2> DEFINE x == RecentDocs(p.hive)
    <2>1. OfHive(p) => FairResult(x, p)
      BY RecentDocsIsFair
    <2> HIDE DEF x
    <2>2. FairResult(InHive(p, x), p)
      BY <2>1, InHiveIsFair
    <2>3. QED
      BY <2>2 DEF x
  <1>4. FairResult(r6, p)
    <2> DEFINE x == UserAssist(p.hive)
    <2>1. OfHive(p) => FairResult(x, p)
      BY UserAssistIsFair
    <2> HIDE DEF x
    <2>2. FairResult(InHive(p, x), p)
      BY <2>1, InHiveIsFair
    <2>3. QED
      BY <2>2 DEF x
  <1>5. FairResult(r7, p)
    <2> DEFINE x == Amcache(p.hive)
    <2>1. OfHive(p) => FairResult(x, p)
      BY AmcacheIsFair
    <2> HIDE DEF x
    <2>2. FairResult(InHive(p, x), p)
      BY <2>1, InHiveIsFair
    <2>3. QED
      BY <2>2 DEF x
  <1>6. FairResult(r8, p)
    <2> DEFINE x == BamDam(p.hive)
    <2>1. OfHive(p) => FairResult(x, p)
      BY BamDamIsFair
    <2> HIDE DEF x
    <2>2. FairResult(InHive(p, x), p)
      BY <2>1, InHiveIsFair
    <2>3. QED
      BY <2>2 DEF x
  <1>7. FairResult(r9, p)
    <2> DEFINE x == AppCompatCache(p.hive)
    <2>1. OfHive(p) => FairResult(x, p)
      BY AppCompatCacheIsFair
    <2> HIDE DEF x
    <2>2. FairResult(InHive(p, x), p)
      BY <2>1, InHiveIsFair
    <2>3. QED
      BY <2>2 DEF x
  <1>8. FairResult(r10, p)
    <2> DEFINE x == Services(p.hive)
    <2>1. OfHive(p) => FairResult(x, p)
      BY ServicesIsFair
    <2> HIDE DEF x
    <2>2. FairResult(InHive(p, x), p)
      BY <2>1, InHiveIsFair
    <2>3. QED
      BY <2>2 DEF x
  <1>9. FairResult(r11, p)
    <2> DEFINE x == Usb(p.hive)
    <2>1. OfHive(p) => FairResult(x, p)
      BY UsbIsFair
    <2> HIDE DEF x
    <2>2. FairResult(InHive(p, x), p)
      BY <2>1, InHiveIsFair
    <2>3. QED
      BY <2>2 DEF x
  <1>10. FairResult(r12, p) /\ FairResult(r13, p) /\ FairResult(r14, p)
    BY ScheduledTaskIsFair, ReportIsFair, EventLogIsFair
  <1>11. FairResult(r15, p) /\ FairResult(r16, p) /\ FairResult(r17, p)
    BY SrumIsFair, HistoryIsFair, JumpListIsFair
  <1>12. Parse(name, row, p) \in {r1, r2, r3, r4, r5, r6, r7, r8, r9, r10, r11, r12, r13, r14, r15, r16, r17}
    <2>1. Parse(name, row, p) =
            CASE name = "windows.recycle_bin_i" -> r1
              [] name = "windows.lnk_summary" -> r2
              [] name = "windows.prefetch_summary" -> r3
              [] name = "windows.registry_run_mru" -> r4
              [] name = "windows.registry_recent_docs" -> r5
              [] name = "windows.registry_userassist" -> r6
              [] name = "windows.amcache" -> r7
              [] name = "windows.bam_dam" -> r8
              [] name = "windows.appcompatcache_v1" -> r9
              [] name = "windows.services_v1" -> r10
              [] name = "windows.usb_registry_v1" -> r11
              [] name = "windows.scheduled_task_v1" -> r12
              [] name = "windows.wer_v1" -> r13
              [] name = "windows.evtx_v1" -> r14
              [] name = "windows.srum_metadata_probe" -> r15
              [] name = "windows.chromium_history" -> r16
              [] name = "windows.jump_list_v1" -> r17
      BY Zenon DEF Parse
    <2> HIDE DEF r1, r2, r3, r4, r5, r6, r7, r8, r9, r10, r11, r12, r13, r14, r15, r16, r17
    <2>2. QED
      BY <2>1 DEF ProviderNames
  <1> HIDE DEF r1, r2, r3, r4, r5, r6, r7, r8, r9, r10, r11, r12, r13, r14, r15, r16, r17
  <1>13. QED
    BY <1>1, <1>2, <1>3, <1>4, <1>5, <1>6, <1>7, <1>8, <1>9, <1>10, <1>11, <1>12

LEMMA ProviderListIs ==
  /\ IsList(ProviderList)
  /\ \A x \in ToSet(ProviderList) : x.name \in ProviderNames
  <1> DEFINE t1 == Takes("windows.recycle_bin_i", {}, {"$I"})
             t2 == Takes("windows.lnk_summary", {}, {".lnk"})
             t3 == Takes("windows.prefetch_summary", {}, {".pf"})
             t4 == Takes("windows.registry_run_mru", {"Run/RunOnce resolver"}, {"NTUSER.DAT"})
             t5 == Takes("windows.registry_recent_docs", {"RecentDocs resolver"}, {"NTUSER.DAT"})
             t6 == Takes("windows.registry_userassist", {"UserAssist resolver"}, {"NTUSER.DAT"})
             t7 == Takes("windows.amcache", {"Amcache"}, {"Amcache.hve"})
             t8 == Takes("windows.bam_dam", {"BAM/DAM resolver"}, {"/SYSTEM"})
             t9 == Takes("windows.appcompatcache_v1", {"AppCompatCache resolver"}, {"/SYSTEM"})
             t10 == Takes("windows.services_v1", {"Services hive resolver"}, {"/SYSTEM"})
             t11 == Takes("windows.usb_registry_v1", {"USB registry resolver"}, {"/SYSTEM"})
             t12 == Takes("windows.scheduled_task_v1", {"Scheduled Task definitions"}, {"tasks"})
             t13 == Takes("windows.wer_v1", {"WER report files"}, {"wer", ".wer"})
             t14 == Takes("windows.evtx_v1", {"EVTX files"}, {"logs", ".evtx"})
             t15 == Takes("windows.srum_metadata_probe", {"SRUM metadata probe", "SRUM"}, {"SRUDB.dat"})
             t16 == Takes("windows.chromium_history", {"Chrome History", "Edge History"}, {"/History"})
             t17 == Takes("windows.jump_list_v1", {}, {"destinations"})
  <1>1. ProviderList = <<t1, t2, t3, t4, t5, t6, t7, t8, t9, t10, t11, t12, t13, t14, t15, t16, t17>>
    BY Zenon DEF ProviderList
  <1>2. ASSUME NEW a, NEW b, NEW name \in ProviderNames
        PROVE  Takes(name, a, b).name \in ProviderNames
    BY DEF Takes
  <1>3. t1.name \in ProviderNames
    <2> DEFINE a == {}
               b == {"$I"}
    <2>1. t1 = Takes("windows.recycle_bin_i", a, b)
      BY Zenon
    <2> HIDE DEF t1, a, b
    <2>2. "windows.recycle_bin_i" \in ProviderNames
      BY DEF ProviderNames
    <2>3. QED
      BY <1>2, <2>1, <2>2
  <1>4. t2.name \in ProviderNames
    <2> DEFINE a == {}
               b == {".lnk"}
    <2>1. t2 = Takes("windows.lnk_summary", a, b)
      BY Zenon
    <2> HIDE DEF t2, a, b
    <2>2. "windows.lnk_summary" \in ProviderNames
      BY DEF ProviderNames
    <2>3. QED
      BY <1>2, <2>1, <2>2
  <1>5. t3.name \in ProviderNames
    <2> DEFINE a == {}
               b == {".pf"}
    <2>1. t3 = Takes("windows.prefetch_summary", a, b)
      BY Zenon
    <2> HIDE DEF t3, a, b
    <2>2. "windows.prefetch_summary" \in ProviderNames
      BY DEF ProviderNames
    <2>3. QED
      BY <1>2, <2>1, <2>2
  <1>6. t4.name \in ProviderNames
    <2> DEFINE a == {"Run/RunOnce resolver"}
               b == {"NTUSER.DAT"}
    <2>1. t4 = Takes("windows.registry_run_mru", a, b)
      BY Zenon
    <2> HIDE DEF t4, a, b
    <2>2. "windows.registry_run_mru" \in ProviderNames
      BY DEF ProviderNames
    <2>3. QED
      BY <1>2, <2>1, <2>2
  <1>7. t5.name \in ProviderNames
    <2> DEFINE a == {"RecentDocs resolver"}
               b == {"NTUSER.DAT"}
    <2>1. t5 = Takes("windows.registry_recent_docs", a, b)
      BY Zenon
    <2> HIDE DEF t5, a, b
    <2>2. "windows.registry_recent_docs" \in ProviderNames
      BY DEF ProviderNames
    <2>3. QED
      BY <1>2, <2>1, <2>2
  <1>8. t6.name \in ProviderNames
    <2> DEFINE a == {"UserAssist resolver"}
               b == {"NTUSER.DAT"}
    <2>1. t6 = Takes("windows.registry_userassist", a, b)
      BY Zenon
    <2> HIDE DEF t6, a, b
    <2>2. "windows.registry_userassist" \in ProviderNames
      BY DEF ProviderNames
    <2>3. QED
      BY <1>2, <2>1, <2>2
  <1>9. t7.name \in ProviderNames
    <2> DEFINE a == {"Amcache"}
               b == {"Amcache.hve"}
    <2>1. t7 = Takes("windows.amcache", a, b)
      BY Zenon
    <2> HIDE DEF t7, a, b
    <2>2. "windows.amcache" \in ProviderNames
      BY DEF ProviderNames
    <2>3. QED
      BY <1>2, <2>1, <2>2
  <1>10. t8.name \in ProviderNames
    <2> DEFINE a == {"BAM/DAM resolver"}
               b == {"/SYSTEM"}
    <2>1. t8 = Takes("windows.bam_dam", a, b)
      BY Zenon
    <2> HIDE DEF t8, a, b
    <2>2. "windows.bam_dam" \in ProviderNames
      BY DEF ProviderNames
    <2>3. QED
      BY <1>2, <2>1, <2>2
  <1>11. t9.name \in ProviderNames
    <2> DEFINE a == {"AppCompatCache resolver"}
               b == {"/SYSTEM"}
    <2>1. t9 = Takes("windows.appcompatcache_v1", a, b)
      BY Zenon
    <2> HIDE DEF t9, a, b
    <2>2. "windows.appcompatcache_v1" \in ProviderNames
      BY DEF ProviderNames
    <2>3. QED
      BY <1>2, <2>1, <2>2
  <1>12. t10.name \in ProviderNames
    <2> DEFINE a == {"Services hive resolver"}
               b == {"/SYSTEM"}
    <2>1. t10 = Takes("windows.services_v1", a, b)
      BY Zenon
    <2> HIDE DEF t10, a, b
    <2>2. "windows.services_v1" \in ProviderNames
      BY DEF ProviderNames
    <2>3. QED
      BY <1>2, <2>1, <2>2
  <1>13. t11.name \in ProviderNames
    <2> DEFINE a == {"USB registry resolver"}
               b == {"/SYSTEM"}
    <2>1. t11 = Takes("windows.usb_registry_v1", a, b)
      BY Zenon
    <2> HIDE DEF t11, a, b
    <2>2. "windows.usb_registry_v1" \in ProviderNames
      BY DEF ProviderNames
    <2>3. QED
      BY <1>2, <2>1, <2>2
  <1>14. t12.name \in ProviderNames
    <2> DEFINE a == {"Scheduled Task definitions"}
               b == {"tasks"}
    <2>1. t12 = Takes("windows.scheduled_task_v1", a, b)
      BY Zenon
    <2> HIDE DEF t12, a, b
    <2>2. "windows.scheduled_task_v1" \in ProviderNames
      BY DEF ProviderNames
    <2>3. QED
      BY <1>2, <2>1, <2>2
  <1>15. t13.name \in ProviderNames
    <2> DEFINE a == {"WER report files"}
               b == {"wer", ".wer"}
    <2>1. t13 = Takes("windows.wer_v1", a, b)
      BY Zenon
    <2> HIDE DEF t13, a, b
    <2>2. "windows.wer_v1" \in ProviderNames
      BY DEF ProviderNames
    <2>3. QED
      BY <1>2, <2>1, <2>2
  <1>16. t14.name \in ProviderNames
    <2> DEFINE a == {"EVTX files"}
               b == {"logs", ".evtx"}
    <2>1. t14 = Takes("windows.evtx_v1", a, b)
      BY Zenon
    <2> HIDE DEF t14, a, b
    <2>2. "windows.evtx_v1" \in ProviderNames
      BY DEF ProviderNames
    <2>3. QED
      BY <1>2, <2>1, <2>2
  <1>17. t15.name \in ProviderNames
    <2> DEFINE a == {"SRUM metadata probe", "SRUM"}
               b == {"SRUDB.dat"}
    <2>1. t15 = Takes("windows.srum_metadata_probe", a, b)
      BY Zenon
    <2> HIDE DEF t15, a, b
    <2>2. "windows.srum_metadata_probe" \in ProviderNames
      BY DEF ProviderNames
    <2>3. QED
      BY <1>2, <2>1, <2>2
  <1>18. t16.name \in ProviderNames
    <2> DEFINE a == {"Chrome History", "Edge History"}
               b == {"/History"}
    <2>1. t16 = Takes("windows.chromium_history", a, b)
      BY Zenon
    <2> HIDE DEF t16, a, b
    <2>2. "windows.chromium_history" \in ProviderNames
      BY DEF ProviderNames
    <2>3. QED
      BY <1>2, <2>1, <2>2
  <1>19. t17.name \in ProviderNames
    <2> DEFINE a == {}
               b == {"destinations"}
    <2>1. t17 = Takes("windows.jump_list_v1", a, b)
      BY Zenon
    <2> HIDE DEF t17, a, b
    <2>2. "windows.jump_list_v1" \in ProviderNames
      BY DEF ProviderNames
    <2>3. QED
      BY <1>2, <2>1, <2>2
  <1> HIDE DEF t1, t2, t3, t4, t5, t6, t7, t8, t9, t10, t11, t12, t13, t14, t15, t16, t17
  <1> DEFINE X == {t1, t2, t3, t4, t5, t6, t7, t8, t9, t10, t11, t12, t13, t14, t15, t16, t17}
  <1>20. <<t1, t2, t3, t4, t5, t6, t7, t8, t9, t10, t11, t12, t13, t14, t15, t16, t17>> \in Seq(X)
    OBVIOUS
  <1>21. IsList(ProviderList) /\ ToSet(ProviderList) \subseteq X
    BY <1>1, <1>20, ListIs
  <1>22. \A x \in X : x.name \in ProviderNames
    BY <1>3, <1>4, <1>5, <1>6, <1>7, <1>8, <1>9, <1>10, <1>11, <1>12, <1>13, <1>14, <1>15, <1>16, <1>17, <1>18, <1>19
  <1>23. QED
    BY <1>21, <1>22

-----------------------------------------------------------------------------
LEMMA DetailsAreFair ==
  ASSUME NEW p, NEW r, FairResult(r, p), NEW name
  PROVE  Fair(Details(name, r), p)
  <1> DEFINE d == Details(name, r)
  <1>1. d.state = r.state /\ d.warnings = r.warnings /\ d.error = r.error /\ d.entries = r.entries
    BY DEF Details
  <1> HIDE DEF d
  <1>2. Candid(d) /\ IsList(d.entries) /\ \A e \in ToSet(d.entries) : Telling(e) /\ DatedFrom(e, p)
    BY <1>1 DEF FairResult, Candid, FineList, Fine
  <1>3. QED
    BY <1>2 DEF Fair, d

LEMMA TakerIsKnown ==
  ASSUME NEW row, Picked(ProviderList, {i \in DOMAIN ProviderList : Supports(ProviderList[i], row)}) # <<>>
  PROVE  Head(Picked(ProviderList, {i \in DOMAIN ProviderList : Supports(ProviderList[i], row)})).name \in ProviderNames
  <1> DEFINE I == {i \in DOMAIN ProviderList : Supports(ProviderList[i], row)}
             takers == Picked(ProviderList, I)
  <1>0. takers # <<>>
    OBVIOUS
  <1>1. I \in SUBSET DOMAIN ProviderList
    OBVIOUS
  <1> HIDE DEF I
  <1>2. IsList(takers) /\ ToSet(takers) = {ProviderList[i] : i \in I}
    BY <1>1, ProviderListIs, WhereIs
  <1> HIDE DEF takers
  <1>3. takers \in Seq(ToSet(takers))
    BY <1>2 DEF IsList
  <1>4. Head(takers) \in ToSet(takers)
    BY <1>0, <1>3
  <1>5. PICK i \in I : Head(takers) = ProviderList[i]
    BY <1>2, <1>4
  <1>6. ProviderList[i] \in ToSet(ProviderList)
    BY <1>1 DEF ToSet
  <1>7. Head(takers).name \in ProviderNames
    BY <1>5, <1>6, ProviderListIs
  <1>8. QED
    BY <1>7 DEF takers, I

LEMMA DescribeIsFair ==
  ASSUME NEW p, IsFile(p), NEW row, NEW f \in States(p)
  PROVE  Fair(describe(row, f), p)
  <1> DEFINE I == {i \in DOMAIN ProviderList : Supports(ProviderList[i], row)}
             takers == Picked(ProviderList, I)
             name == Head(takers).name
             a == Failed(f.read)
             b == Parse(name, row, f)
             c == Unsupported({"only automatic destinations"})
  <1>1. \/ takers = <<>> /\ describe(row, f) = NoDetails
        \/ describe(row, f) = Details(name, c)
        \/ f.read # "none" /\ describe(row, f) = Details(name, a)
        \/ takers # <<>> /\ f.read = "none" /\ describe(row, f) = Details(name, b)
    <2>1. describe(row, f) =
            IF takers = <<>> THEN NoDetails
            ELSE IF name = "windows.jump_list_v1" /\ "custom" \in row.marks THEN Details(name, c)
            ELSE IF f.read # "none" THEN Details(name, a) ELSE Details(name, b)
      BY Zenon DEF describe, Where
    <2> HIDE DEF takers, name, a, b, c
    <2>2. QED
      BY <2>1
  <1>2. FairResult(a, p) /\ FairResult(c, p)
    BY NoneIsFair
  <1>3. takers # <<>> => name \in ProviderNames
    BY TakerIsKnown
  <1>4. f.read = "none" => f = p
    BY DEF States, IsFile
  <1>5. takers # <<>> /\ f.read = "none" => FairResult(b, p)
    BY <1>3, <1>4, ParseIsFair
  <1> HIDE DEF takers, a, b, c, name
  <1>6. QED
    BY <1>1, <1>2, <1>5, DetailsAreFair DEF Fair

(* What describe makes of a file of any world, there or not, is fair. *)
LEMMA FilesAreFair ==
  ASSUME NEW w \in Worlds, NEW i \in DOMAIN w.rows, NEW f \in States(w.disk[w.rows[i].path])
  PROVE  Fair(describe(w.rows[i], f), w.disk[w.rows[i].path])
  BY DescribeIsFair, TriageAssumption

LEMMA FairIsTelling ==
  ASSUME NEW d, NEW f, Fair(d, f)
  PROVE  Tells(d)
  BY DEF Fair, Tells

(* Every entry of the cache was made of the file of a row. *)
Sourced(c) ==
  /\ c = [path \in DOMAIN c |-> c[path]]
  /\ \A path \in DOMAIN c : \E i \in DOMAIN rows : PathOf(i) = path /\ Describes(c[path], i)

TimelineOf(rs, t, details) ==
  LET X == OfRows(rs, details)
  IN  t \in Seq(X) /\ ToSet(t) = X /\ Ascends(t, PlaceOrder(X))

LEMMA SourcedIsFair ==
  ASSUME Scanned, NEW c, Sourced(c), NEW path \in DOMAIN c
  PROVE  Fair(c[path], disk[path])
  <1>1. PICK i \in DOMAIN rows : PathOf(i) = path /\ \E f \in States(FileAt(i)) : c[path] = describe(rows[i], f)
    BY DEF Sourced, Describes
  <1>2. PICK w \in Worlds : rows = w.rows /\ disk = w.disk
    BY DEF Scanned
  <1>3. PICK f \in States(disk[path]) : c[path] = describe(rows[i], f)
    BY <1>1 DEF FileAt
  <1>4. i \in DOMAIN w.rows /\ w.rows[i].path = path /\ w.disk = disk /\ w.rows = rows
    BY <1>1, <1>2 DEF PathOf
  <1>5. Fair(describe(w.rows[i], f), w.disk[path])
    BY <1>3, <1>4, FilesAreFair
  <1>6. QED
    BY <1>3, <1>4, <1>5

LEMMA CacheTells ==
  ASSUME Scanned, NEW c, Sourced(c), NEW i \in DOMAIN rows
  PROVE  Tells(CacheOf(c)[i])
  <1>1. CASE PathOf(i) \in DOMAIN c
    <2>1. CacheOf(c)[i] = c[PathOf(i)]
      BY <1>1 DEF CacheOf
    <2>2. QED
      BY <1>1, <2>1, SourcedIsFair, FairIsTelling
  <1>2. CASE PathOf(i) \notin DOMAIN c
    BY <1>2 DEF CacheOf, Tells
  <1>3. QED
    BY <1>1, <1>2

LEMMA RebuiltTimeline ==
  ASSUME Scanned, NEW c, Sourced(c)
  PROVE  TimelineOf(rows, buildEvents(rows, CacheOf(c)), CacheOf(c))
  <1>1. rows \in Seq(ArtifactRows) /\ \A i \in DOMAIN rows : Tells(CacheOf(c)[i])
    BY CacheTells DEF Scanned
  <1>2. QED
    BY <1>1, BuiltFacts DEF TimelineOf

-----------------------------------------------------------------------------
(* The timeline is at all times the one of the cache. *)

TimelineInv == Scanned /\ Sourced(cache) /\ TimelineOf(rows, timeline, CacheOf(cache))

LEMMA SameRows ==
  ASSUME UNCHANGED <<rows, disk>>
  PROVE  /\ \A c : Sourced(c)' = Sourced(c)
         /\ \A c : CacheOf(c)' = CacheOf(c)
  <1>1. \A c : Sourced(c)' = Sourced(c)
    BY SameEvidence DEF Sourced, Describes, States, FileAt, PathOf
  <1>2. \A c : CacheOf(c)' = CacheOf(c)
    BY DEF CacheOf, PathOf
  <1>3. QED
    BY <1>1, <1>2

LEMMA TimelineInit ==
  ASSUME Init
  PROVE  TimelineInv
  <1>1. Scanned
    BY InvInit DEF Inv
  <1>2. cache = [p \in {} |-> NoDetails] /\ DOMAIN cache = {} /\ timeline = <<>>
    BY DEF Init
  <1>3. Sourced(cache)
    BY <1>2 DEF Sourced
  <1>4. \A i \in DOMAIN rows : CacheOf(cache)[i] = NoDetails
    BY <1>2 DEF CacheOf
  <1>5. \A i \in DOMAIN rows : OfRow(rows, i, CacheOf(cache)[i]) = {}
    BY <1>4 DEF OfRow
  <1>6. OfRows(rows, CacheOf(cache)) = {}
    BY <1>5 DEF OfRows
  <1>7. TimelineOf(rows, <<>>, CacheOf(cache))
    <2>1. \A R : Ascends(<<>>, R)
      BY DEF Ascends
    <2>2. <<>> \in Seq({}) /\ ToSet(<<>>) = {}
      BY DEF ToSet
    <2>3. QED
      BY <1>6, <2>1, <2>2 DEF TimelineOf
  <1>8. QED
    BY <1>1, <1>2, <1>3, <1>7 DEF TimelineInv

(* A step that rebuilds the timeline of a cache made of the rows. *)
LEMMA RebuildKeeps ==
  ASSUME TimelineInv, UNCHANGED <<rows, disk>>, Sourced(cache'), Rebuild
  PROVE  TimelineInv'
  <1>1. Scanned' /\ Sourced(cache)'
    BY SameEvidence, SameRows DEF TimelineInv
  <1>2. timeline' = buildEvents(rows, CacheOf(cache'))
    BY DEF Rebuild
  <1>3. TimelineOf(rows, timeline', CacheOf(cache'))
    BY <1>2, RebuiltTimeline DEF TimelineInv
  <1>4. CacheOf(cache)' = CacheOf(cache')
    BY SameRows
  <1>5. TimelineOf(rows, timeline, CacheOf(cache))'
    BY <1>3, <1>4
  <1>6. QED
    BY <1>1, <1>5 DEF TimelineInv

LEMMA AnswerIsSourced ==
  ASSUME TimelineInv, NEW i \in DOMAIN rows, TakeAnswer(i)
  PROVE  Sourced(cache')
  <1> DEFINE d == describe(rows[i], FileOf(rows[i]))
             b == Inserted(cache, PathOf(i), d)
  <1>1. cache' = b
    BY DEF TakeAnswer
  <1>2. Describes(d, i)
    BY FileOfIsAState, OwnDescribes
  <1> HIDE DEF d
  <1>3. /\ b = [path \in DOMAIN b |-> b[path]]
        /\ b[PathOf(i)] = d
        /\ \A path \in DOMAIN b : path # PathOf(i) => path \in DOMAIN cache /\ b[path] = cache[path]
    BY DEF Inserted
  <1> HIDE DEF b
  <1>4. ASSUME NEW path \in DOMAIN b PROVE \E j \in DOMAIN rows : PathOf(j) = path /\ Describes(b[path], j)
    <2>1. CASE path = PathOf(i)
      BY <1>2, <1>3, <2>1
    <2>2. CASE path # PathOf(i)
      BY <1>3, <2>2 DEF TimelineInv, Sourced
    <2>3. QED
      BY <2>1, <2>2
  <1>5. QED
    BY <1>1, <1>3, <1>4 DEF Sourced

LEMMA AnalysedIsSourced ==
  ASSUME TimelineInv, Analysed
  PROVE  Sourced(cache')
  <1> DEFINE described == populate(rows, [i \in DOMAIN rows |-> FileOf(rows[i])])
             b == Put(cache, described)
  <1>1. cache' = b
    BY DEF Analysed
  <1>2. \A i \in ToDo : described[i] = describe(rows[i], FileOf(rows[i]))
    BY DEF populate, ToDo
  <1> HIDE DEF described
  <1>3. \A i \in ToDo : Describes(described[i], i)
    BY <1>2, FileOfIsAState, OwnDescribes DEF ToDo
  <1>4. Updated(b, cache, described)
    <2>1. rows \in Seq(ArtifactRows) /\ cache = [path \in DOMAIN cache |-> cache[path]]
      BY DEF TimelineInv, Scanned, Sourced
    <2>2. QED
      BY <2>1, PutIs
  <1> HIDE DEF b
  <1>5. ASSUME NEW path \in DOMAIN b PROVE \E j \in DOMAIN rows : PathOf(j) = path /\ Describes(b[path], j)
    <2>1. CASE \E i \in ToDo : PathOf(i) = path /\ b[path] = described[i]
      BY <1>3, <2>1 DEF ToDo
    <2>2. CASE path \in DOMAIN cache /\ b[path] = cache[path]
      BY <2>2 DEF TimelineInv, Sourced
    <2>3. QED
      BY <1>4, <2>1, <2>2 DEF Updated
  <1>6. QED
    BY <1>1, <1>4, <1>5 DEF Sourced, Updated

LEMMA TimelineNext ==
  ASSUME TimelineInv, [Next]_vars
  PROVE  TimelineInv'
  <1>1. UNCHANGED <<rows, disk>>
    BY DEF Next, vars, evidence, Detach, Deselect, SelectCached, SelectToLoad, TakeAnswer,
       DropAnswer, Analyze, Analysed, AnalysisFails
  <1>2. UNCHANGED <<cache, timeline>> => TimelineInv'
    <2> SUFFICES ASSUME UNCHANGED <<cache, timeline>> PROVE TimelineInv'
      OBVIOUS
    <2>1. Scanned' /\ Sourced(cache)' /\ CacheOf(cache)' = CacheOf(cache)
      BY <1>1, SameEvidence, SameRows DEF TimelineInv
    <2>2. TimelineOf(rows, timeline, CacheOf(cache))'
      BY <1>1, <2>1 DEF TimelineInv
    <2>3. QED
      BY <2>1, <2>2 DEF TimelineInv
  <1>3. CASE UNCHANGED vars \/ Detach \/ Deselect \/ Analyze
    BY <1>2, <1>3 DEF vars, results, Detach, Deselect, Analyze
  <1>4. ASSUME NEW i \in DOMAIN rows, SelectCached(i) \/ SelectToLoad(i) \/ DropAnswer(i) PROVE TimelineInv'
    BY <1>2, <1>4 DEF SelectCached, SelectToLoad, DropAnswer, results
  <1>5. ASSUME NEW i \in DOMAIN rows, TakeAnswer(i) PROVE TimelineInv'
    <2>1. Rebuild
      BY <1>5 DEF TakeAnswer
    <2>2. QED
      BY <1>1, <1>5, <2>1, AnswerIsSourced, RebuildKeeps
  <1>6. CASE Analysed
    <2>1. Rebuild
      BY <1>6 DEF Analysed
    <2>2. QED
      BY <1>1, <1>6, <2>1, AnalysedIsSourced, RebuildKeeps
  <1>7. CASE AnalysisFails
    <2>1. Rebuild /\ cache' = cache
      BY <1>7 DEF AnalysisFails
    <2>2. QED
      BY <1>1, <2>1, RebuildKeeps DEF TimelineInv
  <1>8. QED
    BY <1>3, <1>4, <1>5, <1>6, <1>7 DEF Next

-----------------------------------------------------------------------------
(* A sequence in a strict order has each item of a set once. *)
LEMMA PositionsOf ==
  ASSUME NEW X, NEW R, StrictOrder(X, R), NEW s \in Seq(X), Ascends(s, R), NEW A \in SUBSET ToSet(s)
  PROVE  Cardinality({j \in DOMAIN s : s[j] \in A}) = Cardinality(A)
  <1> DEFINE J == {j \in DOMAIN s : s[j] \in A}
             f == [j \in J |-> s[j]]
  <1>1. DOMAIN s = 1 .. Len(s) /\ Len(s) \in Nat
    OBVIOUS
  <1>2. \A i, j \in 1 .. Len(s) : s[i] = s[j] => i = j
    BY AscendingIsArranged
  <1>3. IsFiniteSet(J)
    <2>1. IsFiniteSet(1 .. Len(s)) /\ J \in SUBSET (1 .. Len(s))
      BY <1>1, FS_Interval
    <2>2. QED
      BY <2>1, FS_Subset
  <1>4. ToSet(s) = {s[j] : j \in 1 .. Len(s)}
    BY <1>1 DEF ToSet
  <1>5. f \in [J -> A] /\ \A j \in J : f[j] = s[j]
    OBVIOUS
  <1>6. \A i, j \in J : f[i] = f[j] => i = j
    BY <1>1, <1>2
  <1>7. \A a \in A : \E j \in J : f[j] = a
    <2> SUFFICES ASSUME NEW a \in A PROVE \E j \in J : f[j] = a
      OBVIOUS
    <2>1. PICK j \in 1 .. Len(s) : s[j] = a
      BY <1>4
    <2>2. j \in J
      BY <1>1, <2>1
    <2>3. QED
      BY <1>5, <2>1, <2>2
  <1> HIDE DEF f, J
  <1>8. f \in Bijection(J, A)
    <2>1. f \in Injection(J, A)
      BY <1>5, <1>6, Zenon DEF Injection, IsInjective
    <2>2. f \in Surjection(J, A)
      BY <1>5, <1>7 DEF Surjection
    <2>3. QED
      BY <2>1, <2>2 DEF Bijection
  <1>9. ExistsBijection(J, A)
    BY <1>8 DEF ExistsBijection
  <1>10. QED
    BY <1>3, <1>9, FS_Bijection DEF J

LEMMA EventOfEntry ==
  ASSUME rows \in Seq(ArtifactRows), NEW details, \A i \in DOMAIN rows : Tells(details[i]),
         NEW i \in DOMAIN rows, details[i] # NoDetails, NEW k \in DOMAIN details[i].entries
  PROVE  /\ k \in Nat \ {0} /\ Telling(details[i].entries[k])
         /\ OfEntry(rows, i, k, details[i]) \subseteq OfRows(rows, details)
         /\ \A a \in OfRows(rows, details) : a.from = <<i, k>> <=> a \in OfEntry(rows, i, k, details[i])
  <1>1. IsList(details[i].entries) /\ \A e \in ToSet(details[i].entries) : Telling(e)
    BY DEF Tells
  <1>2. k \in Nat \ {0} /\ details[i].entries[k] \in ToSet(details[i].entries)
    BY <1>1 DEF IsList, ToSet
  <1>3. OfEntry(rows, i, k, details[i]) \subseteq OfRow(rows, i, details[i])
    BY OfRowIs
  <1>4. OfRow(rows, i, details[i]) \subseteq OfRows(rows, details)
    BY DEF OfRows
  <1>5. ASSUME NEW a \in OfRows(rows, details), a.from = <<i, k>>
        PROVE  a \in OfEntry(rows, i, k, details[i])
    <2>1. PICK j \in DOMAIN rows : a \in OfRow(rows, j, details[j])
      BY DEF OfRows
    <2>2. j \in Int /\ a.from[1] = i /\ a.from[2] = k
      BY <1>5
    <2>3. /\ a.from[1] = j
          /\ \/ a \in OfState(rows, j, details[j]) /\ a.from[2] = 0
             \/ \E m \in DOMAIN details[j].entries :
                  m \in Nat \ {0} /\ a \in OfEntry(rows, j, m, details[j]) /\ a.from[2] = m
      BY <2>1, <2>2, OfRowFacts
    <2>4. QED
      BY <1>2, <2>2, <2>3
  <1>6. \A a \in OfEntry(rows, i, k, details[i]) : a.from = <<i, k>>
    BY OfEntryFacts
  <1>7. QED
    BY <1>1, <1>2, <1>3, <1>4, <1>5, <1>6

LEMMA EventOfState ==
  ASSUME rows \in Seq(ArtifactRows), NEW details, \A i \in DOMAIN rows : Tells(details[i]),
         NEW i \in DOMAIN rows, details[i] # NoDetails
  PROVE  /\ OfState(rows, i, details[i]) \subseteq OfRows(rows, details)
         /\ \A a \in OfRows(rows, details) : a.from = <<i, 0>> <=> a \in OfState(rows, i, details[i])
  <1>1. OfState(rows, i, details[i]) \subseteq OfRow(rows, i, details[i])
    BY OfRowIs
  <1>2. OfRow(rows, i, details[i]) \subseteq OfRows(rows, details)
    BY DEF OfRows
  <1>3. ASSUME NEW a \in OfRows(rows, details), a.from = <<i, 0>>
        PROVE  a \in OfState(rows, i, details[i])
    <2>1. PICK j \in DOMAIN rows : a \in OfRow(rows, j, details[j])
      BY DEF OfRows
    <2>2. j \in Int /\ a.from[1] = i /\ a.from[2] = 0
      BY <1>3
    <2>3. /\ a.from[1] = j
          /\ \/ a \in OfState(rows, j, details[j]) /\ a.from[2] = 0
             \/ \E m \in DOMAIN details[j].entries :
                  m \in Nat \ {0} /\ a \in OfEntry(rows, j, m, details[j]) /\ a.from[2] = m
      BY <2>1, <2>2, OfRowFacts
    <2>4. QED
      BY <2>2, <2>3
  <1>4. \A a \in OfState(rows, i, details[i]) : a.from = <<i, 0>>
    BY OfStateFacts
  <1>5. QED
    BY <1>1, <1>2, <1>3, <1>4

(* How many events an entry gives. *)
LEMMA EventCount ==
  ASSUME NEW i \in DOMAIN rows, NEW d, NEW k, Telling(d.entries[k]), PathOf(i) \in DOMAIN cache, Of(i) = d
  PROVE  IsFiniteSet(OfEntry(rows, i, k, d)) /\ Cardinality(OfEntry(rows, i, k, d)) = Times(i, k)
  <1> DEFINE e == d.entries[k]
             A == OfEntry(rows, i, k, d)
             a == EventAt(rows, i, k, d, TypeOf(e))
             b == EventAt(rows, i, k, d, More(rows, i, e))
             link == e.kind \in {"created", "modified", "accessed"}
             known == e.kind = "event" /\ "sysmon" \in rows[i].marks /\ e.sysmon /\ e.id \in SysmonIds
  <1>1. Times(i, k) = IF link /\ e.time = NoTime THEN 0 ELSE IF known THEN 2 ELSE 1
    BY DEF Times
  <1>2. A = {EventAt(rows, i, k, d, type) : type \in {TypeOf(e), More(rows, i, e)} \ {NoEvent}}
    BY DEF OfEntry
  <1>3. a.type = TypeOf(e) /\ b.type = More(rows, i, e)
    BY DEF EventAt, Event
  <1>4. TypeOf(e) = NoEvent <=> link /\ e.time = NoTime
    <2>1. link /\ e.time = NoTime => TypeOf(e) = NoEvent
      BY DEF TypeOf, EventTypes
    <2>2. link /\ e.time # NoTime => TypeOf(e) # NoEvent
      BY DEF TypeOf, EventTypes, NoEvent
    <2>3. ~link => TypeOf(e) # NoEvent
      BY DEF Telling
    <2>4. QED
      BY <2>1, <2>2, <2>3
  <1>5. SysmonType(e.id) # NoEvent <=> e.id \in SysmonIds
    BY DEF SysmonType, SysmonIds, NoEvent
  <1>6. More(rows, i, e) # NoEvent <=> known
    BY <1>5 DEF More
  <1>7. known => TypeOf(e) # NoEvent /\ TypeOf(e) # More(rows, i, e)
    BY <1>6, TypesDiffer
  <1> HIDE DEF e, A, a, b, link, known
  <1>9. CASE link /\ e.time = NoTime
    <2>1. A = {}
      BY <1>2, <1>4, <1>6, <1>7, <1>9
    <2>2. QED
      BY <1>1, <1>9, <2>1, FS_EmptySet DEF A
  <1>10. CASE ~(link /\ e.time = NoTime) /\ ~known
    <2>1. A = {a}
      BY <1>2, <1>4, <1>6, <1>10 DEF a
    <2>2. QED
      BY <1>1, <1>10, <2>1, FS_Singleton DEF A
  <1>11. CASE known
    <2>1. A = {a} \union {b}
      BY <1>2, <1>6, <1>7, <1>11 DEF a, b
    <2>2. b \notin {a}
      BY <1>3, <1>7, <1>11
    <2>3. IsFiniteSet({a}) /\ Cardinality({a}) = 1
      BY FS_Singleton
    <2> HIDE DEF A, a, b
    <2>4. IsFiniteSet(A) /\ Cardinality(A) = Cardinality({a}) + 1
      BY <2>1, <2>2, <2>3, FS_AddElement
    <2>5. Cardinality(A) = 2
      BY <2>3, <2>4
    <2>6. QED
      BY <1>1, <1>4, <1>7, <1>11, <2>4, <2>5 DEF A
  <1>12. QED
    BY <1>9, <1>10, <1>11

-----------------------------------------------------------------------------
(* The theorems about the timeline. *)

(* A row whose details are shown has them in the list the timeline is made of. *)
LEMMA ShownIsListed ==
  ASSUME NEW i \in DOMAIN rows
  PROVE  /\ i \in Shown <=> CacheOf(cache)[i] # NoDetails
         /\ i \in Shown => CacheOf(cache)[i] = Of(i) /\ PathOf(i) \in DOMAIN cache
  BY DEF Shown, CacheOf, Of

LEMMA TimelineStepsUp ==
  ASSUME TimelineInv
  PROVE  LET D == CacheOf(cache)
             X == OfRows(rows, D)
         IN  /\ rows \in Seq(ArtifactRows) /\ \A i \in DOMAIN rows : Tells(D[i])
             /\ StrictOrder(X, PlaceOrder(X)) /\ timeline \in Seq(X) /\ ToSet(timeline) = X
             /\ Ascends(timeline, PlaceOrder(X))
  <1> DEFINE D == CacheOf(cache)
             X == OfRows(rows, D)
  <1>1. rows \in Seq(ArtifactRows) /\ \A i \in DOMAIN rows : Tells(D[i])
    BY CacheTells DEF TimelineInv, Scanned
  <1>2. X \in SUBSET X
    OBVIOUS
  <1> HIDE DEF D
  <1>3. StrictOrder(X, PlaceOrder(X))
    BY <1>1, <1>2, PlaceOrderIsStrict
  <1>4. TimelineOf(rows, timeline, D)
    BY DEF TimelineInv, D
  <1>5. QED
    BY <1>1, <1>3, <1>4 DEF TimelineOf, D

LEMMA InOrder ==
  ASSUME TimelineInv
  PROVE  TimelineInOrder
  <1> DEFINE D == CacheOf(cache)
             X == OfRows(rows, D)
             n == Len(timeline)
  <1>1. /\ rows \in Seq(ArtifactRows) /\ \A i \in DOMAIN rows : Tells(D[i])
        /\ StrictOrder(X, PlaceOrder(X)) /\ timeline \in Seq(X) /\ ToSet(timeline) = X
        /\ Ascends(timeline, PlaceOrder(X))
    BY TimelineStepsUp
  <1>2. \A i \in DOMAIN rows : (i \in Shown <=> D[i] # NoDetails) /\ (i \in Shown => D[i] = Of(i))
    BY ShownIsListed
  <1> HIDE DEF D
  <1>3. n \in Nat /\ DOMAIN timeline = 1 .. n
    BY <1>1
  <1>4. ASSUME NEW j \in 1 .. n - 1 PROVE KeyLess(Place(timeline[j]), Place(timeline[j + 1]))
    <2>1. j \in 1 .. n /\ j + 1 \in 1 .. n /\ j < j + 1
      BY <1>3
    <2>2. <<timeline[j], timeline[j + 1]>> \in PlaceOrder(X)
      BY <1>1, <1>3, <2>1 DEF Ascends
    <2>3. QED
      BY <2>2 DEF PlaceOrder
  <1>5. ASSUME NEW i \in Shown, NEW k \in DOMAIN Of(i).entries
        PROVE  Cardinality({j \in DOMAIN timeline : timeline[j].from = <<i, k>>}) = Times(i, k)
    <2> DEFINE A == OfEntry(rows, i, k, D[i])
    <2>1. i \in DOMAIN rows /\ PathOf(i) \in DOMAIN cache
      BY DEF Shown
    <2>2. D[i] # NoDetails /\ D[i] = Of(i)
      BY <1>2, <2>1
    <2>3. k \in DOMAIN D[i].entries
      BY <2>2
    <2>4. /\ Telling(D[i].entries[k]) /\ A \subseteq X
          /\ \A a \in X : a.from = <<i, k>> <=> a \in A
      BY <1>1, <2>1, <2>2, <2>3, EventOfEntry
    <2>5. IsFiniteSet(A) /\ Cardinality(A) = Times(i, k)
      BY <2>1, <2>2, <2>4, EventCount
    <2> HIDE DEF A
    <2>6. \A j \in DOMAIN timeline : timeline[j] \in X
      BY <1>1
    <2>7. {j \in DOMAIN timeline : timeline[j].from = <<i, k>>} = {j \in DOMAIN timeline : timeline[j] \in A}
      BY <2>4, <2>6
    <2>8. Cardinality({j \in DOMAIN timeline : timeline[j] \in A}) = Cardinality(A)
      BY <1>1, <2>4, PositionsOf
    <2>9. QED
      BY <2>5, <2>7, <2>8
  <1>6. ASSUME NEW j \in DOMAIN timeline PROVE timeline[j].from[1] \in Shown
    <2>1. timeline[j] \in X
      BY <1>1
    <2>2. PICK i \in DOMAIN rows : timeline[j] \in OfRow(rows, i, D[i])
      BY <2>1 DEF OfRows
    <2>3. i \in Int
      BY <1>1
    <2>4. timeline[j].from[1] = i /\ D[i] # NoDetails
      BY <1>1, <2>2, <2>3, OfRowFacts
    <2>5. QED
      BY <1>2, <2>4
  <1>7. QED
    BY <1>4, <1>5, <1>6 DEF TimelineInOrder

(* What is said of a row's state. *)
LEMMA TroubleIsSaid ==
  ASSUME TimelineInv
  PROVE  TroubleIsOnTheTimeline
  <1> DEFINE D == CacheOf(cache)
             X == OfRows(rows, D)
  <1>1. /\ rows \in Seq(ArtifactRows) /\ \A i \in DOMAIN rows : Tells(D[i])
        /\ StrictOrder(X, PlaceOrder(X)) /\ timeline \in Seq(X) /\ ToSet(timeline) = X
        /\ Ascends(timeline, PlaceOrder(X))
    BY TimelineStepsUp
  <1>2. \A i \in DOMAIN rows : (i \in Shown <=> D[i] # NoDetails) /\ (i \in Shown => D[i] = Of(i))
    BY ShownIsListed
  <1> HIDE DEF D
  <1> SUFFICES ASSUME NEW i \in Shown
               PROVE  LET said == {j \in DOMAIN timeline : timeline[j].from = <<i, 0>>}
                      IN  /\ (Of(i).error # "none" \/ (Of(i).warnings # {} /\ Of(i).state # "unsupported")) =>
                               \E j \in said : said = {j} /\ timeline[j].note =
                                 (IF Of(i).error = "none" THEN Of(i).warnings ELSE {Of(i).error})
                          /\ said # {} => Of(i).state # "parsed"
    BY DEF TroubleIsOnTheTimeline
  <1> DEFINE said == {j \in DOMAIN timeline : timeline[j].from = <<i, 0>>}
             d == Of(i)
             e == StateEvent(rows, i, d)
  <1>3. i \in DOMAIN rows /\ PathOf(i) \in DOMAIN cache /\ d # NoDetails
    BY DEF Shown, Of
  <1>4. D[i] = d
    BY <1>2, <1>3
  <1>5. Candid(d)
    <2>1. Fair(cache[PathOf(i)], disk[PathOf(i)])
      BY <1>3, SourcedIsFair DEF TimelineInv
    <2>2. QED
      BY <1>3, <2>1 DEF Fair, Of
  <1> HIDE DEF d
  <1>6. OfState(rows, i, d) \subseteq X /\ \A a \in X : a.from = <<i, 0>> <=> a \in OfState(rows, i, d)
    BY <1>1, <1>3, <1>4, EventOfState
  <1>7. \A j \in DOMAIN timeline : timeline[j] \in X
    BY <1>1
  <1>8. \A a \in X : \E j \in DOMAIN timeline : timeline[j] = a
    BY <1>1 DEF ToSet
  <1>9. said # {} => d.state # "parsed"
    <2>1. \A j \in said : timeline[j] \in OfState(rows, i, d)
      BY <1>6, <1>7
    <2>2. d.state = "parsed" => OfState(rows, i, d) = {}
      BY <1>3, OfStateIs
    <2>3. QED
      BY <2>1, <2>2
  <1>10. ASSUME d.error # "none" \/ (d.warnings # {} /\ d.state # "unsupported")
         PROVE  \E j \in said : said = {j} /\ timeline[j].note = Saying(d)
    <2>1. d.state \in {"failed", "partial"}
      BY <1>5, <1>10 DEF Candid
    <2>2. OfState(rows, i, d) = {e}
      BY <1>3, <2>1, OfStateIs
    <2>3. e.note = Saying(d)
      BY <1>3, StateEventFacts
    <2> HIDE DEF e
    <2>4. PICK j \in DOMAIN timeline : timeline[j] = e
      BY <1>6, <1>8, <2>2
    <2>5. e \in X /\ e.from = <<i, 0>>
      BY <1>6, <2>2
    <2>6. j \in said
      BY <2>4, <2>5
    <2>7. \A m \in said : m \in DOMAIN timeline /\ timeline[m] = e
      BY <1>6, <1>7, <2>2
    <2>8. DOMAIN timeline = 1 .. Len(timeline)
      BY <1>1
    <2>9. \A m \in said : m = j
      BY <1>1, <2>4, <2>7, <2>8, AscendingIsArranged
    <2>10. said = {j}
      BY <2>6, <2>9
    <2> HIDE DEF said
    <2>11. QED
      BY <2>3, <2>4, <2>6, <2>10
  <1>11. QED
    BY <1>9, <1>10 DEF d, Saying

LEMMA TimesAreHeld ==
  ASSUME TimelineInv
  PROVE  TimesComeFromTheFile
  <1> DEFINE D == CacheOf(cache)
             X == OfRows(rows, D)
  <1>1. /\ rows \in Seq(ArtifactRows) /\ \A i \in DOMAIN rows : Tells(D[i])
        /\ timeline \in Seq(X)
    BY TimelineStepsUp
  <1>2. \A i \in DOMAIN rows : (i \in Shown <=> D[i] # NoDetails) /\ (i \in Shown => D[i] = Of(i))
    BY ShownIsListed
  <1> HIDE DEF D
  <1>3. ASSUME NEW i \in Shown, NEW k \in DOMAIN Of(i).entries
        PROVE  DatedFrom(Of(i).entries[k], FileAt(i))
    <2>1. PathOf(i) \in DOMAIN cache /\ Of(i) # NoDetails
      BY DEF Shown, Of
    <2>2. Fair(Of(i), FileAt(i))
      BY <2>1, SourcedIsFair DEF TimelineInv, Of, FileAt
    <2>3. Of(i).entries[k] \in ToSet(Of(i).entries)
      BY DEF ToSet
    <2>4. QED
      BY <2>1, <2>2, <2>3 DEF Fair
  <1>4. ASSUME NEW j \in DOMAIN timeline, timeline[j].time # NoTime
        PROVE  timeline[j].time >= Epoch /\ timeline[j].time \in Held(disk[timeline[j].path])
    <2> DEFINE a == timeline[j]
    <2>1. a \in X
      BY <1>1
    <2>2. PICK i \in DOMAIN rows : a \in OfRow(rows, i, D[i])
      BY <2>1 DEF OfRows
    <2> HIDE DEF a
    <2>3. i \in Int
      BY <1>1
    <2>4. /\ D[i] # NoDetails
          /\ \/ a \in OfState(rows, i, D[i])
             \/ \E k \in DOMAIN D[i].entries : a \in OfEntry(rows, i, k, D[i])
      BY <1>1, <2>2, <2>3, OfRowFacts
    <2>5. i \in Shown /\ D[i] = Of(i)
      BY <1>2, <2>4
    <2>6. a \notin OfState(rows, i, D[i])
      BY <1>4, OfStateFacts DEF a
    <2>7. PICK k \in DOMAIN Of(i).entries : a \in OfEntry(rows, i, k, D[i])
      BY <2>4, <2>5, <2>6
    <2>8. a.time = Of(i).entries[k].time /\ a.path = PathOf(i)
      BY <2>5, <2>7, OfEntryFacts DEF PathOf
    <2>9. DatedFrom(Of(i).entries[k], FileAt(i)) /\ FileAt(i) = disk[a.path]
      BY <1>3, <2>5, <2>8 DEF FileAt
    <2>10. QED
      BY <1>4, <2>8, <2>9 DEF DatedFrom, a
  <1>5. ASSUME NEW i \in Read("cfbf"), NEW k \in DOMAIN Of(i).entries, Of(i).entries[k].time # NoTime
        PROVE  LET e == Of(i).entries[k]
               IN  114 + 2 * FileAt(i).list[e.of].chars[1] <= FileAt(i).destList.size - e.of
    <2>1. i \in Shown /\ FileAt(i).format = "cfbf"
      BY DEF Read
    <2>2. QED
      BY <1>3, <1>5, <2>1 DEF DatedFrom
  <1>6. QED
    BY <1>4, <1>5 DEF TimesComeFromTheFile

-----------------------------------------------------------------------------
(* What an analysis leaves behind: for every row to be described what a row  *)
(* of its path has to say of the file that is there.                        *)
Told(c, i)  == \E j \in DOMAIN rows : PathOf(j) = PathOf(i) /\ c[PathOf(i)] = describe(rows[j], FileAt(i))
Complete    == analysed => \A i \in ToDo : PathOf(i) \in DOMAIN cache /\ Told(cache, i)

LEMMA AnswerKeepsComplete ==
  ASSUME Complete, NEW i \in DOMAIN rows, TakeAnswer(i)
  PROVE  Complete'
  <1> DEFINE d == describe(rows[i], FileOf(rows[i]))
             b == Inserted(cache, PathOf(i), d)
  <1>1. cache' = b /\ analysed' = (analysed /\ mounts) /\ UNCHANGED <<rows, disk>>
    BY DEF TakeAnswer, evidence
  <1>2. ASSUME analysed, mounts, NEW j \in ToDo
        PROVE  PathOf(j) \in DOMAIN b /\ Told(b, j)
    <2>1. j \in DOMAIN rows
      BY DEF ToDo
    <2>2. CASE PathOf(j) = PathOf(i)
      <3>1. b[PathOf(j)] = d /\ PathOf(j) \in DOMAIN b
        BY <2>2 DEF Inserted
      <3>2. FileOf(rows[i]) = FileAt(j)
        BY <1>2, <2>2 DEF FileOf, FileAt, PathOf
      <3>3. QED
        BY <2>2, <3>1, <3>2 DEF Told
    <2>3. CASE PathOf(j) # PathOf(i)
      <3>1. PathOf(j) \in DOMAIN b /\ b[PathOf(j)] = cache[PathOf(j)]
        BY <1>2, <2>3 DEF Complete, Inserted
      <3>2. QED
        BY <1>2, <3>1 DEF Complete, Told
    <2>4. QED
      BY <2>2, <2>3
  <1> HIDE DEF b
  <1>3. ToDo' = ToDo /\ \A j, c : Told(c, j)' = Told(c, j) /\ PathOf(j)' = PathOf(j)
    BY <1>1 DEF ToDo, Told, PathOf, FileAt
  <1>4. QED
    BY <1>1, <1>2, <1>3 DEF Complete

LEMMA AnalysedIsComplete ==
  ASSUME Scanned, Sourced(cache), Analysed
  PROVE  Complete'
  <1> DEFINE described == populate(rows, [i \in DOMAIN rows |-> FileOf(rows[i])])
             b == Put(cache, described)
  <1>1. cache' = b /\ UNCHANGED <<rows, disk>> /\ mounts
    BY DEF Analysed, evidence
  <1>2. \A i \in ToDo : described[i] = describe(rows[i], FileAt(i))
    BY <1>1 DEF populate, ToDo, FileOf, FileAt, PathOf
  <1> HIDE DEF described
  <1>3. Updated(b, cache, described)
    <2>1. rows \in Seq(ArtifactRows) /\ cache = [path \in DOMAIN cache |-> cache[path]]
      BY DEF Scanned, Sourced
    <2>2. QED
      BY <2>1, PutIs
  <1> HIDE DEF b
  <1>4. ASSUME NEW j \in ToDo
        PROVE  PathOf(j) \in DOMAIN b /\ Told(b, j)
    <2>1. PathOf(j) \in DOMAIN b
      BY <1>3 DEF Updated
    <2>2. PICK i \in ToDo : PathOf(i) = PathOf(j) /\ b[PathOf(j)] = described[i]
      BY <1>3, <2>1 DEF Updated
    <2>3. FileAt(i) = FileAt(j) /\ i \in DOMAIN rows
      BY <2>2 DEF FileAt, ToDo
    <2>4. QED
      BY <1>2, <2>1, <2>2, <2>3 DEF Told
  <1>5. ToDo' = ToDo /\ \A j, c : Told(c, j)' = Told(c, j) /\ PathOf(j)' = PathOf(j)
    BY <1>1 DEF ToDo, Told, PathOf, FileAt
  <1>6. QED
    BY <1>1, <1>4, <1>5 DEF Complete

LEMMA CompleteNext ==
  ASSUME TimelineInv, Complete, [Next]_vars
  PROVE  Complete'
  <1>1. UNCHANGED <<rows, disk>>
    BY DEF Next, vars, evidence, Detach, Deselect, SelectCached, SelectToLoad, TakeAnswer,
       DropAnswer, Analyze, Analysed, AnalysisFails
  <1>2. ToDo' = ToDo /\ \A j, c : Told(c, j)' = Told(c, j) /\ PathOf(j)' = PathOf(j)
    BY <1>1 DEF ToDo, Told, PathOf, FileAt
  <1>3. UNCHANGED <<cache, analysed>> => Complete'
    BY <1>1, <1>2 DEF Complete
  <1>4. CASE UNCHANGED vars \/ Detach \/ Deselect \/ Analyze \/ AnalysisFails
    BY <1>3, <1>4 DEF vars, results, Detach, Deselect, Analyze, AnalysisFails
  <1>5. ASSUME NEW i \in DOMAIN rows, SelectCached(i) \/ SelectToLoad(i) \/ DropAnswer(i) PROVE Complete'
    BY <1>3, <1>5 DEF SelectCached, SelectToLoad, DropAnswer, results
  <1>6. ASSUME NEW i \in DOMAIN rows, TakeAnswer(i) PROVE Complete'
    BY <1>6, AnswerKeepsComplete DEF TimelineInv
  <1>7. CASE Analysed
    BY <1>7, AnalysedIsComplete DEF TimelineInv
  <1>8. QED
    BY <1>4, <1>5, <1>6, <1>7 DEF Next

(* Of each path one row tells.                                               *)
Tellers(t) ==
  /\ t \in [DOMAIN rows -> DOMAIN rows]
  /\ \A i, j \in DOMAIN rows : PathOf(i) = PathOf(j) => t[i] = t[j]
  /\ \A i \in DOMAIN rows : PathOf(t[i]) = PathOf(i)

LEMMA TellersOfComplete ==
  ASSUME Complete, analysed
  PROVE  \E t : Tellers(t) /\ \A i \in ToDo : cache[PathOf(i)] = describe(rows[t[i]], FileAt(i))
  <1> DEFINE Right(path, j) == cache[path] = describe(rows[j], disk[path])
             Of2(path) == {j \in DOMAIN rows : PathOf(j) = path}
             One(path) == CHOOSE j \in Of2(path) : (\E k \in Of2(path) : Right(path, k)) => Right(path, j)
             t == [i \in DOMAIN rows |-> One(PathOf(i))]
  <1>1. ASSUME NEW i \in DOMAIN rows
        PROVE  /\ One(PathOf(i)) \in Of2(PathOf(i))
               /\ (\E k \in Of2(PathOf(i)) : Right(PathOf(i), k)) => Right(PathOf(i), One(PathOf(i)))
    <2> DEFINE path == PathOf(i)
    <2>1. i \in Of2(path)
      OBVIOUS
    <2> HIDE DEF Right, Of2, path
    <2>2. \E j \in Of2(path) : (\E k \in Of2(path) : Right(path, k)) => Right(path, j)
      BY <2>1
    <2>3. QED
      BY <2>2 DEF path
  <1> HIDE DEF One
  <1>2. Tellers(t)
    BY <1>1 DEF Tellers
  <1>3. ASSUME NEW i \in ToDo PROVE cache[PathOf(i)] = describe(rows[t[i]], FileAt(i))
    <2>1. i \in DOMAIN rows /\ t[i] = One(PathOf(i))
      BY DEF ToDo
    <2>2. Told(cache, i)
      BY <1>3 DEF Complete
    <2>3. \E k \in Of2(PathOf(i)) : Right(PathOf(i), k)
      BY <2>2 DEF Told, FileAt
    <2>4. Right(PathOf(i), One(PathOf(i)))
      BY <1>1, <2>1, <2>3
    <2>5. QED
      BY <2>1, <2>4 DEF FileAt
  <1> HIDE DEF t
  <1>4. QED
    BY <1>2, <1>3

(* The events of rows that are to be described are those the command line    *)
(* makes of what the rows that tell have to say.                             *)
LEMMA CompleteTimeline ==
  ASSUME TimelineInv, Complete
  PROVE  AnalysisCoversTheScan
  <1> DEFINE Made(t) == [i \in DOMAIN rows |-> IF ToDescribe(rows[i]) THEN describe(rows[t[i]], disk[PathOf(i)])
                                               ELSE NoDetails]
  <1> SUFFICES ASSUME analysed
               PROVE  \E t : Tellers(t) /\ OfScan(timeline) = buildEvents(rows, Made(t))
    BY DEF AnalysisCoversTheScan, Tellers
  <1>0. PICK t : Tellers(t) /\ \A i \in ToDo : cache[PathOf(i)] = describe(rows[t[i]], FileAt(i))
    BY TellersOfComplete
  <1> SUFFICES OfScan(timeline) = buildEvents(rows, Made(t))
    BY <1>0
  <1> DEFINE D == CacheOf(cache)
             X == OfRows(rows, D)
             P == Made(t)
             Y == OfRows(rows, P)
             built == buildEvents(rows, P)
             I == {j \in DOMAIN timeline : ToDescribe(rows[timeline[j].from[1]])}
             kept == Picked(timeline, I)
  <1>1. /\ rows \in Seq(ArtifactRows) /\ \A i \in DOMAIN rows : Tells(D[i])
        /\ StrictOrder(X, PlaceOrder(X)) /\ timeline \in Seq(X) /\ ToSet(timeline) = X
        /\ Ascends(timeline, PlaceOrder(X))
    BY TimelineStepsUp
  <1>2. \A i \in DOMAIN rows : P[i] = IF i \in ToDo THEN D[i] ELSE NoDetails
    <2>1. \A i \in DOMAIN rows : P[i] = IF i \in ToDo THEN describe(rows[t[i]], FileAt(i)) ELSE NoDetails
      BY DEF ToDo, FileAt
    <2>2. \A i \in ToDo : D[i] = cache[PathOf(i)]
      BY DEF CacheOf, Complete, ToDo
    <2>3. QED
      BY <1>0, <2>1, <2>2
  <1> HIDE DEF D, P
  <1>3. \A i \in DOMAIN rows : Tells(P[i])
    BY <1>1, <1>2 DEF Tells
  <1>4. built \in Seq(Y) /\ ToSet(built) = Y /\ Ascends(built, PlaceOrder(Y))
    BY <1>1, <1>3, BuiltFacts
  <1>5. \A i \in DOMAIN rows : OfRow(rows, i, P[i]) = IF i \in ToDo THEN OfRow(rows, i, D[i]) ELSE {}
    BY <1>2 DEF OfRow
  <1>6. \A a \in X : a \in Y <=> ToDescribe(rows[a.from[1]])
    <2> SUFFICES ASSUME NEW a \in X PROVE a \in Y <=> ToDescribe(rows[a.from[1]])
      OBVIOUS
    <2>1. PICK i \in DOMAIN rows : a \in OfRow(rows, i, D[i])
      BY DEF OfRows
    <2>2. a.from[1] = i
      <3>1. i \in Int
        BY <1>1
      <3>2. QED
        BY <1>1, <2>1, <3>1, OfRowFacts
    <2>3. ASSUME ToDescribe(rows[i]) PROVE a \in Y
      <3>1. i \in ToDo
        BY <2>3 DEF ToDo
      <3>2. a \in OfRow(rows, i, P[i])
        BY <1>5, <2>1, <3>1
      <3>3. QED
        BY <3>2 DEF OfRows
    <2>4. ASSUME a \in Y PROVE ToDescribe(rows[i])
      <3>1. PICK m \in DOMAIN rows : a \in OfRow(rows, m, P[m])
        BY <2>4 DEF OfRows
      <3>2. m \in Int
        BY <1>1
      <3>3. a.from[1] = m
        BY <1>3, <3>1, <3>2, OfRowFacts
      <3>4. m \in ToDo
        BY <1>5, <3>1
      <3>5. QED
        BY <2>2, <3>3, <3>4 DEF ToDo
    <2>5. QED
      BY <2>2, <2>3, <2>4
  <1>7. Y \subseteq X
    <2>1. \A i \in DOMAIN rows : OfRow(rows, i, P[i]) \subseteq OfRow(rows, i, D[i])
      BY <1>5
    <2>2. QED
      BY <2>1 DEF OfRows
  <1> HIDE DEF X, Y
  <1>8. DOMAIN timeline = 1 .. Len(timeline) /\ I \in SUBSET (1 .. Len(timeline))
    BY <1>1
  <1>9. kept \in Seq(X) /\ ToSet(kept) = {timeline[j] : j \in I}
    BY <1>1, <1>8, PickedElements
  <1>10. ToSet(kept) = Y
    <2>1. \A j \in DOMAIN timeline : timeline[j] \in X
      BY <1>1
    <2>2. \A a \in X : \E j \in DOMAIN timeline : timeline[j] = a
      BY <1>1 DEF ToSet
    <2>3. {timeline[j] : j \in I} \subseteq Y
      BY <1>6, <2>1
    <2>4. Y \subseteq {timeline[j] : j \in I}
      BY <1>6, <1>7, <2>2
    <2>5. QED
      BY <1>9, <2>3, <2>4
  <1>11. Ascends(kept, PlaceOrder(X))
    <2>1. PICK at \in [1 .. Len(kept) -> I] :
            /\ \A i, j \in 1 .. Len(kept) : i < j <=> at[i] < at[j]
            /\ \A k \in 1 .. Len(kept) : kept[k] = timeline[at[k]]
      <3>1. PickedFrom(kept, timeline, I)
        BY <1>1, <1>8, PickedFacts
      <3> HIDE DEF kept, I
      <3>2. QED
        BY <3>1 DEF PickedFrom
    <2>2. DOMAIN kept = 1 .. Len(kept)
      BY <1>9
    <2> HIDE DEF kept
    <2> SUFFICES ASSUME NEW i \in 1 .. Len(kept), NEW j \in 1 .. Len(kept), i < j
                 PROVE  <<kept[i], kept[j]>> \in PlaceOrder(X)
      BY <2>2 DEF Ascends
    <2>3. at[i] \in DOMAIN timeline /\ at[j] \in DOMAIN timeline /\ at[i] < at[j]
      BY <2>1
    <2>4. <<timeline[at[i]], timeline[at[j]]>> \in PlaceOrder(X)
      BY <1>1, <2>3 DEF Ascends
    <2>5. QED
      BY <2>1, <2>4
  <1>12. Ascends(built, PlaceOrder(X)) /\ built \in Seq(X)
    <2>1. PlaceOrder(Y) \subseteq PlaceOrder(X)
      BY <1>7 DEF PlaceOrder
    <2> HIDE DEF built
    <2>2. built \in Seq(X)
      BY <1>4, <1>7
    <2>3. QED
      BY <1>4, <2>1, <2>2 DEF Ascends
  <1>13. kept = built
    <2> HIDE DEF kept, built
    <2>1. QED
      BY <1>1, <1>4, <1>9, <1>10, <1>11, <1>12, AscendingIsUnique
  <1>14. QED
    BY <1>13 DEF OfScan, Where, P

-----------------------------------------------------------------------------
(* The timeline of every reachable state. *)
LEMMA TimelineAlways == Spec => []TimelineInv
  BY TimelineInit, TimelineNext, PTL DEF Spec

(* Timed events come first and in the order of their times, what is equal  *)
(* stays in the order of rows and entries, and every entry is there as     *)
(* often as it should be (ArtifactTimelineService.cpp:446-506), for every  *)
(* scan and every file that can be read.                                   *)
THEOREM TriageTimelineInOrder == Spec => []TimelineInOrder
  BY TimelineAlways, InOrder, PTL

(* A row that failed or was parsed with a warning says so in one event,    *)
(* and a row parsed without says nothing (ArtifactTimelineService.cpp:     *)
(* 106-116).                                                               *)
THEOREM TriageTroubleIsOnTheTimeline == Spec => []TroubleIsOnTheTimeline
  BY TimelineAlways, TroubleIsSaid, PTL

(* No time is made up by any of the seventeen providers: it is a date the  *)
(* file holds, and a jump list's entry whose layout is not trusted has     *)
(* none (ArtifactDetailProviders.cpp:56-63, 463-479).                      *)
THEOREM TriageTimesComeFromTheFile == Spec => []TimesComeFromTheFile
  BY TimelineAlways, TimesAreHeld, PTL

(* After an analysis every row to be described has the events the command   *)
(* line makes of it or of a row of its path, one row telling for all of a    *)
(* path, whatever was loaded before it, meanwhile or after                   *)
(* (MainWindow.cpp:1440-1459, 1677-1689), for every scan.                    *)
THEOREM TriageAnalysisCoversTheScan == Spec => []AnalysisCoversTheScan
  <1>1. Init => Complete
    BY DEF Init, Complete
  <1>2. TimelineInv /\ Complete /\ [Next]_vars => Complete'
    BY CompleteNext
  <1>3. TimelineInv /\ Complete => AnalysisCoversTheScan
    BY CompleteTimeline
  <1>4. QED
    BY <1>1, <1>2, <1>3, TimelineAlways, PTL DEF Spec

-----------------------------------------------------------------------------
(* A walk along a chain: the sectors it has taken follow one another, and  *)
(* it stops with an error only where the next cannot be taken.             *)
Follows(s, table, start) == \A k \in DOMAIN s : s[k] = IF k = 1 THEN start ELSE table[s[k - 1]]
NextOf(s, table, start)   == IF s = <<>> THEN start ELSE table[s[Len(s)]]
Stuck(s, at, table, room) ==
  at # EndOfChain /\ (at \notin DOMAIN table \/ at >= room \/ \E i \in DOMAIN s : s[i] = at)
Walked(st, k, table, room, start) ==
  /\ st = [x \in ChainFields |-> st[x]]
  /\ st.data \in Seq(DOMAIN table) /\ Follows(st.data, table, start) /\ st.at = NextOf(st.data, table, start)
  /\ \A i \in DOMAIN st.data : st.data[i] < room
  /\ \A i, j \in DOMAIN st.data : st.data[i] = st.data[j] => i = j
  /\ st.error = "none" /\ st.at # EndOfChain => Len(st.data) = k
  /\ st.error # "none" => Stuck(st.data, st.at, table, room)

LEMMA HopWalks ==
  ASSUME NEW table, IsTable(table), NEW room \in Nat, NEW start \in Int, NEW k \in Nat, NEW st,
         Walked(st, k, table, room, start)
  PROVE  Walked(Hop(table, room, st), k + 1, table, room, start)
  <1> DEFINE s == st.data
             u == Append(s, st.at)
             e1 == "outside the table"
             e3 == "out of range"
             t1 == [st EXCEPT !.error = e1]
             t2 == [st EXCEPT !.error = "loop"]
             t3 == [st EXCEPT !.error = e3]
             t4 == [st EXCEPT !.data = u, !.at = table[st.at]]
  <1>1. Hop(table, room, st) = IF st.error # "none" \/ st.at = EndOfChain THEN st
                               ELSE IF st.at \notin DOMAIN table THEN t1
                               ELSE IF \E i \in DOMAIN s : s[i] = st.at THEN t2
                               ELSE IF st.at >= room THEN t3 ELSE t4
    BY Zenon DEF Hop
  <1>2. CASE st.error # "none" \/ st.at = EndOfChain
    BY <1>1, <1>2 DEF Walked
  <1>3. ASSUME NEW t \in {t1, t2, t3}, Stuck(s, st.at, table, room)
        PROVE  Walked(t, k + 1, table, room, start)
    <2>1. "outside the table" # "none" /\ "out of range" # "none"
      BY Zenon
    <2>2. e1 # "none" /\ e3 # "none"
      BY <2>1
    <2> HIDE DEF e1, e3
    <2>3. t = [x \in ChainFields |-> t[x]] /\ t.data = s /\ t.at = st.at /\ t.error # "none"
      BY <1>3, <2>2 DEF Walked, ChainFields
    <2> HIDE DEF t1, t2, t3, s
    <2>4. s = st.data
      BY DEF s
    <2>5. QED
      BY <1>3, <2>3, <2>4 DEF Walked
  <1>4. CASE /\ st.error = "none" /\ st.at # EndOfChain /\ st.at \in DOMAIN table /\ st.at < room
             /\ ~\E i \in DOMAIN s : s[i] = st.at
    <2> DEFINE n == Len(s)
    <2>1. s \in Seq(DOMAIN table) /\ n \in Nat /\ DOMAIN s = 1 .. n /\ n = k
      BY <1>4 DEF Walked
    <2>2. /\ t4 = [x \in ChainFields |-> t4[x]] /\ t4.data = u /\ t4.at = table[st.at] /\ t4.error = "none"
      BY <1>4 DEF Walked, ChainFields
    <2>3. /\ Follows(s, table, start) /\ st.at = NextOf(s, table, start)
          /\ \A i \in DOMAIN s : s[i] < room
          /\ \A i, j \in DOMAIN s : s[i] = s[j] => i = j
      BY DEF Walked
    <2> HIDE DEF s, t4
    <2>4. /\ u \in Seq(DOMAIN table) /\ Len(u) = n + 1 /\ DOMAIN u = 1 .. n + 1
          /\ u[n + 1] = st.at /\ \A i \in 1 .. n : u[i] = s[i]
      BY <1>4, <2>1
    <2> HIDE DEF u, n
    <2>5. Follows(u, table, start)
      <3> SUFFICES ASSUME NEW i \in 1 .. n + 1 PROVE u[i] = IF i = 1 THEN start ELSE table[u[i - 1]]
        BY <2>4 DEF Follows
      <3>1. CASE i \in 1 .. n
        <4>1. s[i] = IF i = 1 THEN start ELSE table[s[i - 1]]
          BY <2>1, <2>3, <3>1 DEF Follows
        <4>2. i # 1 => i - 1 \in 1 .. n
          BY <2>1, <3>1
        <4>3. QED
          BY <2>4, <3>1, <4>1, <4>2
      <3>2. CASE i = n + 1
        <4>1. s = <<>> <=> n = 0
          BY <2>1 DEF n
        <4>2. QED
          BY <2>1, <2>3, <2>4, <3>2, <4>1 DEF NextOf, n
      <3>3. QED
        BY <2>1, <3>1, <3>2
    <2>6. table[st.at] = NextOf(u, table, start)
      BY <2>1, <2>4 DEF NextOf
    <2>7. /\ \A i \in DOMAIN u : u[i] < room
          /\ \A i, j \in DOMAIN u : u[i] = u[j] => i = j
      BY <1>4, <2>1, <2>3, <2>4
    <2>8. Walked(t4, k + 1, table, room, start)
      BY <2>1, <2>2, <2>4, <2>5, <2>6, <2>7 DEF Walked
    <2>9. Hop(table, room, st) = t4
      <3>1. st.at \in Nat
        BY <1>4 DEF IsTable
      <3> HIDE DEF t1, t2, t3
      <3>2. QED
        BY <1>1, <1>4, <3>1
    <2>10. QED
      BY <2>8, <2>9
  <1>5. CASE Stuck(s, st.at, table, room) /\ st.error = "none"
    <2>1. Hop(table, room, st) \in {t1, t2, t3}
      BY <1>1, <1>5 DEF Stuck
    <2> HIDE DEF t1, t2, t3, s
    <2>2. QED
      BY <1>3, <1>5, <2>1
  <1>6. st.at \in DOMAIN table => st.at \in Nat
    BY DEF IsTable
  <1> HIDE DEF s
  <1>7. QED
    BY <1>2, <1>4, <1>5, <1>6 DEF Stuck

-----------------------------------------------------------------------------
LEMMA NoRepetition ==
  ASSUME NEW S, IsFiniteSet(S), NEW n \in Nat, NEW s \in [1 .. n -> S],
         \A i, j \in 1 .. n : s[i] = s[j] => i = j
  PROVE  n <= Cardinality(S)
  <1>1. s \in Injection(1 .. n, S)
    BY DEF Injection, IsInjective
  <1>2. Cardinality(1 .. n) <= Cardinality(S)
    BY <1>1, FS_Injection
  <1>3. Cardinality(1 .. n) = n
    BY FS_Interval
  <1>4. QED
    BY <1>2, <1>3

LEMMA ChainIsWalked ==
  ASSUME NEW table, IsTable(table), NEW room \in Nat, NEW start \in Int
  PROVE  Walked(Chain(table, room, start), Cardinality(DOMAIN table) + 1, table, room, start)
  <1> DEFINE n == Cardinality(DOMAIN table) + 1
             first == [at |-> start, data |-> <<>>, error |-> "none"]
             g == CHOOSE e : ChainLoop(e, table, room, start, n)
             S == {m \in 0 .. n : \E e : ChainLoop(e, table, room, start, m)}
  <1>1. Chain(table, room, start) = g[n]
    BY Zenon DEF Chain, ChainLoop
  <1>2. n \in Nat
    BY FS_CardinalityType DEF IsTable
  <1>0. Walked(first, 0, table, room, start)
    <2>1. /\ first = [x \in ChainFields |-> first[x]] /\ first.at = start /\ first.data = <<>> /\ first.error = "none"
          /\ <<>> \in Seq(DOMAIN table) /\ DOMAIN <<>> = {} /\ Len(<<>>) = 0
      BY DEF ChainFields
    <2> HIDE DEF first
    <2>2. Follows(<<>>, table, start) /\ NextOf(<<>>, table, start) = start
      BY <2>1 DEF Follows, NextOf
    <2>3. QED
      BY <2>1, <2>2 DEF Walked
  <1>3. \A e, m : ChainLoop(e, table, room, start, m) <=>
                    e = [k \in 0 .. m |-> IF k = 0 THEN first ELSE Hop(table, room, e[k - 1])]
    BY DEF ChainLoop
  <1> HIDE DEF n, g, first
  <1>4. 0 \in S
    <2> DEFINE e == [k \in 0 .. 0 |-> first]
    <2>1. e = [k \in 0 .. 0 |-> IF k = 0 THEN first ELSE Hop(table, room, e[k - 1])]
      OBVIOUS
    <2> HIDE DEF e
    <2>2. ChainLoop(e, table, room, start, 0)
      BY <1>3, <2>1
    <2>3. QED
      BY <1>2, <2>2
  <1>5. \A m \in 1 .. n : m - 1 \in S => m \in S
    <2> SUFFICES ASSUME NEW m \in 1 .. n, m - 1 \in S PROVE m \in S
      OBVIOUS
    <2>1. PICK d : ChainLoop(d, table, room, start, m - 1)
      OBVIOUS
    <2> DEFINE e == [k \in 0 .. m |-> IF k = m THEN Hop(table, room, d[m - 1]) ELSE d[k]]
    <2>2. d = [k \in 0 .. m - 1 |-> IF k = 0 THEN first ELSE Hop(table, room, d[k - 1])]
      BY <1>3, <2>1
    <2>3. \A k \in 0 .. m : e[k] = IF k = 0 THEN first ELSE Hop(table, room, e[k - 1])
      BY <1>2, <2>2
    <2>4. e = [k \in 0 .. m |-> e[k]]
      OBVIOUS
    <2> HIDE DEF e
    <2>5. ChainLoop(e, table, room, start, m)
      <3>1. e = [k \in 0 .. m |-> IF k = 0 THEN first ELSE Hop(table, room, e[k - 1])]
        BY <2>3, <2>4
      <3>2. QED
        BY <1>3, <3>1
    <2>6. QED
      BY <2>5
  <1> HIDE DEF S
  <1>6. 0 .. n \subseteq S
    BY <1>2, <1>4, <1>5, RangeInduction
  <1>7. \E e : ChainLoop(e, table, room, start, n)
    BY <1>2, <1>6 DEF S
  <1>8. g = [k \in 0 .. n |-> IF k = 0 THEN first ELSE Hop(table, room, g[k - 1])]
    BY <1>3, <1>7 DEF g
  <1> DEFINE R == {k \in 0 .. n : Walked(g[k], k, table, room, start)}
  <1>9. \A k \in 0 .. n : g[k] = IF k = 0 THEN first ELSE Hop(table, room, g[k - 1])
    BY <1>8
  <1>10. 0 \in R
    BY <1>0, <1>2, <1>9
  <1>11. \A k \in 1 .. n : k - 1 \in R => k \in R
    <2> SUFFICES ASSUME NEW k \in 1 .. n, k - 1 \in R PROVE Walked(g[k], k, table, room, start)
      OBVIOUS
    <2>1. g[k] = Hop(table, room, g[k - 1])
      BY <1>2, <1>9
    <2>2. Walked(g[k - 1], k - 1, table, room, start) /\ k - 1 \in Nat /\ k - 1 + 1 = k
      BY <1>2 DEF R
    <2>3. QED
      BY <2>1, <2>2, HopWalks
  <1> HIDE DEF R
  <1>12. 0 .. n \subseteq R
    BY <1>2, <1>10, <1>11, RangeInduction
  <1>13. Walked(g[n], n, table, room, start)
    <2>1. n \in R
      BY <1>2, <1>12
    <2>2. QED
      BY <2>1 DEF R
  <1>14. QED
    BY <1>1, <1>13 DEF n

(* A walk goes along every chain there is. *)
LEMMA WalkIsOnTheChain ==
  ASSUME NEW table, IsTable(table), NEW room \in Nat, NEW start \in Int,
         NEW d \in Seq(DOMAIN table), Follows(d, table, start),
         NEW n \in Nat, NEW s \in [1 .. n -> DOMAIN table], IsChain(table, room, s, start)
  PROVE  /\ Len(d) <= n /\ \A i \in 1 .. Len(d) : d[i] = s[i]
         /\ ~Stuck(d, NextOf(d, table, start), table, room)
  <1> DEFINE m == Len(d)
             S == {i \in 0 .. m : i <= n /\ \A j \in 1 .. i : d[j] = s[j]}
  <1>1. m \in Nat /\ DOMAIN d = 1 .. m /\ DOMAIN s = 1 .. n /\ Len(s) = n /\ (s = <<>> <=> n = 0)
    <2>1. s \in Seq(DOMAIN table)
      OBVIOUS
    <2>2. QED
      BY <2>1
  <1>2. EndOfChain \notin DOMAIN table
    BY DEF IsTable, EndOfChain
  <1>3. /\ \A k \in 1 .. n : s[k] < room /\ s[k] \in DOMAIN table
        /\ \A k \in 1 .. n : s[k] = IF k = 1 THEN start ELSE table[s[k - 1]]
        /\ n = 0 => start = EndOfChain
        /\ n > 0 => table[s[n]] = EndOfChain
    <2>1. n > 0 => Last(s) = s[n]
      BY <1>1 DEF Last
    <2>2. QED
      BY <1>1, <2>1 DEF IsChain
  <1>4. \A k \in 1 .. m : d[k] \in DOMAIN table /\ d[k] = IF k = 1 THEN start ELSE table[d[k - 1]]
    <2>1. \A k \in 1 .. m : d[k] = IF k = 1 THEN start ELSE table[d[k - 1]]
      BY <1>1 DEF Follows
    <2>2. \A k \in 1 .. m : d[k] \in DOMAIN table
      BY <1>1
    <2>3. QED
      BY <2>1, <2>2
  <1> HIDE DEF m
  <1>5. 0 \in S
    BY <1>1
  <1>6. \A i \in 1 .. m : i - 1 \in S => i \in S
    <2> SUFFICES ASSUME NEW i \in 1 .. m, i - 1 \in S PROVE i \in S
      OBVIOUS
    <2>1. i - 1 <= n /\ \A j \in 1 .. i - 1 : d[j] = s[j]
      OBVIOUS
    <2>2. i # 1 => d[i - 1] = s[i - 1]
      BY <1>1, <2>1
    <2>3. i <= n
      <3> SUFFICES ASSUME i = n + 1 PROVE FALSE
        BY <1>1, <2>1
      <3>1. d[i] = EndOfChain
        <4>1. CASE n = 0
          BY <1>1, <1>3, <1>4, <4>1
        <4>2. CASE n > 0
          <5>1. d[i] = table[d[i - 1]] /\ d[i - 1] = s[n]
            BY <1>1, <1>4, <2>2, <4>2
          <5>2. QED
            BY <1>3, <4>2, <5>1
        <4>3. QED
          BY <4>1, <4>2
      <3>2. QED
        BY <1>2, <1>4, <3>1
    <2>4. d[i] = s[i]
      <3>1. i \in 1 .. n
        BY <1>1, <2>3
      <3>2. s[i] = IF i = 1 THEN start ELSE table[s[i - 1]]
        BY <1>3, <3>1
      <3>3. QED
        BY <1>4, <2>2, <3>2
    <2>5. \A j \in 1 .. i : j = i \/ j \in 1 .. i - 1
      BY <1>1
    <2>6. QED
      BY <2>1, <2>3, <2>4, <2>5
  <1> HIDE DEF S
  <1>7. 0 .. m \subseteq S
    BY <1>1, <1>5, <1>6, RangeInduction
  <1>8. m <= n /\ \A j \in 1 .. m : d[j] = s[j]
    <2>1. m \in S
      BY <1>1, <1>7
    <2>2. QED
      BY <2>1 DEF S
  <1> DEFINE at == NextOf(d, table, start)
  <1>9. at = IF m = 0 THEN start ELSE table[d[m]]
    BY <1>1 DEF NextOf, m
  <1> HIDE DEF at
  <1>10. m = n => at = EndOfChain
    BY <1>1, <1>3, <1>8, <1>9
  <1>11. m < n => at = s[m + 1] /\ at \in DOMAIN table /\ at < room
    <2> SUFFICES ASSUME m < n PROVE at = s[m + 1] /\ at \in DOMAIN table /\ at < room
      OBVIOUS
    <2>1. m + 1 \in 1 .. n /\ m + 1 - 1 = m
      BY <1>1
    <2>2. s[m + 1] = IF m + 1 = 1 THEN start ELSE table[s[m]]
      <3> DEFINE k == m + 1
      <3>1. k \in 1 .. n /\ k - 1 = m
        BY <1>1, <2>1
      <3> HIDE DEF k
      <3>2. s[k] = IF k = 1 THEN start ELSE table[s[k - 1]]
        BY <1>3, <3>1
      <3>3. s[k] = IF k = 1 THEN start ELSE table[s[m]]
        BY <3>1, <3>2
      <3>4. QED
        BY <3>3 DEF k
    <2>3. m > 0 => d[m] = s[m]
      BY <1>1, <1>8
    <2>4. at = s[m + 1]
      BY <1>1, <1>9, <2>2, <2>3
    <2>5. QED
      BY <1>3, <2>1, <2>4
  <1>12. ASSUME NEW i \in 1 .. n, NEW j \in 1 .. n, i < j, s[i] = s[j]
         PROVE  FALSE
    <2> DEFINE T == {k \in 0 .. n - j : s[i + k] = s[j + k]}
    <2>1. n - j \in Nat
      OBVIOUS
    <2>2. 0 \in T
      BY <1>12, <2>1
    <2>3. \A k \in 1 .. n - j : k - 1 \in T => k \in T
      <3> SUFFICES ASSUME NEW k \in 1 .. n - j, k - 1 \in T PROVE s[i + k] = s[j + k]
        BY <2>1
      <3>1. i + k \in 2 .. n /\ j + k \in 2 .. n /\ i + k - 1 = i + (k - 1) /\ j + k - 1 = j + (k - 1)
        BY <1>12, <2>1
      <3>2. s[i + k] = table[s[i + k - 1]] /\ s[j + k] = table[s[j + k - 1]]
        BY <1>3, <3>1
      <3>3. QED
        BY <3>1, <3>2
    <2> HIDE DEF T
    <2>4. 0 .. n - j \subseteq T
      BY <2>1, <2>2, <2>3, RangeInduction
    <2>5. n - j \in T
      BY <2>1, <2>4
    <2>6. s[i + (n - j)] = s[n]
      <3>1. j + (n - j) = n
        OBVIOUS
      <3>2. QED
        BY <2>5, <3>1 DEF T
    <2>7. i + (n - j) + 1 \in 2 .. n
      BY <1>12
    <2>8. s[i + (n - j) + 1] = table[s[i + (n - j)]]
      BY <1>3, <2>7
    <2>9. table[s[n]] = EndOfChain
      BY <1>3
    <2>10. QED
      BY <1>2, <1>3, <2>6, <2>7, <2>8, <2>9
  <1>13. m < n => \A i \in 1 .. m : d[i] # at
    <2> SUFFICES ASSUME m < n, NEW i \in 1 .. m, d[i] = at PROVE FALSE
      OBVIOUS
    <2>1. i \in 1 .. n /\ m + 1 \in 1 .. n /\ i < m + 1 /\ s[i] = s[m + 1]
      BY <1>1, <1>8, <1>11
    <2>2. QED
      BY <1>12, <2>1
  <1>14. ~Stuck(d, at, table, room)
    <2>1. at \in DOMAIN table => at \in Nat
      BY DEF IsTable
    <2>2. QED
      BY <1>1, <1>8, <1>10, <1>11, <1>13, <2>1 DEF Stuck
  <1>15. QED
    BY <1>8, <1>14 DEF m, at

(* A chain is walked without an error exactly when it leads to an end. *)
LEMMA ChainFacts ==
  ASSUME NEW table, IsTable(table), NEW room \in Nat, NEW start \in Int
  PROVE  LET r == Chain(table, room, start)
             n == Cardinality(DOMAIN table)
         IN  /\ r.error = "none" => /\ IsChain(table, room, r.data, start)
                                    /\ Len(r.data) \in 0 .. n /\ r.data \in [1 .. Len(r.data) -> DOMAIN table]
             /\ r.error # "none" => \A m \in Nat : \A s \in [1 .. m -> DOMAIN table] : ~IsChain(table, room, s, start)
  <1> DEFINE r == Chain(table, room, start)
             n == Cardinality(DOMAIN table)
             d == r.data
  <1>1. Walked(r, n + 1, table, room, start)
    BY ChainIsWalked
  <1>2. n \in Nat /\ IsFiniteSet(DOMAIN table)
    BY FS_CardinalityType DEF IsTable
  <1> HIDE DEF r
  <1>3. /\ d \in Seq(DOMAIN table) /\ Follows(d, table, start) /\ r.at = NextOf(d, table, start)
        /\ \A i \in DOMAIN d : d[i] < room
        /\ \A i, j \in DOMAIN d : d[i] = d[j] => i = j
        /\ r.error = "none" /\ r.at # EndOfChain => Len(d) = n + 1
        /\ r.error # "none" => Stuck(d, r.at, table, room)
    BY <1>1 DEF Walked
  <1> HIDE DEF d, n
  <1>4. /\ Len(d) \in Nat /\ DOMAIN d = 1 .. Len(d) /\ d \in [1 .. Len(d) -> DOMAIN table]
        /\ \A i \in 1 .. Len(d) : d[i] \in DOMAIN table /\ (d = <<>> <=> Len(d) = 0) /\ (d # <<>> => Last(d) = d[Len(d)])
    BY <1>3 DEF Last
  <1>5. Len(d) <= n
    <2> DEFINE S == DOMAIN table
               k == Len(d)
    <2>1. /\ k \in Nat /\ d \in [1 .. k -> S] /\ IsFiniteSet(S)
          /\ \A i, j \in 1 .. k : d[i] = d[j] => i = j
      BY <1>2, <1>3, <1>4
    <2>2. n = Cardinality(S)
      BY DEF n
    <2> HIDE DEF S, k
    <2>3. k <= n
      BY <2>1, <2>2, NoRepetition
    <2>4. QED
      BY <2>3 DEF k
  <1>6. r.error = "none" => IsChain(table, room, d, start)
    <2> SUFFICES ASSUME r.error = "none" PROVE IsChain(table, room, d, start)
      OBVIOUS
    <2>1. EndOfChain = NextOf(d, table, start)
      <3>1. n \in Nat /\ Len(d) \in Nat /\ Len(d) <= n
        BY <1>2, <1>4, <1>5
      <3>3. Len(d) # n + 1
        BY <3>1
      <3>2. QED
        BY <1>3, <3>3
    <2>2. EndOfChain = IF d = <<>> THEN start ELSE table[Last(d)]
      BY <1>3, <1>4, <2>1 DEF NextOf, Last
    <2>3. QED
      BY <1>3, <1>4, <2>2 DEF IsChain, Follows
  <1>7. r.error # "none" => \A m \in Nat : \A s \in [1 .. m -> DOMAIN table] : ~IsChain(table, room, s, start)
    BY <1>3, WalkIsOnTheChain
  <1>8. QED
    BY <1>2, <1>4, <1>5, <1>6, <1>7 DEF r, d, n

-----------------------------------------------------------------------------
(* What ReadStream gives of a stream is its chain, cut at its size.          *)
LEMMA StreamIsItsChain ==
  ASSUME NEW p, IsCompound(p), NEW stream, IsStream(stream),
         NEW table, NEW room, NEW unit,
         IF InFat(p, stream) THEN table = p.fat /\ room = p.sectors /\ unit = p.sectorSize
                             ELSE table = p.miniFat /\ room = p.minis /\ unit = p.miniSize,
         ~(stream.size = 0 \/ NoData(stream.start)),
         NEW r, r = ReadStream(p, stream)
  PROVE  /\ r.error = "none" <=> \E n \in 0 .. Cardinality(DOMAIN table) :
                                   \E s \in [1 .. n -> DOMAIN table] : IsChain(table, room, s, stream.start)
         /\ r.error = "none" => /\ IsChain(table, room, r.data, stream.start)
                                /\ r.size <= stream.size
                                /\ r.size \in {stream.size, Len(r.data) * unit}
  <1> DEFINE start == stream.start
             c == Chain(table, room, start)
             n == Cardinality(DOMAIN table)
  <1>1. IsTable(table) /\ room \in Nat /\ unit \in Nat /\ start \in Int /\ stream.size \in Nat
    BY DEF IsCompound, IsStream
  <1>2. ~InFat(p, stream) => Minis(p) = p.minis
    BY DEF InFat, Minis
  <1>3. r = [size  |-> IF c.error = "none" THEN Least(stream.size, unit * Len(c.data)) ELSE 0,
             data  |-> c.data,
             error |-> c.error]
    BY <1>2 DEF ReadStream
  <1>4. r.error = c.error /\ r.data = c.data
        /\ (c.error = "none" => r.size = Least(stream.size, unit * Len(c.data)))
    BY <1>3
  <1>5. /\ c.error = "none" => /\ IsChain(table, room, c.data, start)
                               /\ Len(c.data) \in 0 .. n /\ c.data \in [1 .. Len(c.data) -> DOMAIN table]
        /\ c.error # "none" => \A m \in Nat : \A s \in [1 .. m -> DOMAIN table] : ~IsChain(table, room, s, start)
    BY <1>1, ChainFacts
  <1> HIDE DEF c, n
  <1>6. CASE c.error = "none"
    <2> DEFINE k == Len(c.data)
               b == unit * k
    <2>1. k \in Nat /\ k \in 0 .. n /\ b \in Nat /\ b = k * unit
      BY <1>1, <1>5, <1>6
    <2> HIDE DEF b
    <2>2. Least(stream.size, b) \in {stream.size, b} /\ Least(stream.size, b) <= stream.size
      BY <1>1, <2>1 DEF Least
    <2>3. r.size = Least(stream.size, b)
      BY <1>4, <1>6 DEF b
    <2>4. \E m \in 0 .. n : \E s \in [1 .. m -> DOMAIN table] : IsChain(table, room, s, start)
      BY <1>5, <1>6, <2>1
    <2>5. QED
      BY <1>4, <1>5, <1>6, <2>1, <2>2, <2>3, <2>4 DEF n
  <1>7. CASE c.error # "none"
    <2>1. \A m \in 0 .. n : \A s \in [1 .. m -> DOMAIN table] : ~IsChain(table, room, s, start)
      BY <1>5, <1>7
    <2>2. QED
      BY <1>4, <1>7, <2>1 DEF n
  <1>8. QED
    BY <1>6, <1>7

LEMMA StreamsOfCompound ==
  ASSUME NEW p, IsCompound(p), NEW stream \in {p.destList} \union ToSet(p.streams)
  PROVE  IsStream(stream)
  BY DEF IsCompound, ToSet

LEMMA ShownIsAFile ==
  ASSUME Scanned, NEW i \in Shown
  PROVE  IsFile(FileAt(i))
  <1>1. PICK w \in Worlds : rows = w.rows /\ disk = w.disk
    BY DEF Scanned
  <1>2. i \in DOMAIN rows
    BY DEF Shown
  <1>3. QED
    BY <1>1, <1>2, TriageAssumption DEF FileAt, PathOf

LEMMA StreamsAreChains ==
  ASSUME Scanned
  PROVE  ChainIsTheStream
  <1> SUFFICES ASSUME NEW i \in Shown, FileAt(i).format = "cfbf", FileAt(i).read = "none"
               PROVE  \A stream \in {FileAt(i).destList} \union ToSet(FileAt(i).streams) :
                        LET p     == FileAt(i)
                            r     == ReadStream(p, stream)
                            big   == stream.size >= p.cutoff \/ p.root = EndOfChain \/ NoData(p.miniStart) \/ p.minis = 0
                            table == IF big THEN p.fat ELSE p.miniFat
                            room  == IF big THEN p.sectors ELSE p.minis
                        IN  IF stream.size = 0 \/ NoData(stream.start) THEN r.size = 0
                            ELSE /\ r.error = "none" <=>
                                      \E n \in 0 .. Cardinality(DOMAIN table) :
                                        \E s \in [1 .. n -> DOMAIN table] : IsChain(table, room, s, stream.start)
                                 /\ r.error = "none" =>
                                      /\ IsChain(table, room, r.data, stream.start)
                                      /\ r.size <= stream.size
                                      /\ r.size \in {stream.size, Len(r.data) * (IF big THEN p.sectorSize ELSE p.miniSize)}
    BY DEF ChainIsTheStream
  <1> DEFINE p == FileAt(i)
  <1>1. IsCompound(p)
    BY ShownIsAFile DEF IsFile
  <1> HIDE DEF p
  <1> SUFFICES ASSUME NEW stream \in {p.destList} \union ToSet(p.streams)
               PROVE  LET r     == ReadStream(p, stream)
                          big   == stream.size >= p.cutoff \/ p.root = EndOfChain \/ NoData(p.miniStart) \/ p.minis = 0
                          table == IF big THEN p.fat ELSE p.miniFat
                          room  == IF big THEN p.sectors ELSE p.minis
                      IN  IF stream.size = 0 \/ NoData(stream.start) THEN r.size = 0
                          ELSE /\ r.error = "none" <=>
                                    \E n \in 0 .. Cardinality(DOMAIN table) :
                                      \E s \in [1 .. n -> DOMAIN table] : IsChain(table, room, s, stream.start)
                               /\ r.error = "none" =>
                                    /\ IsChain(table, room, r.data, stream.start)
                                    /\ r.size <= stream.size
                                    /\ r.size \in {stream.size, Len(r.data) * (IF big THEN p.sectorSize ELSE p.miniSize)}
    BY DEF p
  <1> DEFINE r     == ReadStream(p, stream)
             big   == stream.size >= p.cutoff \/ p.root = EndOfChain \/ NoData(p.miniStart) \/ p.minis = 0
             table == IF big THEN p.fat ELSE p.miniFat
             room  == IF big THEN p.sectors ELSE p.minis
             unit  == IF big THEN p.sectorSize ELSE p.miniSize
  <1>2. IsStream(stream)
    BY <1>1, StreamsOfCompound
  <1>3. InFat(p, stream) <=> big
    BY DEF InFat, Minis
  <1>4. stream.size = 0 \/ NoData(stream.start) => r.size = 0
    BY DEF ReadStream
  <1>5. IF InFat(p, stream) THEN table = p.fat /\ room = p.sectors /\ unit = p.sectorSize
                            ELSE table = p.miniFat /\ room = p.minis /\ unit = p.miniSize
    BY <1>3
  <1>6. r = ReadStream(p, stream)
    OBVIOUS
  <1> HIDE DEF r, table, room, unit
  <1>7. ASSUME ~(stream.size = 0 \/ NoData(stream.start))
        PROVE  /\ r.error = "none" <=> \E n \in 0 .. Cardinality(DOMAIN table) :
                                         \E s \in [1 .. n -> DOMAIN table] : IsChain(table, room, s, stream.start)
               /\ r.error = "none" => /\ IsChain(table, room, r.data, stream.start)
                                      /\ r.size <= stream.size
                                      /\ r.size \in {stream.size, Len(r.data) * unit}
    BY <1>1, <1>2, <1>5, <1>6, <1>7, StreamIsItsChain
  <1>8. QED
    BY <1>4, <1>7 DEF r, table, room, unit

(* A stream is read without an error exactly when a chain of sectors of the  *)
(* file leads from its first to an end, and then it is that chain, cut at    *)
(* the stream's size, for every table, looping or broken                     *)
(* (ArtifactDetailProviders.cpp:579-601, 699-733).                           *)
THEOREM TriageChainIsTheStream == Spec => []ChainIsTheStream
  <1>1. TimelineInv => ChainIsTheStream
    BY StreamsAreChains DEF TimelineInv
  <1>2. QED
    BY <1>1, TimelineAlways, PTL

-----------------------------------------------------------------------------
(* Only the reader of event logs makes entries of an event log.              *)
LEMMA OthersFindNothing ==
  ASSUME NEW p, p.format = "evtx", NEW row, NEW name \in ProviderNames, name # "windows.evtx_v1"
  PROVE  Parse(name, row, p).entries = <<>>
  <1> DEFINE r1 == RecycleBin(p)
             r2 == ShellLink(p)
             r3 == Prefetch(p)
             h(x) == InHive(p, x)
             r12 == ScheduledTask(p)
             r13 == Report(p)
             r15 == Srum(p)
             r16 == History(p)
             r17 == JumpList(p)
  <1>1. \A w, e : Failed(e).entries = <<>> /\ Unsupported(w).entries = <<>> /\ Partial(w).entries = <<>>
    BY DEF Failed, Unsupported, Partial, Result
  <1>2. r1.entries = <<>> /\ r2.entries = <<>> /\ r3.entries = <<>>
    <2>1. r1 = Failed("too short") /\ r2 = Failed("too short") /\ r3 = Failed("signature")
      BY Zenon DEF RecycleBin, ShellLink, Prefetch
    <2> HIDE DEF r1, r2, r3
    <2>2. QED
      BY <1>1, <2>1
  <1>3. \A x : h(x).entries = <<>>
    <2>1. \A x : h(x) = Failed("not a hive")
      BY Zenon DEF InHive
    <2> HIDE DEF h
    <2>2. QED
      BY <1>1, <2>1
  <1>4. r12.entries = <<>> /\ r13.entries = <<>>
    <2>1. r12 = Unsupported({}) /\ r13 = Unsupported({})
      BY Zenon DEF ScheduledTask, Report
    <2> HIDE DEF r12, r13
    <2>2. QED
      BY <1>1, <2>1
  <1>5. r15.entries = <<>> /\ r16.entries = <<>> /\ r17.entries = <<>>
    <2>1. r15 = Failed("signature") /\ r16 = Partial({"visits", "downloads", "no row"}) /\ r17 = Failed("signature")
      BY Zenon DEF Srum, History, JumpList
    <2> HIDE DEF r15, r16, r17
    <2>2. QED
      BY <1>1, <2>1
  <1> DEFINE r4 == h(RunMru(p.hive))
             r5 == h(RecentDocs(p.hive))
             r6 == h(UserAssist(p.hive))
             r7 == h(Amcache(p.hive))
             r8 == h(BamDam(p.hive))
             r9 == h(AppCompatCache(p.hive))
             r10 == h(Services(p.hive))
             r11 == h(Usb(p.hive))
             r == Parse(name, row, p)
  <1>6. r \in {r1, r2, r3, r4, r5, r6, r7, r8, r9, r10, r11, r12, r13, r15, r16, r17}
    <2> HIDE DEF r1, r2, r3, r4, r5, r6, r7, r8, r9, r10, r11, r12, r13, r15, r16, r17
    <2>1. r = CASE name = "windows.recycle_bin_i"        -> r1
                [] name = "windows.lnk_summary"          -> r2
                [] name = "windows.prefetch_summary"     -> r3
                [] name = "windows.registry_run_mru"     -> r4
                [] name = "windows.registry_recent_docs" -> r5
                [] name = "windows.registry_userassist"  -> r6
                [] name = "windows.amcache"              -> r7
                [] name = "windows.bam_dam"              -> r8
                [] name = "windows.appcompatcache_v1"    -> r9
                [] name = "windows.services_v1"          -> r10
                [] name = "windows.usb_registry_v1"      -> r11
                [] name = "windows.scheduled_task_v1"    -> r12
                [] name = "windows.wer_v1"               -> r13
                [] name = "windows.evtx_v1"              -> EventLog(p, "primary" \in row.marks)
                [] name = "windows.srum_metadata_probe"  -> r15
                [] name = "windows.chromium_history"     -> r16
                [] name = "windows.jump_list_v1"         -> r17
      BY Zenon DEF Parse, r1, r2, r3, r4, r5, r6, r7, r8, r9, r10, r11, r12, r13, r15, r16, r17
    <2> HIDE DEF r
    <2>2. QED
      BY <2>1 DEF ProviderNames
  <1>7. /\ r4.entries = <<>> /\ r5.entries = <<>> /\ r6.entries = <<>> /\ r7.entries = <<>>
        /\ r8.entries = <<>> /\ r9.entries = <<>> /\ r10.entries = <<>> /\ r11.entries = <<>>
    BY <1>3
  <1> HIDE DEF r, r1, r2, r3, r4, r5, r6, r7, r8, r9, r10, r11, r12, r13, r15, r16, r17
  <1>8. r.entries = <<>>
    BY <1>2, <1>4, <1>5, <1>6, <1>7
  <1>9. QED
    BY <1>8 DEF r

AllQuoted(es, p) == \A k \in DOMAIN es : Quoted(es[k], p)

LEMMA EventLogQuotes ==
  ASSUME NEW p, p.format = "evtx", IsLog(p), NEW primary
  PROVE  AllQuoted(EventLog(p, primary).entries, p)
  <1> DEFINE log == ReadLog(p.chunks)
             none == Unsupported(log.warnings)
             W == log.warnings \union (IF primary THEN {} ELSE {"generic channel"})
             row(x) == [kind |-> "event", time |-> x.time, of |-> x.of, id |-> x.id,
                        sysmon |-> x.provider = Sysmon, data |-> x.data]
             es == [i \in DOMAIN log.events |-> row(log.events[i])]
             found == Found(es, W)
  <1>1. EventLog(p, primary) \in {none, found}
    <2>1. EventLog(p, primary) = IF log.chunks = 0 THEN none ELSE found
      BY Zenon DEF EventLog, LogDetails
    <2> HIDE DEF none, found, log
    <2>2. QED
      BY <2>1
  <1>2. none.entries = <<>> /\ found.entries = es
    BY DEF Unsupported, Found, Result
  <1> HIDE DEF none, found, W
  <1>3. Logs(log, p)
    BY LogIsRead
  <1> HIDE DEF log
  <1>4. \A i \in DOMAIN log.events : Quoted(log.events[i], p)
    BY <1>3, ListPlaces DEF Logs
  <1>5. \A x : row(x).of = x.of /\ row(x).data = x.data
    OBVIOUS
  <1> HIDE DEF row
  <1>6. DOMAIN es = DOMAIN log.events /\ \A i \in DOMAIN es : Quoted(es[i], p)
    BY <1>4, <1>5 DEF Quoted
  <1> HIDE DEF es
  <1>7. AllQuoted(es, p) /\ AllQuoted(<<>>, p)
    BY <1>6 DEF AllQuoted
  <1>8. QED
    BY <1>1, <1>2, <1>7

LEMMA DescribeQuotes ==
  ASSUME NEW p, IsFile(p), p.format = "evtx", p.read = "none", NEW row, NEW f \in States(p),
         describe(row, f) # NoDetails
  PROVE  AllQuoted(describe(row, f).entries, p)
  <1> DEFINE I == {i \in DOMAIN ProviderList : Supports(ProviderList[i], row)}
             takers == Picked(ProviderList, I)
             name == Head(takers).name
             a == Failed(f.read)
             b == Parse(name, row, f)
             c == Unsupported({"only automatic destinations"})
             d == describe(row, f)
  <1>1. \/ takers = <<>> /\ d = NoDetails
        \/ d = Details(name, c)
        \/ d = Details(name, a)
        \/ takers # <<>> /\ f.read = "none" /\ d = Details(name, b)
    <2>1. d = IF takers = <<>> THEN NoDetails
              ELSE IF name = "windows.jump_list_v1" /\ "custom" \in row.marks THEN Details(name, c)
              ELSE IF f.read # "none" THEN Details(name, a) ELSE Details(name, b)
      BY Zenon DEF describe, Where
    <2> HIDE DEF takers, name, a, b, c, d
    <2>2. QED
      BY <2>1
  <1>2. a.entries = <<>> /\ c.entries = <<>> /\ AllQuoted(<<>>, p)
    BY DEF Failed, Unsupported, Result, AllQuoted
  <1>3. takers # <<>> => name \in ProviderNames
    BY TakerIsKnown
  <1>4. f.read = "none" => f = p
    BY DEF States, IsFile
  <1>5. \A r : Details(name, r).entries = r.entries
    BY DEF Details
  <1>6. takers # <<>> /\ f.read = "none" => AllQuoted(b.entries, p)
    <2> SUFFICES ASSUME takers # <<>>, f.read = "none" PROVE AllQuoted(b.entries, p)
      OBVIOUS
    <2> HIDE DEF takers, name
    <2>1. CASE name = "windows.evtx_v1"
      <3> DEFINE x == EventLog(p, "primary" \in row.marks)
      <3>1. b = x
        BY <1>4, <2>1, Zenon DEF Parse
      <3>2. IsLog(p)
        BY DEF IsFile
      <3>3. AllQuoted(x.entries, p)
        BY <3>2, EventLogQuotes
      <3> HIDE DEF x, b
      <3>4. QED
        BY <3>1, <3>3
    <2>2. CASE name # "windows.evtx_v1"
      <3>1. b.entries = <<>>
        BY <1>3, <1>4, <2>2, OthersFindNothing
      <3>2. QED
        BY <1>2, <3>1
    <2>3. QED
      BY <2>1, <2>2
  <1> HIDE DEF takers, name, a, b, c, d
  <1>7. AllQuoted(d.entries, p)
    BY <1>1, <1>2, <1>5, <1>6 DEF d
  <1>8. QED
    BY <1>7 DEF d

LEMMA QuotedKeys ==
  ASSUME NEW p, NEW e, Quoted(e, p), NEW k \in DOMAIN e.data
  PROVE  Owned(XmlAt(p, e.of), e.data[k])
  <1>1. e.data[k] \in ToSet(e.data)
    BY DEF ToSet
  <1>2. QED
    BY <1>1 DEF Quoted

LEMMA KeysAreOwn ==
  ASSUME Scanned, Sourced(cache)
  PROVE  KeysAreTheirOwn
  <1> SUFFICES ASSUME NEW i \in Read("evtx"), NEW k \in DOMAIN Of(i).entries, NEW j \in DOMAIN Of(i).entries[k].data
               PROVE  LET e  == Of(i).entries[k]
                          x  == FileAt(i).chunks[e.of[1]].record[e.of[2]].xml
                          said(m) == IF x.tokens[m].index = 0 THEN x.tokens[m].value ELSE x.subs[x.tokens[m].index]
                          at == e.data[j][3]
                      IN  /\ x.tokens[at].t = "value" /\ said(at) = e.data[j][2]
                          /\ e.data[j][1] # 0 => \E m \in 1 .. at - 1 :
                               /\ x.tokens[m].t = "attr" /\ x.tokens[m].name = "Name" /\ said(m) = e.data[j][1]
                               /\ \A q \in m + 1 .. at - 1 : x.tokens[q].t # "close"
    BY DEF KeysAreTheirOwn
  <1> DEFINE p == FileAt(i)
             c == Of(i)
             e == c.entries[k]
             x == XmlAt(p, e.of)
             d == e.data[j]
  <1>1. i \in Shown /\ p.format = "evtx" /\ p.read = "none" /\ c # NoDetails /\ PathOf(i) \in DOMAIN cache
    BY DEF Read, Shown, Of
  <1>2. IsFile(p)
    BY <1>1, ShownIsAFile
  <1>3. PICK r \in DOMAIN rows : PathOf(r) = PathOf(i) /\ \E f \in States(FileAt(r)) : c = describe(rows[r], f)
    BY <1>1 DEF Sourced, Of, Describes
  <1>4. FileAt(r) = p
    BY <1>3 DEF FileAt
  <1>5. \E f \in States(p) : c = describe(rows[r], f)
    BY <1>3, <1>4
  <1> HIDE DEF p, c
  <1>6. AllQuoted(c.entries, p)
    BY <1>1, <1>2, <1>5, DescribeQuotes
  <1>7. Quoted(e, p)
    BY <1>6 DEF AllQuoted, c
  <1>8. j \in DOMAIN e.data
    BY DEF c
  <1> HIDE DEF e
  <1>9. Owned(x, d)
    BY <1>7, <1>8, QuotedKeys
  <1> HIDE DEF x, d
  <1>10. /\ x.tokens[d[3]].t = "value" /\ Said(x, d[3]) = d[2]
         /\ d[1] # 0 => NamedIn(x, d[1], d[3] - 1)
    BY <1>9 DEF Owned
  <1>11. QED
    BY Zenon, <1>10 DEF Said, NamedIn, XmlAt, x, d, e, c, p

(* A name in an event's data is the one its own Data element gave, whatever  *)
(* tokens the log holds (detail_providers/EvtxBinXmlParser.cpp:142-283).     *)
THEOREM TriageKeysAreTheirOwn == Spec => []KeysAreTheirOwn
  <1>1. TimelineInv => KeysAreTheirOwn
    BY KeysAreOwn DEF TimelineInv
  <1>2. QED
    BY <1>1, TimelineAlways, PTL

-----------------------------------------------------------------------------
(* What is sorted is in the order of its keys. *)
LEMMA SortedIsInOrder ==
  ASSUME NEW s, NEW n \in Nat, IsList(s), \A x \in ToSet(s) : x.key \in [1 .. n -> Int]
  PROVE  \A a, b \in DOMAIN Sorted(s) : a < b =>
           \E x, y \in ToSet(s) : Sorted(s)[a] = x.entry /\ Sorted(s)[b] = y.entry /\ ~KeyLess(y.key, x.key)
  <1> DEFINE X == ToSet(s)
             less == {x \in (DOMAIN s) \X (DOMAIN s) : KeyLess(s[x[1]].key, s[x[2]].key)}
             t == StableSort(s, less)
             r == [i \in DOMAIN t |-> t[i].entry]
  <1>1. s \in Seq(X)
    BY DEF IsList
  <1>2. \A i \in 1 .. Len(s) : s[i] \in X /\ s[i].key \in [1 .. n -> Int]
    BY <1>1
  <1>3. \A i, j \in 1 .. Len(s) : <<i, j>> \in less <=> KeyLess(s[i].key, s[j].key)
    BY <1>1
  <1>4. Sorted(s) = r
    BY DEF Sorted
  <1> HIDE DEF X, less
  <1>5. \A i \in 1 .. Len(s) : <<i, i>> \notin less
    BY <1>2, <1>3, KeyLessIsIrreflexive
  <1>6. \A i, j, k \in 1 .. Len(s) : <<i, k>> \in less => <<i, j>> \in less \/ <<j, k>> \in less
    <2> SUFFICES ASSUME NEW i \in 1 .. Len(s), NEW j \in 1 .. Len(s), NEW k \in 1 .. Len(s), <<i, k>> \in less
                 PROVE  <<i, j>> \in less \/ <<j, k>> \in less
      OBVIOUS
    <2> DEFINE a == s[i].key
               b == s[j].key
               c == s[k].key
    <2>0. a \in [1 .. n -> Int] /\ b \in [1 .. n -> Int] /\ c \in [1 .. n -> Int] /\ KeyLess(a, c)
      BY <1>2, <1>3
    <2> HIDE DEF a, b, c
    <2>1. KeyLess(a, b) \/ KeyLess(b, c)
      BY <2>0, KeyLessIsWeak
    <2> USE DEF a, b, c
    <2>2. QED
      BY <1>3, <2>1
  <1>7. \A i, j \in 1 .. Len(s) : <<i, j>> \in less => <<j, i>> \notin less
    BY <1>2, <1>3, KeyLessIsWeak
  <1>8. t \in Seq(X) /\ SortedFrom(t, s, less)
    BY <1>1, <1>5, <1>6, <1>7, StableSortFacts
  <1> HIDE DEF t
  <1>9. DOMAIN t = 1 .. Len(t) /\ Len(t) \in Nat
    BY <1>8
  <1>10. ASSUME NEW a \in DOMAIN t, NEW b \in DOMAIN t, a < b
         PROVE  \E x, y \in X : t[a] = x /\ t[b] = y /\ ~KeyLess(y.key, x.key)
    <2>1. PICK at \in [1 .. Len(t) -> 1 .. Len(s)] :
            /\ \A i, j \in 1 .. Len(t) : i < j <=>
                 <<at[i], at[j]>> \in less \/ (<<at[j], at[i]>> \notin less /\ at[i] < at[j])
            /\ \A k \in 1 .. Len(t) : t[k] = s[at[k]]
      BY <1>8 DEF SortedFrom
    <2> DEFINE i == at[a]
               j == at[b]
    <2>2. i \in 1 .. Len(s) /\ j \in 1 .. Len(s) /\ t[a] = s[i] /\ t[b] = s[j]
          /\ (<<i, j>> \in less \/ (<<j, i>> \notin less /\ i < j))
      BY <1>9, <1>10, <2>1
    <2> HIDE DEF i, j
    <2>3. <<j, i>> \notin less
      BY <1>7, <2>2
    <2>4. QED
      BY <1>2, <1>3, <2>2, <2>3
  <1>11. DOMAIN r = DOMAIN t /\ \A i \in DOMAIN t : r[i] = t[i].entry
    OBVIOUS
  <1> HIDE DEF r
  <1>12. QED
    BY <1>4, <1>10, <1>11 DEF X

(* A program of a most-recently-used list: its key starts with where the     *)
(* list names it, behind all others when the list does not.                  *)
Slots(h, c, name) ==
  LET order == MruOrder(Values(h, c)) IN {i \in DOMAIN order : SlotName[order[i] + 1] = name}
Program(x, h, c, g) ==
  \E name :
    /\ x.entry.of = <<c, name>> /\ x.key \in [1 .. 4 -> Int] /\ x.key[1] = g
    /\ Slots(h, c, name) = {} => x.key[2] = 1
    /\ Slots(h, c, name) # {} => x.key[2] = 0 /\ x.key[3] = Min(Slots(h, c, name))

LEMMA SlotsAreNumbers ==
  ASSUME NEW h, IsHive(h), NEW c, IsKey(h, c), NEW name
  PROVE  /\ Slots(h, c, name) \in SUBSET (Nat \ {0})
         /\ Slots(h, c, name) # {} =>
              /\ Min(Slots(h, c, name)) \in Slots(h, c, name)
              /\ \A n \in Slots(h, c, name) : Min(Slots(h, c, name)) <= n
  <1> DEFINE S == Slots(h, c, name)
  <1>1. IsList(Values(h, c)) /\ \A v \in ToSet(Values(h, c)) : HiveData(h, v.data)
    BY ValuesFacts DEF IsKey
  <1>2. MruOrder(Values(h, c)) \in Seq(Int)
    BY <1>1, MruOrderFacts
  <1>3. S \in SUBSET (Nat \ {0})
    BY <1>2 DEF Slots
  <1> HIDE DEF S
  <1>4. S # {} => \E m \in S : \A n \in S : m <= n
    BY <1>3, LeastNatural
  <1>5. S # {} => Min(S) \in S /\ \A n \in S : Min(S) <= n
    BY <1>4 DEF Min
  <1>6. QED
    BY <1>3, <1>5 DEF S

LEMMA Joined ==
  ASSUME NEW u \in Seq(Int), NEW v \in Seq(Int), NEW i \in 1 .. Len(u), NEW j \in 1 .. Len(v)
  PROVE  u \o v \in Seq(Int) /\ Len(u \o v) = Len(u) + Len(v) /\ (u \o v)[i] = u[i] /\ (u \o v)[Len(u) + j] = v[j]
  <1>1. Len(u) \in Nat /\ Len(v) \in Nat
    OBVIOUS
  <1>2. QED
    BY <1>1

LEMMA KeyItems ==
  ASSUME NEW a \in Int, NEW b \in Int, NEW c \in Int, NEW d \in Int
  PROVE  /\ (<<a>> \o <<b, c>> \o <<d>>)[1] = a
         /\ (<<a>> \o <<b, c>> \o <<d>>)[2] = b
         /\ (<<a>> \o <<b, c>> \o <<d>>)[3] = c
  <1>1. /\ <<a>> \in Seq(Int) /\ Len(<<a>>) = 1 /\ <<a>>[1] = a
        /\ <<b, c>> \in Seq(Int) /\ Len(<<b, c>>) = 2 /\ <<b, c>>[1] = b /\ <<b, c>>[2] = c
        /\ <<d>> \in Seq(Int) /\ Len(<<d>>) = 1
    OBVIOUS
  <1>2. ASSUME NEW u \in Seq(Int), Len(u) = 1, u[1] = a, NEW v \in Seq(Int), Len(v) = 2, v[1] = b, v[2] = c,
               NEW z \in Seq(Int), Len(z) = 1
        PROVE  (u \o v \o z)[1] = a /\ (u \o v \o z)[2] = b /\ (u \o v \o z)[3] = c
    <2> DEFINE t == u \o v
    <2>1. t \in Seq(Int) /\ Len(t) = 3 /\ t[1] = a /\ t[2] = b /\ t[3] = c
      <3>1. 1 \in 1 .. Len(u) /\ 1 \in 1 .. Len(v) /\ 2 \in 1 .. Len(v)
        BY <1>2
      <3>2. t \in Seq(Int) /\ Len(t) = Len(u) + Len(v) /\ t[1] = u[1] /\ t[Len(u) + 1] = v[1] /\ t[Len(u) + 2] = v[2]
        BY <3>1, Joined
      <3> HIDE DEF t
      <3>3. QED
        BY <1>2, <3>2
    <2> HIDE DEF t
    <2>2. \A i \in 1 .. 3 : (t \o z)[i] = t[i]
      <3>1. 1 \in 1 .. Len(z) /\ \A i \in 1 .. 3 : i \in 1 .. Len(t)
        BY <1>2, <2>1
      <3>2. QED
        BY <2>1, <3>1, Joined
    <2>3. QED
      BY <2>1, <2>2 DEF t
  <1>3. QED
    BY Zenon, <1>1, <1>2

LEMMA MruEntriesArePrograms ==
  ASSUME NEW h, IsHive(h), NEW c, IsKey(h, c), NEW kind, NEW group
  PROVE  \A x \in ToSet(MruEntries(h, c, kind, group)) : Program(x, h, c, Rank(group))
  <1> DEFINE all == Values(h, c)
             I == {i \in DOMAIN all : all[i].name \notin MruLists}
             vs == Picked(all, I)
             pos(v) == Slots(h, c, v.name)
             slot(v) == IF pos(v) = {} THEN <<1, 0>> ELSE <<0, Min(pos(v))>>
             key(v) == <<Rank(group)>> \o slot(v) \o <<Rank(v.name)>>
             s == [i \in DOMAIN vs |-> Keyed(Entry(kind, NoTime, <<c, vs[i].name>>), key(vs[i]))]
  <1>1. MruEntries(h, c, kind, group) = s
    BY DEF MruEntries, MruKey, Where, Slots
  <1>2. ASSUME NEW v
        PROVE  /\ key(v) \in [1 .. 4 -> Int] /\ key(v)[1] = Rank(group)
               /\ pos(v) = {} => key(v)[2] = 1
               /\ pos(v) # {} => key(v)[2] = 0 /\ key(v)[3] = Min(pos(v))
    <2> DEFINE g == Rank(group)
               r == Rank(v.name)
               m == Min(pos(v))
    <2>1. g \in Int /\ r \in Int
      BY RankFacts
    <2>2. pos(v) # {} => m \in Int
      BY SlotsAreNumbers
    <2> HIDE DEF g, r, m, pos
    <2>3. ASSUME NEW j \in Int, NEW k \in Int
          PROVE  /\ <<g>> \o <<j, k>> \o <<r>> \in [1 .. 4 -> Int]
                 /\ (<<g>> \o <<j, k>> \o <<r>>)[1] = g
                 /\ (<<g>> \o <<j, k>> \o <<r>>)[2] = j
                 /\ (<<g>> \o <<j, k>> \o <<r>>)[3] = k
      <3>1. <<g>> \o <<j, k>> \o <<r>> \in [1 .. 4 -> Int]
        BY <2>1, KeyShapes
      <3>2. /\ (<<g>> \o <<j, k>> \o <<r>>)[1] = g
            /\ (<<g>> \o <<j, k>> \o <<r>>)[2] = j
            /\ (<<g>> \o <<j, k>> \o <<r>>)[3] = k
        BY <2>1, KeyItems
      <3>3. QED
        BY Zenon, <3>1, <3>2
    <2>4. 0 \in Int /\ 1 \in Int
      OBVIOUS
    <2>5. CASE pos(v) = {}
      <3>1. key(v) = <<g>> \o <<1, 0>> \o <<r>>
        BY <2>5 DEF g, r
      <3> DEFINE k == key(v)
      <3> HIDE DEF k
      <3>2. k = <<g>> \o <<1, 0>> \o <<r>>
        BY <3>1 DEF k
      <3>3. /\ <<g>> \o <<1, 0>> \o <<r>> \in [1 .. 4 -> Int]
             /\ (<<g>> \o <<1, 0>> \o <<r>>)[1] = g /\ (<<g>> \o <<1, 0>> \o <<r>>)[2] = 1
        BY Zenon, <2>3, <2>4
      <3>4. k \in [1 .. 4 -> Int] /\ k[1] = g /\ k[2] = 1
        BY Zenon, <3>2, <3>3
      <3>5. QED
        BY <2>5, <3>4 DEF g, k
    <2>6. CASE pos(v) # {}
      <3>1. key(v) = <<g>> \o <<0, m>> \o <<r>>
        BY <2>6 DEF g, r, m
      <3> DEFINE k == key(v)
      <3> HIDE DEF k
      <3>2. k = <<g>> \o <<0, m>> \o <<r>>
        BY <3>1 DEF k
      <3>3. /\ <<g>> \o <<0, m>> \o <<r>> \in [1 .. 4 -> Int]
             /\ (<<g>> \o <<0, m>> \o <<r>>)[1] = g
             /\ (<<g>> \o <<0, m>> \o <<r>>)[2] = 0 /\ (<<g>> \o <<0, m>> \o <<r>>)[3] = m
        BY Zenon, <2>2, <2>6, <2>3, <2>4
      <3>4. k \in [1 .. 4 -> Int] /\ k[1] = g /\ k[2] = 0 /\ k[3] = m
        BY Zenon, <3>2, <3>3
      <3>5. QED
        BY <2>6, <3>4 DEF g, k, m
    <2>7. QED
      BY <2>5, <2>6
  <1> HIDE DEF vs, key, slot
  <1>3. ASSUME NEW i \in DOMAIN vs PROVE Program(s[i], h, c, Rank(group))
    <2> DEFINE v == vs[i]
               name == v.name
               x == s[i]
               k == key(v)
    <2>1. x.entry.of = <<c, name>> /\ x.key = k
      BY DEF Keyed, Entry
    <2>2. /\ k \in [1 .. 4 -> Int] /\ k[1] = Rank(group)
          /\ Slots(h, c, name) = {} => k[2] = 1
          /\ Slots(h, c, name) # {} => k[2] = 0 /\ k[3] = Min(Slots(h, c, name))
      BY Zenon, <1>2
    <2> HIDE DEF x, name, k
    <2>3. Program(x, h, c, Rank(group))
      BY <2>1, <2>2 DEF Program
    <2>4. QED
      BY <2>3 DEF x
  <1>4. ToSet(s) = {s[i] : i \in DOMAIN vs}
    BY DEF ToSet
  <1> HIDE DEF s
  <1>5. QED
    BY <1>1, <1>3, <1>4

(* Of two programs the one that sorts no later is named by the list before   *)
(* every place at which it names the other.                                  *)
LEMMA EarlierIsNamedFirst ==
  ASSUME NEW h, IsHive(h), NEW c, IsKey(h, c), NEW g \in Int, NEW x, NEW y, NEW n,
         Program(x, h, c, g), Program(y, h, c, g), ~KeyLess(y.key, x.key), x.entry.of # y.entry.of,
         n \in Slots(h, c, y.entry.of[2])
  PROVE  \E m \in Slots(h, c, x.entry.of[2]) : m <= n
  <1> DEFINE a == x.entry.of[2]
             b == y.entry.of[2]
             A == Slots(h, c, a)
             B == Slots(h, c, b)
  <1>1. /\ x.key \in [1 .. 4 -> Int] /\ x.key[1] = g
        /\ A = {} => x.key[2] = 1
        /\ A # {} => x.key[2] = 0 /\ x.key[3] = Min(A)
    BY DEF Program
  <1>2. /\ y.key \in [1 .. 4 -> Int] /\ y.key[1] = g
        /\ B # {} => y.key[2] = 0 /\ y.key[3] = Min(B)
    BY DEF Program
  <1>3. /\ A \in SUBSET Nat /\ B \in SUBSET Nat
        /\ A # {} => Min(A) \in A
        /\ B # {} => Min(B) \in B /\ \A k \in B : Min(B) <= k
    BY SlotsAreNumbers
  <1>4. n \in B
    OBVIOUS
  <1> HIDE DEF A, B
  <1> DEFINE p == x.key
             q == y.key
  <1>5. p \in [1 .. 4 -> Int] /\ q \in [1 .. 4 -> Int] /\ q[1] = p[1] /\ q[2] = 0 /\ q[3] = Min(B) /\ ~KeyLess(q, p)
    BY <1>1, <1>2, <1>4
  <1>6. DOMAIN q = 1 .. 4
    BY <1>5
  <1>7. A # {}
    <2> SUFFICES ASSUME A = {} PROVE FALSE
      OBVIOUS
    <2>1. p[2] = 1
      BY <1>1
    <2> HIDE DEF p, q
    <2>2. 2 \in DOMAIN q /\ q[2] < p[2] /\ \A j \in 1 .. 2 - 1 : q[j] = p[j]
      BY <1>5, <1>6, <2>1
    <2>3. QED
      BY <1>5, <2>2, KeyLessAt
  <1>8. Min(A) <= Min(B)
    <2> SUFFICES ASSUME ~(Min(A) <= Min(B)) PROVE FALSE
      OBVIOUS
    <2>1. p[2] = 0 /\ p[3] = Min(A) /\ Min(A) \in Nat /\ Min(B) \in Nat
      BY <1>1, <1>3, <1>4, <1>7
    <2> HIDE DEF p, q
    <2>2. 3 \in DOMAIN q /\ q[3] < p[3] /\ \A j \in 1 .. 3 - 1 : q[j] = p[j]
      BY <1>5, <1>6, <2>1
    <2>3. QED
      BY <1>5, <2>2, KeyLessAt
  <1>9. n \in Nat /\ Min(B) <= n /\ Min(A) \in Nat /\ Min(B) \in Nat /\ Min(A) \in A
    BY <1>3, <1>4, <1>7
  <1>10. Min(A) <= n
    BY <1>8, <1>9
  <1>11. QED
    BY <1>9, <1>10 DEF A

-----------------------------------------------------------------------------
(* The values a key gives are those that can be read.                        *)
LEMMA ValuesAre ==
  ASSUME NEW h, IsHive(h), NEW c, IsKey(h, c)
  PROVE  ToSet(Values(h, c)) = {ValueAt(h, v) : v \in Readable(h, c)} /\ IsFiniteSet(Readable(h, c))
  <1> DEFINE s == h.cells[c].values
             I == {i \in DOMAIN s : GoodValue(h, s[i])}
             good == Picked(s, I)
             vs == [i \in DOMAIN good |-> ValueAt(h, good[i])]
  <1>1. s \in Seq(Int)
    BY CellHeld DEF IsKey
  <1>2. Values(h, c) = vs
    BY DEF Values, Where
  <1>3. Readable(h, c) = {v \in ToSet(s) : GoodValue(h, v)}
    BY DEF Readable, GoodValue
  <1>4. s \in Surjection(DOMAIN s, ToSet(s)) /\ DOMAIN s = 1 .. Len(s) /\ Len(s) \in Nat
    BY <1>1 DEF ToSet, Surjection
  <1>5. IsFiniteSet(ToSet(s))
    <2> HIDE DEF s
    <2>1. IsFiniteSet(DOMAIN s)
      BY <1>4, FS_Interval
    <2>2. QED
      BY <1>4, <2>1, FS_Surjection
  <1>6. IsFiniteSet(Readable(h, c))
    BY <1>3, <1>5, FS_Subset
  <1>7. ToSet(good) = {s[i] : i \in I}
    <2>1. IsList(s)
      BY <1>1, ListIs
    <2>2. I \in SUBSET DOMAIN s
      OBVIOUS
    <2> HIDE DEF s, I
    <2>3. QED
      BY <2>1, <2>2, WhereIs
  <1>8. ToSet(good) = Readable(h, c)
    <2>1. Readable(h, c) = {s[i] : i \in {j \in DOMAIN s : GoodValue(h, s[j])}}
      BY <1>3 DEF ToSet
    <2> HIDE DEF good
    <2>2. QED
      BY <1>7, <2>1
  <1> HIDE DEF good
  <1>9. ToSet(vs) = {ValueAt(h, good[i]) : i \in DOMAIN good}
    BY DEF ToSet
  <1>10. ToSet(good) = {good[i] : i \in DOMAIN good}
    BY DEF ToSet
  <1> HIDE DEF vs
  <1>11. QED
    BY <1>2, <1>6, <1>8, <1>9, <1>10

(* Where one value of a key holds the order, the order is that value's up to *)
(* its terminator.                                                           *)
OrderCells(h, c) == {v \in Readable(h, c) : h.cells[v].name \in MruLists}
OrderData(h, c)  == Data(h, h.cells[CHOOSE v \in OrderCells(h, c) : TRUE])
Agrees(order, data) ==
  /\ \A i \in DOMAIN order : i \in DOMAIN data /\ order[i] = data[i]
  /\ \A n \in DOMAIN data : (\A m \in 1 .. n : data[m] # Terminator) => n \in DOMAIN order

LEMMA OneOrder ==
  ASSUME NEW h, IsHive(h), NEW c, IsKey(h, c), Cardinality(OrderCells(h, c)) = 1
  PROVE  /\ MruOrder(Values(h, c)) \in Seq(Int) /\ OrderData(h, c) \in Seq(Int)
         /\ Agrees(MruOrder(Values(h, c)), OrderData(h, c))
  <1> DEFINE all == Values(h, c)
             I == {i \in DOMAIN all : all[i].name \in MruLists}
             lists == Picked(all, I)
             l == Head(lists)
             D == l.data
             ends == {i \in DOMAIN D : l.name = "MRUListEx" /\ D[i] = Terminator}
             at == CHOOSE i \in ends : \A j \in ends : i <= j
             O == MruOrder(all)
  <1>1. PICK w : OrderCells(h, c) = {w}
    <2>1. IsFiniteSet(OrderCells(h, c))
      BY ValuesAre, FS_Subset DEF OrderCells
    <2>2. QED
      BY <2>1, FS_Singleton
  <1>2. OrderData(h, c) = Data(h, h.cells[w])
    BY <1>1 DEF OrderData
  <1>3. IsList(all) /\ \A v \in ToSet(all) : HiveData(h, v.data)
    BY ValuesFacts DEF IsKey
  <1>4. O \in Seq(Int)
    BY <1>3, MruOrderFacts
  <1>5. IsList(lists) /\ ToSet(lists) = {all[i] : i \in I}
    BY <1>3, WhereIs
  <1>6. ToSet(lists) = {v \in ToSet(all) : v.name \in MruLists}
    <2> HIDE DEF lists, all
    <2>1. QED
      BY <1>5 DEF ToSet
  <1>7. ToSet(all) = {ValueAt(h, v) : v \in Readable(h, c)}
    BY ValuesAre
  <1>8. \A v : ValueAt(h, v).name = h.cells[v].name /\ ValueAt(h, v).data = Data(h, h.cells[v])
    BY DEF ValueAt
  <1> HIDE DEF lists, all
  <1>9. ToSet(lists) = {ValueAt(h, w)}
    BY <1>1, <1>6, <1>7, <1>8 DEF OrderCells
  <1>10. lists # <<>> /\ l \in ToSet(lists)
    <2>1. lists # <<>>
      BY <1>9, EmptyIsList
    <2>2. lists \in Seq(ToSet(lists))
      BY <1>5 DEF IsList
    <2> DEFINE X == ToSet(lists)
    <2> HIDE DEF X
    <2>3. lists \in Seq(X)
      BY <2>2 DEF X
    <2>4. Head(lists) \in X
      BY <2>1, <2>3
    <2>5. QED
      BY <2>1, <2>4 DEF X
  <1>11. l.data = OrderData(h, c) /\ HiveData(h, l.data)
    BY <1>2, <1>3, <1>6, <1>8, <1>9, <1>10
  <1>12. O = IF lists = <<>> THEN <<>> ELSE IF ends = {} THEN l.data ELSE SubSeq(l.data, 1, at - 1)
    BY DEF MruOrder, Where, lists
  <1>13. D \in Seq(Int)
    BY <1>11 DEF HiveData
  <1>14. Agrees(O, D)
    <2> HIDE DEF l
    <2>1. ends \in SUBSET Nat /\ ends \in SUBSET (1 .. Len(D)) /\ DOMAIN D = 1 .. Len(D) /\ Len(D) \in Nat
      BY <1>13
    <2>2. \A i \in ends : D[i] = Terminator
      OBVIOUS
    <2>3. O = IF ends = {} THEN D ELSE SubSeq(D, 1, at - 1)
      BY <1>10, <1>12
    <2> HIDE DEF D, O
    <2>4. CASE ends = {}
      BY <2>3, <2>4 DEF Agrees
    <2>5. CASE ends # {}
      <3> HIDE DEF ends
      <3>1. \E i \in ends : \A j \in ends : i <= j
        BY <2>1, <2>5, LeastNatural
      <3>2. at \in ends
        BY <3>1
      <3>3. at \in 1 .. Len(D) /\ D[at] = Terminator
        BY <2>1, <2>2, <3>2
      <3> HIDE DEF at
      <3>4. O = SubSeq(D, 1, at - 1)
        BY <2>3, <2>5
      <3>5. DOMAIN O = 1 .. at - 1 /\ \A i \in 1 .. at - 1 : O[i] = D[i]
        BY <1>13, <2>1, <3>3, <3>4 DEF D
      <3>6. QED
        BY <2>1, <3>3, <3>5 DEF Agrees
    <2>6. QED
      BY <2>4, <2>5
  <1>15. QED
    BY <1>4, <1>11, <1>13, <1>14 DEF all

-----------------------------------------------------------------------------
(* What the provider of the list of programs that were run has to say.       *)
RunList == "windows.registry_run_mru"

LEMMA RunListIsRead ==
  ASSUME NEW row, NEW p, describe(row, p).provider = RunList
  PROVE  \/ describe(row, p).entries = <<>>
         \/ p.read = "none" /\ describe(row, p).entries = RunMru(p.hive).entries
  <1> DEFINE takers == Picked(ProviderList, {i \in DOMAIN ProviderList : Supports(ProviderList[i], row)})
             name == Head(takers).name
             r == RunMru(p.hive)
             a == Failed(p.read)
             b == Parse(name, row, p)
             c == Unsupported({"only automatic destinations"})
             d == describe(row, p)
  <1>1. \/ d = NoDetails
        \/ d = Details(name, c)
        \/ d = Details(name, a)
        \/ p.read = "none" /\ d = Details(name, b)
    <2>1. d = IF takers = <<>> THEN NoDetails
              ELSE IF name = "windows.jump_list_v1" /\ "custom" \in row.marks THEN Details(name, c)
              ELSE IF p.read # "none" THEN Details(name, a) ELSE Details(name, b)
      BY Zenon DEF describe, Where
    <2> HIDE DEF takers, name, a, b, c, d
    <2>2. QED
      BY <2>1
  <1>2. d # NoDetails
    <2>1. NoDetails.provider # RunList
      BY DEF NoDetails, RunList
    <2> HIDE DEF d
    <2>2. d.provider = RunList
      BY DEF d
    <2>3. QED
      BY <2>1, <2>2
  <1>3. a.entries = <<>> /\ c.entries = <<>> /\ \A e : Failed(e).entries = <<>>
    BY DEF Failed, Unsupported, Result
  <1>4. \A x : Details(name, x).entries = x.entries /\ Details(name, x).provider = name
    BY DEF Details
  <1>5. p.read = "none" /\ name = RunList => b.entries \in {<<>>, r.entries}
    <2> SUFFICES ASSUME p.read = "none", name = RunList PROVE b.entries \in {<<>>, r.entries}
      OBVIOUS
    <2> DEFINE r4 == InHive(p, r)
               o1 == RecycleBin(p)
               o2 == ShellLink(p)
               o3 == Prefetch(p)
               o5 == InHive(p, RecentDocs(p.hive))
               o6 == InHive(p, UserAssist(p.hive))
               o7 == InHive(p, Amcache(p.hive))
               o8 == InHive(p, BamDam(p.hive))
               o9 == InHive(p, AppCompatCache(p.hive))
               o10 == InHive(p, Services(p.hive))
               o11 == InHive(p, Usb(p.hive))
               o12 == ScheduledTask(p)
               o13 == Report(p)
               o14 == EventLog(p, "primary" \in row.marks)
               o15 == Srum(p)
               o16 == History(p)
               o17 == JumpList(p)
    <2>1. b = CASE name = "windows.recycle_bin_i" -> o1
                [] name = "windows.lnk_summary" -> o2
                [] name = "windows.prefetch_summary" -> o3
                [] name = "windows.registry_run_mru" -> r4
                [] name = "windows.registry_recent_docs" -> o5
                [] name = "windows.registry_userassist" -> o6
                [] name = "windows.amcache" -> o7
                [] name = "windows.bam_dam" -> o8
                [] name = "windows.appcompatcache_v1" -> o9
                [] name = "windows.services_v1" -> o10
                [] name = "windows.usb_registry_v1" -> o11
                [] name = "windows.scheduled_task_v1" -> o12
                [] name = "windows.wer_v1" -> o13
                [] name = "windows.evtx_v1" -> o14
                [] name = "windows.srum_metadata_probe" -> o15
                [] name = "windows.chromium_history" -> o16
                [] name = "windows.jump_list_v1" -> o17
      BY Zenon DEF Parse
    <2>2. r4.entries \in {<<>>, r.entries}
      <3> DEFINE x == Failed("not a hive")
      <3>1. r4 \in {x, r}
        BY Zenon DEF InHive
      <3>2. x.entries = <<>>
        BY Zenon, <1>3
      <3> HIDE DEF x, r, r4
      <3>3. QED
        BY <3>1, <3>2
    <2> HIDE DEF b, name, r4, o1, o2, o3, o5, o6, o7, o8, o9, o10, o11, o12, o13, o14, o15, o16, o17, r
    <2>3. b = r4
      BY <2>1 DEF RunList
    <2>4. QED
      BY <2>2, <2>3
  <1> HIDE DEF takers, name, a, b, c, d, r
  <1>6. d.provider = RunList
    BY DEF d
  <1>7. d.entries = <<>> \/ (p.read = "none" /\ d.entries = r.entries)
    BY <1>1, <1>2, <1>3, <1>4, <1>5, <1>6
  <1>8. QED
    BY <1>7 DEF d, r

(* The places at which a key's order names the program x.                    *)
NamedAt(h, x) ==
  {n \in DOMAIN OrderData(h, x[1]) :
     (\A m \in 1 .. n : OrderData(h, x[1])[m] # Terminator) /\ SlotName[OrderData(h, x[1])[n] + 1] = x[2]}

LEMMA ProgramsAreInOrder ==
  ASSUME NEW h, IsHive(h), NEW es, es = RunMru(h).entries, NEW a \in DOMAIN es, NEW b \in DOMAIN es,
         a < b, es[a].of # es[b].of, Cardinality(OrderCells(h, es[a].of[1])) = 1,
         NEW n \in NamedAt(h, es[b].of)
  PROVE  \E m \in NamedAt(h, es[a].of) : m < n
  <1> DEFINE c == KeyByPath(h, <<"Explorer", "RunMRU">>)
             s == MruEntries(h, c, "run_mru", "")
             D == OrderData(h, c)
             O == MruOrder(Values(h, c))
             g == Rank("")
  <1>1. RunMru(h) = IF c = NoCell THEN Unsupported({}) ELSE Found(Sorted(s), {})
    BY DEF RunMru
  <1>2. c = NoCell \/ IsKey(h, c)
    BY KeyByPathIs
  <1> HIDE DEF c
  <1>3. c # NoCell /\ es = Sorted(s)
    <2>1. Unsupported({}).entries = <<>> /\ Found(Sorted(s), {}).entries = Sorted(s)
      BY DEF Unsupported, Found, Result
    <2> HIDE DEF s
    <2>2. QED
      BY <1>1, <2>1
  <1>4. IsKey(h, c)
    BY <1>2, <1>3
  <1>5. \A x \in ToSet(s) : Program(x, h, c, g)
    BY <1>4, MruEntriesArePrograms
  <1>6. IsList(s)
    BY <1>4, MruEntriesAreKeyed DEF FineKeys
  <1> HIDE DEF s
  <1>7. g \in Int
    <2>1. g \in Nat
      BY Zenon, RankFacts
    <2> HIDE DEF g
    <2>2. QED
      BY <2>1
  <1> HIDE DEF g
  <1>8. \A x \in ToSet(s) : x.key \in [1 .. 4 -> Int]
    BY <1>5 DEF Program
  <1>9. PICK x \in ToSet(s), y \in ToSet(s) :
          es[a] = x.entry /\ es[b] = y.entry /\ ~KeyLess(y.key, x.key)
          /\ Program(x, h, c, g) /\ Program(y, h, c, g)
    <2> DEFINE t == Sorted(s)
               k == 4
    <2>1. k \in Nat /\ \A x \in ToSet(s) : x.key \in [1 .. k -> Int]
      BY <1>8
    <2> HIDE DEF k
    <2>2. \A i, j \in DOMAIN t : i < j =>
            \E x, y \in ToSet(s) : t[i] = x.entry /\ t[j] = y.entry /\ ~KeyLess(y.key, x.key)
      BY <1>6, <2>1, SortedIsInOrder
    <2> HIDE DEF t
    <2>3. es = t
      BY <1>3 DEF t
    <2>4. QED
      BY <1>5, <2>2, <2>3
  <1>10. x.entry.of[1] = c /\ y.entry.of[1] = c
    BY <1>9 DEF Program
  <1>11. O \in Seq(Int) /\ D \in Seq(Int) /\ Agrees(O, D)
    BY <1>4, <1>9, <1>10, OneOrder
  <1>12. \A e \in {x.entry, y.entry} : NamedAt(h, e.of) =
           {i \in DOMAIN D : (\A m \in 1 .. i : D[m] # Terminator) /\ SlotName[D[i] + 1] = e.of[2]}
    BY <1>10 DEF NamedAt
  <1>13. \A e : Slots(h, c, e.of[2]) = {i \in DOMAIN O : SlotName[O[i] + 1] = e.of[2]}
    BY DEF Slots
  <1> HIDE DEF O, D
  <1>14. n \in DOMAIN D /\ (\A m \in 1 .. n : D[m] # Terminator) /\ SlotName[D[n] + 1] = y.entry.of[2]
    BY <1>9, <1>12
  <1>15. n \in DOMAIN O /\ O[n] = D[n]
    BY <1>11, <1>14 DEF Agrees
  <1>16. n \in Slots(h, c, y.entry.of[2])
    BY <1>13, <1>14, <1>15
  <1>17. PICK m \in Slots(h, c, x.entry.of[2]) : m <= n
    <2>1. x.entry.of # y.entry.of
      BY <1>9
    <2>2. QED
      BY <1>4, <1>7, <1>9, <1>16, <2>1, EarlierIsNamedFirst
  <1>18. m \in DOMAIN O /\ SlotName[O[m] + 1] = x.entry.of[2]
    BY <1>13
  <1>19. m \in DOMAIN D /\ O[m] = D[m]
    BY <1>11, <1>18 DEF Agrees
  <1>20. m # n
    <2> SUFFICES ASSUME m = n PROVE FALSE
      OBVIOUS
    <2>1. x.entry.of[2] = y.entry.of[2]
      BY <1>14, <1>18, <1>19
    <2>2. x.entry.of = y.entry.of
      BY <1>9, <1>10, <2>1 DEF Program
    <2>3. QED
      BY <1>9, <2>2
  <1>21. m \in Nat /\ n \in Nat
    BY <1>11, <1>14, <1>19
  <1>22. m < n /\ \A k \in 1 .. m : k \in 1 .. n
    BY <1>17, <1>20, <1>21
  <1>23. m \in NamedAt(h, x.entry.of)
    BY <1>12, <1>14, <1>18, <1>19, <1>22
  <1>24. QED
    BY <1>9, <1>22, <1>23

LEMMA ProgramsOfRows ==
  ASSUME Scanned, Describing(cache)
  PROVE  RecentFirst
  <1> SUFFICES ASSUME NEW i \in Read("hive"), Of(i).provider = RunList
               PROVE  LET h == FileAt(i).hive
                          es == Of(i).entries
                          order(c) == {v \in Readable(h, c) : h.cells[v].name \in MruLists}
                          slots(c) == Data(h, h.cells[CHOOSE v \in order(c) : TRUE])
                          before(c, n) == \A m \in 1 .. n : slots(c)[m] # Terminator
                          at(x) == {n \in DOMAIN slots(x[1]) :
                                      before(x[1], n) /\ SlotName[slots(x[1])[n] + 1] = x[2]}
                      IN  \A a, b \in DOMAIN es :
                            (a < b /\ es[a].of # es[b].of /\ Cardinality(order(es[a].of[1])) = 1) =>
                              \A n \in at(es[b].of) : \E m \in at(es[a].of) : m < n
    BY Zenon DEF RecentFirst, RunList
  <1> SUFFICES ASSUME NEW a \in DOMAIN Of(i).entries, NEW b \in DOMAIN Of(i).entries,
                      a < b, Of(i).entries[a].of # Of(i).entries[b].of,
                      Cardinality(OrderCells(FileAt(i).hive, Of(i).entries[a].of[1])) = 1,
                      NEW n \in NamedAt(FileAt(i).hive, Of(i).entries[b].of)
               PROVE  \E m \in NamedAt(FileAt(i).hive, Of(i).entries[a].of) : m < n
    BY ZenonT(60) DEF NamedAt, OrderCells, OrderData
  <1> DEFINE p == FileAt(i)
             d == Of(i)
             es == d.entries
             h == p.hive
  <1>1. i \in Shown /\ i \in DOMAIN rows /\ p.format = "hive" /\ p.read = "none" /\ d # NoDetails
        /\ PathOf(i) \in DOMAIN cache
    BY DEF Read, Shown, Of
  <1>2. IsFile(p)
    BY <1>1, ShownIsAFile
  <1>3. IsHive(h)
    BY <1>1, <1>2 DEF IsFile
  <1>4. Describes(d, i)
    BY <1>1 DEF Describing, Of
  <1>5. PICK j \in DOMAIN rows, f \in States(p) : d = describe(rows[j], f)
    <2>1. \A j \in DOMAIN rows : PathOf(j) = PathOf(i) => FileAt(j) = p
      BY DEF FileAt
    <2> HIDE DEF p, d
    <2>2. QED
      BY <1>4, <2>1 DEF Describes
  <1>6. f.read = "none" => f = p
    BY <1>2 DEF States, IsFile
  <1>7. es = <<>> \/ (f.read = "none" /\ es = RunMru(f.hive).entries)
    <2>1. d.provider = RunList
      OBVIOUS
    <2> HIDE DEF p, d
    <2>2. QED
      BY <1>5, <2>1, RunListIsRead
  <1>8. es # <<>>
    OBVIOUS
  <1>9. es = RunMru(h).entries
    BY <1>6, <1>7, <1>8
  <1>10. QED
    BY <1>3, <1>9, ProgramsAreInOrder

(* Programs are shown in the order of their most-recently-used list, the     *)
(* ones it does not name last (ArtifactDetailProviders.cpp:254-280), for     *)
(* every hive whose key holds one such list, whichever row of the hive shows *)
(* them.                                                                     *)
THEOREM TriageRecentFirst == Spec => []RecentFirst
  <1>1. Inv => RecentFirst
    BY ProgramsOfRows DEF Inv
  <1>2. QED
    BY <1>1, InvInit, InvNext, PTL DEF Spec

-----------------------------------------------------------------------------
(* Lookup in a hive, as sets of cells.                                       *)

(* A list of cells and the set of them. *)
Contents(h, f, F) == \A l \in DOMAIN h.cells : f[l] \in Seq(Int) /\ ToSet(f[l]) = F[l]

LEMMA ExpandedHolds ==
  ASSUME NEW h, IsHive(h), NEW f, NEW F, Contents(h, f, F)
  PROVE  Contents(h, Expanded(h, f), Holding(h, F))
  <1> DEFINE L == DOMAIN h.cells
  <1> SUFFICES ASSUME NEW l \in L
               PROVE  Expanded(h, f)[l] \in Seq(Int) /\ ToSet(Expanded(h, f)[l]) = Holding(h, F)[l]
    BY DEF Contents
  <1>1. CASE Sig(h, l) \in {"li", "lf", "lh"}
    <2>1. Expanded(h, f)[l] = h.cells[l].items /\ Holding(h, F)[l] = ToSet(h.cells[l].items)
      BY <1>1 DEF Expanded, Holding
    <2>2. QED
      BY <1>1, <2>1, CellHeld
  <1>2. CASE Sig(h, l) = "ri"
    <2> DEFINE items == h.cells[l].items
               ss == [i \in DOMAIN items |-> IF items[i] \in L THEN f[items[i]] ELSE <<>>]
    <2>1. items \in Seq(Int)
      BY <1>2, CellHeld
    <2>2. Expanded(h, f)[l] = Concat(ss) /\ Holding(h, F)[l] = UNION {F[y] : y \in ToSet(items) \cap L}
      BY <1>2 DEF Expanded, Holding
    <2> HIDE DEF items
    <2>3. \A i \in DOMAIN items : ss[i] \in Seq(Int) /\ ToSet(ss[i]) = IF items[i] \in L THEN F[items[i]] ELSE {}
      <3>1. <<>> \in Seq(Int) /\ ToSet(<<>>) = {}
        BY EmptyIsList
      <3>2. QED
        BY <3>1 DEF Contents
    <2>4. DOMAIN items = 1 .. Len(items) /\ Len(items) \in Nat
      BY <2>1
    <2>5. ss \in Seq(Seq(Int)) /\ Len(ss) = Len(items)
      BY <2>3, <2>4
    <2>6. Concat(ss) \in Seq(Int) /\ ToSet(Concat(ss)) = UNION {ToSet(ss[i]) : i \in 1 .. Len(items)}
      BY <2>5, ConcatFacts
    <2> HIDE DEF ss
    <2>7. UNION {ToSet(ss[i]) : i \in 1 .. Len(items)} = UNION {F[y] : y \in ToSet(items) \cap L}
      <3>1. ToSet(items) = {items[i] : i \in 1 .. Len(items)}
        BY <2>4 DEF ToSet
      <3>2. QED
        BY <2>3, <2>4, <3>1
    <2>8. QED
      BY <2>2, <2>6, <2>7
  <1>3. CASE Sig(h, l) \notin {"li", "lf", "lh", "ri"}
    <2>1. Expanded(h, f)[l] = <<>> /\ Holding(h, F)[l] = {}
      BY <1>3 DEF Expanded, Holding
    <2>2. QED
      BY <2>1, EmptyIsList
  <1>4. QED
    BY <1>1, <1>2, <1>3

Nothing(h) == [l \in DOMAIN h.cells |-> <<>>]
NoCells(h) == [l \in DOMAIN h.cells |-> {}]

(* The bound on nested lists is two: both recursions are three steps.        *)
LEMMA SubkeysAre ==
  ASSUME NEW h, NEW list
  PROVE  Subkeys(h, list) = IF list \in DOMAIN h.cells
                              THEN Expanded(h, Expanded(h, Expanded(h, Nothing(h))))[list] ELSE <<>>
  <1> DEFINE E1 == Expanded(h, Nothing(h))
             E2 == Expanded(h, E1)
             E3 == Expanded(h, E2)
             g == CHOOSE e : SubkeysLoop(e, h)
             w == [d \in 0 .. 3 |-> IF d = 0 THEN Nothing(h) ELSE IF d = 1 THEN E1 ELSE IF d = 2 THEN E2 ELSE E3]
  <1>1. Subkeys(h, list) = IF list \in DOMAIN h.cells THEN g[3][list] ELSE <<>>
    BY DEF Subkeys, SubkeysLoop, MaxNesting
  <1>2. \A e : SubkeysLoop(e, h) <=> e = [d \in 0 .. 3 |-> IF d = 0 THEN Nothing(h) ELSE Expanded(h, e[d - 1])]
    BY DEF SubkeysLoop, Nothing, MaxNesting
  <1>3. SubkeysLoop(w, h)
    <2>1. w[0] = Nothing(h) /\ w[1] = E1 /\ w[2] = E2 /\ w[3] = E3
      OBVIOUS
    <2>2. \A d \in 0 .. 3 : w[d] = IF d = 0 THEN Nothing(h) ELSE Expanded(h, w[d - 1])
      <3>1. \A d \in 0 .. 3 : d = 0 \/ d = 1 \/ d = 2 \/ d = 3
        OBVIOUS
      <3> HIDE DEF w
      <3>2. QED
        BY <2>1, <3>1
    <2>3. w = [d \in 0 .. 3 |-> w[d]]
      OBVIOUS
    <2> HIDE DEF w
    <2>4. QED
      BY <1>2, <2>2, <2>3
  <1>4. SubkeysLoop(g, h)
    BY <1>3
  <1> HIDE DEF g
  <1>5. g = [d \in 0 .. 3 |-> IF d = 0 THEN Nothing(h) ELSE Expanded(h, g[d - 1])]
    BY <1>2, <1>4
  <1>6. g[0] = Nothing(h) /\ g[1] = Expanded(h, g[0]) /\ g[2] = Expanded(h, g[1]) /\ g[3] = Expanded(h, g[2])
    BY <1>5
  <1>7. QED
    BY <1>1, <1>6

ListedLoop(g, h) ==
  g = [d \in 0 .. MaxNesting + 1 |->
         IF d = 0 THEN [x \in DOMAIN h.cells |-> {}] ELSE Holding(h, g[d - 1])]

LEMMA ListedAre ==
  ASSUME NEW h, NEW list
  PROVE  Listed(h, list) = IF list \in DOMAIN h.cells
                             THEN Holding(h, Holding(h, Holding(h, NoCells(h))))[list] ELSE {}
  <1> DEFINE H1 == Holding(h, NoCells(h))
             H2 == Holding(h, H1)
             H3 == Holding(h, H2)
             g == CHOOSE e : ListedLoop(e, h)
             w == [d \in 0 .. 3 |-> IF d = 0 THEN NoCells(h) ELSE IF d = 1 THEN H1 ELSE IF d = 2 THEN H2 ELSE H3]
  <1>1. Listed(h, list) = IF list \in DOMAIN h.cells THEN g[3][list] ELSE {}
    BY DEF Listed, ListedLoop, MaxNesting
  <1>2. \A e : ListedLoop(e, h) <=> e = [d \in 0 .. 3 |-> IF d = 0 THEN NoCells(h) ELSE Holding(h, e[d - 1])]
    BY DEF ListedLoop, NoCells, MaxNesting
  <1>3. ListedLoop(w, h)
    <2>1. w[0] = NoCells(h) /\ w[1] = H1 /\ w[2] = H2 /\ w[3] = H3
      OBVIOUS
    <2>2. \A d \in 0 .. 3 : w[d] = IF d = 0 THEN NoCells(h) ELSE Holding(h, w[d - 1])
      <3>1. \A d \in 0 .. 3 : d = 0 \/ d = 1 \/ d = 2 \/ d = 3
        OBVIOUS
      <3> HIDE DEF w
      <3>2. QED
        BY <2>1, <3>1
    <2>3. w = [d \in 0 .. 3 |-> w[d]]
      OBVIOUS
    <2> HIDE DEF w
    <2>4. QED
      BY <1>2, <2>2, <2>3
  <1>4. ListedLoop(g, h)
    BY <1>3
  <1> HIDE DEF g
  <1>5. g = [d \in 0 .. 3 |-> IF d = 0 THEN NoCells(h) ELSE Holding(h, g[d - 1])]
    BY <1>2, <1>4
  <1>6. g[0] = NoCells(h) /\ g[1] = Holding(h, g[0]) /\ g[2] = Holding(h, g[1]) /\ g[3] = Holding(h, g[2])
    BY <1>5
  <1>7. QED
    BY <1>1, <1>6

LEMMA SubkeysAreListed ==
  ASSUME NEW h, IsHive(h), NEW list
  PROVE  Subkeys(h, list) \in Seq(Int) /\ ToSet(Subkeys(h, list)) = Listed(h, list)
  <1>1. Contents(h, Nothing(h), NoCells(h))
    <2>1. <<>> \in Seq(Int) /\ ToSet(<<>>) = {}
      BY EmptyIsList
    <2>2. QED
      BY <2>1 DEF Contents, Nothing, NoCells
  <1>2. Contents(h, Expanded(h, Expanded(h, Expanded(h, Nothing(h)))), Holding(h, Holding(h, Holding(h, NoCells(h)))))
    <2>1. Contents(h, Expanded(h, Nothing(h)), Holding(h, NoCells(h)))
      BY <1>1, ExpandedHolds
    <2>2. Contents(h, Expanded(h, Expanded(h, Nothing(h))), Holding(h, Holding(h, NoCells(h))))
      BY <2>1, ExpandedHolds
    <2>3. QED
      BY <2>2, ExpandedHolds
  <1>3. CASE list \in DOMAIN h.cells
    BY <1>2, <1>3, SubkeysAre, ListedAre DEF Contents
  <1>4. CASE list \notin DOMAIN h.cells
    <2>1. Subkeys(h, list) = <<>> /\ Listed(h, list) = {}
      BY <1>4, SubkeysAre, ListedAre
    <2>2. QED
      BY <2>1, EmptyIsList
  <1>5. QED
    BY <1>3, <1>4

(* The offset of no key is where a hive's first bin begins: no cell is there. *)
Cells(h) == IsHive(h) /\ NoCell \notin DOMAIN h.cells /\ Parses(h, h.root)

LEMMA NamedParses ==
  ASSUME NEW h, NEW c, Named(h, c)
  PROVE  Parses(h, c) /\ IsKey(h, c)
  BY DEF Named, Parses, IsKey

LEMMA NothingBelowNoCell ==
  ASSUME NEW h, Cells(h), NEW name
  PROVE  Below(h, NoCell, name) = NoCell /\ ~Parses(h, NoCell)
  BY DEF Cells, Below, HasSubkeys, Sig, Parses

LEMMA KeysAre ==
  ASSUME NEW h, IsHive(h), NEW c, Parses(h, c)
  PROVE  Keys(h, c) = IF HasSubkeys(h, c) THEN {k \in ToSet(Subkeys(h, h.cells[c].list)) : Named(h, k)} ELSE {}
  BY SubkeysAreListed DEF Keys, HasSubkeys, Parses

LEMMA BelowIs ==
  ASSUME NEW h, Cells(h), NEW c, Parses(h, c), NEW name
  PROVE  /\ Below(h, c, name) # NoCell =>
              Below(h, c, name) \in Keys(h, c) /\ h.cells[Below(h, c, name)].name = name
         /\ Below(h, c, name) = NoCell => \A k \in Keys(h, c) : h.cells[k].name # name
  <1> DEFINE s == Subkeys(h, h.cells[c].list)
             I == {i \in DOMAIN s : Named(h, s[i]) /\ h.cells[s[i]].name = name}
             hits == Picked(s, I)
  <1>1. CASE ~HasSubkeys(h, c)
    <2>1. Below(h, c, name) = NoCell
      BY <1>1 DEF Below
    <2>2. Keys(h, c) = {}
      BY <1>1, KeysAre DEF Cells
    <2>3. QED
      BY <2>1, <2>2
  <1>2. CASE HasSubkeys(h, c)
    <2>1. Below(h, c, name) = FirstOf(hits)
      BY <1>2 DEF Below, Where
    <2>2. Keys(h, c) = {k \in ToSet(s) : Named(h, k)}
      BY <1>2, KeysAre DEF Cells
    <2>3. IsList(s)
      BY SubkeysIsList DEF Cells
    <2>4. I \in SUBSET DOMAIN s /\ \A i \in I : Named(h, s[i]) /\ h.cells[s[i]].name = name
      OBVIOUS
    <2>5. \A k \in ToSet(s) : Named(h, k) /\ h.cells[k].name = name => \E i \in I : k = s[i]
      BY DEF ToSet
    <2>6. \A i \in I : s[i] \in ToSet(s)
      BY DEF ToSet
    <2> HIDE DEF s, I
    <2>7. IsList(hits) /\ ToSet(hits) = {s[i] : i \in I}
      BY <2>3, <2>4, WhereIs
    <2>8. CASE hits = <<>>
      <3>1. Below(h, c, name) = NoCell
        BY <2>1, <2>8 DEF FirstOf
      <3>2. ToSet(hits) = {}
        BY <2>8, EmptyIsList
      <3>3. \A k \in Keys(h, c) : h.cells[k].name # name
        BY <2>2, <2>5, <2>7, <3>2
      <3>4. QED
        BY <3>1, <3>3
    <2>9. CASE hits # <<>>
      <3> DEFINE X == ToSet(hits)
                 k == Head(hits)
      <3>1. hits \in Seq(X)
        BY <2>7 DEF IsList
      <3> HIDE DEF X
      <3>2. k \in X
        BY <2>9, <3>1
      <3>3. Below(h, c, name) = k
        BY <2>1, <2>9 DEF FirstOf
      <3> HIDE DEF k, hits
      <3>4. PICK i \in I : k = s[i]
        BY <2>7, <3>2 DEF X
      <3>5. k \in Keys(h, c) /\ h.cells[k].name = name
        BY <2>2, <2>4, <2>6, <3>4
      <3>6. k # NoCell
        <4>1. Named(h, k)
          BY <2>4, <3>4
        <4>2. QED
          BY <4>1 DEF Named, Sig, Cells
      <3>7. QED
        BY <3>3, <3>5, <3>6
    <2>10. QED
      BY <2>8, <2>9
  <1>3. QED
    BY <1>1, <1>2

(* The cells on the way along a path. *)
Way(h, path, at) ==
  /\ at[0] = h.root
  /\ \A i \in 1 .. Len(path) : at[i] = Below(h, at[i - 1], path[i])
  /\ \A i \in 0 .. Len(path) : at[i] = NoCell \/ Parses(h, at[i])
  /\ KeyByPath(h, path) = at[Len(path)]
WayLoop(g, h, path) == g = [i \in 0 .. Len(path) |-> IF i = 0 THEN h.root ELSE Below(h, g[i - 1], path[i])]

LEMMA KeyIsOnTheWay ==
  ASSUME NEW h, Cells(h), NEW path, Len(path) \in Nat
  PROVE  \E at : Way(h, path, at)
  <1> DEFINE n == Len(path)
             D == {h.root, NoCell} \union DOMAIN h.cells
             next == [i \in 1 .. n |-> [c \in D |-> Below(h, c, path[i])]]
             g == CHOOSE e : WayLoop(e, h, path)
             first == h.root
  <1>1. KeyByPath(h, path) = KeyAt(h, g[n])
    BY DEF KeyByPath, WayLoop
  <1>3. ASSUME NEW c, NEW name PROVE Below(h, c, name) \in D
    <2> DEFINE s == Subkeys(h, h.cells[c].list)
               I == {i \in DOMAIN s : Named(h, s[i]) /\ h.cells[s[i]].name = name}
               hits == Picked(s, I)
    <2>1. Below(h, c, name) = IF HasSubkeys(h, c) THEN FirstOf(hits) ELSE NoCell
      BY DEF Below, Where
    <2>2. IsList(s)
      BY SubkeysIsList DEF Cells
    <2>3. I \in SUBSET DOMAIN s /\ \A i \in I : s[i] \in DOMAIN h.cells
      BY DEF Named, Sig
    <2> HIDE DEF s, I
    <2>4. IsList(hits) /\ ToSet(hits) = {s[i] : i \in I}
      BY <2>2, <2>3, WhereIs
    <2> DEFINE X == ToSet(hits)
    <2>5. hits \in Seq(X)
      BY <2>4 DEF IsList
    <2>6. X \subseteq DOMAIN h.cells
      BY <2>3, <2>4
    <2> HIDE DEF X, hits
    <2>7. FirstOf(hits) = NoCell \/ FirstOf(hits) \in X
      BY <2>5 DEF FirstOf
    <2>8. QED
      BY <2>1, <2>6, <2>7
  <1>4. n \in Nat
    OBVIOUS
  <1>5. \A e : WayLoop(e, h, path) <=> e = [i \in 0 .. n |-> IF i = 0 THEN h.root ELSE Below(h, e[i - 1], path[i])]
    BY DEF WayLoop
  <1>6. first \in D
    OBVIOUS
  <1> HIDE DEF n, D, g, first
  <1>7. \A nx \in [1 .. n -> [D -> D]] :
          \E e \in [0 .. n -> D] : e[0] = first /\ \A i \in 1 .. n : e[i] = nx[i][e[i - 1]]
    BY <1>4, <1>6, LoopDefined
  <1>8. \E e : WayLoop(e, h, path)
    <2>1. next \in [1 .. n -> [D -> D]]
      BY <1>3
    <2>2. PICK e \in [0 .. n -> D] : e[0] = first /\ \A i \in 1 .. n : e[i] = next[i][e[i - 1]]
      BY <1>7, <2>1
    <2>3. \A i \in 1 .. n : i - 1 \in 0 .. n
      BY <1>4
    <2>4. \A i \in 0 .. n : e[i] = IF i = 0 THEN h.root ELSE Below(h, e[i - 1], path[i])
      <3>1. \A i \in 1 .. n : e[i] = Below(h, e[i - 1], path[i])
        BY <2>2, <2>3
      <3>2. QED
        BY <1>4, <2>2, <3>1 DEF first
    <2>5. e = [i \in 0 .. n |-> e[i]]
      BY <2>2
    <2>6. QED
      BY <1>5, <2>4, <2>5
  <1>9. g = [i \in 0 .. n |-> IF i = 0 THEN h.root ELSE Below(h, g[i - 1], path[i])]
    BY <1>5, <1>8 DEF g
  <1>10. g[0] = h.root /\ \A i \in 1 .. n : g[i] = Below(h, g[i - 1], path[i])
    BY <1>4, <1>9
  <1>11. \A i \in 0 .. n : g[i] = NoCell \/ Parses(h, g[i])
    <2> DEFINE S == {i \in 0 .. n : g[i] = NoCell \/ Parses(h, g[i])}
    <2>1. 0 \in S
      BY <1>4, <1>10 DEF Cells
    <2>2. \A i \in 1 .. n : i - 1 \in S => i \in S
      <3> SUFFICES ASSUME NEW i \in 1 .. n, i - 1 \in S PROVE g[i] = NoCell \/ Parses(h, g[i])
        BY <1>4
      <3>1. g[i] = Below(h, g[i - 1], path[i])
        BY <1>10
      <3>2. CASE g[i - 1] = NoCell
        BY <3>1, <3>2, NothingBelowNoCell
      <3>3. CASE Parses(h, g[i - 1])
        <4>1. g[i] = NoCell \/ g[i] \in Keys(h, g[i - 1])
          BY <3>1, <3>3, BelowIs
        <4>2. \A k \in Keys(h, g[i - 1]) : Named(h, k)
          BY DEF Keys
        <4>3. QED
          BY <4>1, <4>2, NamedParses
      <3>4. QED
        BY <3>2, <3>3
    <2> HIDE DEF S
    <2>3. 0 .. n \subseteq S
      BY <1>4, <2>1, <2>2, RangeInduction
    <2>4. QED
      BY <2>3 DEF S
  <1>12. KeyByPath(h, path) = g[n]
    <2>1. g[n] = NoCell \/ Parses(h, g[n])
      BY <1>4, <1>11
    <2>2. QED
      BY <1>1, <2>1, NothingBelowNoCell DEF KeyAt
  <1>13. QED
    BY <1>10, <1>11, <1>12 DEF Way, n

(* The keys below a name under the root, level by level. *)
Layers(h, name, u) ==
  /\ u[0] = KeysAt(h, <<name>>)
  /\ \A i \in 1 .. 5 : u[i] = u[i - 1] \union UNION {Keys(h, c) : c \in u[i - 1]}
  /\ Under(h, name) = u[5]
UnderLoop(g, h, name) ==
  g = [i \in 0 .. 5 |-> IF i = 0 THEN KeysAt(h, <<name>>)
                        ELSE g[i - 1] \union UNION {Keys(h, c) : c \in g[i - 1]}]

LEMMA UnderIs ==
  ASSUME NEW h, NEW name
  PROVE  \E u : Layers(h, name, u)
  <1> DEFINE Grown(S) == S \union UNION {Keys(h, c) : c \in S}
             U0 == KeysAt(h, <<name>>)
             U1 == Grown(U0)
             U2 == Grown(U1)
             U3 == Grown(U2)
             U4 == Grown(U3)
             U5 == Grown(U4)
             w == [i \in 0 .. 5 |-> IF i = 0 THEN U0 ELSE IF i = 1 THEN U1 ELSE IF i = 2 THEN U2
                                    ELSE IF i = 3 THEN U3 ELSE IF i = 4 THEN U4 ELSE U5]
             g == CHOOSE e : UnderLoop(e, h, name)
  <1>1. Under(h, name) = g[5]
    BY DEF Under, UnderLoop
  <1>2. \A e : UnderLoop(e, h, name) <=> e = [i \in 0 .. 5 |-> IF i = 0 THEN U0 ELSE Grown(e[i - 1])]
    BY DEF UnderLoop
  <1> HIDE DEF Grown, U0, g
  <1>3. UnderLoop(w, h, name)
    <2>1. w[0] = U0 /\ w[1] = U1 /\ w[2] = U2 /\ w[3] = U3 /\ w[4] = U4 /\ w[5] = U5
      OBVIOUS
    <2>2. \A i \in 0 .. 5 : w[i] = IF i = 0 THEN U0 ELSE Grown(w[i - 1])
      <3>1. \A i \in 0 .. 5 : i = 0 \/ i = 1 \/ i = 2 \/ i = 3 \/ i = 4 \/ i = 5
        OBVIOUS
      <3> HIDE DEF w
      <3>2. QED
        BY <2>1, <3>1
    <2>3. w = [i \in 0 .. 5 |-> w[i]]
      OBVIOUS
    <2> HIDE DEF w
    <2>4. QED
      BY <1>2, <2>2, <2>3
  <1>4. g = [i \in 0 .. 5 |-> IF i = 0 THEN U0 ELSE Grown(g[i - 1])]
    BY <1>2, <1>3 DEF g
  <1>5. g[0] = U0 /\ \A i \in 1 .. 5 : g[i] = Grown(g[i - 1])
    BY <1>4
  <1>6. QED
    BY <1>1, <1>5 DEF Layers, Grown, U0

KeysAtLoop(g, h, name) ==
  g = [i \in 0 .. Len(<<name>>) |->
         IF i = 0 THEN {h.root}
         ELSE {k \in UNION {Keys(h, c) : c \in g[i - 1]} : h.cells[k].name = <<name>>[i]}]

LEMMA KeysOfOneName ==
  ASSUME NEW h, NEW name
  PROVE  KeysAt(h, <<name>>) = {k \in Keys(h, h.root) : h.cells[k].name = name}
  <1> DEFINE w == [i \in 0 .. 1 |-> IF i = 0 THEN {h.root} ELSE {k \in Keys(h, h.root) : h.cells[k].name = name}]
             g == CHOOSE e : KeysAtLoop(e, h, name)
             Next1(S) == {k \in UNION {Keys(h, c) : c \in S} : h.cells[k].name = name}
  <1>1. Len(<<name>>) = 1 /\ <<name>>[1] = name
    OBVIOUS
  <1>2. KeysAt(h, <<name>>) = g[1]
    BY <1>1 DEF KeysAt, KeysAtLoop
  <1>3. \A e : KeysAtLoop(e, h, name) <=> e = [i \in 0 .. 1 |-> IF i = 0 THEN {h.root} ELSE Next1(e[i - 1])]
    <2> SUFFICES ASSUME NEW e
                 PROVE  KeysAtLoop(e, h, name) <=> e = [i \in 0 .. 1 |-> IF i = 0 THEN {h.root} ELSE Next1(e[i - 1])]
      OBVIOUS
    <2> DEFINE A(i) == IF i = 0 THEN {h.root}
                       ELSE {k \in UNION {Keys(h, c) : c \in e[i - 1]} : h.cells[k].name = <<name>>[i]}
               B(i) == IF i = 0 THEN {h.root} ELSE Next1(e[i - 1])
    <2>1. \A i \in 0 .. 1 : A(i) = B(i)
      <3>1. \A i \in 0 .. 1 : i = 0 \/ i = 1
        OBVIOUS
      <3>2. QED
        BY <1>1, <3>1
    <2>2. KeysAtLoop(e, h, name) <=> e = [i \in 0 .. 1 |-> A(i)]
      BY <1>1 DEF KeysAtLoop
    <2> HIDE DEF A, B
    <2>3. [i \in 0 .. 1 |-> A(i)] = [i \in 0 .. 1 |-> B(i)]
      BY <2>1
    <2>4. QED
      BY <2>2, <2>3 DEF B
  <1>4. Next1({h.root}) = {k \in Keys(h, h.root) : h.cells[k].name = name}
    OBVIOUS
  <1> HIDE DEF Next1, g
  <1>5. KeysAtLoop(w, h, name)
    <2>1. w[0] = {h.root} /\ w[1] = Next1({h.root})
      BY <1>4
    <2>2. \A i \in 0 .. 1 : w[i] = IF i = 0 THEN {h.root} ELSE Next1(w[i - 1])
      <3>1. \A i \in 0 .. 1 : i = 0 \/ i = 1
        OBVIOUS
      <3> HIDE DEF w
      <3>2. QED
        BY <2>1, <3>1
    <2>3. w = [i \in 0 .. 1 |-> w[i]]
      OBVIOUS
    <2> HIDE DEF w
    <2>4. QED
      BY <1>3, <2>2, <2>3
  <1>6. g = [i \in 0 .. 1 |-> IF i = 0 THEN {h.root} ELSE Next1(g[i - 1])]
    BY <1>3, <1>5 DEF g
  <1>7. g[0] = {h.root} /\ g[1] = Next1(g[0])
    BY <1>6
  <1>8. QED
    BY <1>2, <1>4, <1>7

(* A key found by its path lies below the path's first name, and so do its   *)
(* children.                                                                 *)
LEMMA FoundIsUnder ==
  ASSUME NEW h, Cells(h), NEW path, Len(path) \in 1 .. 4
  PROVE  /\ KeyByPath(h, path) # NoCell => KeyByPath(h, path) \in Under(h, path[1])
         /\ \A k \in ToSet(ChildKeys(h, path)) : k \in Under(h, path[1])
  <1> DEFINE n == Len(path)
             name == path[1]
  <1>1. n \in 1 .. 4
    OBVIOUS
  <1>2. PICK at : Way(h, path, at)
    BY KeyIsOnTheWay
  <1>3. PICK u : Layers(h, name, u)
    BY UnderIs
  <1>4. /\ at[0] = h.root /\ \A i \in 1 .. n : at[i] = Below(h, at[i - 1], path[i])
        /\ \A i \in 0 .. n : at[i] = NoCell \/ Parses(h, at[i])
        /\ KeyByPath(h, path) = at[n]
    BY <1>2 DEF Way
  <1>5. /\ u[0] = {k \in Keys(h, h.root) : h.cells[k].name = name}
        /\ \A i \in 1 .. 5 : u[i] = u[i - 1] \union UNION {Keys(h, c) : c \in u[i - 1]}
        /\ Under(h, name) = u[5]
    BY <1>3, KeysOfOneName DEF Layers
  <1>6. ASSUME NEW i \in 1 .. n, at[i] # NoCell
        PROVE  at[i - 1] # NoCell /\ Parses(h, at[i - 1]) /\ at[i] \in Keys(h, at[i - 1])
               /\ h.cells[at[i]].name = path[i]
    <2>1. i - 1 \in 0 .. n /\ at[i] = Below(h, at[i - 1], path[i])
      BY <1>1, <1>4
    <2>2. at[i - 1] # NoCell
      BY <1>6, <2>1, NothingBelowNoCell
    <2>3. Parses(h, at[i - 1])
      BY <1>4, <2>1, <2>2
    <2>4. QED
      BY <1>6, <2>1, <2>2, <2>3, BelowIs
  <1>7. h.root # NoCell
    BY NothingBelowNoCell DEF Cells
  <1> HIDE DEF n, name
  <1>8. \A i \in 1 .. n : at[i] # NoCell => at[i] \in u[i - 1]
    <2> DEFINE S == {i \in 0 .. n : i # 0 /\ at[i] # NoCell => at[i] \in u[i - 1]}
    <2>1. 0 \in S /\ n \in Nat
      BY <1>1
    <2>2. \A i \in 1 .. n : i - 1 \in S => i \in S
      <3> SUFFICES ASSUME NEW i \in 1 .. n, i - 1 \in S, at[i] # NoCell PROVE at[i] \in u[i - 1]
        BY <2>1
      <3>1. CASE i = 1
        <4>1. at[1] \in Keys(h, at[0]) /\ h.cells[at[1]].name = path[1]
          BY <1>6, <3>1
        <4>2. QED
          BY <1>4, <1>5, <3>1, <4>1 DEF name
      <3>2. CASE i # 1
        <4>1. i - 1 \in 1 .. 5 /\ i - 1 # 0 /\ (i - 1) - 1 = i - 2
          BY <1>1, <3>2
        <4>2. at[i - 1] # NoCell /\ at[i] \in Keys(h, at[i - 1])
          BY <1>6
        <4>3. at[i - 1] \in u[i - 2]
          BY <4>1, <4>2
        <4>4. u[i - 1] = u[i - 2] \union UNION {Keys(h, c) : c \in u[i - 2]}
          BY <1>5, <4>1
        <4>5. QED
          BY <4>2, <4>3, <4>4
      <3>3. QED
        BY <3>1, <3>2
    <2> HIDE DEF S
    <2>3. 0 .. n \subseteq S
      BY <2>1, <2>2, RangeInduction
    <2>4. QED
      BY <2>1, <2>3 DEF S
  <1>9. u[0] \subseteq u[1] /\ u[1] \subseteq u[2] /\ u[2] \subseteq u[3] /\ u[3] \subseteq u[4] /\ u[4] \subseteq u[5]
    BY <1>5
  <1>10. u[n - 1] \subseteq u[5] /\ u[n] \subseteq u[5]
    <2>1. n = 1 \/ n = 2 \/ n = 3 \/ n = 4
      BY <1>1
    <2>2. QED
      BY <1>9, <2>1
  <1>11. at[n] # NoCell => at[n] \in u[n - 1]
    BY <1>1, <1>8
  <1>12. ASSUME NEW k \in ToSet(ChildKeys(h, path)) PROVE at[n] # NoCell /\ k \in Keys(h, at[n])
    <2> DEFINE c == at[n]
               s == Subkeys(h, h.cells[c].list)
               I == {i \in DOMAIN s : Parses(h, s[i]) /\ Named(h, s[i])}
    <2>1. ChildKeys(h, path) = IF c = NoCell \/ ~HasSubkeys(h, c) THEN <<>> ELSE Picked(s, I)
      BY <1>4 DEF ChildKeys, ChildrenOf, Where
    <2>2. c # NoCell /\ HasSubkeys(h, c) /\ k \in ToSet(Picked(s, I))
      BY <1>12, <2>1, EmptyIsList
    <2>3. IsList(s) /\ I \in SUBSET DOMAIN s
      BY SubkeysIsList DEF Cells
    <2>4. \A i \in I : Named(h, s[i]) /\ s[i] \in ToSet(s)
      BY DEF ToSet
    <2>5. Keys(h, c) = {x \in ToSet(s) : Named(h, x)}
      <3>1. Parses(h, c)
        BY <1>1, <1>4, <2>2
      <3>2. QED
        BY <2>2, <3>1, KeysAre DEF Cells
    <2> HIDE DEF s, I, c
    <2>6. ToSet(Picked(s, I)) = {s[i] : i \in I}
      BY <2>3, WhereIs
    <2>7. QED
      BY <2>2, <2>4, <2>5, <2>6 DEF c
  <1>13. \A k \in ToSet(ChildKeys(h, path)) : k \in u[n]
    <2> SUFFICES ASSUME NEW k \in ToSet(ChildKeys(h, path)) PROVE k \in u[n]
      OBVIOUS
    <2>1. at[n] \in u[n - 1] /\ k \in Keys(h, at[n])
      BY <1>11, <1>12
    <2>2. u[n] = u[n - 1] \union UNION {Keys(h, c) : c \in u[n - 1]}
      BY <1>1, <1>5
    <2>3. QED
      BY <2>1, <2>2
  <1>14. QED
    BY <1>4, <1>5, <1>10, <1>11, <1>13 DEF n, name

-----------------------------------------------------------------------------
(* The control set the parsers take is the one the hive names, where it      *)
(* names one.  Names of keys are unique in a registry, and so are those of   *)
(* a key's values.                                                           *)
OneSelect(h) ==
  /\ \A c, k \in KeysAt(h, <<"Select">>) : c = k
  /\ \A c \in KeysAt(h, <<"Select">>) : \A v, w \in Readable(h, c) :
       h.cells[v].name = "Current" /\ h.cells[w].name = "Current" => v = w

LEMMA FoundValue ==
  ASSUME NEW vs, IsList(vs), NEW name
  PROVE  \/ FindValue(vs, name) \in ToSet(vs) /\ FindValue(vs, name).name = name
         \/ FindValue(vs, name).type = 0 /\ \A v \in ToSet(vs) : v.name # name
  <1> DEFINE I == {i \in DOMAIN vs : vs[i].name = name}
             hits == Picked(vs, I)
             none == [name |-> "", type |-> 0, data |-> <<>>]
             r == FindValue(vs, name)
  <1>1. r = IF hits = <<>> THEN none ELSE Head(hits)
    BY DEF FindValue, Where
  <1>2. none.type = 0
    OBVIOUS
  <1>3. IsList(hits) /\ ToSet(hits) = {vs[i] : i \in I}
    BY WhereIs
  <1>4. \A v \in ToSet(vs) : v.name = name => v \in {vs[i] : i \in I}
    BY DEF ToSet
  <1>5. \A i \in I : vs[i] \in ToSet(vs) /\ vs[i].name = name
    BY DEF ToSet
  <1> DEFINE X == ToSet(hits)
  <1>6. hits \in Seq(X)
    BY <1>3 DEF IsList
  <1> HIDE DEF I, hits, none, r, X
  <1>7. CASE hits = <<>>
    <2>1. ToSet(hits) = {}
      BY <1>7, EmptyIsList
    <2>2. r.type = 0
      BY <1>1, <1>2, <1>7
    <2>3. \A v \in ToSet(vs) : v.name # name
      BY <1>3, <1>4, <2>1
    <2>4. QED
      BY <2>2, <2>3 DEF r
  <1>8. CASE hits # <<>>
    <2>1. r \in X
      BY <1>1, <1>6, <1>8
    <2>2. PICK i \in I : r = vs[i]
      BY <1>3, <2>1 DEF X
    <2>3. QED
      BY <1>5, <2>2 DEF r
  <1>9. QED
    BY <1>7, <1>8

(* What a value says the current control set is. *)
Naming(v) == v.name = "Current" /\ v.type = Dword /\ v.data # <<>>
SetOf(n)  == IF n \in DOMAIN SetName THEN SetName[n] ELSE "ControlSet999"

LEMMA SetIsNamed ==
  ASSUME NEW v
  PROVE  /\ Naming(v)  => SetNamedBy(v).name = SetOf(v.data[1]) /\ SetNamedBy(v).warnings = {}
         /\ ~Naming(v) => SetNamedBy(v).name = "ControlSet001" /\ SetNamedBy(v).warnings # {}
  <1>1. SetName[1] = "ControlSet001"
    BY DEF SetName
  <1>2. QED
    BY <1>1 DEF SetNamedBy, Naming, SetOf

LEMMA ActiveIs ==
  ASSUME NEW h
  PROVE  /\ Current(h) = {} => Active(h) = "ControlSet001"
         /\ \A n : Current(h) = {n} => Active(h) = SetOf(n)
  <1>1. DOMAIN SetName = {1, 2} /\ SetName[1] = "ControlSet001" /\ SetName[2] = "ControlSet002"
    BY DEF SetName
  <1>2. QED
    BY <1>1 DEF Active, SetOf

LEMMA ControlSetIsActive ==
  ASSUME NEW h, Cells(h), OneSelect(h)
  PROVE  ControlSet(h).name = Active(h) /\ (Current(h) = {} => ControlSet(h).warnings # {})
  <1> DEFINE path == <<"Select">>
             c == KeyByPath(h, path)
             vs == ValuesAt(h, c)
             v == FindValue(vs, "Current")
             Says(k) == {x \in Readable(h, k) : h.cells[x].name = "Current" /\ h.cells[x].type = Dword
                                                /\ Data(h, h.cells[x]) # <<>>}
  <1>1. ControlSet(h) = SetNamedBy(v)
    BY DEF ControlSet
  <1>2. Current(h) = UNION {{Data(h, h.cells[x])[1] : x \in Says(k)} : k \in KeysAt(h, path)}
    BY DEF Current
  <1>3. KeysAt(h, path) = {k \in Keys(h, h.root) : h.cells[k].name = "Select"}
    BY KeysOfOneName
  <1>4. c = Below(h, h.root, "Select")
    <2>1. Len(path) = 1 /\ path[1] = "Select"
      OBVIOUS
    <2> HIDE DEF path
    <2>2. PICK at : Way(h, path, at)
      BY <2>1, KeyIsOnTheWay
    <2>3. QED
      BY <2>1, <2>2 DEF Way
  <1>5. Parses(h, h.root)
    BY DEF Cells
  <1>6. \A x : ValueAt(h, x) = [name |-> h.cells[x].name, type |-> h.cells[x].type, data |-> Data(h, h.cells[x])]
    BY DEF ValueAt
  <1> HIDE DEF path
  <1>7. CASE c = NoCell
    <2>1. KeysAt(h, path) = {}
      BY <1>3, <1>4, <1>5, <1>7, BelowIs
    <2>2. Current(h) = {}
      BY <1>2, <2>1
    <2>3. vs = <<>>
      BY <1>7 DEF ValuesAt
    <2>4. v.type = 0
      BY <2>3, EmptyIsList, FoundValue
    <2>5. ~Naming(v)
      BY <2>4 DEF Naming, Dword
    <2> HIDE DEF v
    <2>6. QED
      BY <1>1, <2>2, <2>5, SetIsNamed, ActiveIs
  <1>8. CASE c # NoCell
    <2>1. c \in Keys(h, h.root) /\ h.cells[c].name = "Select"
      BY <1>4, <1>5, <1>8, BelowIs
    <2>2. KeysAt(h, path) = {c}
      BY <1>3, <2>1 DEF OneSelect, path
    <2>3. Current(h) = {Data(h, h.cells[x])[1] : x \in Says(c)}
      BY <1>2, <2>2
    <2>4. IsKey(h, c)
      <3>1. Named(h, c)
        BY <2>1 DEF Keys
      <3>2. QED
        BY <3>1, NamedParses
    <2>5. vs = Values(h, c)
      BY <1>8 DEF ValuesAt
    <2>6. ToSet(vs) = {ValueAt(h, x) : x \in Readable(h, c)} /\ IsList(vs)
      BY <2>4, <2>5, ValuesAre, ValuesFacts DEF Cells, IsKey
    <2>7. \A x, y \in Readable(h, c) : h.cells[x].name = "Current" /\ h.cells[y].name = "Current" => x = y
      BY <2>2 DEF OneSelect, path
    <2>8. \/ v \in ToSet(vs) /\ v.name = "Current"
          \/ v.type = 0 /\ \A x \in ToSet(vs) : x.name # "Current"
      BY <2>6, FoundValue
    <2> HIDE DEF v, vs, c
    <2>9. CASE v.type = 0 /\ \A x \in ToSet(vs) : x.name # "Current"
      <3>1. ~Naming(v)
        BY <2>9 DEF Naming, Dword
      <3>2. Says(c) = {}
        <4>1. \A x \in Readable(h, c) : ValueAt(h, x).name = h.cells[x].name /\ ValueAt(h, x) \in ToSet(vs)
          BY <1>6, <2>6
        <4>2. QED
          BY <2>9, <4>1
      <3>3. Current(h) = {}
        BY <2>3, <3>2
      <3>4. QED
        BY <1>1, <3>1, <3>3, SetIsNamed, ActiveIs
    <2>10. CASE v \in ToSet(vs) /\ v.name = "Current"
      <3>1. PICK x \in Readable(h, c) : v = ValueAt(h, x)
        BY <2>6, <2>10
      <3>2. v.name = h.cells[x].name /\ v.type = h.cells[x].type /\ v.data = Data(h, h.cells[x])
        BY <1>6, <3>1
      <3>3. Says(c) = IF Naming(v) THEN {x} ELSE {}
        BY <2>7, <2>10, <3>1, <3>2 DEF Naming
      <3> HIDE DEF Says
      <3>4. CASE Naming(v)
        <4>1. Current(h) = {v.data[1]}
          BY <2>3, <3>2, <3>3, <3>4
        <4>2. QED
          BY <1>1, <3>4, <4>1, SetIsNamed, ActiveIs
      <3>5. CASE ~Naming(v)
        <4>1. Current(h) = {}
          BY <2>3, <3>3, <3>5
        <4>2. QED
          BY <1>1, <3>5, <4>1, SetIsNamed, ActiveIs
      <3>6. QED
        BY <3>4, <3>5
    <2>11. QED
      BY <2>8, <2>9, <2>10
  <1>9. QED
    BY <1>7, <1>8

-----------------------------------------------------------------------------
(* Lists of keyed entries that were made of the keys in X, and what becomes  *)
(* of them.                                                                  *)
Made(x, n, X) == x.key \in [1 .. n -> Int] /\ x.entry.of[1] \in X
AllMade(s, n, X) == IsList(s) /\ \A x \in ToSet(s) : Made(x, n, X)
MadeOf(s, X) == \A k \in DOMAIN s : s[k].of[1] \in X

LEMMA AllMadeFrom ==
  ASSUME NEW m \in Nat, NEW s, s = [i \in 1 .. m |-> s[i]], NEW n, NEW X,
         \A i \in 1 .. m : Made(s[i], n, X)
  PROVE  AllMade(s, n, X)
  <1>1. IsList(s) /\ ToSet(s) = {s[i] : i \in 1 .. m}
    BY ListFrom
  <1>2. QED
    BY <1>1 DEF AllMade

LEMMA AllMadeJoined ==
  ASSUME NEW s, NEW t, NEW n, NEW X, AllMade(s, n, X), AllMade(t, n, X)
  PROVE  AllMade(s \o t, n, X)
  <1>1. IsList(s \o t) /\ ToSet(s \o t) = ToSet(s) \union ToSet(t)
    BY JoinIsList DEF AllMade
  <1>2. QED
    BY <1>1 DEF AllMade

LEMMA AllMadeConcat ==
  ASSUME NEW m \in Nat, NEW ss, ss = [i \in 1 .. m |-> ss[i]], NEW n, NEW X,
         \A i \in 1 .. m : AllMade(ss[i], n, X)
  PROVE  AllMade(Concat(ss), n, X)
  <1> DEFINE Y == UNION {ToSet(ss[i]) : i \in 1 .. m}
  <1>1. \A i \in 1 .. m : ss[i] \in Seq(Y)
    <2> SUFFICES ASSUME NEW i \in 1 .. m PROVE ss[i] \in Seq(Y)
      OBVIOUS
    <2>1. ss[i] \in Seq(ToSet(ss[i])) /\ ToSet(ss[i]) \subseteq Y
      BY DEF AllMade, IsList
    <2> HIDE DEF Y
    <2>2. QED
      BY <2>1
  <1> HIDE DEF Y
  <1>2. ss \in Seq(Seq(Y)) /\ Len(ss) = m
    BY <1>1
  <1>3. Concat(ss) \in Seq(Y)
    BY <1>2, ConcatFacts
  <1>4. \A x \in Y : Made(x, n, X)
    BY DEF Y, AllMade
  <1>5. QED
    BY <1>3, <1>4, ListIs DEF AllMade

LEMMA AllMadeSorted ==
  ASSUME NEW s, NEW n \in Nat, NEW X, AllMade(s, n, X)
  PROVE  MadeOf(Sorted(s), X)
  <1>1. IsList(s) /\ \A x \in ToSet(s) : x.key \in [1 .. n -> Int]
    BY DEF AllMade, Made
  <1>2. \A k \in DOMAIN Sorted(s) : \E x \in ToSet(s) : Sorted(s)[k] = x.entry
    <2> DEFINE t == Sorted(s)
    <2>1. \A k \in DOMAIN t : t[k] \in ToSet(t)
      BY DEF ToSet
    <2>2. \A e \in ToSet(t) : \E x \in ToSet(s) : e = x.entry
      BY <1>1, SortedIsFrom
    <2> HIDE DEF t
    <2>3. \A k \in DOMAIN t : \E x \in ToSet(s) : t[k] = x.entry
      BY <2>1, <2>2
    <2>4. QED
      BY <2>3 DEF t
  <1>3. QED
    BY <1>2 DEF AllMade, Made, MadeOf

LEMMA KeyedIsMade ==
  ASSUME NEW t \in Int, NEW kind, NEW c, NEW y, NEW a \in Int, NEW b \in Int, NEW X, c \in X
  PROVE  /\ Made(Keyed(Entry(kind, t, <<c, y>>), TimedFirst(t) \o <<a, b>>), 4, X)
         /\ Made(Keyed(Entry(kind, t, <<c, y>>), <<a>>), 1, X)
  <1>1. PICK x \in Int, z \in Int : TimedFirst(t) = <<x, z>>
    BY TimedFirstIs
  <1>2. TimedFirst(t) \o <<a, b>> \in [1 .. 4 -> Int]
    BY <1>1, KeyShapes
  <1>3. <<a>> \in [1 .. 1 -> Int]
    BY KeyShapes
  <1> DEFINE e == Entry(kind, t, <<c, y>>)
  <1>4. e.of[1] = c
    BY DEF Entry
  <1> HIDE DEF e
  <1>5. \A k, n : k \in [1 .. n -> Int] => Made(Keyed(e, k), n, X)
    BY <1>4 DEF Keyed, Made
  <1> DEFINE j == TimedFirst(t) \o <<a, b>>
             k == <<a>>
             n == 4
             m == 1
  <1>6. j \in [1 .. n -> Int] /\ k \in [1 .. m -> Int]
    BY <1>2, <1>3
  <1> HIDE DEF j, k, n, m
  <1>7. Made(Keyed(e, j), n, X) /\ Made(Keyed(e, k), m, X)
    BY <1>5, <1>6
  <1>8. QED
    BY <1>7 DEF e, j, k, n, m

(* What a provider answers that has the warnings W to pass on. *)
Belongs(r, X, W) ==
  MadeOf(r.entries, X) /\ (W # {} => r.warnings # {} /\ r.state # "parsed")

LEMMA AnswersBelong ==
  ASSUME NEW s, NEW X, MadeOf(s, X), NEW W, NEW V, W \subseteq V
  PROVE  /\ Belongs(Found(s, V), X, W)
         /\ Belongs(NotThere(V), X, W)
         /\ Belongs(Unsupported(V), X, W)
         /\ Belongs(Partial(V), X, W)
  <1>1. MadeOf(<<>>, X)
    BY DEF MadeOf
  <1>2. /\ Unsupported(V).entries = <<>> /\ Unsupported(V).warnings = V /\ Unsupported(V).state = "unsupported"
        /\ Partial(V).entries = <<>> /\ Partial(V).warnings = V /\ Partial(V).state = "partial"
        /\ Found(s, V).entries = s /\ Found(s, V).warnings = V /\ (V # {} => Found(s, V).state = "partial")
    BY DEF Unsupported, Partial, Found, Result
  <1>3. NotThere(V) = Partial(V) \/ (V = {} /\ NotThere(V) = Unsupported(V))
    BY DEF NotThere
  <1>4. Belongs(Partial(V), X, W) /\ Belongs(Unsupported(V), X, W)
    BY <1>1, <1>2 DEF Belongs
  <1>5. Belongs(Found(s, V), X, W)
    BY <1>2 DEF Belongs
  <1>6. QED
    BY <1>3, <1>4, <1>5

-----------------------------------------------------------------------------
(* What the four readers of a SYSTEM hive report was made of keys below the  *)
(* control set they took, and carries the warning that came with it.         *)
OfSet(r, h) == Belongs(r, Under(h, ControlSet(h).name), ControlSet(h).warnings)

LEMMA FoundBelow ==
  ASSUME NEW h, Cells(h), NEW name, NEW path, Len(path) \in 1 .. 4, path[1] = name
  PROVE  /\ KeyByPath(h, path) # NoCell => KeyByPath(h, path) \in Under(h, name)
         /\ IsList(ChildKeys(h, path))
         /\ \A c \in ToSet(ChildKeys(h, path)) : c \in Under(h, name) /\ IsKey(h, c)
  BY FoundIsUnder, ChildKeysFacts DEF Cells

LEMMA PathsFrom ==
  ASSUME NEW a, NEW b, NEW c, NEW d
  PROVE  /\ Len(<<a, b>>) \in 1 .. 4 /\ <<a, b>>[1] = a
         /\ Len(<<a, b, c, d>>) \in 1 .. 4 /\ <<a, b, c, d>>[1] = a
         /\ Len(<<a, b>> \o <<c>>) \in 1 .. 4 /\ (<<a, b>> \o <<c>>)[1] = a
  OBVIOUS

LEMMA BlobIsNumber ==
  ASSUME NEW p, OfHive(p), NEW data, HiveData(p.hive, data)
  PROVE  Blob(data) \in Int
  <1>1. data \in Seq(Int)
    BY DEF HiveData
  <1>2. CASE data = <<>>
    BY <1>2 DEF Blob, NoTime
  <1>3. CASE data # <<>>
    <2>1. 1 \in DOMAIN data /\ Len(data) \in DOMAIN data
      BY <1>1, <1>3
    <2>2. FileTime(data[1]) \in Int /\ FileTime(data[Len(data)]) \in Int
      BY <2>1, HiveTimes, TimeIsNumber
    <2>3. QED
      BY <1>3, <2>2 DEF Blob, Last
  <1>4. QED
    BY <1>2, <1>3

LEMMA BamDamOfSet ==
  ASSUME NEW p, OfHive(p), Cells(p.hive)
  PROVE  OfSet(BamDam(p.hive), p.hive)
  <1> DEFINE h == p.hive
             set == ControlSet(h)
             X == Under(h, set.name)
             path(source) == <<set.name, "Services", source, "UserSettings">>
             sids(source) == ChildKeys(h, path(source))
             J(c) == {i \in DOMAIN Values(h, c) : Values(h, c)[i].name # "Version"}
             vals(c) == Picked(Values(h, c), J(c))
             keyed(source, c, v) == Keyed(Entry(source, Blob(v.data), <<c, v.name>>),
                                          TimedFirst(Blob(v.data)) \o <<Rank(source), Rank(v.name)>>)
             ran(source, c) == [i \in DOMAIN vals(c) |-> keyed(source, c, vals(c)[i])]
             ss(source) == [i \in DOMAIN sids(source) |-> ran(source, sids(source)[i])]
             entries == Sorted(Concat(ss("bam")) \o Concat(ss("dam")))
  <1>1. BamDam(h) = IF entries = <<>> THEN Unsupported(set.warnings) ELSE Found(entries, set.warnings)
    BY DEF BamDam, Where
  <1>2. ASSUME NEW source \in {"bam", "dam"}
        PROVE  IsList(sids(source)) /\ \A c \in ToSet(sids(source)) : c \in X /\ IsKey(h, c)
    <2> DEFINE q == path(source)
    <2>1. Len(q) \in 1 .. 4 /\ q[1] = set.name
      BY PathsFrom
    <2> HIDE DEF q
    <2>2. IsList(ChildKeys(h, q)) /\ \A c \in ToSet(ChildKeys(h, q)) : c \in X /\ IsKey(h, c)
      BY <2>1, FoundBelow
    <2>3. QED
      BY <2>2 DEF q
  <1> HIDE DEF sids, X, set
  <1>3. ASSUME NEW v, HiveData(h, v.data), NEW source \in {"bam", "dam"}, NEW c \in X
        PROVE  Made(keyed(source, c, v), 4, X)
    <2>1. Blob(v.data) \in Int
      BY <1>3, BlobIsNumber
    <2>2. Rank(source) \in Int /\ Rank(v.name) \in Int
      BY RankFacts
    <2>3. QED
      BY <2>1, <2>2, <1>3, KeyedIsMade
  <1> HIDE DEF keyed
  <1>4. ASSUME NEW source \in {"bam", "dam"}, NEW c \in X, IsKey(h, c) PROVE AllMade(ran(source, c), 4, X)
    <2> DEFINE vs == vals(c)
               s == [i \in DOMAIN vs |-> keyed(source, c, vs[i])]
    <2>1. IsList(Values(h, c)) /\ \A v \in ToSet(Values(h, c)) : HiveData(h, v.data)
      BY <1>4, ValuesFacts DEF OfHive, IsKey
    <2>2. IsList(vs) /\ ToSet(vs) = {Values(h, c)[i] : i \in J(c)}
      BY <2>1, WhereIs
    <2>3. \A v \in ToSet(vs) : HiveData(h, v.data)
      BY <2>1, <2>2 DEF ToSet
    <2>4. ran(source, c) = s
      OBVIOUS
    <2> HIDE DEF vs, ran
    <2>5. Len(vs) \in Nat /\ DOMAIN vs = 1 .. Len(vs) /\ \A i \in 1 .. Len(vs) : HiveData(h, vs[i].data)
      BY <2>2, <2>3, ListPlaces
    <2>6. \A i \in 1 .. Len(vs) : Made(s[i], 4, X)
      BY <1>3, <1>4, <2>5
    <2>7. s = [i \in 1 .. Len(vs) |-> s[i]]
      BY <2>5
    <2> HIDE DEF s
    <2>8. AllMade(s, 4, X)
      BY <2>5, <2>6, <2>7, AllMadeFrom
    <2>9. QED
      BY <2>4, <2>8
  <1> HIDE DEF ran
  <1>5. ASSUME NEW source \in {"bam", "dam"} PROVE AllMade(Concat(ss(source)), 4, X)
    <2> DEFINE cs == sids(source)
               s == ss(source)
    <2>1. IsList(cs) /\ \A c \in ToSet(cs) : c \in X /\ IsKey(h, c)
      BY <1>2
    <2>2. s = [i \in DOMAIN cs |-> ran(source, cs[i])]
      OBVIOUS
    <2> HIDE DEF cs, s
    <2>3. Len(cs) \in Nat /\ DOMAIN cs = 1 .. Len(cs) /\ \A i \in 1 .. Len(cs) : cs[i] \in X /\ IsKey(h, cs[i])
      BY <2>1, ListPlaces
    <2>4. s = [i \in 1 .. Len(cs) |-> s[i]] /\ \A i \in 1 .. Len(cs) : s[i] = ran(source, cs[i])
      BY <2>2, <2>3
    <2>5. \A i \in 1 .. Len(cs) : AllMade(s[i], 4, X)
      BY <1>4, <2>3, <2>4
    <2>6. AllMade(Concat(s), 4, X)
      BY <2>3, <2>4, <2>5, AllMadeConcat
    <2>7. QED
      BY <2>6 DEF s
  <1> HIDE DEF ss
  <1>6. AllMade(Concat(ss("bam")) \o Concat(ss("dam")), 4, X)
    BY <1>5, AllMadeJoined
  <1>7. MadeOf(entries, X)
    BY <1>6, AllMadeSorted
  <1> HIDE DEF entries
  <1>8. QED
    BY <1>1, <1>7, AnswersBelong DEF OfSet, X, set

LEMMA AppCompatCacheOfSet ==
  ASSUME NEW h, Cells(h)
  PROVE  OfSet(AppCompatCache(h), h)
  <1> DEFINE set == ControlSet(h)
             X == Under(h, set.name)
             path == <<set.name, "AppCompatCache">>
             c == KeyByPath(h, path)
             v == FindValue(Values(h, c), "AppCompatCache")
             paths == {v.data[i] : i \in DOMAIN v.data} \ {NoPath, HalfCharacter}
             type == IF v.type # Binary THEN {"value type"} ELSE {}
             half == IF Last(v.data) = HalfCharacter THEN {"odd length"} ELSE {}
             all == set.warnings \union type \union half
             sorted == Arranged(paths, {x \in paths \X paths : x[1] < x[2]})
             s == [i \in DOMAIN sorted |-> Entry("path", NoTime, <<c, sorted[i]>>)]
  <1>1. AppCompatCache(h) =
          IF c = NoCell THEN NotThere(set.warnings)
          ELSE IF v.name # "AppCompatCache" THEN Unsupported(set.warnings)
          ELSE IF v.data = <<>> THEN Partial(set.warnings)
          ELSE IF paths = {} THEN NotThere(all)
          ELSE Found(s, all)
    BY Zenon DEF AppCompatCache, CachedPaths
  <1>2. c # NoCell => c \in X
    <2>1. Len(path) \in 1 .. 4 /\ path[1] = set.name
      BY PathsFrom
    <2> HIDE DEF path
    <2>2. QED
      BY <2>1, FoundBelow
  <1> HIDE DEF c, type, half
  <1>3. set.warnings \subseteq all
    OBVIOUS
  <1> HIDE DEF all, X, set
  <1>4. c # NoCell => MadeOf(s, X)
    <2> HIDE DEF sorted
    <2>1. \A i \in DOMAIN s : s[i].of[1] = c
      BY DEF Entry
    <2> HIDE DEF s
    <2>2. QED
      BY <1>2, <2>1 DEF MadeOf
  <1>5. MadeOf(<<>>, X)
    BY DEF MadeOf
  <1> DEFINE W == set.warnings
  <1>6. /\ Belongs(NotThere(W), X, W) /\ Belongs(Unsupported(W), X, W) /\ Belongs(Partial(W), X, W)
        /\ Belongs(NotThere(all), X, W)
    BY <1>3, <1>5, AnswersBelong
  <1> HIDE DEF s
  <1>7. c # NoCell => Belongs(Found(s, all), X, W)
    BY <1>3, <1>4, AnswersBelong
  <1> HIDE DEF paths, v
  <1> DEFINE r == AppCompatCache(h)
  <1>8. r \in {NotThere(W), Unsupported(W), Partial(W), NotThere(all)} \/ (c # NoCell /\ r = Found(s, all))
    BY Zenon, <1>1
  <1> HIDE DEF r
  <1>9. Belongs(r, X, W)
    BY <1>6, <1>7, <1>8
  <1>10. QED
    BY <1>9 DEF OfSet, X, set, r, W

LEMMA ServicesOfSet ==
  ASSUME NEW p, OfHive(p), Cells(p.hive)
  PROVE  OfSet(Services(p.hive), p.hive)
  <1> DEFINE h == p.hive
             set == ControlSet(h)
             X == Under(h, set.name)
             base == <<set.name, "Services">>
             below == ChildKeys(h, base)
             name(c) == h.cells[c].name
             dll(c) == KeyByPath(h, base \o <<name(c), "Parameters">>)
             keyed(c) == Keyed(Entry("service", FileTime(h.cells[c].time), <<c, dll(c)>>), <<Rank(name(c))>>)
             s == [i \in DOMAIN below |-> keyed(below[i])]
  <1>1. Services(h) = IF below = <<>> THEN NotThere(set.warnings) ELSE Found(Sorted(s), set.warnings)
    BY DEF Services
  <1>2. IsList(below) /\ \A c \in ToSet(below) : c \in X /\ IsKey(h, c)
    <2> DEFINE q == base
    <2>1. Len(q) \in 1 .. 4 /\ q[1] = set.name
      BY PathsFrom
    <2> HIDE DEF q
    <2>2. IsList(ChildKeys(h, q)) /\ \A c \in ToSet(ChildKeys(h, q)) : c \in X /\ IsKey(h, c)
      BY <2>1, FoundBelow
    <2>3. QED
      BY <2>2 DEF q
  <1> HIDE DEF below, X
  <1>3. Len(below) \in Nat /\ DOMAIN below = 1 .. Len(below)
        /\ \A i \in 1 .. Len(below) : below[i] \in X /\ IsKey(h, below[i])
    BY <1>2, ListPlaces
  <1>4. ASSUME NEW c \in X, IsKey(h, c) PROVE Made(keyed(c), 1, X)
    <2>1. FileTime(h.cells[c].time) \in Int /\ Rank(name(c)) \in Int
      BY <1>4, HiveTimes, TimeIsNumber, RankFacts
    <2> HIDE DEF dll, name
    <2>2. QED
      BY <1>4, <2>1, KeyedIsMade
  <1> HIDE DEF keyed
  <1>5. \A i \in 1 .. Len(below) : Made(s[i], 1, X)
    BY <1>3, <1>4
  <1>6. s = [i \in 1 .. Len(below) |-> s[i]]
    BY <1>3
  <1> HIDE DEF s
  <1>7. AllMade(s, 1, X)
    BY <1>3, <1>5, <1>6, AllMadeFrom
  <1>8. MadeOf(Sorted(s), X)
    BY <1>7, AllMadeSorted
  <1> HIDE DEF set
  <1>9. Belongs(Services(h), X, set.warnings)
    BY <1>1, <1>8, AnswersBelong
  <1>10. QED
    BY <1>9 DEF OfSet, X, set

LEMMA UsbOfSet ==
  ASSUME NEW p, OfHive(p), Cells(p.hive)
  PROVE  OfSet(Usb(p.hive), p.hive)
  <1> DEFINE h == p.hive
             set == ControlSet(h)
             X == Under(h, set.name)
             base == <<set.name, "USBSTOR">>
             devices == ChildKeys(h, base)
             name(c) == h.cells[c].name
             time(c) == FileTime(h.cells[c].time)
             kids(d) == ChildKeys(h, base \o <<name(d)>>)
             keyed(d, c) == Keyed(Entry("device", time(c), <<d, c>>), TimedFirst(time(c)) \o <<Rank(name(d)), Rank(name(c))>>)
             under(d) == [i \in DOMAIN kids(d) |-> keyed(d, kids(d)[i])]
             ss == [i \in DOMAIN devices |-> under(devices[i])]
             entries == Sorted(Concat(ss))
  <1>1. Usb(h) = IF devices = <<>> \/ entries = <<>> THEN NotThere(set.warnings) ELSE Found(entries, set.warnings)
    BY DEF Usb
  <1>2. IsList(devices) /\ \A d \in ToSet(devices) : d \in X
    <2> DEFINE q == base
    <2>1. Len(q) \in 1 .. 4 /\ q[1] = set.name
      BY PathsFrom
    <2> HIDE DEF q
    <2>2. IsList(ChildKeys(h, q)) /\ \A c \in ToSet(ChildKeys(h, q)) : c \in X /\ IsKey(h, c)
      BY <2>1, FoundBelow
    <2>3. QED
      BY <2>2 DEF q
  <1> HIDE DEF X
  <1>3. ASSUME NEW d \in X, NEW c, IsKey(h, c) PROVE Made(keyed(d, c), 4, X)
    <2>1. time(c) \in Int /\ Rank(name(c)) \in Int /\ Rank(name(d)) \in Int
      BY <1>3, HiveTimes, TimeIsNumber, RankFacts
    <2> HIDE DEF time, name
    <2>2. QED
      BY <1>3, <2>1, KeyedIsMade
  <1> HIDE DEF keyed
  <1>4. ASSUME NEW d \in X PROVE AllMade(under(d), 4, X)
    <2> DEFINE cs == kids(d)
               s == under(d)
    <2>1. IsList(cs) /\ \A c \in ToSet(cs) : IsKey(h, c)
      BY ChildKeysFacts DEF OfHive
    <2>2. s = [i \in DOMAIN cs |-> keyed(d, cs[i])]
      OBVIOUS
    <2> HIDE DEF cs, s
    <2>3. Len(cs) \in Nat /\ DOMAIN cs = 1 .. Len(cs) /\ \A i \in 1 .. Len(cs) : IsKey(h, cs[i])
      BY <2>1, ListPlaces
    <2>4. s = [i \in 1 .. Len(cs) |-> s[i]] /\ \A i \in 1 .. Len(cs) : s[i] = keyed(d, cs[i])
      BY <2>2, <2>3
    <2>5. \A i \in 1 .. Len(cs) : Made(s[i], 4, X)
      BY <1>3, <1>4, <2>3, <2>4
    <2>6. AllMade(s, 4, X)
      BY <2>3, <2>4, <2>5, AllMadeFrom
    <2>7. QED
      BY <2>6 DEF s
  <1> HIDE DEF under, devices
  <1>5. Len(devices) \in Nat /\ DOMAIN devices = 1 .. Len(devices) /\ \A i \in 1 .. Len(devices) : devices[i] \in X
    BY <1>2, ListPlaces
  <1>6. ss = [i \in 1 .. Len(devices) |-> ss[i]] /\ \A i \in 1 .. Len(devices) : AllMade(ss[i], 4, X)
    BY <1>4, <1>5
  <1> HIDE DEF ss
  <1>7. AllMade(Concat(ss), 4, X)
    BY <1>5, <1>6, AllMadeConcat
  <1>8. MadeOf(entries, X)
    BY <1>7, AllMadeSorted
  <1> HIDE DEF entries, set
  <1>9. Belongs(Usb(h), X, set.warnings)
    BY <1>1, <1>8, AnswersBelong
  <1>10. QED
    BY <1>9 DEF OfSet, X, set

-----------------------------------------------------------------------------
(* Who may take a row that passes no other test than that its path is one of *)
(* a SYSTEM hive.                                                            *)
SystemNames == {"windows.bam_dam", "windows.appcompatcache_v1", "windows.services_v1",
                "windows.usb_registry_v1"}
SystemMarks == {"/SYSTEM"}

LEMMA SystemTakers == \A x \in ToSet(ProviderList) : x.marks \subseteq SystemMarks => x.name \in SystemNames
  <1> DEFINE t1 == Takes("windows.recycle_bin_i", {}, {"$I"})
             t2 == Takes("windows.lnk_summary", {}, {".lnk"})
             t3 == Takes("windows.prefetch_summary", {}, {".pf"})
             t4 == Takes("windows.registry_run_mru", {"Run/RunOnce resolver"}, {"NTUSER.DAT"})
             t5 == Takes("windows.registry_recent_docs", {"RecentDocs resolver"}, {"NTUSER.DAT"})
             t6 == Takes("windows.registry_userassist", {"UserAssist resolver"}, {"NTUSER.DAT"})
             t7 == Takes("windows.amcache", {"Amcache"}, {"Amcache.hve"})
             t8 == Takes("windows.bam_dam", {"BAM/DAM resolver"}, {"/SYSTEM"})
             t9 == Takes("windows.appcompatcache_v1", {"AppCompatCache resolver"}, {"/SYSTEM"})
             t10 == Takes("windows.services_v1", {"Services hive resolver"}, {"/SYSTEM"})
             t11 == Takes("windows.usb_registry_v1", {"USB registry resolver"}, {"/SYSTEM"})
             t12 == Takes("windows.scheduled_task_v1", {"Scheduled Task definitions"}, {"tasks"})
             t13 == Takes("windows.wer_v1", {"WER report files"}, {"wer", ".wer"})
             t14 == Takes("windows.evtx_v1", {"EVTX files"}, {"logs", ".evtx"})
             t15 == Takes("windows.srum_metadata_probe", {"SRUM metadata probe", "SRUM"}, {"SRUDB.dat"})
             t16 == Takes("windows.chromium_history", {"Chrome History", "Edge History"}, {"/History"})
             t17 == Takes("windows.jump_list_v1", {}, {"destinations"})
  <1>1. ProviderList = <<t1, t2, t3, t4, t5, t6, t7, t8, t9, t10, t11, t12, t13, t14, t15, t16, t17>>
    BY Zenon DEF ProviderList
  <1>2. ASSUME NEW a, NEW b, NEW name, name \in SystemNames \/ ~(b \subseteq SystemMarks)
        PROVE  Takes(name, a, b).marks \subseteq SystemMarks => Takes(name, a, b).name \in SystemNames
    BY <1>2 DEF Takes
  <1>3. t1.marks \subseteq SystemMarks => t1.name \in SystemNames
    <2> DEFINE a == {}
               b == {"$I"}
    <2>1. t1 = Takes("windows.recycle_bin_i", a, b)
      BY Zenon
    <2>2. ~(b \subseteq SystemMarks)
      BY Zenon DEF SystemMarks
    <2> HIDE DEF t1, a, b
    <2>3. QED
      BY <1>2, <2>1, <2>2
  <1>4. t2.marks \subseteq SystemMarks => t2.name \in SystemNames
    <2> DEFINE a == {}
               b == {".lnk"}
    <2>1. t2 = Takes("windows.lnk_summary", a, b)
      BY Zenon
    <2>2. ~(b \subseteq SystemMarks)
      BY Zenon DEF SystemMarks
    <2> HIDE DEF t2, a, b
    <2>3. QED
      BY <1>2, <2>1, <2>2
  <1>5. t3.marks \subseteq SystemMarks => t3.name \in SystemNames
    <2> DEFINE a == {}
               b == {".pf"}
    <2>1. t3 = Takes("windows.prefetch_summary", a, b)
      BY Zenon
    <2>2. ~(b \subseteq SystemMarks)
      BY Zenon DEF SystemMarks
    <2> HIDE DEF t3, a, b
    <2>3. QED
      BY <1>2, <2>1, <2>2
  <1>6. t4.marks \subseteq SystemMarks => t4.name \in SystemNames
    <2> DEFINE a == {"Run/RunOnce resolver"}
               b == {"NTUSER.DAT"}
    <2>1. t4 = Takes("windows.registry_run_mru", a, b)
      BY Zenon
    <2>2. ~(b \subseteq SystemMarks)
      BY Zenon DEF SystemMarks
    <2> HIDE DEF t4, a, b
    <2>3. QED
      BY <1>2, <2>1, <2>2
  <1>7. t5.marks \subseteq SystemMarks => t5.name \in SystemNames
    <2> DEFINE a == {"RecentDocs resolver"}
               b == {"NTUSER.DAT"}
    <2>1. t5 = Takes("windows.registry_recent_docs", a, b)
      BY Zenon
    <2>2. ~(b \subseteq SystemMarks)
      BY Zenon DEF SystemMarks
    <2> HIDE DEF t5, a, b
    <2>3. QED
      BY <1>2, <2>1, <2>2
  <1>8. t6.marks \subseteq SystemMarks => t6.name \in SystemNames
    <2> DEFINE a == {"UserAssist resolver"}
               b == {"NTUSER.DAT"}
    <2>1. t6 = Takes("windows.registry_userassist", a, b)
      BY Zenon
    <2>2. ~(b \subseteq SystemMarks)
      BY Zenon DEF SystemMarks
    <2> HIDE DEF t6, a, b
    <2>3. QED
      BY <1>2, <2>1, <2>2
  <1>9. t7.marks \subseteq SystemMarks => t7.name \in SystemNames
    <2> DEFINE a == {"Amcache"}
               b == {"Amcache.hve"}
    <2>1. t7 = Takes("windows.amcache", a, b)
      BY Zenon
    <2>2. ~(b \subseteq SystemMarks)
      BY Zenon DEF SystemMarks
    <2> HIDE DEF t7, a, b
    <2>3. QED
      BY <1>2, <2>1, <2>2
  <1>10. t8.marks \subseteq SystemMarks => t8.name \in SystemNames
    <2> DEFINE a == {"BAM/DAM resolver"}
               b == {"/SYSTEM"}
    <2>1. t8 = Takes("windows.bam_dam", a, b)
      BY Zenon
    <2>2. "windows.bam_dam" \in SystemNames
      BY DEF SystemNames
    <2> HIDE DEF t8, a, b
    <2>3. QED
      BY <1>2, <2>1, <2>2
  <1>11. t9.marks \subseteq SystemMarks => t9.name \in SystemNames
    <2> DEFINE a == {"AppCompatCache resolver"}
               b == {"/SYSTEM"}
    <2>1. t9 = Takes("windows.appcompatcache_v1", a, b)
      BY Zenon
    <2>2. "windows.appcompatcache_v1" \in SystemNames
      BY DEF SystemNames
    <2> HIDE DEF t9, a, b
    <2>3. QED
      BY <1>2, <2>1, <2>2
  <1>12. t10.marks \subseteq SystemMarks => t10.name \in SystemNames
    <2> DEFINE a == {"Services hive resolver"}
               b == {"/SYSTEM"}
    <2>1. t10 = Takes("windows.services_v1", a, b)
      BY Zenon
    <2>2. "windows.services_v1" \in SystemNames
      BY DEF SystemNames
    <2> HIDE DEF t10, a, b
    <2>3. QED
      BY <1>2, <2>1, <2>2
  <1>13. t11.marks \subseteq SystemMarks => t11.name \in SystemNames
    <2> DEFINE a == {"USB registry resolver"}
               b == {"/SYSTEM"}
    <2>1. t11 = Takes("windows.usb_registry_v1", a, b)
      BY Zenon
    <2>2. "windows.usb_registry_v1" \in SystemNames
      BY DEF SystemNames
    <2> HIDE DEF t11, a, b
    <2>3. QED
      BY <1>2, <2>1, <2>2
  <1>14. t12.marks \subseteq SystemMarks => t12.name \in SystemNames
    <2> DEFINE a == {"Scheduled Task definitions"}
               b == {"tasks"}
    <2>1. t12 = Takes("windows.scheduled_task_v1", a, b)
      BY Zenon
    <2>2. ~(b \subseteq SystemMarks)
      BY Zenon DEF SystemMarks
    <2> HIDE DEF t12, a, b
    <2>3. QED
      BY <1>2, <2>1, <2>2
  <1>15. t13.marks \subseteq SystemMarks => t13.name \in SystemNames
    <2> DEFINE a == {"WER report files"}
               b == {"wer", ".wer"}
    <2>1. t13 = Takes("windows.wer_v1", a, b)
      BY Zenon
    <2>2. ~(b \subseteq SystemMarks)
      BY Zenon DEF SystemMarks
    <2> HIDE DEF t13, a, b
    <2>3. QED
      BY <1>2, <2>1, <2>2
  <1>16. t14.marks \subseteq SystemMarks => t14.name \in SystemNames
    <2> DEFINE a == {"EVTX files"}
               b == {"logs", ".evtx"}
    <2>1. t14 = Takes("windows.evtx_v1", a, b)
      BY Zenon
    <2>2. ~(b \subseteq SystemMarks)
      BY Zenon DEF SystemMarks
    <2> HIDE DEF t14, a, b
    <2>3. QED
      BY <1>2, <2>1, <2>2
  <1>17. t15.marks \subseteq SystemMarks => t15.name \in SystemNames
    <2> DEFINE a == {"SRUM metadata probe", "SRUM"}
               b == {"SRUDB.dat"}
    <2>1. t15 = Takes("windows.srum_metadata_probe", a, b)
      BY Zenon
    <2>2. ~(b \subseteq SystemMarks)
      BY Zenon DEF SystemMarks
    <2> HIDE DEF t15, a, b
    <2>3. QED
      BY <1>2, <2>1, <2>2
  <1>18. t16.marks \subseteq SystemMarks => t16.name \in SystemNames
    <2> DEFINE a == {"Chrome History", "Edge History"}
               b == {"/History"}
    <2>1. t16 = Takes("windows.chromium_history", a, b)
      BY Zenon
    <2>2. ~(b \subseteq SystemMarks)
      BY Zenon DEF SystemMarks
    <2> HIDE DEF t16, a, b
    <2>3. QED
      BY <1>2, <2>1, <2>2
  <1>19. t17.marks \subseteq SystemMarks => t17.name \in SystemNames
    <2> DEFINE a == {}
               b == {"destinations"}
    <2>1. t17 = Takes("windows.jump_list_v1", a, b)
      BY Zenon
    <2>2. ~(b \subseteq SystemMarks)
      BY Zenon DEF SystemMarks
    <2> HIDE DEF t17, a, b
    <2>3. QED
      BY <1>2, <2>1, <2>2
  <1> HIDE DEF t1, t2, t3, t4, t5, t6, t7, t8, t9, t10, t11, t12, t13, t14, t15, t16, t17
  <1> DEFINE X == {t1, t2, t3, t4, t5, t6, t7, t8, t9, t10, t11, t12, t13, t14, t15, t16, t17}
  <1>20. <<t1, t2, t3, t4, t5, t6, t7, t8, t9, t10, t11, t12, t13, t14, t15, t16, t17>> \in Seq(X)
    OBVIOUS
  <1>21. ToSet(ProviderList) \subseteq X
    BY <1>1, <1>20, ListIs
  <1>22. \A x \in X : x.marks \subseteq SystemMarks => x.name \in SystemNames
    BY <1>3, <1>4, <1>5, <1>6, <1>7, <1>8, <1>9, <1>10, <1>11, <1>12, <1>13, <1>14, <1>15, <1>16, <1>17, <1>18, <1>19
  <1>23. QED
    BY <1>21, <1>22

LEMMA SystemRowIsTaken ==
  ASSUME NEW row, row.marks = SystemMarks, NEW p, NEW d, d = describe(row, p), d # NoDetails, d.error = "none",
         p.read # "none" \/ (OfHive(p) /\ (Opens(p.hive) => Cells(p.hive)))
  PROVE  p.read = "none" /\ Opens(p.hive) /\ OfSet(d, p.hive)
  <1> DEFINE I == {i \in DOMAIN ProviderList : Supports(ProviderList[i], row)}
             takers == Picked(ProviderList, I)
             name == Head(takers).name
             a == Failed(p.read)
             b == Parse(name, row, p)
             c == Unsupported({"only automatic destinations"})
  <1>1. takers # <<>>
    <2>1. takers = <<>> => d = NoDetails
      BY Zenon DEF describe, Where
    <2>2. QED
      BY <2>1
  <1>2. name \in SystemNames
    <2>1. I \in SUBSET DOMAIN ProviderList /\ \A i \in I : Supports(ProviderList[i], row)
      OBVIOUS
    <2> HIDE DEF I
    <2>2. IsList(takers) /\ ToSet(takers) = {ProviderList[i] : i \in I}
      BY <2>1, ProviderListIs, WhereIs
    <2> DEFINE X == ToSet(takers)
    <2>3. takers \in Seq(X)
      BY <2>2 DEF IsList
    <2> HIDE DEF X, takers
    <2>4. Head(takers) \in X
      BY <1>1, <2>3
    <2>5. PICK i \in I : Head(takers) = ProviderList[i]
      BY <2>2, <2>4 DEF X
    <2>6. ProviderList[i] \in ToSet(ProviderList) /\ ProviderList[i].marks \subseteq SystemMarks
      BY <2>1 DEF ToSet, Supports
    <2>7. QED
      BY <2>5, <2>6, SystemTakers
  <1>3. name # "windows.jump_list_v1"
    BY <1>2 DEF SystemNames
  <1>4. d = IF p.read # "none" THEN Details(name, a) ELSE Details(name, b)
    <2>1. d = IF takers = <<>> THEN NoDetails
              ELSE IF name = "windows.jump_list_v1" /\ "custom" \in row.marks THEN Details(name, c)
              ELSE IF p.read # "none" THEN Details(name, a) ELSE Details(name, b)
      BY Zenon DEF describe, Where
    <2> HIDE DEF takers, name, a, b, c
    <2>2. QED
      BY <1>1, <1>3, <2>1
  <1>5. \A x : Details(name, x).entries = x.entries /\ Details(name, x).warnings = x.warnings
               /\ Details(name, x).state = x.state /\ Details(name, x).error = x.error
    BY DEF Details
  <1>6. \A e : Failed(e).error = e
    BY DEF Failed, Result
  <1> HIDE DEF takers, name, a, b, c
  <1>7. p.read = "none"
    BY <1>4, <1>5, <1>6 DEF a
  <1>8. d = Details(name, b) /\ b.error = "none"
    BY <1>4, <1>5, <1>7
  <1> DEFINE r1 == BamDam(p.hive)
             r2 == AppCompatCache(p.hive)
             r3 == Services(p.hive)
             r4 == Usb(p.hive)
             bad == Failed("not a hive")
             q1 == InHive(p, r1)
             q2 == InHive(p, r2)
             q3 == InHive(p, r3)
             q4 == InHive(p, r4)
  <1>9. b \in {q1, q2, q3, q4}
    <2> DEFINE o1 == RecycleBin(p)
               o2 == ShellLink(p)
               o3 == Prefetch(p)
               o4 == InHive(p, RunMru(p.hive))
               o5 == InHive(p, RecentDocs(p.hive))
               o6 == InHive(p, UserAssist(p.hive))
               o7 == InHive(p, Amcache(p.hive))
               o12 == ScheduledTask(p)
               o13 == Report(p)
               o14 == EventLog(p, "primary" \in row.marks)
               o15 == Srum(p)
               o16 == History(p)
               o17 == JumpList(p)
    <2>1. b = CASE name = "windows.recycle_bin_i" -> o1
                [] name = "windows.lnk_summary" -> o2
                [] name = "windows.prefetch_summary" -> o3
                [] name = "windows.registry_run_mru" -> o4
                [] name = "windows.registry_recent_docs" -> o5
                [] name = "windows.registry_userassist" -> o6
                [] name = "windows.amcache" -> o7
                [] name = "windows.bam_dam" -> q1
                [] name = "windows.appcompatcache_v1" -> q2
                [] name = "windows.services_v1" -> q3
                [] name = "windows.usb_registry_v1" -> q4
                [] name = "windows.scheduled_task_v1" -> o12
                [] name = "windows.wer_v1" -> o13
                [] name = "windows.evtx_v1" -> o14
                [] name = "windows.srum_metadata_probe" -> o15
                [] name = "windows.chromium_history" -> o16
                [] name = "windows.jump_list_v1" -> o17
      BY Zenon DEF Parse, b
    <2> HIDE DEF o1, o2, o3, o4, o5, o6, o7, q1, q2, q3, q4, o12, o13, o14, o15, o16, o17
    <2>2. QED
      BY <1>2, <2>1 DEF SystemNames
  <1>10. \A r : IF p.format # "hive" \/ ~Opens(p.hive) THEN InHive(p, r) = bad ELSE InHive(p, r) = r
    BY Zenon DEF InHive
  <1>11. bad.error # "none"
    <2> DEFINE x == "not a hive"
    <2>1. x # "none"
      BY Zenon
    <2> HIDE DEF x
    <2>2. Failed(x).error # "none"
      BY <1>6, <2>1
    <2>3. QED
      BY Zenon, <2>2 DEF x
  <1> HIDE DEF r1, r2, r3, r4, bad
  <1>12. Opens(p.hive) /\ b \in {r1, r2, r3, r4}
    BY <1>8, <1>9, <1>10, <1>11
  <1>13. OfHive(p) /\ Cells(p.hive)
    BY <1>7, <1>12
  <1>14. OfSet(r1, p.hive) /\ OfSet(r2, p.hive) /\ OfSet(r3, p.hive) /\ OfSet(r4, p.hive)
    BY <1>13, BamDamOfSet, AppCompatCacheOfSet, ServicesOfSet, UsbOfSet DEF r1, r2, r3, r4
  <1>15. OfSet(b, p.hive)
    BY <1>12, <1>14
  <1>16. OfSet(d, p.hive)
    BY <1>5, <1>8, <1>15 DEF OfSet, Belongs
  <1>17. QED
    BY <1>7, <1>12, <1>16

(* The marks tell of the path alone, and a path that ends in /SYSTEM passes  *)
(* no other test.  Its hive, if it opens, has no cell at the place that      *)
(* stands for none, and names one Select key with one value Current.         *)
SystemHives ==
  \A w \in Worlds : \A i \in DOMAIN w.rows : "/SYSTEM" \in w.rows[i].marks =>
    /\ \A j \in DOMAIN w.rows : w.rows[j].path = w.rows[i].path => w.rows[j].marks = {"/SYSTEM"}
    /\ LET p == w.disk[w.rows[i].path]
       IN  p.read = "none" /\ p.format = "hive" /\ Opens(p.hive) =>
             NoCell \notin DOMAIN p.hive.cells /\ OneSelect(p.hive)

LEMMA SetIsRead ==
  ASSUME SystemHives, TimelineInv
  PROVE  ActiveSetIsRead
  <1> SUFFICES ASSUME NEW i \in Read("hive"), "/SYSTEM" \in rows[i].marks
               PROVE  LET h == FileAt(i).hive
                      IN  /\ \A of \in Ofs(i) : of[1] \in Under(h, Active(h))
                          /\ Current(h) = {} => Of(i).warnings # {} /\ Of(i).state # "parsed"
    BY Zenon DEF ActiveSetIsRead
  <1> DEFINE p == FileAt(i)
             d == Of(i)
             h == p.hive
  <1>1. i \in Shown /\ i \in DOMAIN rows /\ p.format = "hive" /\ p.read = "none" /\ d # NoDetails
        /\ d.error = "none" /\ PathOf(i) \in DOMAIN cache /\ d = cache[PathOf(i)]
    BY DEF Read, Shown, Of
  <1>2. Scanned /\ Sourced(cache)
    BY DEF TimelineInv
  <1>3. IsFile(p)
    BY <1>1, <1>2, ShownIsAFile
  <1>4. IsHive(h) /\ OfHive(p)
    BY <1>1, <1>3 DEF IsFile, OfHive
  <1>5. PICK j \in DOMAIN rows : PathOf(j) = PathOf(i) /\ \E f \in States(FileAt(j)) : d = describe(rows[j], f)
    BY <1>1, <1>2 DEF Sourced, Describes
  <1>6. FileAt(j) = p
    BY <1>5 DEF FileAt
  <1>7. PICK f \in States(p) : d = describe(rows[j], f)
    BY <1>5, <1>6
  <1>8. f.read = "none" => f = p
    BY <1>3 DEF States, IsFile
  <1>9. PICK w \in Worlds : rows = w.rows /\ disk = w.disk
    BY <1>2 DEF Scanned
  <1>10. /\ rows[j].marks = SystemMarks
         /\ Opens(h) => NoCell \notin DOMAIN h.cells /\ OneSelect(h)
    <2>1. w.rows[j].path = w.rows[i].path /\ w.disk[w.rows[i].path] = p
      BY <1>5, <1>9 DEF PathOf, FileAt
    <2>2. w.rows[j].marks = {"/SYSTEM"}
      BY Zenon, <1>1, <1>9, <2>1 DEF SystemHives
    <2>3. Opens(h) => NoCell \notin DOMAIN h.cells /\ OneSelect(h)
      <3> HIDE DEF p
      <3>1. Opens(p.hive) => NoCell \notin DOMAIN p.hive.cells /\ OneSelect(p.hive)
        BY <1>1, <1>9, <2>1 DEF SystemHives
      <3>2. QED
        BY <3>1
    <2>4. QED
      BY <1>9, <2>2, <2>3 DEF SystemMarks
  <1>11. Opens(h) => Cells(h)
    BY <1>4, <1>10 DEF Cells, Opens
  <1> HIDE DEF p, d
  <1>12. f.read = "none" /\ Opens(f.hive) /\ OfSet(d, f.hive)
    <2>1. f.read # "none" \/ (OfHive(f) /\ (Opens(f.hive) => Cells(f.hive)))
      BY <1>4, <1>8, <1>11
    <2>2. QED
      BY <1>1, <1>7, <1>10, <2>1, SystemRowIsTaken
  <1>13. Opens(h) /\ OfSet(d, h)
    BY <1>8, <1>12
  <1>14. ControlSet(h).name = Active(h) /\ (Current(h) = {} => ControlSet(h).warnings # {})
    BY <1>10, <1>11, <1>13, ControlSetIsActive
  <1>15. \A of \in Ofs(i) : of[1] \in Under(h, Active(h))
    BY <1>13, <1>14 DEF Ofs, OfSet, Belongs, MadeOf, d
  <1>16. Current(h) = {} => d.warnings # {} /\ d.state # "parsed"
    BY <1>13, <1>14 DEF OfSet, Belongs
  <1>17. QED
    BY <1>15, <1>16 DEF p, d

(* What is reported of a SYSTEM hive lies below the control set it was last  *)
(* started with, or below the first if it does not say, and the row is then  *)
(* never parsed without a warning (ArtifactDetailProviders.cpp:297-315), for *)
(* every hive that names one Select key with one value Current.              *)
THEOREM TriageActiveSetIsRead ==
  ASSUME SystemHives
  PROVE  Spec => []ActiveSetIsRead
  <1>1. TimelineInv => ActiveSetIsRead
    BY SetIsRead
  <1>2. QED
    BY <1>1, TimelineAlways, PTL
=============================================================================
