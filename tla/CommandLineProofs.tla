-------------------------- MODULE CommandLineProofs --------------------------
(* Proofs about the command line and the segment files of an image.        *)
EXTENDS DiscoveryProofs

-----------------------------------------------------------------------------
(* The slots of a volume system. *)

(* The loop has a value: it is the recursion it is written as. *)
LEMMA SlotsDefined ==
  ASSUME NEW t \in Seq({"meta", "data"})
  PROVE  Slots(t) =
           [i \in 0 .. Len(t) |->
              IF i = 0 THEN <<>>
              ELSE IF t[i] = "meta" THEN Slots(t)[i - 1] ELSE Append(Slots(t)[i - 1], i - 1)]
  <1> DEFINE k == Len(t)
             next(s, i) == IF t[i] = "meta" THEN s ELSE Append(s, i - 1)
             Is(f, n) == f = [i \in 0 .. n |-> IF i = 0 THEN <<>> ELSE next(f[i - 1], i)]
             S == {n \in Nat : \E f : Is(f, n)}
  <1>1. 0 \in S
    <2>1. Is([i \in 0 .. 0 |-> <<>>], 0)
      OBVIOUS
    <2>2. QED
      BY <2>1
  <1>2. ASSUME NEW n \in Nat, n \in S PROVE n + 1 \in S
    <2>1. PICK f : Is(f, n)
      BY <1>2
    <2> DEFINE g == [i \in 0 .. n + 1 |-> IF i = n + 1 THEN next(f[n], n + 1) ELSE f[i]]
    <2>2. ASSUME NEW i \in 0 .. n + 1 PROVE g[i] = IF i = 0 THEN <<>> ELSE next(g[i - 1], i)
      <3> HIDE DEF next
      <3>1. CASE i = n + 1
        BY <3>1
      <3>2. CASE i \in 0 .. n
        <4>1. f[i] = IF i = 0 THEN <<>> ELSE next(f[i - 1], i)
          BY <2>1, <3>2
        <4>2. QED
          BY <3>2, <4>1
      <3>3. QED
        BY <3>1, <3>2
    <2>3. Is(g, n + 1)
      <3> HIDE DEF next
      <3>1. DOMAIN g = 0 .. n + 1 /\ g = [i \in 0 .. n + 1 |-> g[i]]
        OBVIOUS
      <3> HIDE DEF g
      <3>2. QED
        BY <2>2, <3>1
    <2> HIDE DEF g, Is
    <2>4. QED
      BY <2>3
  <1>3. k \in S
    <2>1. k \in Nat
      OBVIOUS
    <2> HIDE DEF S
    <2>2. Nat \subseteq S
      BY <1>1, <1>2, SetInduction
    <2>3. QED
      BY <2>1, <2>2
  <1>4. \E f : f = [i \in 0 .. k |-> IF i = 0 THEN <<>> ELSE next(f[i - 1], i)]
    BY <1>3
  <1>5. QED
    BY <1>4 DEF Slots

(* Whatever is left out, a partition's number is that of a slot with data. *)
LEMMA SlotsAreData ==
  ASSUME NEW t \in Seq({"meta", "data"}), NEW n \in 0 .. Len(t)
  PROVE  /\ Slots(t)[n] \in Seq(Nat)
         /\ \A i \in 1 .. Len(Slots(t)[n]) : Slots(t)[n][i] < n /\ t[Slots(t)[n][i] + 1] # "meta"
  <1> DEFINE s == Slots(t)
             Good(m) == /\ s[m] \in Seq(Nat)
                        /\ \A i \in 1 .. Len(s[m]) : s[m][i] < m /\ t[s[m][i] + 1] # "meta"
             S == {m \in Nat : m <= Len(t) => Good(m)}
  <1>1. /\ s[0] = <<>>
        /\ \A m \in 1 .. Len(t) : s[m] = IF t[m] = "meta" THEN s[m - 1] ELSE Append(s[m - 1], m - 1)
    <2>1. \A m \in 0 .. Len(t) :
            s[m] = IF m = 0 THEN <<>>
                   ELSE IF t[m] = "meta" THEN s[m - 1] ELSE Append(s[m - 1], m - 1)
      BY SlotsDefined
    <2> HIDE DEF s
    <2>2. QED
      BY <2>1
  <1> HIDE DEF s
  <1>2. 0 \in S
    <2>1. s[0] \in Seq(Nat) /\ Len(s[0]) = 0
      BY <1>1
    <2>2. QED
      BY <2>1
  <1>3. ASSUME NEW m \in Nat, m \in S PROVE m + 1 \in S
    <2> SUFFICES ASSUME m + 1 <= Len(t) PROVE Good(m + 1)
      OBVIOUS
    <2>1. Good(m)
      BY <1>3
    <2>2. CASE t[m + 1] = "meta"
      <3>1. s[m + 1] = s[m]
        BY <1>1, <2>2
      <3>2. QED
        BY <2>1, <3>1
    <2>3. CASE t[m + 1] # "meta"
      <3>1. s[m + 1] = Append(s[m], m)
        <4>1. m + 1 \in 1 .. Len(t) /\ (m + 1) - 1 = m
          OBVIOUS
        <4>2. s[m + 1] = Append(s[(m + 1) - 1], (m + 1) - 1)
          BY <1>1, <2>3, <4>1
        <4>3. QED
          BY <4>1, <4>2
      <3>2. /\ Append(s[m], m) \in Seq(Nat) /\ Len(Append(s[m], m)) = Len(s[m]) + 1
            /\ \A i \in 1 .. Len(s[m]) : Append(s[m], m)[i] = s[m][i]
            /\ Append(s[m], m)[Len(s[m]) + 1] = m
        BY <2>1, AppendFacts
      <3>3. ASSUME NEW i \in 1 .. Len(s[m + 1])
            PROVE  s[m + 1][i] < m + 1 /\ t[s[m + 1][i] + 1] # "meta"
        <4>1. i \in 1 .. Len(s[m]) \/ i = Len(s[m]) + 1
          BY <2>1, <3>1, <3>2
        <4>2. CASE i \in 1 .. Len(s[m])
          <5>1. s[m + 1][i] = s[m][i] /\ s[m][i] \in Nat
            BY <2>1, <3>1, <3>2, <4>2
          <5>2. QED
            BY <2>1, <4>2, <5>1
        <4>3. CASE i = Len(s[m]) + 1
          BY <2>3, <3>1, <3>2, <4>3
        <4>4. QED
          BY <4>1, <4>2, <4>3
      <3>4. QED
        BY <3>1, <3>2, <3>3
    <2>4. QED
      BY <2>2, <2>3
  <1>4. Nat \subseteq S
    <2> HIDE DEF S
    <2>1. QED
      BY <1>2, <1>3, SetInduction
  <1>5. QED
    BY <1>4 DEF s

LEMMA EnumeratedAreData ==
  ASSUME NEW t, t = NoTable \/ t \in Seq({"meta", "data"}),
         NEW i \in 1 .. Len(Enumerate(t))
  PROVE  t = NoTable \/ t[Enumerate(t)[i] + 1] # "meta"
  <1>1. CASE t # NoTable
    <2>1. Enumerate(t) = Slots(t)[Len(t)] /\ Len(t) \in 0 .. Len(t)
      BY <1>1 DEF Enumerate
    <2>2. QED
      BY <1>1, <2>1, SlotsAreData
  <1>2. QED
    BY <1>1

-----------------------------------------------------------------------------
(* The command, by the stage it has reached.  What goes wrong on the way   *)
(* is in error, in warned or in a failed record; the invariant says which, *)
(* until the exit code is made of them.                                    *)

Told == faults \subseteq Unsaid \/ warned # {}
Outcome ==
  \/ rc = Failed /\ "record failed" \in faults
  \/ rc = Warning /\ warned # {}
  \/ rc = Ok /\ Told
Resolved == partition = args.partition.n /\ (table = NoTable \/ table[partition + 1] # "meta")
ShownResolved == Command # "inspect" => Resolved

TypedTable == table = NoTable \/ table \in Seq({"meta", "data"})
TypedNames == names \subseteq FileNames /\ IsFiniteSet(names)
Untouching ==
  /\ stage \in {"arguments", "reader"} => faults = {} /\ backend = "none"
  /\ stage \in {"arguments", "reader", "adapter"} => warned = {}
Quiet      == stage \notin {"exit", "ended"} => error = "" /\ ~printed /\ code = -1
Asking ==
  stage \in {"adapter", "partitions", "resolve", "filesystem", "list", "source", "extract", "discover"} =>
    Told
Enumerated == stage = "resolve" => partitions = Enumerate(table)
AtNamed    == stage \in {"filesystem", "list", "source", "extract", "catalog", "discover"} => Resolved
Branch ==
  /\ stage \in {"source", "extract", "catalog"} => Extracts(Command)
  /\ stage \in {"list", "discover"} => ~Extracts(Command)
Recorded == stage = "catalog" => Outcome
Printing == stage = "print" => (IF Extracts(Command) THEN Outcome ELSE Told) /\ ShownResolved
Leaving ==
  stage = "exit" =>
    /\ code = -1
    /\ IF error = "" THEN printed /\ Outcome /\ ShownResolved ELSE ~printed

CliInv ==
  /\ TypedTable /\ TypedNames /\ Untouching /\ Quiet /\ Asking /\ Enumerated /\ AtNamed
  /\ Branch /\ Recorded /\ Printing /\ Leaving /\ ExitTellsTheFaults
CommandInv == (driver = "worker" /\ stage = "discover") \/ (driver = "cli" /\ ~cancelled /\ CliInv)

LEMMA CommandInit == Init => CommandInv
  <1> SUFFICES ASSUME Init PROVE CommandInv
    OBVIOUS
  <1>1. CASE driver = "worker" /\ stage = "discover"
    BY <1>1 DEF CommandInv
  <1>2. CASE driver = "cli" /\ stage = "arguments"
    <2>1. PICK c \in Cases : names = c.names /\ table = c.table
      BY <1>2 DEF Init
    <2>2. TypedTable /\ TypedNames
      BY <2>1, CommandLineAssumption DEF TypedTable, TypedNames
    <2>3. Untouching /\ Quiet
      BY DEF Init, Untouching, Quiet
    <2>4. /\ Asking /\ Enumerated /\ AtNamed /\ Branch /\ Recorded /\ Printing /\ Leaving
          /\ ExitTellsTheFaults
      BY <1>2 DEF Asking, Enumerated, AtNamed, Branch, Recorded, Printing, Leaving,
                  ExitTellsTheFaults, Ended
    <2>5. ~cancelled
      BY DEF Init, DiscoveryInit
    <2>6. QED
      BY <1>2, <2>2, <2>3, <2>4, <2>5 DEF CliInv, CommandInv
  <1>3. QED
    BY <1>1, <1>2 DEF Init

(* A command keeps its line, its disk and its directory. *)
LEMMA LineKept ==
  ASSUME CliInv, NEW s, NEW next, At(s, next)
  PROVE  /\ driver' = driver /\ args' = args /\ table' = table /\ Command' = Command
         /\ stage = s /\ stage' = next
         /\ TypedTable' /\ TypedNames'
  BY DEF At, CliInv, TypedTable, TypedNames, Command

LEMMA FailKeeps ==
  ASSUME CliInv, NEW s, NEW what, Fail(s, what), what # "", s \notin {"exit", "ended"}
  PROVE  CliInv'
  <1>1. /\ TypedTable' /\ TypedNames' /\ stage = s /\ stage' = "exit"
    BY LineKept DEF Fail
  <1>2. error' = what /\ printed' = printed /\ code' = code
    BY DEF Fail
  <1>3. ~printed /\ code = -1
    BY <1>1 DEF CliInv, Quiet
  <1>4. Leaving'
    BY <1>2, <1>3 DEF Leaving
  <1>5. /\ Untouching' /\ Quiet' /\ Asking' /\ Enumerated' /\ AtNamed' /\ Branch' /\ Recorded'
        /\ Printing' /\ ExitTellsTheFaults'
    BY <1>1 DEF Untouching, Quiet, Asking, Enumerated, AtNamed, Branch, Recorded, Printing,
                ExitTellsTheFaults, Ended
  <1>6. QED
    BY <1>1, <1>4, <1>5 DEF CliInv

LEMMA ReadArgumentsKeeps ==
  ASSUME CliInv, ReadArguments
  PROVE  CliInv'
  <1>1. PICK next \in {"ended", "reader"} : At("arguments", next)
    BY DEF ReadArguments
  <1>2. /\ TypedTable' /\ TypedNames' /\ stage = "arguments" /\ stage' = next /\ args' = args
    BY <1>1, LineKept
  <1>3. /\ faults = {} /\ warned = {} /\ backend = "none" /\ error = "" /\ ~printed /\ code = -1
    BY <1>2 DEF CliInv, Untouching, Quiet
  <1>4. /\ backend' = backend /\ warned' = warned /\ printed' = printed /\ faults' = faults
    BY DEF ReadArguments, KeepImage
  <1>5. CASE next = "reader"
    <2>1. code' = code /\ error' = error
      BY <1>2, <1>5 DEF ReadArguments, At
    <2>2. Untouching' /\ Quiet'
      BY <1>3, <1>4, <2>1 DEF Untouching, Quiet
    <2>3. /\ Asking' /\ Enumerated' /\ AtNamed' /\ Branch' /\ Recorded'
          /\ Printing' /\ Leaving' /\ ExitTellsTheFaults'
      BY <1>2, <1>5 DEF Asking, Enumerated, AtNamed, Branch, Recorded, Printing, Leaving,
                        ExitTellsTheFaults, Ended
    <2>4. QED
      BY <1>2, <2>2, <2>3 DEF CliInv
  <1>6. CASE next = "ended"
    <2>1. /\ code' = (IF args.help THEN Ok ELSE Usage)
          /\ error' = "" \/ ~args.help
      BY <1>2, <1>6 DEF ReadArguments, At
    <2>2. ExitTellsTheFaults'
      <3>1. ~printed' /\ backend' = "none" /\ warned' = {} /\ faults' = {} /\ args' = args
        BY <1>2, <1>3, <1>4
      <3>2. CASE args.help
        <4>1. code' = Ok /\ error' = ""
          BY <2>1, <3>2
        <4>2. Ok # Usage /\ Ok # Warning /\ Ok # Failed
          BY DEF Ok, Usage, Failed, Warning
        <4>3. QED
          BY <3>1, <3>2, <4>1, <4>2 DEF ExitTellsTheFaults
      <3>3. CASE ~args.help
        <4>1. code' = Usage
          BY <2>1, <3>3
        <4>2. Usage # Ok /\ Usage # Warning /\ Usage # Failed
          BY DEF Ok, Usage, Failed, Warning
        <4>3. QED
          BY <3>1, <4>1, <4>2 DEF ExitTellsTheFaults
      <3>4. QED
        BY <3>2, <3>3
    <2>3. /\ Untouching' /\ Quiet' /\ Asking' /\ Enumerated' /\ AtNamed' /\ Branch' /\ Recorded'
          /\ Printing' /\ Leaving'
      BY <1>2, <1>6 DEF Untouching, Quiet, Asking, Enumerated, AtNamed, Branch, Recorded, Printing,
                        Leaving
    <2>4. QED
      BY <1>2, <2>2, <2>3 DEF CliInv
  <1>7. QED
    BY <1>5, <1>6

LEMMA OpenReaderKeeps ==
  ASSUME CliInv, OpenReader
  PROVE  CliInv'
  <1>1. CASE Fail("reader", "reader open")
    BY <1>1, FailKeeps
  <1>2. CASE ~Fail("reader", "reader open")
    <2>1. /\ At("reader", "adapter") /\ KeepImage /\ KeepEnd
          /\ faults' = faults \/ faults' = faults \union {"segment gap"}
          /\ error' = error /\ warned' = warned
      BY <1>2 DEF OpenReader
    <2>2. /\ TypedTable' /\ TypedNames' /\ stage = "reader" /\ stage' = "adapter"
      BY <2>1, LineKept
    <2>3. faults = {} /\ warned = {} /\ error = "" /\ ~printed /\ code = -1
      BY <2>2 DEF CliInv, Untouching, Quiet
    <2>4. Untouching' /\ Quiet' /\ Asking'
      <3>1. {"segment gap"} \subseteq Unsaid
        BY Zenon DEF Unsaid
      <3>2. faults' \subseteq Unsaid
        BY <2>1, <2>3, <3>1
      <3>3. Told'
        BY <3>2 DEF Told
      <3>4. Untouching' /\ Quiet'
        BY <2>1, <2>2, <2>3 DEF Untouching, Quiet, KeepEnd
      <3>5. QED
        BY <3>3, <3>4 DEF Asking
    <2>5. /\ Enumerated' /\ AtNamed' /\ Branch' /\ Recorded'
          /\ Printing' /\ Leaving' /\ ExitTellsTheFaults'
      BY <2>2 DEF Enumerated, AtNamed, Branch, Recorded, Printing, Leaving,
                  ExitTellsTheFaults, Ended
    <2>6. QED
      BY <2>2, <2>4, <2>5 DEF CliInv
  <1>3. QED
    BY <1>1, <1>2

(* What libtsk refuses is an error or, behind the fallback, a warning. *)
LEMMA OpenedFields ==
  ASSUME NEW b, NEW w
  PROVE  OpenedBy(b, w).ok = TRUE /\ OpenedBy(b, w).error = {} /\ OpenedBy(b, w).warning = w
  BY DEF OpenedBy

LEMMA NotOpenedFields ==
  ASSUME NEW e
  PROVE  NotOpened(e).ok = FALSE /\ NotOpened(e).error = e
  BY DEF NotOpened

LEMMA AdapterTells ==
  ASSUME NEW bridge \in BOOLEAN, NEW path \in BOOLEAN, NEW fallback
  PROVE  LET opened == OpenAdapter(TRUE, bridge, path, fallback)
         IN  \/ opened.ok = TRUE /\ opened.error = {} /\ (bridge \/ opened.warning # {})
             \/ opened.ok = FALSE /\ opened.error # {}
  <1> DEFINE opened == OpenAdapter(TRUE, bridge, path, fallback)
             Tells == \/ opened.ok = TRUE /\ opened.error = {} /\ (bridge \/ opened.warning # {})
                      \/ opened.ok = FALSE /\ opened.error # {}
  <1>1. \/ bridge /\ opened = OpenedBy("ReaderBridge", {})
        \/ opened = OpenedBy("PathBased", {"bridge"})
        \/ opened = NotOpened({"bridge"})
        \/ opened = NotOpened({"bridge", "path"})
    BY DEF OpenAdapter, FallenBack
  <1> HIDE DEF opened
  <1>2. ASSUME bridge, opened = OpenedBy("ReaderBridge", {}) PROVE Tells
    BY <1>2, OpenedFields
  <1>3. ASSUME opened = OpenedBy("PathBased", {"bridge"}) PROVE Tells
    <2>1. opened.warning = {"bridge"}
      BY <1>3, OpenedFields
    <2>2. QED
      BY <1>3, <2>1, OpenedFields
  <1>4. ASSUME opened = NotOpened({"bridge"}) PROVE Tells
    <2>1. opened.error = {"bridge"}
      BY <1>4, NotOpenedFields
    <2>2. QED
      BY <1>4, <2>1, NotOpenedFields
  <1>5. ASSUME opened = NotOpened({"bridge", "path"}) PROVE Tells
    <2>1. opened.error = {"bridge", "path"}
      BY <1>5, NotOpenedFields
    <2>2. QED
      BY <1>5, <2>1, NotOpenedFields
  <1>6. QED
    BY <1>1, <1>2, <1>3, <1>4, <1>5 DEF opened

LEMMA OpenImageKeeps ==
  ASSUME CliInv, OpenImage
  PROVE  CliInv'
  <1>1. PICK bridge \in BOOLEAN, path \in BOOLEAN :
          LET opened == OpenAdapter(TRUE, bridge, path, args.fallback) IN
          /\ At("adapter", IF opened.ok THEN "partitions" ELSE "exit")
          /\ warned' = (IF opened.warning = {} THEN {} ELSE {"path fallback"})
          /\ error' = (IF opened.error = {} THEN "" ELSE "adapter open")
          /\ faults' = (IF bridge THEN faults ELSE faults \union {"bridge"})
          /\ KeepEnd
    BY DEF OpenImage
  <1> DEFINE opened == OpenAdapter(TRUE, bridge, path, args.fallback)
  <1>2. \/ opened.ok = TRUE /\ opened.error = {} /\ (bridge \/ opened.warning # {})
        \/ opened.ok = FALSE /\ opened.error # {}
    BY AdapterTells
  <1>3. /\ At("adapter", IF opened.ok THEN "partitions" ELSE "exit")
        /\ warned' = (IF opened.warning = {} THEN {} ELSE {"path fallback"})
        /\ error' = (IF opened.error = {} THEN "" ELSE "adapter open")
        /\ faults' = (IF bridge THEN faults ELSE faults \union {"bridge"})
        /\ printed' = printed /\ code' = code
    BY <1>1 DEF KeepEnd
  <1> HIDE DEF opened
  <1>4. /\ TypedTable' /\ TypedNames' /\ stage = "adapter"
        /\ stage' = IF opened.ok THEN "partitions" ELSE "exit"
    <2> DEFINE next == IF opened.ok THEN "partitions" ELSE "exit"
    <2>1. At("adapter", next)
      BY <1>3
    <2> HIDE DEF next
    <2>2. TypedTable' /\ TypedNames' /\ stage = "adapter" /\ stage' = next
      BY <2>1, LineKept
    <2>3. QED
      BY <2>2 DEF next
  <1>5. error = "" /\ ~printed /\ code = -1 /\ warned = {} /\ Told
    BY <1>4 DEF CliInv, Quiet, Untouching, Asking
  <1>6. CASE opened.ok
    <2>1. Quiet'
      BY <1>2, <1>3, <1>5, <1>6 DEF Quiet
    <2>2. Asking'
      <3>1. CASE opened.warning # {}
        BY <1>3, <3>1 DEF Asking, Told
      <3>2. CASE opened.warning = {}
        <4>1. faults' = faults
          BY <1>2, <1>3, <1>6, <3>2
        <4>2. QED
          BY <1>5, <4>1 DEF Asking, Told
      <3>3. QED
        BY <3>1, <3>2
    <2>3. /\ Untouching' /\ Enumerated' /\ AtNamed' /\ Branch' /\ Recorded'
          /\ Printing' /\ Leaving' /\ ExitTellsTheFaults'
      BY <1>4, <1>6 DEF Untouching, Enumerated, AtNamed, Branch, Recorded, Printing, Leaving,
                        ExitTellsTheFaults, Ended
    <2>4. QED
      BY <1>4, <2>1, <2>2, <2>3 DEF CliInv
  <1>7. CASE ~opened.ok
    <2>1. Leaving'
      BY <1>2, <1>3, <1>5, <1>7 DEF Leaving
    <2>2. /\ Untouching' /\ Quiet' /\ Asking' /\ Enumerated' /\ AtNamed' /\ Branch' /\ Recorded'
          /\ Printing' /\ ExitTellsTheFaults'
      BY <1>4, <1>7 DEF Untouching, Quiet, Asking, Enumerated, AtNamed, Branch, Recorded, Printing,
                        ExitTellsTheFaults, Ended
    <2>3. QED
      BY <1>4, <2>1, <2>2 DEF CliInv
  <1>8. QED
    BY <1>6, <1>7

LEMMA LoadPartitionsKeeps ==
  ASSUME CliInv, LoadPartitions
  PROVE  CliInv'
  <1>1. CASE Fail("partitions", "no partitions")
    BY <1>1, FailKeeps
  <1>2. CASE ~Fail("partitions", "no partitions")
    <2>1. /\ At("partitions", IF Command = "inspect" THEN "print" ELSE "resolve")
          /\ partitions' = Enumerate(table) /\ KeepEnd
          /\ error' = error /\ warned' = warned /\ faults' = faults
      BY <1>2 DEF LoadPartitions
    <2>2. PICK next \in {"print", "resolve"} :
            /\ At("partitions", next)
            /\ next = "print" => Command = "inspect"
      BY <2>1
    <2>3. /\ TypedTable' /\ TypedNames' /\ stage = "partitions" /\ stage' = next
          /\ table' = table /\ Command' = Command
      BY <2>2, LineKept
    <2>4. error = "" /\ ~printed /\ code = -1 /\ Told
      BY <2>3 DEF CliInv, Quiet, Asking
    <2>5. Quiet' /\ Asking' /\ Enumerated'
      <3>1. Quiet' /\ Asking'
        BY <2>1, <2>3, <2>4 DEF Quiet, Asking, Told, KeepEnd
      <3>2. Enumerated'
        BY <2>1, <2>3 DEF Enumerated
      <3>3. QED
        BY <3>1, <3>2
    <2>6. Printing'
      <3>1. Told'
        BY <2>1, <2>4 DEF Told
      <3>2. next = "print" => ~Extracts(Command)' /\ ShownResolved'
        BY <2>2, <2>3 DEF Extracts, ShownResolved
      <3>3. QED
        BY <2>3, <3>1, <3>2 DEF Printing
    <2>7. Untouching' /\ AtNamed' /\ Branch' /\ Recorded' /\ Leaving' /\ ExitTellsTheFaults'
      BY <2>3 DEF Untouching, AtNamed, Branch, Recorded, Leaving, ExitTellsTheFaults, Ended
    <2>8. QED
      BY <2>3, <2>5, <2>6, <2>7 DEF CliInv
  <1>3. QED
    BY <1>1, <1>2

LEMMA FindPartitionKeeps ==
  ASSUME CliInv, FindPartition
  PROVE  CliInv'
  <1>1. CASE Fail("resolve", "unknown partition")
    BY <1>1, FailKeeps
  <1>2. CASE ~Fail("resolve", "unknown partition")
    <2> DEFINE p == ResolvePartition(args.partition, partitions)
    <2>1. /\ At("resolve", "filesystem") /\ p # -1 /\ partition' = p /\ KeepEnd
          /\ error' = error /\ warned' = warned /\ faults' = faults
      BY <1>2 DEF FindPartition
    <2>2. /\ TypedTable' /\ TypedNames' /\ stage = "resolve" /\ stage' = "filesystem"
          /\ table' = table /\ args' = args
      BY <2>1, LineKept
    <2>3. /\ error = "" /\ ~printed /\ code = -1 /\ Told /\ partitions = Enumerate(table)
          /\ TypedTable
      BY <2>2 DEF CliInv, Quiet, Asking, Enumerated
    <2>4. p = args.partition.n /\ \E i \in 1 .. Len(partitions) : partitions[i] = args.partition.n
      BY <2>1 DEF ResolvePartition
    <2>5. table = NoTable \/ table[p + 1] # "meta"
      <3>1. PICK i \in 1 .. Len(partitions) : partitions[i] = p
        BY <2>4
      <3> HIDE DEF p
      <3>2. QED
        BY <2>3, <3>1, EnumeratedAreData DEF TypedTable
    <2>6. AtNamed'
      BY <2>1, <2>2, <2>4, <2>5 DEF AtNamed, Resolved
    <2>7. Quiet' /\ Asking'
      BY <2>1, <2>2, <2>3 DEF Quiet, Asking, Told, KeepEnd
    <2>8. /\ Untouching' /\ Enumerated' /\ Branch' /\ Recorded' /\ Printing' /\ Leaving'
          /\ ExitTellsTheFaults'
      BY <2>2 DEF Untouching, Enumerated, Branch, Recorded, Printing, Leaving,
                  ExitTellsTheFaults, Ended
    <2>9. QED
      BY <2>2, <2>6, <2>7, <2>8 DEF CliInv
  <1>3. QED
    BY <1>1, <1>2

(* A step between two questions: nothing happens to what is told. *)
LEMMA QuestionKeeps ==
  ASSUME CliInv, NEW s \in {"filesystem", "source"}, NEW next \in {"list", "source", "discover", "extract"},
         At(s, next), KeepImage, KeepEnd, UNCHANGED <<error, warned, faults>>,
         next \in {"source", "extract"} <=> Extracts(Command)
  PROVE  CliInv'
  <1>1. /\ TypedTable' /\ TypedNames' /\ stage = s /\ stage' = next
        /\ table' = table /\ args' = args /\ Command' = Command
    BY LineKept
  <1>2. error = "" /\ ~printed /\ code = -1 /\ Told /\ Resolved
    BY <1>1 DEF CliInv, Quiet, Asking, AtNamed
  <1>3. error' = "" /\ ~printed' /\ code' = -1 /\ Told' /\ Resolved'
    BY <1>1, <1>2 DEF Told, Resolved, KeepImage, KeepEnd
  <1>4. Quiet' /\ Asking' /\ AtNamed'
    BY <1>3 DEF Quiet, Asking, AtNamed
  <1>5. Branch'
    BY <1>1 DEF Branch
  <1>6. /\ Untouching' /\ Enumerated' /\ Recorded' /\ Printing' /\ Leaving'
        /\ ExitTellsTheFaults'
    BY <1>1 DEF Untouching, Enumerated, Recorded, Printing, Leaving, ExitTellsTheFaults, Ended
  <1>7. QED
    BY <1>1, <1>4, <1>5, <1>6 DEF CliInv

LEMMA OpenFileSystemKeeps ==
  ASSUME CliInv, OpenFileSystem
  PROVE  CliInv'
  <1>1. CASE Fail("filesystem", "filesystem open")
    BY <1>1, FailKeeps
  <1>2. CASE ~Fail("filesystem", "filesystem open")
    <2>1. At("filesystem", AfterOpen) /\ KeepImage /\ KeepEnd /\ UNCHANGED <<error, warned, faults>>
      BY <1>2 DEF OpenFileSystem
    <2>2. /\ AfterOpen \in {"list", "source", "discover", "extract"}
          /\ AfterOpen \in {"source", "extract"} <=> Extracts(Command)
      BY DEF AfterOpen, Extracts
    <2>3. QED
      BY <2>1, <2>2, QuestionKeeps
  <1>3. QED
    BY <1>1, <1>2

LEMMA ResolveEntryKeeps ==
  ASSUME CliInv, ResolveEntry
  PROVE  CliInv'
  <1>1. ASSUME NEW what \in {"listing", "source not found"}, Fail("source", what) PROVE CliInv'
    BY <1>1, FailKeeps
  <1>2. CASE At("source", "extract") /\ KeepImage /\ KeepEnd /\ UNCHANGED <<error, warned, faults>>
    <2>1. Extracts(Command)
      BY <1>2, LineKept DEF CliInv, Branch
    <2>2. QED
      BY <1>2, <2>1, QuestionKeeps
  <1>3. QED
    BY <1>1, <1>2 DEF ResolveEntry

(* A command that extracts nothing goes to its payload as it is. *)
LEMMA PayloadKeeps ==
  ASSUME CliInv, NEW s \in {"list", "discover"}, At(s, "print"), KeepImage, KeepEnd,
         error' = error, Told'
  PROVE  CliInv'
  <1>1. /\ TypedTable' /\ TypedNames' /\ stage = s /\ stage' = "print"
        /\ table' = table /\ args' = args /\ Command' = Command
    BY LineKept
  <1>2. error = "" /\ ~printed /\ code = -1 /\ Resolved /\ ~Extracts(Command)
    BY <1>1 DEF CliInv, Quiet, AtNamed, Branch
  <1>3. Quiet'
    BY <1>2 DEF Quiet, KeepEnd
  <1>4. Printing'
    BY <1>1, <1>2 DEF Printing, ShownResolved, Resolved, KeepImage
  <1>5. /\ Untouching' /\ Asking' /\ Enumerated' /\ AtNamed' /\ Branch' /\ Recorded' /\ Leaving'
        /\ ExitTellsTheFaults'
    BY <1>1 DEF Untouching, Asking, Enumerated, AtNamed, Branch, Recorded, Leaving,
                ExitTellsTheFaults, Ended
  <1>6. QED
    BY <1>1, <1>3, <1>4, <1>5 DEF CliInv

LEMMA ListDirectoryKeeps ==
  ASSUME CliInv, ListDirectory
  PROVE  CliInv'
  <1>1. CASE Fail("list", "listing")
    BY <1>1, FailKeeps
  <1>2. CASE ~Fail("list", "listing")
    <2>1. At("list", "print") /\ KeepImage /\ KeepEnd /\ UNCHANGED <<error, warned, faults>>
      BY <1>2 DEF ListDirectory
    <2>2. Told'
      BY <2>1, LineKept DEF CliInv, Asking, Told
    <2>3. QED
      BY <2>1, <2>2, PayloadKeeps
  <1>3. QED
    BY <1>1, <1>2

(* A discovery that warns of nothing met nothing but targets it could not  *)
(* look into.                                                              *)
LEMMA SilentDiscovery ==
  ASSUME FailedFoldersWarned, pc = "done", ~cancelled, DiscoveryWarnings = {}
  PROVE  DiscoveryFaults \subseteq Unsaid
  <1>1. warnings = <<>>
    BY DEF DiscoveryWarnings
  <1>2. Elements(warnings) = {}
    BY <1>1 DEF Elements
  <1>3. Unread = {} /\ Readable(<<"Users">>)
    BY <1>2 DEF FailedFoldersWarned
  <1>4. QED
    BY <1>3 DEF DiscoveryFaults, Unsaid

LEMMA DescribeKeeps ==
  ASSUME CliInv, Describe, FailedFoldersWarned, ~cancelled
  PROVE  CliInv'
  <1>1. /\ At("discover", "print") /\ KeepImage /\ KeepEnd /\ error' = error
    BY DEF Describe
  <1>2. PICK parseFails \in BOOLEAN :
          /\ warned' = warned \union DiscoveryWarnings \union (IF parseFails THEN {"details"} ELSE {})
          /\ faults' = faults \union DiscoveryFaults \union (IF parseFails THEN {"parse failed"} ELSE {})
    BY DEF Describe
  <1>3. Told
    BY <1>1, LineKept DEF CliInv, Asking
  <1>4. Told'
    <2>1. CASE parseFails \/ DiscoveryWarnings # {} \/ warned # {}
      BY <1>2, <2>1 DEF Told
    <2>2. CASE ~parseFails /\ DiscoveryWarnings = {} /\ warned = {}
      <3>1. faults' = faults \union DiscoveryFaults /\ faults \subseteq Unsaid
        BY <1>2, <1>3, <2>2 DEF Told
      <3>2. DiscoveryFaults \subseteq Unsaid
        BY <2>2, SilentDiscovery DEF Describe
      <3>3. QED
        BY <3>1, <3>2 DEF Told
    <2>3. QED
      BY <2>1, <2>2
  <1>5. QED
    BY <1>1, <1>4, PayloadKeeps

LEMMA ExtractKeeps ==
  ASSUME CliInv, Extract
  PROVE  CliInv'
  <1>1. CASE Fail("extract", "extraction")
    BY <1>1, FailKeeps
  <1>2. CASE ~Fail("extract", "extraction")
    <2>1. PICK failed \in BOOLEAN, warns \in BOOLEAN :
            /\ At("extract", IF Command = "catalog" THEN "catalog" ELSE "print")
            /\ rc' = (IF failed THEN Failed ELSE IF warns THEN Warning ELSE Ok)
            /\ warned' = (IF warns THEN warned \union {"record"} ELSE warned)
            /\ faults' = faults \union (IF failed THEN {"record failed"} ELSE {})
                                \union (IF warns THEN {"record warns"} ELSE {})
            /\ KeepImage /\ UNCHANGED <<error, printed, catalogued, code>>
      BY <1>2 DEF Extract
    <2>2. PICK next \in {"catalog", "print"} : At("extract", next)
      BY <2>1
    <2>3. /\ TypedTable' /\ TypedNames' /\ stage = "extract" /\ stage' = next
          /\ table' = table /\ args' = args /\ Command' = Command
      BY <2>2, LineKept
    <2>4. error = "" /\ ~printed /\ code = -1 /\ Told /\ Resolved /\ Extracts(Command)
      BY <2>3 DEF CliInv, Quiet, Asking, AtNamed, Branch
    <2>5. Outcome'
      <3>1. CASE failed
        BY <2>1, <3>1 DEF Outcome
      <3>2. CASE ~failed /\ warns
        BY <2>1, <3>2 DEF Outcome
      <3>3. CASE ~failed /\ ~warns
        <4>1. rc' = Ok /\ faults' = faults /\ warned' = warned
          BY <2>1, <3>3
        <4>2. QED
          BY <2>4, <4>1 DEF Outcome, Told
      <3>4. QED
        BY <3>1, <3>2, <3>3
    <2>6. Resolved' /\ ShownResolved'
      BY <2>1, <2>3, <2>4 DEF Resolved, ShownResolved, KeepImage
    <2>7. Quiet' /\ AtNamed' /\ Branch' /\ Recorded' /\ Printing'
      BY <2>1, <2>3, <2>4, <2>5, <2>6 DEF Quiet, AtNamed, Branch, Recorded, Printing
    <2>8. Untouching' /\ Asking' /\ Enumerated' /\ Leaving' /\ ExitTellsTheFaults'
      BY <2>3 DEF Untouching, Asking, Enumerated, Leaving, ExitTellsTheFaults, Ended
    <2>9. QED
      BY <2>3, <2>7, <2>8 DEF CliInv
  <1>3. QED
    BY <1>1, <1>2

LEMMA WriteCatalogKeeps ==
  ASSUME CliInv, WriteCatalog
  PROVE  CliInv'
  <1>1. CASE Fail("catalog", "catalog write")
    BY <1>1, FailKeeps
  <1>2. CASE ~Fail("catalog", "catalog write")
    <2>1. /\ At("catalog", "print") /\ KeepImage
          /\ UNCHANGED <<error, warned, rc, printed, code, faults>>
      BY <1>2 DEF WriteCatalog
    <2>2. /\ TypedTable' /\ TypedNames' /\ stage = "catalog" /\ stage' = "print"
          /\ table' = table /\ args' = args /\ Command' = Command
      BY <2>1, LineKept
    <2>3. error = "" /\ ~printed /\ code = -1 /\ Outcome /\ Resolved /\ Extracts(Command)
      BY <2>2 DEF CliInv, Quiet, AtNamed, Branch, Recorded
    <2>4. Outcome' /\ Resolved'
      BY <2>1, <2>2, <2>3 DEF Outcome, Told, Resolved, KeepImage
    <2>5. Quiet' /\ Printing'
      BY <2>1, <2>2, <2>3, <2>4 DEF Quiet, Printing, ShownResolved
    <2>6. /\ Untouching' /\ Asking' /\ Enumerated' /\ AtNamed' /\ Branch' /\ Recorded' /\ Leaving'
          /\ ExitTellsTheFaults'
      BY <2>2 DEF Untouching, Asking, Enumerated, AtNamed, Branch, Recorded, Leaving,
                  ExitTellsTheFaults, Ended
    <2>7. QED
      BY <2>2, <2>5, <2>6 DEF CliInv
  <1>3. QED
    BY <1>1, <1>2

LEMMA PrintPayloadKeeps ==
  ASSUME CliInv, PrintPayload
  PROVE  CliInv'
  <1>1. /\ At("print", "exit") /\ printed' = TRUE
        /\ rc' = (IF Extracts(Command) THEN rc ELSE Ok)
        /\ KeepImage /\ UNCHANGED <<error, warned, code, faults>>
    BY DEF PrintPayload
  <1>2. /\ TypedTable' /\ TypedNames' /\ stage = "print" /\ stage' = "exit"
        /\ table' = table /\ args' = args /\ Command' = Command
    BY <1>1, LineKept
  <1>3. /\ error = "" /\ code = -1 /\ ShownResolved
        /\ IF Extracts(Command) THEN Outcome ELSE Told
    BY <1>2 DEF CliInv, Quiet, Printing
  <1>4. Outcome'
    <2>1. Told => Told'
      BY <1>1 DEF Told
    <2>2. CASE Extracts(Command)
      BY <1>1, <1>3, <2>1, <2>2 DEF Outcome
    <2>3. CASE ~Extracts(Command)
      BY <1>1, <1>3, <2>1, <2>3 DEF Outcome
    <2>4. QED
      BY <2>2, <2>3
  <1>5. ShownResolved'
    BY <1>1, <1>2, <1>3 DEF ShownResolved, Resolved, KeepImage
  <1>6. Leaving'
    BY <1>1, <1>3, <1>4, <1>5 DEF Leaving
  <1>7. /\ Untouching' /\ Quiet' /\ Asking' /\ Enumerated' /\ AtNamed' /\ Branch' /\ Recorded'
        /\ Printing' /\ ExitTellsTheFaults'
    BY <1>2 DEF Untouching, Quiet, Asking, Enumerated, AtNamed, Branch, Recorded, Printing,
                ExitTellsTheFaults, Ended
  <1>8. QED
    BY <1>2, <1>6, <1>7 DEF CliInv

LEMMA ExitKeeps ==
  ASSUME CliInv, Exit
  PROVE  CliInv'
  <1>1. /\ At("exit", "ended") /\ code' = ExitCode
        /\ KeepImage /\ UNCHANGED <<error, warned, rc, printed, faults>>
    BY DEF Exit
  <1>2. /\ TypedTable' /\ TypedNames' /\ stage = "exit" /\ stage' = "ended"
        /\ table' = table /\ args' = args /\ Command' = Command
    BY <1>1, LineKept
  <1>3. IF error = "" THEN printed /\ Outcome /\ ShownResolved ELSE ~printed
    BY <1>2 DEF CliInv, Leaving
  <1>4. Ok # Failed /\ Ok # Warning /\ Failed # Warning /\ Usage \notin {Ok, Failed, Warning}
    BY DEF Ok, Failed, Warning, Usage
  <1>5. ExitTellsTheFaults'
    <2>1. CASE error # ""
      <3>1. code' = Failed /\ error' # "" /\ ~printed'
        BY <1>1, <1>3, <2>1 DEF ExitCode
      <3>2. QED
        BY <1>4, <3>1 DEF ExitTellsTheFaults
    <2>2. CASE error = ""
      <3>1. /\ printed' /\ error' = ""
            /\ code' = IF rc = Ok /\ warned # {} THEN Warning ELSE rc
        BY <1>1, <1>3, <2>2 DEF ExitCode
      <3>2. \/ code' = Failed /\ "record failed" \in faults'
            \/ code' = Warning /\ warned' # {}
            \/ code' = Ok /\ warned' = {} /\ faults' \subseteq Unsaid
        BY <1>1, <1>3, <1>4, <2>2, <3>1 DEF Outcome, Told
      <3>3. ShownResolved'
        BY <1>1, <1>2, <1>3, <2>2 DEF ShownResolved, Resolved, KeepImage
      <3>4. QED
        BY <1>4, <3>1, <3>2, <3>3 DEF ExitTellsTheFaults, ShownResolved, Resolved
    <2>3. QED
      BY <2>1, <2>2
  <1>6. /\ Untouching' /\ Quiet' /\ Asking' /\ Enumerated' /\ AtNamed' /\ Branch' /\ Recorded'
        /\ Printing' /\ Leaving'
    BY <1>2 DEF Untouching, Quiet, Asking, Enumerated, AtNamed, Branch, Recorded, Printing, Leaving
  <1>7. QED
    BY <1>2, <1>5, <1>6 DEF CliInv

LEMMA CommandStep == CommandInv /\ FailedFoldersWarned /\ [Next]_vars => CommandInv'
  <1> SUFFICES ASSUME CommandInv, FailedFoldersWarned, [Next]_vars PROVE CommandInv'
    OBVIOUS
  <1>1. CASE Main
    <2>1. driver = "cli" /\ ~cancelled /\ CliInv
      BY <1>1 DEF Main, CommandInv
    <2>2. CliInv'
      BY <1>1, <2>1, ReadArgumentsKeeps, OpenReaderKeeps, OpenImageKeeps, LoadPartitionsKeeps,
         FindPartitionKeeps, OpenFileSystemKeeps, ListDirectoryKeeps, ResolveEntryKeeps, ExtractKeeps,
         WriteCatalogKeeps, DescribeKeeps, PrintPayloadKeeps, ExitKeeps DEF Main
    <2>3. driver' = driver
      BY <1>1 DEF Main, ReadArguments, OpenReader, OpenImage, LoadPartitions, FindPartition,
                  OpenFileSystem, ListDirectory, ResolveEntry, Extract, WriteCatalog, Describe,
                  PrintPayload, Exit, Fail, At
    <2>4. ~cancelled'
      BY <1>1, <2>1, MainKeepsDiscovery DEF discoveryVars
    <2>5. QED
      BY <2>1, <2>2, <2>3, <2>4 DEF CommandInv
  <1>2. CASE UNCHANGED commandVars /\ (driver = "cli" => cancelled' = cancelled)
    BY <1>2 DEF commandVars, CommandInv, CliInv, TypedTable, TypedNames, Untouching, Quiet, Asking,
                Enumerated, AtNamed, Branch, Recorded, Printing, Leaving, Told, Outcome, Resolved,
                ShownResolved, Command, ExitTellsTheFaults, Ended
  <1>3. CASE Walking
    BY <1>2, <1>3 DEF Walking, Discover, FindProfiles, LookUp, AppendRecord, RulesDone, BeginWalk,
                      PopFolder, VisitEntry, Return
  <1>4. CASE Cancel
    BY <1>2, <1>4 DEF Cancel
  <1>5. CASE UNCHANGED vars
    BY <1>2, <1>5 DEF vars, discoveryVars
  <1>6. QED
    BY <1>1, <1>3, <1>4, <1>5 DEF Next

LEMMA CommandInvariance == Spec => []CommandInv
  BY CommandInit, CommandStep, DiscoveryFailedFoldersWarned, PTL DEF Spec

(* Whatever the disk does, the exit code of a command tells what went      *)
(* wrong: 0 only after no fault but a segment gap or a target or root that *)
(* could not be listed, 2 only with a payload and a warning, 1 only with   *)
(* an error or a failed record; and what is printed is of the partition    *)
(* that was named (main, resolvePartition).  That every other folder that  *)
(* fails costs the 0 rests on DiscoveryFailedFoldersWarned.                *)
THEOREM CommandExitTellsTheFaults == Spec => []ExitTellsTheFaults
  <1>1. CommandInv => ExitTellsTheFaults
    BY DEF CommandInv, CliInv, ExitTellsTheFaults, Ended
  <1>2. QED
    BY <1>1, CommandInvariance, PTL

-----------------------------------------------------------------------------
(* The segment files of an image. *)

(* Names of one set are ordered by number and spelling, without ties. *)
LEMMA BeforeIsAnOrder ==
  ASSUME NEW a \in FileNames, NEW b \in FileNames, NEW c \in FileNames,
         SameSet(a, b)
  PROVE  /\ a = b \/ Before(a, b) \/ Before(b, a)
         /\ ~Before(a, a)
         /\ Before(a, b) /\ Before(b, c) => Before(a, c)
         /\ Before(a, b) => a.index <= b.index
  <1>1. \A n \in FileNames : n.index \in Int /\ n.spelling \in Int
    BY DEF FileNames
  <1>2. ASSUME a.index = b.index, a.spelling = b.spelling PROVE a = b
    <2>1. \A n \in FileNames :
            n = [base |-> n.base, family |-> n.family, index |-> n.index, spelling |-> n.spelling]
      BY DEF FileNames
    <2>2. QED
      BY <1>2, <2>1 DEF SameSet
  <1>3. QED
    BY <1>1, <1>2 DEF Before

(* Sorting the files of a set lists each of them once, in order. *)
LEMMA InOrderLists ==
  ASSUME NEW F \in SUBSET FileNames, IsFiniteSet(F), \A a, b \in F : SameSet(a, b)
  PROVE  LET s == InOrder(F) n == Cardinality(F)
         IN  /\ n \in Nat /\ s \in [1 .. n -> F]
             /\ \A i, j \in 1 .. n : i < j => Before(s[i], s[j])
             /\ \A f \in F : \E i \in 1 .. n : s[i] = f
  <1> DEFINE s == InOrder(F)
             n == Cardinality(F)
             R == {p \in F \X F : Before(p[1], p[2])}
  <1>1. n \in Nat
    BY FS_CardinalityType
  <1>2. \A a, b \in F : <<a, b>> \in R <=> Before(a, b)
    OBVIOUS
  <1>3. \A a, b \in F : a = b \/ <<a, b>> \in R \/ <<b, a>> \in R
    BY <1>2, BeforeIsAnOrder
  <1>4. \A a, b, c \in F : <<a, b>> \in R /\ <<b, c>> \in R => <<a, c>> \in R
    BY <1>2, BeforeIsAnOrder
  <1> HIDE DEF R
  <1>5. \E t \in [1 .. n -> F] : \A i, j \in 1 .. n : i < j => <<t[i], t[j]>> \in R
    BY <1>3, <1>4, FiniteSetInOrder
  <1>6. \E t \in [1 .. n -> F] : \A i, j \in DOMAIN t : i < j => Before(t[i], t[j])
    <2> HIDE DEF n
    <2>1. PICK t \in [1 .. n -> F] : \A i, j \in 1 .. n : i < j => <<t[i], t[j]>> \in R
      BY <1>5
    <2>2. \A i, j \in DOMAIN t : i < j => Before(t[i], t[j])
      BY <1>2, <2>1
    <2>3. QED
      BY <2>1, <2>2
  <1>7. s \in [1 .. n -> F] /\ \A i, j \in DOMAIN s : i < j => Before(s[i], s[j])
    <2> DEFINE P(t) == \A i, j \in DOMAIN t : i < j => Before(t[i], t[j])
    <2>1. s = CHOOSE t \in [1 .. n -> F] : P(t)
      BY DEF InOrder
    <2>2. \E t \in [1 .. n -> F] : P(t)
      BY <1>6
    <2> HIDE DEF n, s, P
    <2>3. s \in [1 .. n -> F] /\ P(s)
      BY <2>1, <2>2
    <2>4. QED
      BY <2>3 DEF P
  <1> HIDE DEF s, n
  <1>8. \A i, j \in 1 .. n : i < j => Before(s[i], s[j])
    BY <1>7
  <1>9. \A i, j \in 1 .. n : s[i] = s[j] => i = j
    <2> SUFFICES ASSUME NEW i \in 1 .. n, NEW j \in 1 .. n, s[i] = s[j], i # j PROVE FALSE
      OBVIOUS
    <2>1. Before(s[i], s[j]) \/ Before(s[j], s[i])
      BY <1>1, <1>8
    <2>2. s[i] \in FileNames
      BY <1>7
    <2>3. QED
      BY <2>1, <2>2, BeforeIsAnOrder DEF SameSet
  <1>10. s \in Injection(1 .. n, F)
    BY <1>7, <1>9 DEF Injection, IsInjective
  <1>11. s \in Surjection(1 .. n, F)
    <2>1. Cardinality(1 .. n) = n
      BY <1>1, FS_Interval
    <2>2. QED
      BY <1>10, <2>1, FS_Injection DEF n
  <1>12. \A f \in F : \E i \in 1 .. n : s[i] = f
    BY <1>11 DEF Surjection
  <1>13. QED
    BY <1>1, <1>7, <1>8, <1>12 DEF s, n

(* Between neighbours in the list, and only there, a number is missing. *)
LEMMA MissingBetween ==
  ASSUME NEW F \in SUBSET FileNames, NEW n \in Nat, NEW s \in [1 .. n -> F],
         \A i, j \in 1 .. n : i <= j => s[i].index <= s[j].index,
         \A f \in F : \E i \in 1 .. n : s[i] = f
  PROVE  LET numbers == {f.index : f \in F}
         IN  Missing(s) = {k \in 1 .. 99 : /\ k \notin numbers
                                           /\ \E a \in numbers : a < k
                                           /\ \E b \in numbers : k < b}
  <1> DEFINE numbers == {f.index : f \in F}
             Gap(k) == k \notin numbers /\ (\E a \in numbers : a < k) /\ (\E b \in numbers : k < b)
             at(i) == s[i].index
  <1>1. Len(s) = n
    OBVIOUS
  <1>2. \A i \in 1 .. n : at(i) \in 0 .. 99 /\ at(i) \in numbers
    <2> SUFFICES ASSUME NEW i \in 1 .. n PROVE at(i) \in 0 .. 99 /\ at(i) \in numbers
      OBVIOUS
    <2>1. s[i] \in F /\ s[i] \in FileNames
      OBVIOUS
    <2>2. QED
      BY <2>1 DEF FileNames
  <1>3. \A a \in numbers : \E i \in 1 .. n : at(i) = a
    OBVIOUS
  <1>m. Missing(s) = UNION {(at(i) + 1) .. (at(i + 1) - 1) : i \in 1 .. n - 1}
    BY <1>1 DEF Missing
  <1>o. \A i, j \in 1 .. n : i <= j => at(i) <= at(j)
    OBVIOUS
  <1> HIDE DEF numbers, at
  <1>i. ASSUME NEW i \in 1 .. n PROVE at(i) \in Int /\ 0 <= at(i) /\ at(i) <= 99
    <2>1. at(i) \in 0 .. 99
      BY <1>2
    <2>2. \A x \in 0 .. 99 : x \in Int /\ 0 <= x /\ x <= 99
      OBVIOUS
    <2>3. QED
      BY <2>1, <2>2
  <1>4. ASSUME NEW k \in Missing(s) PROVE k \in 1 .. 99 /\ Gap(k)
    <2>1. PICK i \in 1 .. n - 1 : k \in (at(i) + 1) .. (at(i + 1) - 1)
      BY <1>m
    <2>2. i \in 1 .. n /\ i + 1 \in 1 .. n
      BY <2>1
    <2>i. at(i) \in Int /\ at(i + 1) \in Int /\ 0 <= at(i) /\ at(i + 1) <= 99
      BY <1>i, <2>2
    <2>3. k \in Int /\ at(i) < k /\ k < at(i + 1)
      BY <2>1, <2>i
    <2>4. k \in 1 .. 99
      BY <2>3, <2>i
    <2>5. \A j \in 1 .. n : at(j) # k
      <3> SUFFICES ASSUME NEW j \in 1 .. n, at(j) = k PROVE FALSE
        OBVIOUS
      <3>1. CASE j <= i
        <4>1. at(j) <= at(i)
          BY <1>o, <2>2, <3>1
        <4>2. QED
          BY <2>3, <2>i, <4>1
      <3>2. CASE i + 1 <= j
        <4>1. at(i + 1) <= at(j)
          BY <1>o, <2>2, <3>2
        <4>2. QED
          BY <2>3, <2>i, <4>1
      <3>3. QED
        BY <2>2, <3>1, <3>2
    <2>6. k \notin numbers
      BY <1>3, <2>5
    <2>7. QED
      BY <1>2, <2>2, <2>3, <2>4, <2>6
  <1>5. ASSUME NEW k \in 1 .. 99, Gap(k) PROVE k \in Missing(s)
    <2> DEFINE T == {i \in 1 .. n : k < at(i)}
    <2>1. PICK c \in 1 .. n, d \in 1 .. n : at(c) < k /\ k < at(d)
      BY <1>3, <1>5
    <2>2. T \in SUBSET Nat /\ T # {}
      BY <2>1
    <2>3. PICK m \in T : \A i \in T : m <= i
      BY <2>2, LeastNatural
    <2>4. m \in 1 .. n /\ k < at(m)
      BY <2>3
    <2>5. c < m
      <3> SUFFICES ASSUME m <= c PROVE FALSE
        BY <2>4
      <3>1. at(m) <= at(c)
        BY <1>o, <2>4
      <3>2. at(m) \in Int /\ at(c) \in Int
        BY <1>i, <2>4
      <3>3. QED
        BY <2>1, <2>4, <3>1, <3>2
    <2>6. m - 1 \in 1 .. n - 1 /\ m - 1 \in 1 .. n /\ m - 1 \notin T
      BY <2>3, <2>4, <2>5
    <2>i. at(m - 1) \in Int /\ at(m) \in Int
      BY <1>i, <2>4, <2>6
    <2>7. at(m - 1) <= k
      BY <2>6, <2>i
    <2>8. at(m - 1) # k
      BY <1>2, <1>5, <2>6
    <2>9. k \in (at(m - 1) + 1) .. (at((m - 1) + 1) - 1)
      <3>1. (m - 1) + 1 = m
        BY <2>4
      <3>2. QED
        BY <2>4, <2>7, <2>8, <2>i, <3>1
    <2>10. QED
      BY <1>m, <2>6, <2>9
  <1>6. QED
    BY <1>4, <1>5 DEF numbers

LEMMA SegmentsListed ==
  ASSUME names \subseteq FileNames, IsFiniteSet(names), IsSegment(args.image), args.image \in names
  PROVE  LET segments == DiscoverSegments(args.image, names)
             ours == {n \in names : n.base = args.image.base /\ n.family = args.image.family}
             numbers == {n.index : n \in ours}
         IN  /\ Elements(segments) = ours /\ Len(segments) = Cardinality(ours)
             /\ \A i, j \in 1 .. Len(segments) : i < j => segments[i].index <= segments[j].index
             /\ GapWarning(args.image, names) =
                  {k \in 1 .. 99 : k \notin numbers /\ (\E a \in numbers : a < k) /\ (\E b \in numbers : k < b)}
  <1> DEFINE segments == DiscoverSegments(args.image, names)
             ours == {n \in names : n.base = args.image.base /\ n.family = args.image.family}
             numbers == {n.index : n \in ours}
             c == Cardinality(ours)
  <1>1. {n \in names : IsSegment(n) /\ SameSet(n, args.image)} = ours
    BY DEF IsSegment, SameSet
  <1>2. args.image \in ours
    OBVIOUS
  <1>3. segments = InOrder(ours)
    BY <1>1, <1>2 DEF DiscoverSegments
  <1>4. ours \in SUBSET FileNames /\ IsFiniteSet(ours) /\ \A a, b \in ours : SameSet(a, b)
    <2>1. ours \in SUBSET names
      OBVIOUS
    <2>2. IsFiniteSet(ours)
      BY <2>1, FS_Subset
    <2>3. QED
      BY <2>2 DEF SameSet
  <1>5. GapWarning(args.image, names) = Missing(segments)
    BY DEF GapWarning
  <1> HIDE DEF segments, ours
  <1>6. /\ c \in Nat /\ segments \in [1 .. c -> ours]
        /\ \A i, j \in 1 .. c : i < j => Before(segments[i], segments[j])
        /\ \A f \in ours : \E i \in 1 .. c : segments[i] = f
    BY <1>3, <1>4, InOrderLists
  <1> HIDE DEF c
  <1>7. Len(segments) = c /\ Elements(segments) = ours
    <2>1. Len(segments) = c
      BY <1>6
    <2>2. QED
      BY <1>6, <2>1 DEF Elements
  <1>8. \A i, j \in 1 .. c : i < j => segments[i].index <= segments[j].index
    <2> SUFFICES ASSUME NEW i \in 1 .. c, NEW j \in 1 .. c, i < j
                 PROVE  segments[i].index <= segments[j].index
      OBVIOUS
    <2>1. segments[i] \in ours /\ segments[j] \in ours /\ Before(segments[i], segments[j])
      BY <1>6
    <2>2. QED
      BY <1>4, <2>1, BeforeIsAnOrder
  <1>9. \A i, j \in 1 .. c : i <= j => segments[i].index <= segments[j].index
    <2> SUFFICES ASSUME NEW i \in 1 .. c, NEW j \in 1 .. c, i <= j
                 PROVE  segments[i].index <= segments[j].index
      OBVIOUS
    <2>1. segments[i] \in FileNames
      BY <1>4, <1>6
    <2>2. segments[i].index \in Int
      BY <2>1 DEF FileNames
    <2>3. i < j \/ i = j
      BY <1>6
    <2>4. QED
      BY <1>8, <2>2, <2>3
  <1>10. Missing(segments) =
           {k \in 1 .. 99 : k \notin numbers /\ (\E a \in numbers : a < k) /\ (\E b \in numbers : k < b)}
    BY <1>4, <1>6, <1>9, MissingBetween
  <1>11. QED
    BY <1>5, <1>7, <1>8, <1>10 DEF segments, ours, c

(* The reader opens the files of the selected one's set and no others, in  *)
(* ascending number, whatever else the directory holds, and warns of       *)
(* exactly the numbers missing in between (discoverEwfSegments).           *)
THEOREM CommandSegmentsAreTheSet == Spec => []SegmentsAreTheSet
  <1>1. CommandInv => SegmentsAreTheSet
    <2> SUFFICES ASSUME CommandInv, stage = "adapter", IsSegment(args.image), args.image \in names
                 PROVE  LET segments == DiscoverSegments(args.image, names)
                            ours == {n \in names : n.base = args.image.base /\ n.family = args.image.family}
                            numbers == {n.index : n \in ours}
                        IN  /\ Elements(segments) = ours /\ Len(segments) = Cardinality(ours)
                            /\ \A i, j \in 1 .. Len(segments) :
                                 i < j => segments[i].index <= segments[j].index
                            /\ GapWarning(args.image, names) =
                                 {k \in 1 .. 99 : /\ k \notin numbers
                                                  /\ (\E a \in numbers : a < k)
                                                  /\ (\E b \in numbers : k < b)}
      BY DEF SegmentsAreTheSet
    <2>1. names \subseteq FileNames /\ IsFiniteSet(names)
      BY DEF CommandInv, CliInv, TypedNames
    <2>2. QED
      BY <2>1, SegmentsListed
  <1>2. QED
    BY <1>1, CommandInvariance, PTL
=============================================================================
