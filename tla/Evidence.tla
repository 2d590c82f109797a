------------------------------- MODULE Evidence -------------------------------
(***************************************************************************)
(* How an image becomes a list of partitions: the segment files of an EWF  *)
(* set (core/EwfSegmentResolver, core/EwfImageReader), the adapter that    *)
(* opens it in libtsk through the reader bridge or, when allowed, by path  *)
(* (core/TskImageHandleAdapter), and the volume enumerator.                *)
(*                                                                         *)
(* A file name is reduced to its parse: base, family (e, ex or s) and      *)
(* number, all compared without regard to case, and a rank of its spelling *)
(* among the others.  A name that is no segment, a raw image's among them, *)
(* has the family "none".                                                  *)
(***************************************************************************)
EXTENDS Integers, Sequences, FiniteSets

NoName == [base |-> "", family |-> "none", index |-> 0, spelling |-> 0]

FileNames == [base : STRING, family : {"none", "e", "ex", "s"}, index : 0 .. 99, spelling : Nat]

IsSegment(name) == name.family # "none"
SameBase(a, b)  == a.base = b.base
SameSet(a, b)   == a.base = b.base /\ a.family = b.family
Before(a, b)    == a.index < b.index \/ (a.index = b.index /\ a.spelling < b.spelling)

\* std::sort of the files found: the one list of them in which each comes
\* before the next.
InOrder(files) ==
  CHOOSE s \in [1 .. Cardinality(files) -> files] :
    \A i, j \in DOMAIN s : i < j => Before(s[i], s[j])

\* The files of the selected one's set, by number and then by path.
DiscoverSegments(selected, names) ==
  LET found == {n \in names : IsSegment(n) /\ SameSet(n, selected)}
  IN  IF ~IsSegment(selected) \/ found = {} THEN <<selected>> ELSE InOrder(found)

\* The numbers the warning names: those missing between two that are there.
Missing(segments) ==
  UNION {(segments[i].index + 1) .. (segments[i + 1].index - 1) : i \in 1 .. Len(segments) - 1}

GapWarning(selected, names) ==
  IF IsSegment(selected) THEN Missing(DiscoverSegments(selected, names)) ELSE {}

----------------------------------------------------------------------------
(* TskImageHandleAdapter::open: what it answers, given what libtsk does *)

OpenedBy(backend, warning) == [ok |-> TRUE, backend |-> backend, warning |-> warning, error |-> {}]
NotOpened(error) == [ok |-> FALSE, backend |-> "PathBased", warning |-> {}, error |-> error]

\* The path-based open of last resort: the bridge's error becomes the warning.
FallenBack == OpenedBy("PathBased", {"bridge"})

OpenAdapter(readerOpen, bridge, path, allowPathFallback) ==
  CASE ~readerOpen                                      -> NotOpened({"reader not open"})
    [] readerOpen /\ bridge                             -> OpenedBy("ReaderBridge", {})
    [] readerOpen /\ ~bridge /\ ~allowPathFallback      -> NotOpened({"bridge"})
    [] readerOpen /\ ~bridge /\ allowPathFallback /\ path -> FallenBack
    [] OTHER                                            -> NotOpened({"bridge", "path"})

----------------------------------------------------------------------------
(* VolumeEnumerator::enumerate: table is the slots of the volume system in *)
(* order, "meta" or "data", or NoTable                                     *)

NoTable == <<"no volume system">>

\* The loop over the slots.  The index and the identifier of a partition are
\* its slot number, from 0.
Slots(table) ==
  LET found[i \in 0 .. Len(table)] ==
        IF i = 0 THEN <<>>
        ELSE IF table[i] = "meta" THEN found[i - 1] ELSE Append(found[i - 1], i - 1)
  IN  found

Enumerate(table) == IF table = NoTable THEN <<0>> ELSE Slots(table)[Len(table)]

\* cli/main.cpp resolvePartition: a partition by its identifier "p<n>" or its
\* number; -1 when there is none.
Named(argument) == argument.kind \in {"id", "number"}
ResolvePartition(argument, partitions) ==
  IF Named(argument) /\ \E i \in 1 .. Len(partitions) : partitions[i] = argument.n THEN argument.n ELSE -1
=============================================================================
