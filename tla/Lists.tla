-------------------------------- MODULE Lists --------------------------------
(***************************************************************************)
(* Sequences made of sequences, as the loops and the standard algorithms   *)
(* of the detail providers make them: joined, filtered, sorted.  They are   *)
(* written with functions over sets of positions, which can be reasoned    *)
(* about; each comment names the library's operator it agrees with.        *)
(***************************************************************************)
EXTENDS Integers, Sequences, FiniteSets

(* The members of a finite set in a strict order, given as a set of pairs    *)
(* (SetToSortSeq).                                                           *)
Arranged(S, before) ==
  LET place == [x \in S |-> Cardinality({y \in S : <<y, x>> \in before})]
  IN  [k \in 1 .. Cardinality(S) |-> CHOOSE x \in S : place[x] = k - 1]

(* The items of a sequence at some of its positions, and those that pass a   *)
(* test (SelectSeq).                                                         *)
Picked(s, I) ==
  LET at == Arranged(I, {x \in I \X I : x[1] < x[2]})
  IN  [k \in 1 .. Cardinality(I) |-> s[at[k]]]
Where(s, Test(_)) == Picked(s, {i \in DOMAIN s : Test(s[i])})

(* std::stable_sort, by the pairs of positions whose first item is less.     *)
StableSort(s, less) ==
  LET before == {x \in (DOMAIN s) \X (DOMAIN s) :
                   x \in less \/ (<<x[2], x[1]>> \notin less /\ x[1] < x[2])}
      at     == Arranged(DOMAIN s, before)
  IN  [k \in DOMAIN s |-> s[at[k]]]

(* The sequences of a sequence, one after the other (FlattenSeq).            *)
Concat(ss) ==
  LET cat[i \in 0 .. Len(ss)] == IF i = 0 THEN <<>> ELSE cat[i - 1] \o ss[i]
  IN  cat[Len(ss)]
=============================================================================
