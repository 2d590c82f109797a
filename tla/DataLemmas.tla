------------------------------ MODULE DataLemmas ------------------------------
(* What several proofs need of the naturals and of sequences.  Induction   *)
(* is stated over sets, the form the provers can use.                      *)
EXTENDS Lists, SequencesExt, FiniteSetTheorems, FunctionTheorems, WellFoundedInduction, TLAPS

LEMMA LeastNatural ==
  ASSUME NEW T \in SUBSET Nat, T # {}
  PROVE  \E m \in T : \A n \in T : m <= n
  <1>1. IsWellFoundedOn(OpToRel(<, Nat), Nat)
    BY NatLessThanWellFounded
  <1>2. PICK m \in T : \A n \in T : ~(<<n, m>> \in OpToRel(<, Nat))
    BY <1>1, WFMin
  <1>3. \A n \in T : ~(n < m)
    BY <1>2 DEF OpToRel
  <1>4. QED
    BY <1>3

LEMMA SetInduction ==
  ASSUME NEW S, 0 \in S, \A n \in Nat : n \in S => n + 1 \in S
  PROVE  Nat \subseteq S
  <1> DEFINE T == Nat \ S
  <1> SUFFICES ASSUME T # {} PROVE FALSE
    OBVIOUS
  <1>1. PICK m \in T : \A n \in T : m <= n
    BY LeastNatural
  <1>2. m # 0 /\ m - 1 \in Nat /\ m - 1 \notin T
    BY <1>1
  <1>3. QED
    BY <1>1, <1>2

-----------------------------------------------------------------------------
(* Sequences. *)

LEMMA PrefixByElement ==
  ASSUME NEW S, NEW s \in Seq(S), NEW t \in Seq(S)
  PROVE  IsPrefix(s, t) <=> Len(s) <= Len(t) /\ \A i \in 1 .. Len(s) : s[i] = t[i]
  BY DEF IsPrefix

LEMMA StrictPrefixIsShorter ==
  ASSUME NEW S, NEW s \in Seq(S), NEW t \in Seq(S)
  PROVE  IsStrictPrefix(s, t) <=> Len(s) < Len(t) /\ \A i \in 1 .. Len(s) : s[i] = t[i]
  BY DEF IsPrefix, IsStrictPrefix

LEMMA SubSeqFacts ==
  ASSUME NEW S, NEW s \in Seq(S), NEW n \in 0 .. Len(s)
  PROVE  /\ SubSeq(s, 1, n) \in Seq(S) /\ Len(SubSeq(s, 1, n)) = n
         /\ \A i \in 1 .. n : SubSeq(s, 1, n)[i] = s[i]
  OBVIOUS

LEMMA AppendFacts ==
  ASSUME NEW S, NEW s \in Seq(S), NEW e \in S
  PROVE  /\ Append(s, e) \in Seq(S) /\ Len(Append(s, e)) = Len(s) + 1
         /\ \A i \in 1 .. Len(s) : Append(s, e)[i] = s[i]
         /\ Append(s, e)[Len(s) + 1] = e
         /\ \A n \in 0 .. Len(s) : SubSeq(Append(s, e), 1, n) = SubSeq(s, 1, n)
         /\ SubSeq(Append(s, e), 1, Len(s) + 1) = Append(s, e)
  OBVIOUS

LEMMA TailFacts ==
  ASSUME NEW S, NEW s \in Seq(S), s # <<>>
  PROVE  /\ Len(s) > 0 /\ Head(s) \in S /\ Head(s) = s[1]
         /\ Tail(s) \in Seq(S) /\ Len(Tail(s)) = Len(s) - 1
         /\ \A i \in 1 .. Len(s) - 1 : Tail(s)[i] = s[i + 1]
  OBVIOUS

LEMMA PushFacts ==
  ASSUME NEW S, NEW s \in Seq(S), NEW e \in S
  PROVE  /\ <<e>> \o s \in Seq(S) /\ Len(<<e>> \o s) = Len(s) + 1
         /\ (<<e>> \o s)[1] = e
         /\ \A i \in 1 .. Len(s) : (<<e>> \o s)[i + 1] = s[i]
  OBVIOUS

LEMMA EmptyFacts ==
  ASSUME NEW s, s = <<>>
  PROVE  Len(s) = 0 /\ DOMAIN s = {}
  OBVIOUS

LEMMA StrictPrefixIsSubSeq ==
  ASSUME NEW S, NEW s \in Seq(S), NEW t \in Seq(S), IsStrictPrefix(s, t)
  PROVE  Len(s) < Len(t) /\ SubSeq(t, 1, Len(s)) = s
  <1>1. Len(s) < Len(t) /\ \A i \in 1 .. Len(s) : s[i] = t[i]
    BY StrictPrefixIsShorter
  <1>2. Len(s) \in 0 .. Len(t)
    BY <1>1
  <1>3. /\ SubSeq(t, 1, Len(s)) \in Seq(S) /\ Len(SubSeq(t, 1, Len(s))) = Len(s)
        /\ \A i \in 1 .. Len(s) : SubSeq(t, 1, Len(s))[i] = t[i]
    BY <1>2, SubSeqFacts
  <1> DEFINE u == SubSeq(t, 1, Len(s))
  <1> HIDE DEF u
  <1>4. u \in Seq(S) /\ Len(u) = Len(s) /\ \A i \in 1 .. Len(s) : u[i] = s[i]
    BY <1>1, <1>3 DEF u
  <1>5. u = s
    BY <1>4
  <1>6. QED
    BY <1>1, <1>5 DEF u

(* Of two prefixes of a sequence, the shorter is one of the longer. *)
LEMMA PrefixesOfOne ==
  ASSUME NEW S, NEW s \in Seq(S), NEW t \in Seq(S), NEW p \in Seq(S),
         IsStrictPrefix(s, p), IsPrefix(t, p), Len(s) < Len(t)
  PROVE  IsStrictPrefix(s, t)
  <1>1. \A i \in 1 .. Len(s) : s[i] = p[i]
    BY StrictPrefixIsShorter
  <1>2. \A i \in 1 .. Len(t) : t[i] = p[i]
    BY PrefixByElement
  <1>3. \A i \in 1 .. Len(s) : i \in 1 .. Len(t)
    OBVIOUS
  <1>4. \A i \in 1 .. Len(s) : s[i] = t[i]
    BY <1>1, <1>2, <1>3
  <1>5. QED
    BY <1>4, StrictPrefixIsShorter

LEMMA PrefixThenStrict ==
  ASSUME NEW S, NEW s \in Seq(S), NEW t \in Seq(S), NEW p \in Seq(S),
         IsPrefix(s, t), IsStrictPrefix(t, p)
  PROVE  IsStrictPrefix(s, p)
  <1>1. Len(t) < Len(p) /\ \A i \in 1 .. Len(t) : t[i] = p[i]
    BY StrictPrefixIsShorter
  <1>2. Len(s) <= Len(t) /\ \A i \in 1 .. Len(s) : s[i] = t[i]
    BY PrefixByElement
  <1>3. \A i \in 1 .. Len(s) : i \in 1 .. Len(t)
    BY <1>2
  <1>4. \A i \in 1 .. Len(s) : s[i] = p[i]
    BY <1>1, <1>2, <1>3
  <1>5. Len(s) < Len(p)
    BY <1>1, <1>2
  <1>6. QED
    BY <1>4, <1>5, StrictPrefixIsShorter

LEMMA PrefixOfAppend ==
  ASSUME NEW S, NEW s \in Seq(S), NEW t \in Seq(S), IsPrefix(s, t), NEW x \in S
  PROVE  IsPrefix(s, Append(t, x))
  <1>1. Len(s) <= Len(t) /\ \A i \in 1 .. Len(s) : s[i] = t[i]
    BY PrefixByElement
  <1>2. /\ Append(t, x) \in Seq(S) /\ Len(Append(t, x)) = Len(t) + 1
        /\ \A i \in 1 .. Len(t) : Append(t, x)[i] = t[i]
    BY AppendFacts
  <1>3. \A i \in 1 .. Len(s) : i \in 1 .. Len(t)
    BY <1>1
  <1>4. \A i \in 1 .. Len(s) : s[i] = Append(t, x)[i]
    BY <1>1, <1>2, <1>3
  <1>5. Len(s) <= Len(Append(t, x))
    BY <1>1, <1>2
  <1>6. QED
    BY <1>2, <1>4, <1>5, PrefixByElement

LEMMA PrefixOfItself ==
  ASSUME NEW S, NEW s \in Seq(S)
  PROVE  IsPrefix(s, s) /\ SubSeq(s, 1, Len(s)) = s
  <1>1. IsPrefix(s, s)
    BY PrefixByElement
  <1>2. SubSeq(s, 1, Len(s)) = s
    OBVIOUS
  <1>3. QED
    BY <1>1, <1>2

LEMMA HeadOrInTail ==
  ASSUME NEW S, NEW s \in Seq(S), s # <<>>, NEW x \in ToSet(s)
  PROVE  x = Head(s) \/ x \in ToSet(Tail(s))
  <1>1. PICK i \in 1 .. Len(s) : x = s[i]
    BY DEF ToSet
  <1>2. /\ Head(s) = s[1] /\ Tail(s) \in Seq(S) /\ Len(Tail(s)) = Len(s) - 1
        /\ \A j \in 1 .. Len(s) - 1 : Tail(s)[j] = s[j + 1]
    BY TailFacts
  <1>3. CASE i = 1
    BY <1>1, <1>2, <1>3
  <1>4. CASE i # 1
    <2>1. i - 1 \in 1 .. Len(s) - 1 /\ (i - 1) + 1 = i
      BY <1>1, <1>4
    <2>2. Tail(s)[i - 1] = x
      BY <1>1, <1>2, <2>1
    <2>3. i - 1 \in DOMAIN Tail(s)
      BY <1>2, <2>1
    <2>4. QED
      BY <2>2, <2>3 DEF ToSet
  <1>5. QED
    BY <1>3, <1>4

-----------------------------------------------------------------------------
(* Finite ordered sets. *)

(* A finite set under a total order has a last element. *)
LEMMA LastOfFinite ==
  ASSUME NEW X, NEW R,
         \A x, y \in X : x = y \/ <<x, y>> \in R \/ <<y, x>> \in R,
         \A x, y, z \in X : <<x, y>> \in R /\ <<y, z>> \in R => <<x, z>> \in R,
         NEW F \in SUBSET X, IsFiniteSet(F), F # {}
  PROVE  \E g \in F : \A x \in F : x = g \/ <<x, g>> \in R
  <1> DEFINE HasLast(G) == \E g \in G : \A x \in G : x = g \/ <<x, g>> \in R
             S == {n \in Nat : \A G \in SUBSET X :
                                 IsFiniteSet(G) /\ Cardinality(G) = n + 1 => HasLast(G)}
  <1>1. 0 \in S
    <2> SUFFICES ASSUME NEW G \in SUBSET X, IsFiniteSet(G), Cardinality(G) = 1 PROVE HasLast(G)
      OBVIOUS
    <2>1. PICK x : G = {x}
      BY FS_Singleton
    <2>2. QED
      BY <2>1
  <1>2. ASSUME NEW n \in Nat, n \in S PROVE n + 1 \in S
    <2> SUFFICES ASSUME NEW G \in SUBSET X, IsFiniteSet(G), Cardinality(G) = n + 2 PROVE HasLast(G)
      OBVIOUS
    <2>1. G # {}
      BY FS_EmptySet
    <2>2. PICK x \in G : TRUE
      BY <2>1
    <2>3. IsFiniteSet(G \ {x}) /\ Cardinality(G \ {x}) = n + 1
      BY FS_RemoveElement
    <2>4. HasLast(G \ {x})
      BY <1>2, <2>3
    <2>5. PICK g \in G \ {x} : \A y \in G \ {x} : y = g \/ <<y, g>> \in R
      BY <2>4
    <2>6. CASE <<x, g>> \in R
      BY <2>5, <2>6
    <2>7. CASE <<g, x>> \in R
      <3>1. \A y \in G : y = x \/ <<y, x>> \in R
        BY <2>5, <2>7
      <3>2. QED
        BY <3>1
    <2>8. QED
      BY <2>5, <2>6, <2>7
  <1>3. Nat \subseteq S
    <2> HIDE DEF S
    <2>1. QED
      BY <1>1, <1>2, SetInduction
  <1>4. Cardinality(F) \in Nat /\ Cardinality(F) # 0
    BY FS_CardinalityType, FS_EmptySet
  <1>5. Cardinality(F) - 1 \in S
    BY <1>3, <1>4
  <1>6. QED
    BY <1>4, <1>5

(* And it can be listed in that order. *)
LEMMA FiniteSetInOrder ==
  ASSUME NEW X, NEW R,
         \A x, y \in X : x = y \/ <<x, y>> \in R \/ <<y, x>> \in R,
         \A x, y, z \in X : <<x, y>> \in R /\ <<y, z>> \in R => <<x, z>> \in R,
         NEW F \in SUBSET X, IsFiniteSet(F)
  PROVE  \E s \in [1 .. Cardinality(F) -> F] :
           \A i, j \in 1 .. Cardinality(F) : i < j => <<s[i], s[j]>> \in R
  <1>0. ASSUME NEW G \in SUBSET X, IsFiniteSet(G), G # {}
        PROVE  \E g \in G : \A x \in G : x = g \/ <<x, g>> \in R
    BY <1>0, LastOfFinite
  <1> DEFINE Listed(G, n) == \E s \in [1 .. n -> G] : \A i, j \in 1 .. n : i < j => <<s[i], s[j]>> \in R
             S == {n \in Nat : \A G \in SUBSET X :
                                 IsFiniteSet(G) /\ Cardinality(G) = n => Listed(G, n)}
  <1>1. 0 \in S
    <2> SUFFICES ASSUME NEW G \in SUBSET X PROVE Listed(G, 0)
      OBVIOUS
    <2> DEFINE e == [i \in 1 .. 0 |-> i]
    <2>1. e \in [1 .. 0 -> G] /\ \A i \in 1 .. 0 : FALSE
      OBVIOUS
    <2> HIDE DEF e
    <2>2. \A i, j \in 1 .. 0 : i < j => <<e[i], e[j]>> \in R
      BY <2>1
    <2>3. QED
      BY <2>1, <2>2
  <1>2. ASSUME NEW n \in Nat, n \in S PROVE n + 1 \in S
    <2> SUFFICES ASSUME NEW G \in SUBSET X, IsFiniteSet(G), Cardinality(G) = n + 1
                 PROVE  Listed(G, n + 1)
      OBVIOUS
    <2>1. G # {}
      BY FS_EmptySet
    <2>2. PICK g \in G : \A x \in G : x = g \/ <<x, g>> \in R
      BY <1>0, <2>1
    <2>3. IsFiniteSet(G \ {g}) /\ Cardinality(G \ {g}) = n
      <3> HIDE DEF S, Listed
      <3>1. IsFiniteSet(G \ {g}) /\ Cardinality(G \ {g}) = Cardinality(G) - 1
        BY FS_RemoveElement
      <3>2. QED
        BY <3>1
    <2>4. Listed(G \ {g}, n)
      BY <1>2, <2>3
    <2>5. PICK s \in [1 .. n -> G \ {g}] : \A i, j \in 1 .. n : i < j => <<s[i], s[j]>> \in R
      BY <2>4
    <2> DEFINE t == [i \in 1 .. n + 1 |-> IF i = n + 1 THEN g ELSE s[i]]
    <2>6. /\ t \in [1 .. n + 1 -> G] /\ t[n + 1] = g
          /\ \A i \in 1 .. n : t[i] = s[i] /\ t[i] \in G \ {g}
      BY <2>5
    <2> HIDE DEF t
    <2>7. ASSUME NEW i \in 1 .. n + 1, NEW j \in 1 .. n + 1, i < j PROVE <<t[i], t[j]>> \in R
      <3>1. i \in 1 .. n
        BY <2>7
      <3>2. CASE j = n + 1
        BY <2>2, <2>6, <3>1, <3>2
      <3>3. CASE j \in 1 .. n
        BY <2>5, <2>6, <2>7, <3>1, <3>3
      <3>4. QED
        BY <3>2, <3>3
    <2>8. QED
      BY <2>6, <2>7
  <1>3. Nat \subseteq S
    <2> HIDE DEF S
    <2>1. QED
      BY <1>1, <1>2, SetInduction
  <1>4. QED
    BY <1>3, FS_CardinalityType

-----------------------------------------------------------------------------
(* Loops: a function on 0 .. k that gives each round the last one's value. *)

LEMMA RangeInduction ==
  ASSUME NEW k \in Nat, NEW S, 0 \in S, \A i \in 1 .. k : i - 1 \in S => i \in S
  PROVE  0 .. k \subseteq S
  <1> DEFINE T == {n \in Nat : n <= k => n \in S}
  <1>1. 0 \in T
    OBVIOUS
  <1>2. ASSUME NEW n \in Nat, n \in T PROVE n + 1 \in T
    <2> SUFFICES ASSUME n + 1 <= k PROVE n + 1 \in S
      OBVIOUS
    <2>1. n \in S /\ n + 1 \in 1 .. k /\ (n + 1) - 1 = n
      BY <1>2
    <2>2. QED
      BY <2>1
  <1>3. Nat \subseteq T
    <2> HIDE DEF T
    <2>1. QED
      BY <1>1, <1>2, SetInduction
  <1>4. QED
    BY <1>3

(* A loop has its values, whatever each round makes of the last value. *)
LEMMA LoopDefined ==
  ASSUME NEW D, NEW first \in D, NEW k \in Nat, NEW next \in [1 .. k -> [D -> D]]
  PROVE  \E f \in [0 .. k -> D] : f[0] = first /\ \A i \in 1 .. k : f[i] = next[i][f[i - 1]]
  <1> DEFINE Is(f, n) == f[0] = first /\ \A i \in 1 .. n : f[i] = next[i][f[i - 1]]
             S == {n \in 0 .. k : \E f \in [0 .. n -> D] : Is(f, n)}
  <1>1. 0 \in S
    <2> DEFINE f == [i \in 0 .. 0 |-> first]
    <2>1. f \in [0 .. 0 -> D] /\ Is(f, 0)
      OBVIOUS
    <2> HIDE DEF f, Is
    <2>2. QED
      BY <2>1
  <1>2. ASSUME NEW n \in 1 .. k, n - 1 \in S PROVE n \in S
    <2>1. PICK f \in [0 .. n - 1 -> D] : Is(f, n - 1)
      BY <1>2
    <2> DEFINE g == [i \in 0 .. n |-> IF i = n THEN next[n][f[n - 1]] ELSE f[i]]
    <2>2. f[n - 1] \in D /\ <<n, f[n - 1]>> \in (1 .. k) \X D
      OBVIOUS
    <2>3. next[n][f[n - 1]] \in D
      BY <2>2
    <2>4. g \in [0 .. n -> D]
      BY <2>3
    <2>5. g[0] = first
      BY <2>1
    <2>6. ASSUME NEW i \in 1 .. n PROVE g[i] = next[i][g[i - 1]]
      <3>1. g[i - 1] = f[i - 1]
        OBVIOUS
      <3>2. CASE i = n
        <4>1. g[n] = next[n][f[n - 1]] /\ g[n - 1] = f[n - 1]
          BY <3>1, <3>2
        <4> HIDE DEF g
        <4>2. QED
          BY <3>2, <4>1
      <3>3. CASE i \in 1 .. n - 1
        <4>1. g[i] = f[i] /\ f[i] = next[i][f[i - 1]]
          BY <2>1, <3>3
        <4>2. QED
          BY <3>1, <4>1
      <3>4. QED
        BY <3>2, <3>3
    <2> HIDE DEF g
    <2>7. Is(g, n)
      BY <2>5, <2>6
    <2> HIDE DEF Is
    <2>8. QED
      BY <2>4, <2>7
  <1>3. 0 .. k \subseteq S
    <2> HIDE DEF S
    <2>1. QED
      BY <1>1, <1>2, RangeInduction
  <1>4. k \in S
    BY <1>3
  <1>5. QED
    BY <1>4

-----------------------------------------------------------------------------
(* Arranging, picking and sorting. *)

StrictOrder(S, R) ==
  /\ \A x \in S : <<x, x>> \notin R
  /\ \A x, y, z \in S : <<x, y>> \in R /\ <<y, z>> \in R => <<x, z>> \in R
  /\ \A x, y \in S : x = y \/ <<x, y>> \in R \/ <<y, x>> \in R

(* e lists S, in the order of R. *)
IsArranged(e, S, R) ==
  /\ e \in [1 .. Cardinality(S) -> S]
  /\ \A i, j \in 1 .. Cardinality(S) : i < j <=> <<e[i], e[j]>> \in R
  /\ \A x \in S : \E k \in 1 .. Cardinality(S) : e[k] = x

(* A function between finite sets of one size that has no value twice has  *)
(* every value.                                                            *)
LEMMA OneToOneIsOnto ==
  ASSUME NEW S, IsFiniteSet(S), NEW e \in [1 .. Cardinality(S) -> S],
         \A i, j \in 1 .. Cardinality(S) : e[i] = e[j] => i = j
  PROVE  \A x \in S : \E k \in 1 .. Cardinality(S) : e[k] = x
  <1> DEFINE n == Cardinality(S)
  <1>1. n \in Nat
    BY FS_CardinalityType
  <1>2. IsFiniteSet(1 .. n) /\ Cardinality(1 .. n) = n
    BY <1>1, FS_Interval
  <1>3. e \in Injection(1 .. n, S)
    BY Fun_IsInj
  <1>4. e \in Surjection(1 .. n, S)
    BY <1>2, <1>3, FS_Injection
  <1>5. QED
    BY <1>4 DEF Surjection

LEMMA ArrangementExists ==
  ASSUME NEW S, IsFiniteSet(S), NEW R, StrictOrder(S, R)
  PROVE  \E e : IsArranged(e, S, R)
  <1> DEFINE n == Cardinality(S)
  <1>1. /\ \A x, y \in S : x = y \/ <<x, y>> \in R \/ <<y, x>> \in R
        /\ \A x, y, z \in S : <<x, y>> \in R /\ <<y, z>> \in R => <<x, z>> \in R
        /\ \A x \in S : <<x, x>> \notin R
    BY DEF StrictOrder
  <1>2. PICK e \in [1 .. n -> S] : \A i, j \in 1 .. n : i < j => <<e[i], e[j]>> \in R
    BY <1>1, FiniteSetInOrder
  <1>3. n \in Nat
    BY FS_CardinalityType
  <1>4. \A i, j \in 1 .. n : i < j <=> <<e[i], e[j]>> \in R
    <2> SUFFICES ASSUME NEW i \in 1 .. n, NEW j \in 1 .. n, <<e[i], e[j]>> \in R, ~(i < j) PROVE FALSE
      BY <1>2
    <2>1. e[i] \in S /\ e[j] \in S
      OBVIOUS
    <2>2. CASE i = j
      BY <1>1, <2>1, <2>2
    <2>3. CASE j < i
      BY <1>1, <1>2, <2>1, <2>3
    <2>4. QED
      BY <1>3, <2>2, <2>3
  <1>5. \A i, j \in 1 .. n : e[i] = e[j] => i = j
    <2> SUFFICES ASSUME NEW i \in 1 .. n, NEW j \in 1 .. n, e[i] = e[j], i < j PROVE FALSE
      BY <1>3
    <2>1. <<e[i], e[j]>> \in R /\ e[i] \in S
      BY <1>2
    <2>2. QED
      BY <1>1, <2>1
  <1>6. \A x \in S : \E k \in 1 .. n : e[k] = x
    BY <1>5, OneToOneIsOnto
  <1>7. QED
    BY <1>2, <1>4, <1>6 DEF IsArranged

(* The members in front of the k-th are the k - 1 before it. *)
LEMMA PlaceInList ==
  ASSUME NEW S, IsFiniteSet(S), NEW R, NEW e, IsArranged(e, S, R), NEW k \in 1 .. Cardinality(S)
  PROVE  Cardinality({y \in S : <<y, e[k]>> \in R}) = k - 1
  <1> DEFINE n == Cardinality(S)
             B == {y \in S : <<y, e[k]>> \in R}
             m == k - 1
  <1>1. n \in Nat /\ m \in Nat /\ m < n
    BY FS_CardinalityType
  <1>2. /\ e \in [1 .. n -> S]
        /\ \A i, j \in 1 .. n : i < j <=> <<e[i], e[j]>> \in R
        /\ \A x \in S : \E i \in 1 .. n : e[i] = x
    BY DEF IsArranged
  <1> DEFINE g == [i \in 1 .. m |-> e[i]]
  <1>3. \A i \in 1 .. m : i \in 1 .. n /\ i < k
    BY <1>1
  <1>4. g \in [1 .. m -> B]
    <2>1. \A i \in 1 .. m : e[i] \in B
      BY <1>2, <1>3
    <2>2. QED
      BY <2>1
  <1>5. \A y \in B : \E i \in 1 .. m : g[i] = y
    <2> SUFFICES ASSUME NEW y \in B PROVE \E i \in 1 .. m : g[i] = y
      OBVIOUS
    <2>1. PICK i \in 1 .. n : e[i] = y
      BY <1>2
    <2>2. i < k
      BY <1>2, <2>1
    <2>3. i \in 1 .. m
      BY <2>2
    <2>4. QED
      BY <2>1, <2>3
  <1>6. \A i, j \in 1 .. m : g[i] = g[j] => i = j
    <2> SUFFICES ASSUME NEW i \in 1 .. m, NEW j \in 1 .. m, e[i] = e[j], i < j PROVE FALSE
      BY <1>1
    <2>1. <<e[i], e[j]>> \in R /\ <<e[j], e[i]>> \in R
      BY <1>2, <1>3
    <2>2. QED
      BY <1>2, <1>3, <2>1
  <1>7. g \in Bijection(1 .. m, B)
    <2> HIDE DEF g, B
    <2>1. QED
      BY <1>4, <1>5, <1>6, Fun_IsBij
  <1>8. ExistsBijection(1 .. m, B)
    BY <1>7 DEF ExistsBijection
  <1>9. IsFiniteSet(1 .. m) /\ Cardinality(1 .. m) = m
    BY <1>1, FS_Interval
  <1>10. Cardinality(B) = m
    BY <1>8, <1>9, FS_Bijection
  <1>11. QED
    BY <1>10

(* Arranged gives the list, and it is the only one. *)
LEMMA ArrangedIs ==
  ASSUME NEW S, IsFiniteSet(S), NEW R, StrictOrder(S, R)
  PROVE  IsArranged(Arranged(S, R), S, R)
  <1> DEFINE n == Cardinality(S)
             place == [x \in S |-> Cardinality({y \in S : <<y, x>> \in R})]
  <1>1. PICK e : IsArranged(e, S, R)
    BY ArrangementExists
  <1>2. /\ e \in [1 .. n -> S]
        /\ \A i, j \in 1 .. n : i < j <=> <<e[i], e[j]>> \in R
        /\ \A x \in S : \E i \in 1 .. n : e[i] = x
    BY <1>1 DEF IsArranged
  <1>3. \A k \in 1 .. n : place[e[k]] = k - 1
    <2>1. \A k \in 1 .. n : Cardinality({y \in S : <<y, e[k]>> \in R}) = k - 1
      BY <1>1, PlaceInList
    <2>2. \A k \in 1 .. n : e[k] \in S
      BY <1>2
    <2>3. QED
      BY <2>1, <2>2
  <1> HIDE DEF place
  <1>4. \A k \in 1 .. n : (CHOOSE x \in S : place[x] = k - 1) = e[k]
    <2> SUFFICES ASSUME NEW k \in 1 .. n PROVE (CHOOSE x \in S : place[x] = k - 1) = e[k]
      OBVIOUS
    <2>1. e[k] \in S /\ place[e[k]] = k - 1
      BY <1>2, <1>3
    <2>2. \A x \in S : place[x] = k - 1 => x = e[k]
      <3> SUFFICES ASSUME NEW x \in S, place[x] = k - 1 PROVE x = e[k]
        OBVIOUS
      <3>1. PICK i \in 1 .. n : e[i] = x
        BY <1>2
      <3>2. i - 1 = k - 1
        BY <1>3, <3>1
      <3>3. QED
        BY <3>1, <3>2
    <2>3. QED
      BY <2>1, <2>2
  <1>5. [k \in 1 .. n |-> CHOOSE x \in S : place[x] = k - 1] = e
    <2>1. [k \in 1 .. n |-> CHOOSE x \in S : place[x] = k - 1] = [k \in 1 .. n |-> e[k]]
      BY <1>4
    <2>2. QED
      BY <1>2, <2>1
  <1>6. Arranged(S, R) = e
    BY <1>5 DEF Arranged, place
  <1>7. QED
    BY <1>1, <1>6

(* t is the items of s at the positions I, in their order. *)
PickedFrom(t, s, I) ==
  /\ Len(t) = Cardinality(I)
  /\ \E at \in [1 .. Len(t) -> I] :
       /\ \A i, j \in 1 .. Len(t) : i < j <=> at[i] < at[j]
       /\ \A x \in I : \E k \in 1 .. Len(t) : at[k] = x
       /\ \A k \in 1 .. Len(t) : t[k] = s[at[k]]

LEMMA PickedFacts ==
  ASSUME NEW X, NEW s \in Seq(X), NEW I \in SUBSET (1 .. Len(s))
  PROVE  Picked(s, I) \in Seq(X) /\ PickedFrom(Picked(s, I), s, I)
  <1> DEFINE n == Cardinality(I)
             R == {x \in I \X I : x[1] < x[2]}
             at == Arranged(I, R)
             t == Picked(s, I)
  <1>1. IsFiniteSet(I) /\ n \in Nat
    <2>1. IsFiniteSet(1 .. Len(s))
      BY FS_Interval
    <2>2. QED
      BY <2>1, FS_Subset, FS_CardinalityType
  <1>2. \A x, y \in I : <<x, y>> \in R <=> x < y
    OBVIOUS
  <1>3. StrictOrder(I, R)
    <2> HIDE DEF R
    <2>1. \A x \in I : x \in Int
      OBVIOUS
    <2>2. QED
      BY <1>2, <2>1 DEF StrictOrder
  <1>4. IsArranged(at, I, R)
    <2> HIDE DEF R
    <2>1. QED
      BY <1>1, <1>3, ArrangedIs
  <1> HIDE DEF R
  <1>5. t = [k \in 1 .. n |-> s[at[k]]]
    BY DEF Picked, R
  <1> HIDE DEF t, at
  <1>6. /\ at \in [1 .. n -> I]
        /\ \A i, j \in 1 .. n : i < j <=> <<at[i], at[j]>> \in R
        /\ \A x \in I : \E k \in 1 .. n : at[k] = x
    BY <1>4 DEF IsArranged
  <1>7. \A k \in 1 .. n : s[at[k]] \in X
    <2>1. \A k \in 1 .. n : at[k] \in 1 .. Len(s)
      BY <1>6
    <2>2. \A k \in 1 .. Len(s) : s[k] \in X
      OBVIOUS
    <2>3. QED
      BY <2>1, <2>2
  <1>8. t \in Seq(X) /\ Len(t) = n /\ \A k \in 1 .. n : t[k] = s[at[k]]
    BY <1>1, <1>5, <1>7
  <1>9. \A i, j \in 1 .. n : i < j <=> at[i] < at[j]
    BY <1>2, <1>6
  <1>10. QED
    BY <1>6, <1>8, <1>9 DEF PickedFrom, t

LEMMA PickedElements ==
  ASSUME NEW X, NEW s \in Seq(X), NEW I \in SUBSET (1 .. Len(s))
  PROVE  Picked(s, I) \in Seq(X) /\ ToSet(Picked(s, I)) = {s[i] : i \in I}
  <1> DEFINE t == Picked(s, I)
  <1>1. t \in Seq(X) /\ PickedFrom(t, s, I)
    BY PickedFacts
  <1> HIDE DEF t
  <1>2. PICK at \in [1 .. Len(t) -> I] :
          /\ \A x \in I : \E k \in 1 .. Len(t) : at[k] = x
          /\ \A k \in 1 .. Len(t) : t[k] = s[at[k]]
    BY <1>1 DEF PickedFrom
  <1>3. DOMAIN t = 1 .. Len(t)
    BY <1>1
  <1>4. \A k \in DOMAIN t : t[k] \in {s[i] : i \in I}
    BY <1>2, <1>3
  <1>5. \A i \in I : \E k \in DOMAIN t : t[k] = s[i]
    BY <1>2, <1>3
  <1>6. ToSet(t) = {s[i] : i \in I}
    BY <1>4, <1>5 DEF ToSet
  <1>7. QED
    BY <1>1, <1>6 DEF t

(* What is less, or equal and in front. *)
LEMMA BeforeIsStrict ==
  ASSUME NEW n \in Nat, NEW less,
         \A i \in 1 .. n : <<i, i>> \notin less,
         \A i, j, k \in 1 .. n : <<i, k>> \in less => <<i, j>> \in less \/ <<j, k>> \in less,
         \A i, j \in 1 .. n : <<i, j>> \in less => <<j, i>> \notin less,
         NEW R, \A i, j \in 1 .. n : <<i, j>> \in R <=>
                  <<i, j>> \in less \/ (<<j, i>> \notin less /\ i < j)
  PROVE  StrictOrder(1 .. n, R)
  <1>0. \A i, j \in 1 .. n : <<i, j>> \in R <=> <<i, j>> \in less \/ (<<j, i>> \notin less /\ i < j)
    OBVIOUS
  <1>1. \A x \in 1 .. n : <<x, x>> \notin R
    <2> SUFFICES ASSUME NEW x \in 1 .. n, <<x, x>> \in R PROVE FALSE
      OBVIOUS
    <2>1. <<x, x>> \in less \/ x < x
      BY <1>0
    <2>2. <<x, x>> \notin less
      BY Zenon
    <2>3. QED
      BY <2>1, <2>2
  <1>2. ASSUME NEW x \in 1 .. n, NEW y \in 1 .. n, NEW z \in 1 .. n, <<x, y>> \in R, <<y, z>> \in R
        PROVE  <<x, z>> \in R
    <2>1. CASE <<x, z>> \in less
      BY <2>1
    <2>2. CASE <<x, z>> \notin less
      <3>1. <<z, x>> \notin less
        BY <1>2
      <3>2. <<x, y>> \notin less \/ <<y, z>> \notin less
        BY <2>2, <3>1
      <3>3. <<x, y>> \notin less /\ <<y, z>> \notin less
        BY <1>2, <2>2, <3>1, <3>2
      <3>4. x < y /\ y < z
        BY <1>2, <3>3
      <3>5. QED
        BY <3>1, <3>4
    <2>3. QED
      BY <2>1, <2>2
  <1>3. \A x, y \in 1 .. n : x = y \/ <<x, y>> \in R \/ <<y, x>> \in R
    <2> SUFFICES ASSUME NEW x \in 1 .. n, NEW y \in 1 .. n, x # y PROVE <<x, y>> \in R \/ <<y, x>> \in R
      OBVIOUS
    <2>1. x < y \/ y < x
      OBVIOUS
    <2>2. QED
      BY <1>0, <2>1
  <1>4. QED
    BY <1>1, <1>2, <1>3 DEF StrictOrder

(* t is s in another order: that of less, and where less does not tell two *)
(* items apart that of s.                                                  *)
SortedFrom(t, s, less) ==
  /\ Len(t) = Len(s)
  /\ \E at \in [1 .. Len(t) -> 1 .. Len(s)] :
       /\ \A i, j \in 1 .. Len(t) : i < j <=>
            <<at[i], at[j]>> \in less \/ (<<at[j], at[i]>> \notin less /\ at[i] < at[j])
       /\ \A x \in 1 .. Len(s) : \E k \in 1 .. Len(t) : at[k] = x
       /\ \A k \in 1 .. Len(t) : t[k] = s[at[k]]

LEMMA StableSortFacts ==
  ASSUME NEW X, NEW s \in Seq(X), NEW less,
         \A i \in 1 .. Len(s) : <<i, i>> \notin less,
         \A i, j, k \in 1 .. Len(s) : <<i, k>> \in less => <<i, j>> \in less \/ <<j, k>> \in less,
         \A i, j \in 1 .. Len(s) : <<i, j>> \in less => <<j, i>> \notin less
  PROVE  StableSort(s, less) \in Seq(X) /\ SortedFrom(StableSort(s, less), s, less)
  <1> DEFINE n == Len(s)
             R == {x \in (1 .. n) \X (1 .. n) :
                     x \in less \/ (<<x[2], x[1]>> \notin less /\ x[1] < x[2])}
             at == Arranged(1 .. n, R)
             t == StableSort(s, less)
  <1>1. IsFiniteSet(1 .. n) /\ Cardinality(1 .. n) = n /\ n \in Nat
    BY FS_Interval
  <1>2. \A i, j \in 1 .. n : <<i, j>> \in R <=> <<i, j>> \in less \/ (<<j, i>> \notin less /\ i < j)
    OBVIOUS
  <1>3. t = [k \in 1 .. n |-> s[at[k]]]
    <2>1. DOMAIN s = 1 .. n
      OBVIOUS
    <2>2. QED
      BY <2>1 DEF StableSort
  <1> HIDE DEF R, t
  <1>4. StrictOrder(1 .. n, R)
    BY <1>1, <1>2, BeforeIsStrict
  <1>5. IsArranged(at, 1 .. n, R)
    BY <1>1, <1>4, ArrangedIs
  <1> HIDE DEF at
  <1>6. /\ at \in [1 .. n -> 1 .. n]
        /\ \A i, j \in 1 .. n : i < j <=> <<at[i], at[j]>> \in R
        /\ \A x \in 1 .. n : \E k \in 1 .. n : at[k] = x
    BY <1>1, <1>5 DEF IsArranged
  <1>7. \A k \in 1 .. n : s[at[k]] \in X
    BY <1>6
  <1>8. t \in Seq(X) /\ Len(t) = n /\ \A k \in 1 .. n : t[k] = s[at[k]]
    BY <1>1, <1>3, <1>7
  <1>9. \A i, j \in 1 .. n : i < j <=>
          <<at[i], at[j]>> \in less \/ (<<at[j], at[i]>> \notin less /\ at[i] < at[j])
    <2> SUFFICES ASSUME NEW i \in 1 .. n, NEW j \in 1 .. n
                 PROVE  i < j <=> <<at[i], at[j]>> \in less \/ (<<at[j], at[i]>> \notin less /\ at[i] < at[j])
      OBVIOUS
    <2>1. at[i] \in 1 .. n /\ at[j] \in 1 .. n
      BY <1>6
    <2>2. i < j <=> <<at[i], at[j]>> \in R
      BY <1>6
    <2>3. <<at[i], at[j]>> \in R <=> <<at[i], at[j]>> \in less \/ (<<at[j], at[i]>> \notin less /\ at[i] < at[j])
      BY <1>2, <2>1
    <2>4. QED
      BY <2>2, <2>3
  <1>10. QED
    BY <1>6, <1>8, <1>9 DEF SortedFrom, t

-----------------------------------------------------------------------------
(* Sequences in an order. *)

Ascends(s, R) == \A i, j \in DOMAIN s : i < j => <<s[i], s[j]>> \in R

(* A sequence in a strict order arranges the set of its items. *)
LEMMA AscendingIsArranged ==
  ASSUME NEW X, NEW R, StrictOrder(X, R), NEW s \in Seq(X), Ascends(s, R)
  PROVE  /\ IsFiniteSet(ToSet(s)) /\ Cardinality(ToSet(s)) = Len(s)
         /\ IsArranged(s, ToSet(s), R)
         /\ \A i, j \in 1 .. Len(s) : s[i] = s[j] => i = j
  <1> DEFINE n == Len(s)
             S == ToSet(s)
  <1>1. n \in Nat /\ DOMAIN s = 1 .. n /\ s = [k \in 1 .. n |-> s[k]]
    OBVIOUS
  <1>2. /\ \A k \in 1 .. n : s[k] \in S /\ s[k] \in X
        /\ \A x \in S : \E k \in 1 .. n : s[k] = x
    BY <1>1 DEF ToSet
  <1>0. n \in Nat
    BY <1>1
  <1> HIDE DEF n, S
  <1>3. \A i, j \in 1 .. n : i < j => <<s[i], s[j]>> \in R
    BY <1>1 DEF Ascends
  <1>4. \A i, j \in 1 .. n : <<s[i], s[j]>> \in R => i < j
    <2> SUFFICES ASSUME NEW i \in 1 .. n, NEW j \in 1 .. n, <<s[i], s[j]>> \in R, ~(i < j) PROVE FALSE
      OBVIOUS
    <2>1. i = j \/ <<s[j], s[i]>> \in R
      <3>1. i = j \/ j < i
        BY <1>0
      <3>2. QED
        BY <1>3, <3>1
    <2>2. <<s[i], s[i]>> \notin R
      BY <1>2 DEF StrictOrder
    <2>3. <<s[j], s[i]>> \in R => <<s[i], s[i]>> \in R
      BY <1>2 DEF StrictOrder
    <2>4. QED
      BY <2>1, <2>2, <2>3
  <1>5. \A i, j \in 1 .. n : s[i] = s[j] => i = j
    <2> SUFFICES ASSUME NEW i \in 1 .. n, NEW j \in 1 .. n, s[i] = s[j], i < j PROVE FALSE
      BY <1>1
    <2>1. <<s[i], s[i]>> \in R
      BY <1>3
    <2>2. QED
      BY <1>2, <2>1 DEF StrictOrder
  <1>6. s \in Bijection(1 .. n, S)
    <2>1. s \in [1 .. n -> S]
      BY <1>1, <1>2
    <2>2. QED
      BY <1>2, <1>5, <2>1, Fun_IsBij
  <1>7. ExistsBijection(1 .. n, S)
    BY <1>6 DEF ExistsBijection
  <1>8. IsFiniteSet(1 .. n) /\ Cardinality(1 .. n) = n
    BY <1>0, FS_Interval
  <1>9. IsFiniteSet(S) /\ Cardinality(S) = n
    BY <1>7, <1>8, FS_Bijection
  <1>10. IsArranged(s, S, R)
    <2>1. s \in [1 .. n -> S]
      BY <1>1, <1>2
    <2>2. QED
      BY <1>2, <1>3, <1>4, <1>9, <2>1 DEF IsArranged
  <1>11. QED
    BY <1>5, <1>9, <1>10 DEF n, S

(* Two sequences in the same strict order with the same items are equal. *)
LEMMA AscendingIsUnique ==
  ASSUME NEW X, NEW R, StrictOrder(X, R), NEW s \in Seq(X), NEW t \in Seq(X), Ascends(s, R), Ascends(t, R),
         ToSet(s) = ToSet(t)
  PROVE  s = t
  <1> DEFINE S == ToSet(s)
             n == Cardinality(S)
  <1>1. IsFiniteSet(S) /\ n = Len(s) /\ n = Len(t) /\ n \in Nat
    BY AscendingIsArranged, FS_CardinalityType
  <1>2. IsArranged(s, S, R) /\ IsArranged(t, S, R)
    BY AscendingIsArranged
  <1> HIDE DEF S, n
  <1>3. /\ \A k \in 1 .. n : Cardinality({y \in S : <<y, s[k]>> \in R}) = k - 1
        /\ \A k \in 1 .. n : Cardinality({y \in S : <<y, t[k]>> \in R}) = k - 1
    BY <1>1, <1>2, PlaceInList DEF n
  <1>4. /\ s \in [1 .. n -> S] /\ t \in [1 .. n -> S]
        /\ \A x \in S : \E k \in 1 .. n : t[k] = x
    BY <1>2 DEF IsArranged, n
  <1>5. \A k \in 1 .. n : s[k] = t[k]
    <2> SUFFICES ASSUME NEW k \in 1 .. n PROVE s[k] = t[k]
      OBVIOUS
    <2>1. PICK j \in 1 .. n : t[j] = s[k]
      BY <1>4
    <2>2. k - 1 = j - 1
      BY <1>3, <2>1
    <2>3. QED
      BY <2>1, <2>2
  <1>6. s = [k \in 1 .. n |-> s[k]] /\ t = [k \in 1 .. n |-> t[k]]
    BY <1>4
  <1>7. [k \in 1 .. n |-> s[k]] = [k \in 1 .. n |-> t[k]]
    BY <1>5
  <1>8. QED
    BY <1>6, <1>7

(* Sequences one after the other. *)
LEMMA ConcatLoop ==
  ASSUME NEW X, NEW ss \in Seq(Seq(X))
  PROVE  \E u \in [0 .. Len(ss) -> Seq(X)] :
           /\ u[0] = <<>> /\ Concat(ss) = u[Len(ss)]
           /\ \A i \in 1 .. Len(ss) : u[i] = u[i - 1] \o ss[i]
  <1> DEFINE k == Len(ss)
             D == Seq(X)
             none == <<>>
  <1>1. k \in Nat /\ none \in D
    OBVIOUS
  <1> HIDE DEF k, D, none
  <1>2. \A next \in [1 .. k -> [D -> D]] :
          \E f \in [0 .. k -> D] : f[0] = none /\ \A i \in 1 .. k : f[i] = next[i][f[i - 1]]
    BY <1>1, LoopDefined
  <1> DEFINE After(s, i) == s \o ss[i]
             next == [i \in 1 .. k |-> [s \in D |-> After(s, i)]]
             Loop(f) == f = [i \in 0 .. k |-> IF i = 0 THEN none ELSE After(f[i - 1], i)]
  <1>3. \A s \in D, i \in 1 .. k : After(s, i) \in D
    BY DEF D, k
  <1> HIDE DEF After
  <1>4. \E f : Loop(f)
    <2>1. next \in [1 .. k -> [D -> D]]
      BY <1>3
    <2>2. PICK f \in [0 .. k -> D] : f[0] = none /\ \A i \in 1 .. k : f[i] = next[i][f[i - 1]]
      BY <1>2, <2>1
    <2>3. \A i \in 0 .. k : f[i] = IF i = 0 THEN none ELSE After(f[i - 1], i)
      <3>1. \A i \in 1 .. k : i - 1 \in 0 .. k
        BY <1>1
      <3>2. \A i \in 1 .. k : f[i] = After(f[i - 1], i)
        BY <1>1, <2>2, <3>1
      <3>3. QED
        BY <1>1, <2>2, <3>2
    <2>4. f = [i \in 0 .. k |-> f[i]]
      BY <2>2
    <2>5. QED
      BY <2>3, <2>4
  <1> DEFINE u == CHOOSE g : Loop(g)
  <1>5. Loop(u) /\ Concat(ss) = u[k]
    BY <1>4 DEF Concat, After, none, k
  <1> HIDE DEF u
  <1>6. u[0] = none /\ \A i \in 1 .. k : u[i] = After(u[i - 1], i)
    <2>1. \A i \in 0 .. k : u[i] = IF i = 0 THEN none ELSE After(u[i - 1], i)
      BY <1>5
    <2>2. QED
      BY <1>1, <2>1
  <1> HIDE DEF Loop
  <1>7. u \in [0 .. k -> D]
    <2> DEFINE T == {i \in 0 .. k : u[i] \in D}
    <2>1. 0 \in T
      BY <1>1, <1>6
    <2>2. \A i \in 1 .. k : i - 1 \in T => i \in T
      BY <1>3, <1>6
    <2>3. 0 .. k \subseteq T
      <3> HIDE DEF T
      <3>1. QED
        BY <1>1, <2>1, <2>2, RangeInduction
    <2>4. u = [i \in 0 .. k |-> u[i]]
      <3>1. u = [i \in 0 .. k |-> IF i = 0 THEN none ELSE After(u[i - 1], i)]
        BY <1>5 DEF Loop
      <3>2. [i \in 0 .. k |-> IF i = 0 THEN none ELSE After(u[i - 1], i)] = [i \in 0 .. k |-> u[i]]
        BY <1>1, <1>6
      <3>3. QED
        BY <3>1, <3>2
    <2>5. QED
      BY <2>3, <2>4
  <1>8. QED
    BY <1>5, <1>6, <1>7 DEF After, k, D, none

LEMMA JoinFacts ==
  ASSUME NEW X, NEW s \in Seq(X), NEW t \in Seq(X)
  PROVE  /\ s \o t \in Seq(X) /\ Len(s \o t) = Len(s) + Len(t)
         /\ \A i \in 1 .. Len(s) : (s \o t)[i] = s[i]
         /\ \A i \in Len(s) + 1 .. Len(s) + Len(t) : (s \o t)[i] = t[i - Len(s)]
         /\ ToSet(s \o t) = ToSet(s) \union ToSet(t)
  <1> DEFINE u == s \o t
  <1>1. /\ u \in Seq(X) /\ Len(u) = Len(s) + Len(t) /\ Len(s) \in Nat /\ Len(t) \in Nat
        /\ \A i \in 1 .. Len(s) : u[i] = s[i]
        /\ \A i \in Len(s) + 1 .. Len(s) + Len(t) : u[i] = t[i - Len(s)]
    OBVIOUS
  <1>2. DOMAIN u = 1 .. Len(s) + Len(t) /\ DOMAIN s = 1 .. Len(s) /\ DOMAIN t = 1 .. Len(t)
    BY <1>1
  <1> HIDE DEF u
  <1>3. \A i \in DOMAIN u : u[i] \in ToSet(s) \union ToSet(t)
    <2> SUFFICES ASSUME NEW i \in DOMAIN u PROVE u[i] \in ToSet(s) \union ToSet(t)
      OBVIOUS
    <2>1. CASE i \in 1 .. Len(s)
      BY <1>1, <1>2, <2>1 DEF ToSet
    <2>2. CASE i \in Len(s) + 1 .. Len(s) + Len(t)
      <3>1. i - Len(s) \in 1 .. Len(t)
        BY <1>1, <2>2
      <3>2. QED
        BY <1>1, <1>2, <2>2, <3>1 DEF ToSet
    <2>3. QED
      BY <1>1, <1>2, <2>1, <2>2
  <1>4. \A i \in DOMAIN s : \E k \in DOMAIN u : u[k] = s[i]
    BY <1>1, <1>2
  <1>5. \A i \in DOMAIN t : \E k \in DOMAIN u : u[k] = t[i]
    <2> SUFFICES ASSUME NEW i \in DOMAIN t PROVE u[Len(s) + i] = t[i] /\ Len(s) + i \in DOMAIN u
      OBVIOUS
    <2>1. Len(s) + i \in Len(s) + 1 .. Len(s) + Len(t) /\ (Len(s) + i) - Len(s) = i
      BY <1>1, <1>2
    <2>2. QED
      BY <1>1, <1>2, <2>1
  <1>6. ToSet(u) = ToSet(s) \union ToSet(t)
    BY <1>3, <1>4, <1>5 DEF ToSet
  <1>7. QED
    BY <1>1, <1>6 DEF u

LEMMA JoinAscends ==
  ASSUME NEW X, NEW R, NEW s \in Seq(X), NEW t \in Seq(X), Ascends(s, R), Ascends(t, R),
         \A x \in ToSet(s), y \in ToSet(t) : <<x, y>> \in R
  PROVE  Ascends(s \o t, R)
  <1> DEFINE u == s \o t
             m == Len(s)
             n == Len(t)
  <1>1. /\ m \in Nat /\ n \in Nat /\ u \in Seq(X) /\ Len(u) = m + n
        /\ \A i \in 1 .. m : u[i] = s[i]
        /\ \A i \in m + 1 .. m + n : u[i] = t[i - m]
    BY JoinFacts
  <1>2. DOMAIN u = 1 .. m + n /\ DOMAIN s = 1 .. m /\ DOMAIN t = 1 .. n
    BY <1>1
  <1> HIDE DEF u, m, n
  <1> SUFFICES ASSUME NEW i \in 1 .. m + n, NEW j \in 1 .. m + n, i < j PROVE <<u[i], u[j]>> \in R
    BY <1>2 DEF Ascends, u
  <1>3. CASE j \in 1 .. m
    <2>1. i \in 1 .. m
      BY <1>1, <1>3
    <2>2. QED
      BY <1>1, <1>2, <1>3, <2>1 DEF Ascends
  <1>4. CASE i \in 1 .. m /\ j \in m + 1 .. m + n
    <2>1. j - m \in 1 .. n
      BY <1>1, <1>4
    <2>2. s[i] \in ToSet(s) /\ t[j - m] \in ToSet(t)
      BY <1>2, <1>4, <2>1 DEF ToSet
    <2>3. QED
      BY <1>1, <1>4, <2>2
  <1>5. CASE i \in m + 1 .. m + n /\ j \in m + 1 .. m + n
    <2>1. i - m \in 1 .. n /\ j - m \in 1 .. n /\ i - m < j - m
      BY <1>1, <1>5
    <2>2. <<t[i - m], t[j - m]>> \in R
      BY <1>2, <2>1 DEF Ascends
    <2>3. QED
      BY <1>1, <1>5, <2>2
  <1>6. QED
    BY <1>1, <1>3, <1>4, <1>5

LEMMA ConcatFacts ==
  ASSUME NEW X, NEW ss \in Seq(Seq(X))
  PROVE  /\ Concat(ss) \in Seq(X)
         /\ ToSet(Concat(ss)) = UNION {ToSet(ss[i]) : i \in 1 .. Len(ss)}
  <1> DEFINE k == Len(ss)
             Upto(n) == UNION {ToSet(ss[i]) : i \in 1 .. n}
  <1>1. PICK u \in [0 .. k -> Seq(X)] : /\ u[0] = <<>> /\ Concat(ss) = u[k]
                                        /\ \A i \in 1 .. k : u[i] = u[i - 1] \o ss[i]
    BY ConcatLoop
  <1>2. k \in Nat /\ \A i \in 1 .. k : ss[i] \in Seq(X)
    OBVIOUS
  <1> HIDE DEF k
  <1> DEFINE S == {n \in 0 .. k : ToSet(u[n]) = Upto(n)}
  <1>3. 0 \in S
    BY <1>1, <1>2 DEF ToSet
  <1>4. ASSUME NEW n \in 1 .. k, n - 1 \in S PROVE n \in S
    <2>1. u[n - 1] \in Seq(X) /\ ss[n] \in Seq(X) /\ u[n] = u[n - 1] \o ss[n]
      BY <1>1, <1>2, <1>4
    <2>2. ToSet(u[n]) = ToSet(u[n - 1]) \union ToSet(ss[n])
      BY <2>1, JoinFacts
    <2>3. Upto(n) = Upto(n - 1) \union ToSet(ss[n])
      <3>1. \A i : i \in 1 .. n <=> i \in 1 .. n - 1 \/ i = n
        BY <1>2
      <3>2. QED
        BY <3>1
    <2>4. QED
      BY <1>4, <2>2, <2>3
  <1>5. k \in S
    <2> HIDE DEF S
    <2>1. 0 .. k \subseteq S
      BY <1>2, <1>3, <1>4, RangeInduction
    <2>2. QED
      BY <1>2, <2>1
  <1>6. QED
    BY <1>1, <1>2, <1>5 DEF k

LEMMA ConcatAscends ==
  ASSUME NEW X, NEW R, NEW ss \in Seq(Seq(X)),
         \A i \in 1 .. Len(ss) : Ascends(ss[i], R),
         \A i, j \in 1 .. Len(ss) : i < j => \A x \in ToSet(ss[i]), y \in ToSet(ss[j]) : <<x, y>> \in R
  PROVE  Ascends(Concat(ss), R)
  <1> DEFINE k == Len(ss)
  <1>1. PICK u \in [0 .. k -> Seq(X)] : /\ u[0] = <<>> /\ Concat(ss) = u[k]
                                        /\ \A i \in 1 .. k : u[i] = u[i - 1] \o ss[i]
    BY ConcatLoop
  <1>2. k \in Nat /\ \A i \in 1 .. k : ss[i] \in Seq(X)
    OBVIOUS
  <1>3. /\ \A i \in 1 .. k : Ascends(ss[i], R)
        /\ \A i, j \in 1 .. k : i < j => \A x \in ToSet(ss[i]), y \in ToSet(ss[j]) : <<x, y>> \in R
    OBVIOUS
  <1> HIDE DEF k
  <1> DEFINE Given(n) == \A x \in ToSet(u[n]) : \E i \in 1 .. n : x \in ToSet(ss[i])
             S == {n \in 0 .. k : Ascends(u[n], R) /\ Given(n)}
  <1>4. 0 \in S
    BY <1>1, <1>2 DEF ToSet, Ascends
  <1>5. ASSUME NEW n \in 1 .. k, n - 1 \in S PROVE n \in S
    <2>1. u[n - 1] \in Seq(X) /\ ss[n] \in Seq(X) /\ u[n] = u[n - 1] \o ss[n]
      BY <1>1, <1>2, <1>5
    <2>2. ToSet(u[n]) = ToSet(u[n - 1]) \union ToSet(ss[n])
      BY <2>1, JoinFacts
    <2>3. Given(n - 1) /\ Ascends(u[n - 1], R)
      BY <1>5
    <2>4. Given(n)
      <3>1. ASSUME NEW x \in ToSet(u[n]) PROVE \E i \in 1 .. n : x \in ToSet(ss[i])
        <4>1. CASE x \in ToSet(ss[n])
          BY <1>2, <4>1
        <4>2. CASE x \in ToSet(u[n - 1])
          <5>1. PICK i \in 1 .. n - 1 : x \in ToSet(ss[i])
            BY <2>3, <4>2
          <5>2. i \in 1 .. n
            BY <1>2
          <5>3. QED
            BY <5>1, <5>2
        <4>3. QED
          BY <2>2, <4>1, <4>2
      <3>2. QED
        BY <3>1
    <2>5. ASSUME NEW x \in ToSet(u[n - 1]), NEW y \in ToSet(ss[n]) PROVE <<x, y>> \in R
      <3>1. PICK i \in 1 .. n - 1 : x \in ToSet(ss[i])
        BY <2>3
      <3>2. i \in 1 .. k /\ n \in 1 .. k /\ i < n
        BY <1>2
      <3>3. QED
        BY <1>3, <3>1, <3>2
    <2>6. Ascends(u[n], R)
      BY <1>3, <2>1, <2>3, <2>5, JoinAscends
    <2>7. QED
      BY <2>4, <2>6
  <1>6. k \in S
    <2> HIDE DEF S
    <2>1. 0 .. k \subseteq S
      BY <1>2, <1>4, <1>5, RangeInduction
    <2>2. QED
      BY <1>2, <2>1
  <1>7. QED
    BY <1>1, <1>6
=============================================================================
