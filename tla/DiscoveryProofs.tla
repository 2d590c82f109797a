---------------------------- MODULE DiscoveryProofs ---------------------------
(***************************************************************************)
(* What the artifact discovery reports and warns of, over every disk.      *)
(*                                                                         *)
(* The code walks with a stack of folders, the properties are told level   *)
(* by level; both are compared with Under, which tells bottom-up what can  *)
(* be found below a folder.  The invariant says that what was made, what   *)
(* the stack still gives and what the walks to come will find are together *)
(* the whole report (Covered), and that on a disk without repeated names   *)
(* these are disjoint (Single).                                            *)
(***************************************************************************)
EXTENDS CommandLine, DataLemmas

-----------------------------------------------------------------------------
(* Lists. *)

Distinct(s) == \A i, j \in 1 .. Len(s) : s[i] = s[j] => i = j

LEMMA ElementsOfAppend ==
  ASSUME NEW X, NEW s \in Seq(X), NEW x \in X
  PROVE  Append(s, x) \in Seq(X) /\ Elements(Append(s, x)) = Elements(s) \union {x}
  <1>1. /\ Append(s, x) \in Seq(X) /\ Len(Append(s, x)) = Len(s) + 1
        /\ \A i \in 1 .. Len(s) : Append(s, x)[i] = s[i]
        /\ Append(s, x)[Len(s) + 1] = x
    BY AppendFacts
  <1> DEFINE t == Append(s, x)
  <1> HIDE DEF t
  <1>2. ASSUME NEW y \in Elements(s) PROVE y \in Elements(t)
    BY <1>1 DEF Elements, t
  <1>3. x \in Elements(t)
    BY <1>1 DEF Elements, t
  <1>4. ASSUME NEW y \in Elements(t) PROVE y \in Elements(s) \union {x}
    <2>1. PICK i \in 1 .. Len(t) : y = t[i]
      BY DEF Elements
    <2>2. i \in 1 .. Len(s) \/ i = Len(s) + 1
      BY <1>1 DEF t
    <2>3. QED
      BY <1>1, <2>1, <2>2 DEF Elements, t
  <1>5. QED
    BY <1>1, <1>2, <1>3, <1>4 DEF t

LEMMA DistinctAppend ==
  ASSUME NEW X, NEW s \in Seq(X), NEW x \in X, Distinct(s), x \notin Elements(s)
  PROVE  Distinct(Append(s, x))
  <1>1. /\ Len(Append(s, x)) = Len(s) + 1
        /\ \A i \in 1 .. Len(s) : Append(s, x)[i] = s[i] /\ s[i] # x
        /\ Append(s, x)[Len(s) + 1] = x
    BY AppendFacts DEF Elements
  <1> DEFINE t == Append(s, x)
  <1>2. SUFFICES ASSUME NEW i \in 1 .. Len(s) + 1, NEW j \in 1 .. Len(s) + 1, t[i] = t[j] PROVE i = j
    BY <1>1 DEF Distinct
  <1> HIDE DEF t
  <1>3. CASE i \in 1 .. Len(s) /\ j \in 1 .. Len(s)
    BY <1>1, <1>2, <1>3 DEF Distinct, t
  <1>4. CASE i = Len(s) + 1 \/ j = Len(s) + 1
    BY <1>1, <1>2, <1>4 DEF t
  <1>5. QED
    BY <1>3, <1>4

LEMMA ElementsOfTail ==
  ASSUME NEW X, NEW s \in Seq(X), s # <<>>
  PROVE  /\ Head(s) \in X /\ Tail(s) \in Seq(X) /\ Elements(s) = {Head(s)} \union Elements(Tail(s))
         /\ Head(s) = s[1] /\ Len(Tail(s)) = Len(s) - 1
         /\ \A i \in 1 .. Len(s) - 1 : Tail(s)[i] = s[i + 1]
  <1>1. /\ Len(s) > 0 /\ Head(s) \in X /\ Head(s) = s[1]
        /\ Tail(s) \in Seq(X) /\ Len(Tail(s)) = Len(s) - 1
        /\ \A i \in 1 .. Len(s) - 1 : Tail(s)[i] = s[i + 1]
    BY TailFacts
  <1> DEFINE t == Tail(s)
  <1> HIDE DEF t
  <1>2. ASSUME NEW y \in Elements(s) PROVE y = Head(s) \/ y \in Elements(t)
    <2>1. PICK i \in 1 .. Len(s) : y = s[i]
      BY DEF Elements
    <2>2. CASE i # 1
      <3>1. i - 1 \in 1 .. Len(t) /\ t[i - 1] = y
        BY <1>1, <2>1, <2>2 DEF t
      <3>2. QED
        BY <3>1 DEF Elements
    <2>3. QED
      BY <1>1, <2>1, <2>2
  <1>3. ASSUME NEW y \in Elements(t) PROVE y \in Elements(s)
    <2>1. PICK i \in 1 .. Len(t) : y = t[i]
      BY DEF Elements
    <2>2. i + 1 \in 1 .. Len(s) /\ y = s[i + 1]
      BY <1>1, <2>1 DEF t
    <2>3. QED
      BY <2>2 DEF Elements
  <1>4. Head(s) \in Elements(s)
    <2>1. 1 \in 1 .. Len(s) /\ Head(s) = s[1]
      BY <1>1
    <2>2. QED
      BY <2>1 DEF Elements
  <1>5. QED
    BY <1>1, <1>2, <1>3, <1>4 DEF t

(* Lookups, walks and records are told apart by these two fields. *)
Key(x) == <<x.artifact, x.profile>>
KeysDiffer(s) == \A i, j \in 1 .. Len(s) : Key(s[i]) = Key(s[j]) => i = j

LEMMA KeysOfTail ==
  ASSUME NEW X, NEW s \in Seq(X), s # <<>>, KeysDiffer(s)
  PROVE  /\ KeysDiffer(Tail(s))
         /\ \A x \in Elements(Tail(s)) : Key(x) # Key(Head(s))
  <1>1. /\ Len(s) > 0 /\ Head(s) = s[1] /\ Len(Tail(s)) = Len(s) - 1
        /\ \A i \in 1 .. Len(s) - 1 : Tail(s)[i] = s[i + 1]
    BY TailFacts
  <1> DEFINE t == Tail(s)
  <1>2. \A i \in 1 .. Len(t) : i + 1 \in 1 .. Len(s) /\ t[i] = s[i + 1] /\ 1 \in 1 .. Len(s) /\ i + 1 # 1
    BY <1>1
  <1> HIDE DEF t
  <1>3. KeysDiffer(t)
    <2>1. SUFFICES ASSUME NEW i \in 1 .. Len(t), NEW j \in 1 .. Len(t), Key(t[i]) = Key(t[j]) PROVE i = j
      BY DEF KeysDiffer
    <2>2. i + 1 = j + 1
      <3>1. Key(s[i + 1]) = Key(s[j + 1])
        BY <1>2, <2>1
      <3>2. QED
        BY <1>2, <3>1 DEF KeysDiffer
    <2>3. QED
      BY <2>2
  <1>4. ASSUME NEW i \in 1 .. Len(t), Key(t[i]) = Key(s[1]) PROVE FALSE
    <2>1. Key(s[i + 1]) = Key(s[1])
      BY <1>2, <1>4
    <2>2. QED
      BY <1>2, <2>1 DEF KeysDiffer
  <1>5. \A x \in Elements(t) : Key(x) # Key(Head(s))
    BY <1>1, <1>4 DEF Elements
  <1>6. QED
    BY <1>3, <1>5 DEF t

LEMMA ElementsOfConcat ==
  ASSUME NEW X, NEW s \in Seq(X), NEW t \in Seq(X)
  PROVE  /\ s \o t \in Seq(X) /\ Len(s \o t) = Len(s) + Len(t)
         /\ Elements(s \o t) = Elements(s) \union Elements(t)
         /\ \A i \in 1 .. Len(s) : (s \o t)[i] = s[i]
         /\ \A i \in 1 .. Len(t) : (s \o t)[Len(s) + i] = t[i]
  <1>1. /\ s \o t \in Seq(X) /\ Len(s \o t) = Len(s) + Len(t)
        /\ \A i \in 1 .. Len(s) : (s \o t)[i] = s[i]
        /\ \A i \in 1 .. Len(t) : (s \o t)[Len(s) + i] = t[i]
    OBVIOUS
  <1> DEFINE c == s \o t
  <1> HIDE DEF c
  <1>2. ASSUME NEW x \in Elements(c) PROVE x \in Elements(s) \union Elements(t)
    <2>1. PICK i \in 1 .. Len(c) : x = c[i]
      BY DEF Elements
    <2>2. CASE i \in 1 .. Len(s)
      BY <1>1, <2>1, <2>2 DEF c, Elements
    <2>3. CASE i \notin 1 .. Len(s)
      <3>1. i - Len(s) \in 1 .. Len(t) /\ Len(s) + (i - Len(s)) = i
        BY <1>1, <2>1, <2>3 DEF c
      <3>2. x = t[i - Len(s)]
        BY <1>1, <2>1, <3>1 DEF c
      <3>3. QED
        BY <3>1, <3>2 DEF Elements
    <2>4. QED
      BY <2>2, <2>3
  <1>3. ASSUME NEW x \in Elements(s) PROVE x \in Elements(c)
    <2>1. PICK i \in 1 .. Len(s) : x = s[i]
      BY DEF Elements
    <2>2. i \in 1 .. Len(c) /\ c[i] = x
      BY <1>1, <2>1 DEF c
    <2>3. QED
      BY <2>2 DEF Elements
  <1>4. ASSUME NEW x \in Elements(t) PROVE x \in Elements(c)
    <2>1. PICK i \in 1 .. Len(t) : x = t[i]
      BY DEF Elements
    <2>2. Len(s) + i \in 1 .. Len(c) /\ c[Len(s) + i] = x
      BY <1>1, <2>1 DEF c
    <2>3. QED
      BY <2>2 DEF Elements
  <1>5. QED
    BY <1>1, <1>2, <1>3, <1>4 DEF c

(* The loop of Joined, round by round. *)
LEMMA JoinedLoop ==
  ASSUME NEW X, NEW parts \in Seq(Seq(X))
  PROVE  \E u \in [0 .. Len(parts) -> Seq(X)] :
           /\ u[0] = <<>> /\ Joined(parts) = u[Len(parts)]
           /\ \A i \in 1 .. Len(parts) : u[i] = u[i - 1] \o parts[i]
  <1> DEFINE k == Len(parts)
             D == Seq(X)
             none == <<>>
  <1>1. k \in Nat /\ none \in D
    OBVIOUS
  <1> HIDE DEF k, D, none
  <1>2. \A next \in [1 .. k -> [D -> D]] :
          \E f \in [0 .. k -> D] : f[0] = none /\ \A i \in 1 .. k : f[i] = next[i][f[i - 1]]
    BY <1>1, LoopDefined
  <1> DEFINE After(s, i) == s \o parts[i]
             next == [i \in 1 .. k |-> [s \in D |-> After(s, i)]]
             Loop(f) == f = [i \in 0 .. k |-> IF i = 0 THEN none ELSE After(f[i - 1], i)]
  <1>3. \A s \in D, i \in 1 .. k : After(s, i) \in D
    BY DEF D, k
  <1> HIDE DEF After
  <1>4. \E f : Loop(f)
    <2>1. next \in [1 .. k -> [D -> D]]
      BY <1>3
    <2>2. PICK f \in [0 .. k -> D] : f[0] = none /\ \A i \in 1 .. k : f[i] = next[i][f[i - 1]]
      BY <1>2, <2>1
    <2>3. \A i \in 0 .. k : f[i] = IF i = 0 THEN none ELSE After(f[i - 1], i)
      <3>1. \A i \in 1 .. k : i - 1 \in 0 .. k
        BY <1>1
      <3>2. \A i \in 1 .. k : f[i] = After(f[i - 1], i)
        BY <1>1, <2>2, <3>1
      <3>3. QED
        BY <1>1, <2>2, <3>2
    <2>4. f = [i \in 0 .. k |-> f[i]]
      BY <2>2
    <2>5. QED
      BY <2>3, <2>4
  <1> DEFINE u == CHOOSE g : Loop(g)
  <1>5. Loop(u) /\ Joined(parts) = u[k]
    BY <1>4 DEF Joined, After, none, k
  <1> HIDE DEF u
  <1>6. u[0] = none /\ \A i \in 1 .. k : u[i] = After(u[i - 1], i)
    <2>1. \A i \in 0 .. k : u[i] = IF i = 0 THEN none ELSE After(u[i - 1], i)
      BY <1>5
    <2>2. QED
      BY <1>1, <2>1
  <1>7. 0 .. k \subseteq {i \in 0 .. k : u[i] \in D}
    <2> DEFINE S == {i \in 0 .. k : u[i] \in D}
    <2>1. 0 \in S
      BY <1>1, <1>6
    <2>2. ASSUME NEW i \in 1 .. k, i - 1 \in S PROVE i \in S
      BY <1>3, <1>6, <2>2
    <2> HIDE DEF S
    <2>3. QED
      BY <1>1, <2>1, <2>2, RangeInduction DEF S
  <1>8. u \in [0 .. k -> D]
    BY <1>5, <1>7
  <1>9. QED
    <2>1. u \in [0 .. Len(parts) -> Seq(X)] /\ u[0] = <<>> /\ Joined(parts) = u[Len(parts)]
      BY <1>5, <1>6, <1>8 DEF none, D, k
    <2>2. \A i \in 1 .. Len(parts) : u[i] = u[i - 1] \o parts[i]
      BY <1>6 DEF After, k
    <2>3. QED
      BY <2>1, <2>2

(* What is appended is what the parts hold. *)
LEMMA ElementsOfJoined ==
  ASSUME NEW X, NEW parts \in Seq(Seq(X))
  PROVE  /\ Joined(parts) \in Seq(X)
         /\ \A x : x \in Elements(Joined(parts)) <=> \E i \in 1 .. Len(parts) : x \in Elements(parts[i])
  <1> DEFINE k == Len(parts)
             Upto(n) == {x \in X : \E i \in 1 .. n : x \in Elements(parts[i])}
  <1>1. PICK u \in [0 .. k -> Seq(X)] :
          /\ u[0] = <<>> /\ Joined(parts) = u[k]
          /\ \A i \in 1 .. k : u[i] = u[i - 1] \o parts[i]
    BY JoinedLoop
  <1>2. \A i \in 1 .. k : parts[i] \in Seq(X) /\ Elements(parts[i]) \subseteq X
    BY DEF Elements
  <1> DEFINE S == {n \in 0 .. k : Elements(u[n]) = Upto(n)}
  <1>3. 0 \in S
    BY <1>1 DEF Elements
  <1>4. ASSUME NEW n \in 1 .. k, n - 1 \in S PROVE n \in S
    <2>1. Elements(u[n]) = Elements(u[n - 1]) \union Elements(parts[n])
      <3>1. n - 1 \in 0 .. k
        OBVIOUS
      <3>2. u[n - 1] \in Seq(X) /\ parts[n] \in Seq(X)
        BY <1>2, <3>1
      <3>3. u[n] = u[n - 1] \o parts[n]
        BY <1>1
      <3>4. QED
        BY <3>2, <3>3, ElementsOfConcat
    <2>2. Upto(n) = Upto(n - 1) \union Elements(parts[n])
      <3>1. \A i : i \in 1 .. n <=> i \in 1 .. n - 1 \/ i = n
        OBVIOUS
      <3>2. QED
        BY <1>2, <3>1
    <2>3. QED
      BY <1>4, <2>1, <2>2
  <1>5. k \in S
    <2>1. k \in Nat
      OBVIOUS
    <2> HIDE DEF S, k
    <2>2. 0 .. k \subseteq S
      BY <1>3, <1>4, <2>1, RangeInduction
    <2>3. QED
      BY <2>1, <2>2
  <1>6. QED
    BY <1>1, <1>2, <1>5

LEMMA KeysOfConcat ==
  ASSUME NEW X, NEW s \in Seq(X), NEW t \in Seq(X), KeysDiffer(s), KeysDiffer(t),
         \A x \in Elements(s), y \in Elements(t) : Key(x) # Key(y)
  PROVE  KeysDiffer(s \o t)
  <1>1. /\ Len(s \o t) = Len(s) + Len(t)
        /\ \A i \in 1 .. Len(s) : (s \o t)[i] = s[i] /\ s[i] \in Elements(s)
        /\ \A i \in 1 .. Len(t) : (s \o t)[Len(s) + i] = t[i] /\ t[i] \in Elements(t)
    BY DEF Elements
  <1> DEFINE c == s \o t
  <1>2. SUFFICES ASSUME NEW i \in 1 .. Len(s) + Len(t), NEW j \in 1 .. Len(s) + Len(t), Key(c[i]) = Key(c[j])
                 PROVE  i = j
    BY <1>1 DEF KeysDiffer
  <1>3. \A n \in 1 .. Len(s) + Len(t) :
          \/ n \in 1 .. Len(s) /\ c[n] = s[n] /\ s[n] \in Elements(s)
          \/ /\ n - Len(s) \in 1 .. Len(t) /\ c[n] = t[n - Len(s)]
             /\ t[n - Len(s)] \in Elements(t)
    <2>1. ASSUME NEW n \in 1 .. Len(s) + Len(t), n \notin 1 .. Len(s)
          PROVE  n - Len(s) \in 1 .. Len(t) /\ c[n] = t[n - Len(s)] /\ t[n - Len(s)] \in Elements(t)
      <3>1. n - Len(s) \in 1 .. Len(t) /\ Len(s) + (n - Len(s)) = n
        BY <2>1
      <3>2. c[Len(s) + (n - Len(s))] = t[n - Len(s)] /\ t[n - Len(s)] \in Elements(t)
        BY <1>1, <3>1
      <3>3. QED
        BY <3>1, <3>2
    <2>2. QED
      BY <1>1, <2>1
  <1> HIDE DEF c
  <1>4. CASE i \in 1 .. Len(s) /\ j \in 1 .. Len(s)
    <2>1. c[i] = s[i] /\ c[j] = s[j]
      BY <1>1, <1>4 DEF c
    <2>2. QED
      BY <1>2, <1>4, <2>1 DEF KeysDiffer
  <1>5. CASE i \notin 1 .. Len(s) /\ j \notin 1 .. Len(s)
    <2>1. /\ i - Len(s) \in 1 .. Len(t) /\ j - Len(s) \in 1 .. Len(t)
          /\ Key(t[i - Len(s)]) = Key(t[j - Len(s)])
      BY <1>2, <1>3, <1>5
    <2>2. i - Len(s) = j - Len(s)
      BY <2>1 DEF KeysDiffer
    <2>3. QED
      BY <2>2
  <1>6. CASE ~(i \in 1 .. Len(s) <=> j \in 1 .. Len(s))
    BY <1>2, <1>3, <1>6
  <1>7. QED
    BY <1>4, <1>5, <1>6

LEMMA KeysOfJoined ==
  ASSUME NEW X, NEW parts \in Seq(Seq(X)),
         \A i \in 1 .. Len(parts) : KeysDiffer(parts[i]),
         \A i, j \in 1 .. Len(parts) : \A x \in Elements(parts[i]), y \in Elements(parts[j]) :
            Key(x) = Key(y) => i = j
  PROVE  KeysDiffer(Joined(parts))
  <1> DEFINE k == Len(parts)
             FromFirst(s, n) == \A x \in Elements(s) : \E i \in 1 .. n : x \in Elements(parts[i])
  <1>1. PICK u \in [0 .. k -> Seq(X)] :
          /\ u[0] = <<>> /\ Joined(parts) = u[k]
          /\ \A i \in 1 .. k : u[i] = u[i - 1] \o parts[i]
    BY JoinedLoop
  <1> DEFINE S == {n \in 0 .. k : KeysDiffer(u[n]) /\ FromFirst(u[n], n)}
  <1>2. 0 \in S
    BY <1>1 DEF Elements, KeysDiffer
  <1>3. ASSUME NEW n \in 1 .. k, n - 1 \in S PROVE n \in S
    <2>1. /\ u[n - 1] \in Seq(X) /\ parts[n] \in Seq(X) /\ u[n] = u[n - 1] \o parts[n]
          /\ KeysDiffer(u[n - 1]) /\ KeysDiffer(parts[n])
      <3>1. n - 1 \in 0 .. k /\ KeysDiffer(u[n - 1])
        BY <1>3
      <3>2. u[n - 1] \in Seq(X) /\ parts[n] \in Seq(X)
        <4>1. u[n - 1] \in Seq(X)
          BY <3>1
        <4>2. \A i \in 1 .. k : parts[i] \in Seq(X)
          OBVIOUS
        <4>3. QED
          BY <4>1, <4>2
      <3>3. u[n] = u[n - 1] \o parts[n] /\ KeysDiffer(parts[n])
        BY <1>1
      <3>4. QED
        BY <3>1, <3>2, <3>3
    <2>2. FromFirst(u[n - 1], n - 1)
      BY <1>3
    <2>3. \A x \in Elements(u[n - 1]), y \in Elements(parts[n]) : Key(x) # Key(y)
      <3>1. SUFFICES ASSUME NEW x \in Elements(u[n - 1]), NEW y \in Elements(parts[n]), Key(x) = Key(y) PROVE FALSE
        OBVIOUS
      <3>2. PICK i \in 1 .. n - 1 : x \in Elements(parts[i])
        BY <2>2
      <3>3. i \in 1 .. k /\ n \in 1 .. k /\ i # n
        OBVIOUS
      <3>4. QED
        BY <3>1, <3>2, <3>3
    <2>4. KeysDiffer(u[n])
      BY <2>1, <2>3, KeysOfConcat
    <2>5. FromFirst(u[n], n)
      <3>1. Elements(u[n]) = Elements(u[n - 1]) \union Elements(parts[n])
        BY <2>1, ElementsOfConcat
      <3>2. 1 .. n - 1 \subseteq 1 .. n /\ n \in 1 .. n
        OBVIOUS
      <3>3. QED
        BY <2>2, <3>1, <3>2
    <2>6. QED
      BY <2>4, <2>5
  <1>4. k \in S
    <2>1. k \in Nat
      OBVIOUS
    <2> HIDE DEF S, k
    <2>2. 0 .. k \subseteq S
      BY <1>2, <1>3, <2>1, RangeInduction
    <2>3. QED
      BY <2>1, <2>2
  <1>5. QED
    BY <1>1, <1>4

-----------------------------------------------------------------------------
(* The profiles, the targets and the walks. *)

NamesDiffer(entries) == \A i, j \in 1 .. Len(entries) : entries[i].name = entries[j].name => i = j

LEMMA EntryFields ==
  ASSUME NEW e \in Entry
  PROVE  e.name \in STRING /\ e.folder \in BOOLEAN /\ e.node \in STRING /\ e.kind \in AnyKind
  BY DEF Entry

LEMMA NamesOfEntries ==
  ASSUME NEW s \in Seq(Entry)
  PROVE  \A i \in 1 .. Len(s) : s[i] \in Entry /\ s[i].name \in STRING
  <1>1. \A i \in 1 .. Len(s) : s[i] \in Entry
    OBVIOUS
  <1>2. QED
    BY <1>1, EntryFields

(* The loop over the entries of /Users, round by round. *)
LEMMA ProfilesLoop ==
  ASSUME NEW users \in Seq(Entry)
  PROVE  \E u \in [0 .. Len(users) -> Seq(STRING)] :
           /\ u[0] = <<>> /\ EnumerateProfiles(users) = u[Len(users)]
           /\ \A i \in 1 .. Len(users) : u[i] = u[i - 1] \/ u[i] = Append(u[i - 1], users[i].name)
  <1> DEFINE k == Len(users)
             D == Seq(STRING)
             none == <<>>
  <1>1. k \in Nat /\ none \in D
    OBVIOUS
  <1> HIDE DEF k, D, none
  <1>2. \A next \in [1 .. k -> [D -> D]] :
          \E f \in [0 .. k -> D] : f[0] = none /\ \A i \in 1 .. k : f[i] = next[i][f[i - 1]]
    BY <1>1, LoopDefined
  <1> DEFINE Takes(i) == users[i].folder /\ users[i].name \notin NotProfiles
             After(s, i) == IF Takes(i) THEN Append(s, users[i].name) ELSE s
             next == [i \in 1 .. k |-> [s \in D |-> After(s, i)]]
             Loop(f) == f = [i \in 0 .. k |-> IF i = 0 THEN none ELSE After(f[i - 1], i)]
  <1>3. \A s \in D, i \in 1 .. k : After(s, i) \in D
    <2>1. \A i \in 1 .. k : users[i].name \in STRING
      BY NamesOfEntries DEF k
    <2> HIDE DEF Takes
    <2>2. \A s \in D, i \in 1 .. k : Append(s, users[i].name) \in D
      BY <2>1 DEF D
    <2>3. QED
      BY <2>2
  <1>3a. \A s, i : After(s, i) = s \/ After(s, i) = Append(s, users[i].name)
    <2> HIDE DEF Takes
    <2>1. QED
      OBVIOUS
  <1> HIDE DEF After
  <1>4. \E f : Loop(f)
    <2>1. next \in [1 .. k -> [D -> D]]
      BY <1>3
    <2>2. PICK f \in [0 .. k -> D] : f[0] = none /\ \A i \in 1 .. k : f[i] = next[i][f[i - 1]]
      BY <1>2, <2>1
    <2>3. \A i \in 0 .. k : f[i] = IF i = 0 THEN none ELSE After(f[i - 1], i)
      <3>1. \A i \in 1 .. k : i - 1 \in 0 .. k
        BY <1>1
      <3>2. \A i \in 1 .. k : f[i] = After(f[i - 1], i)
        BY <1>1, <2>2, <3>1
      <3>3. QED
        BY <1>1, <2>2, <3>2
    <2>4. f = [i \in 0 .. k |-> f[i]]
      BY <2>2
    <2>5. QED
      BY <2>3, <2>4
  <1> DEFINE u == CHOOSE g : Loop(g)
  <1>5. Loop(u) /\ EnumerateProfiles(users) = u[k]
    <2>1. Loop(u)
      BY <1>4
    <2>2. EnumerateProfiles(users) = u[k]
      BY DEF EnumerateProfiles, After, none, k
    <2>3. QED
      BY <2>1, <2>2
  <1> HIDE DEF u
  <1>6. u[0] = none /\ \A i \in 1 .. k : u[i] = After(u[i - 1], i)
    <2>1. \A i \in 0 .. k : u[i] = IF i = 0 THEN none ELSE After(u[i - 1], i)
      BY <1>5
    <2>2. QED
      BY <1>1, <2>1
  <1>7. 0 .. k \subseteq {i \in 0 .. k : u[i] \in D}
    <2> DEFINE S == {i \in 0 .. k : u[i] \in D}
    <2>1. 0 \in S
      BY <1>1, <1>6
    <2>2. ASSUME NEW i \in 1 .. k, i - 1 \in S PROVE i \in S
      BY <1>3, <1>6, <2>2
    <2> HIDE DEF S
    <2>3. QED
      BY <1>1, <2>1, <2>2, RangeInduction DEF S
  <1>8. u \in [0 .. k -> D]
    BY <1>5, <1>7
  <1>9. \A i \in 1 .. k : u[i] = u[i - 1] \/ u[i] = Append(u[i - 1], users[i].name)
    BY <1>6, <1>3a
  <1>10. u[0] = <<>>
    BY <1>6 DEF none
  <1> HIDE DEF Loop
  <1>11. QED
    BY <1>5, <1>8, <1>9, <1>10 DEF D, k

LEMMA ProfilesDiffer ==
  ASSUME NEW users \in Seq(Entry)
  PROVE  /\ EnumerateProfiles(users) \in Seq(STRING)
         /\ NamesDiffer(users) => Distinct(EnumerateProfiles(users))
  <1> DEFINE k == Len(users)
             FromFirst(s, n) == \A x \in Elements(s) : \E i \in 1 .. n : x = users[i].name
  <1>1. PICK u \in [0 .. k -> Seq(STRING)] :
          /\ u[0] = <<>> /\ EnumerateProfiles(users) = u[k]
          /\ \A i \in 1 .. k : u[i] = u[i - 1] \/ u[i] = Append(u[i - 1], users[i].name)
    BY ProfilesLoop
  <1>2. k \in Nat /\ \A i \in 1 .. k : users[i].name \in STRING
    BY NamesOfEntries
  <1>3. ASSUME NamesDiffer(users) PROVE Distinct(u[k])
    <2> DEFINE S == {n \in 0 .. k : Distinct(u[n]) /\ FromFirst(u[n], n)}
    <2>1. 0 \in S
      BY <1>1, <1>2 DEF Elements, Distinct
    <2>2. ASSUME NEW n \in 1 .. k, n - 1 \in S PROVE n \in S
      <3>1. /\ u[n - 1] \in Seq(STRING) /\ Distinct(u[n - 1]) /\ FromFirst(u[n - 1], n - 1)
            /\ users[n].name \in STRING
        <4>1. n - 1 \in 0 .. k
          BY <1>2
        <4>2. u[n - 1] \in Seq(STRING)
          BY <4>1
        <4>3. QED
          BY <1>2, <2>2, <4>2
      <3>2. CASE u[n] = u[n - 1]
        <4>1. 1 .. n - 1 \subseteq 1 .. n
          BY <1>2
        <4>2. QED
          BY <3>1, <3>2, <4>1
      <3>3. CASE u[n] = Append(u[n - 1], users[n].name)
        <4>1. users[n].name \notin Elements(u[n - 1])
          <5>1. SUFFICES ASSUME users[n].name \in Elements(u[n - 1]) PROVE FALSE
            OBVIOUS
          <5>2. PICK i \in 1 .. n - 1 : users[n].name = users[i].name
            BY <3>1, <5>1
          <5>3. i \in 1 .. k /\ n \in 1 .. k /\ i # n
            BY <1>2
          <5>4. QED
            BY <1>3, <5>2, <5>3 DEF NamesDiffer
        <4>2. Distinct(u[n])
          BY <3>1, <3>3, <4>1, DistinctAppend
        <4>3. Elements(u[n]) = Elements(u[n - 1]) \union {users[n].name}
          BY <3>1, <3>3, ElementsOfAppend
        <4>4. 1 .. n - 1 \subseteq 1 .. n /\ n \in 1 .. n
          BY <1>2
        <4>5. FromFirst(u[n], n)
          BY <3>1, <4>3, <4>4
        <4>6. QED
          BY <4>2, <4>5
      <3>4. QED
        BY <1>1, <3>2, <3>3
    <2>3. k \in S
      <3> HIDE DEF S, k
      <3>1. 0 .. k \subseteq S
        BY <1>2, <2>1, <2>2, RangeInduction
      <3>2. QED
        BY <1>2, <3>1
    <2>4. QED
      BY <2>3
  <1>4. QED
    BY <1>1, <1>2, <1>3

(* The names the code looks for itself stand beside those of a disk. *)
Names == STRING \union
  {"Users", "{user}", "SYSTEM", "AppData", "Local", "Google", "Chrome", "User Data", "Default",
   "Roaming", "Microsoft", "Windows", "System32", "config", "History", "Edge", "Downloads",
   "Cookies", "Login Data", "Prefetch", "AppCompat", "Programs", "Amcache.hve", "NTUSER.DAT",
   "Start Menu", "Startup", "Tasks", "$Recycle.Bin", "winevt", "Logs", "sru", "SRUDB.dat",
   "ProgramData", "WER", "Recent"}
Paths == Seq(Names)

RuleNames == {Rules[i].artifact : i \in 1 .. Len(Rules)}
WalkNames == {"LNK files", "Jump Lists", "Scheduled Task definitions", "WER report files", "EVTX files"}

LEMMA JoinPaths ==
  ASSUME NEW p \in Paths
  PROVE  /\ \A s \in Names : Append(p, s) \in Paths
         /\ \A s \in Paths : p \o s \in Paths
  BY AppendFacts DEF Paths

LEMMA PathsOfRules ==
  /\ Home \in Paths /\ Local \in Paths /\ ChromeData \in Paths /\ Shell \in Paths
  /\ System32 \in Paths /\ SystemHive \in Paths
  <1>1. /\ Home \in Paths /\ System32 \in Paths
        /\ <<"AppData", "Local">> \in Paths
    BY DEF Home, System32, Paths, Names
  <1>2. /\ <<"AppData", "Roaming", "Microsoft", "Windows">> \in Paths
        /\ <<"Google", "Chrome", "User Data", "Default">> \in Paths
        /\ <<"config", "SYSTEM">> \in Paths
    BY DEF Names, Paths
  <1>3. Local \in Paths /\ Shell \in Paths /\ SystemHive \in Paths
    BY <1>1, <1>2, JoinPaths DEF Local, Shell, SystemHive
  <1>4. ChromeData \in Paths
    BY <1>2, <1>3, JoinPaths DEF ChromeData
  <1>5. QED
    BY <1>1, <1>3, <1>4

(* The twenty targets, one by one. *)
LEMMA RuleArtifacts ==
  /\ Len(Rules) = 20
  /\ Rules[1].artifact = "Chrome History"
  /\ Rules[2].artifact = "Edge History"
  /\ Rules[3].artifact = "Downloads"
  /\ Rules[4].artifact = "Cookies"
  /\ Rules[5].artifact = "Login Data"
  /\ Rules[6].artifact = "Prefetch"
  /\ Rules[7].artifact = "Amcache"
  /\ Rules[8].artifact = "RecentDocs resolver"
  /\ Rules[9].artifact = "UserAssist resolver"
  /\ Rules[10].artifact = "Run/RunOnce resolver"
  /\ Rules[11].artifact = "Startup folder"
  /\ Rules[12].artifact = "Scheduled Tasks"
  /\ Rules[13].artifact = "Services hive resolver"
  /\ Rules[14].artifact = "BAM/DAM resolver"
  /\ Rules[15].artifact = "AppCompatCache resolver"
  /\ Rules[16].artifact = "Recycle Bin"
  /\ Rules[17].artifact = "USB registry resolver"
  /\ Rules[18].artifact = "EVTX root"
  /\ Rules[19].artifact = "SRUM metadata probe"
  /\ Rules[20].artifact = "WER"
  BY DEF Rules, Profile, Machine

LEMMA Twenty ==
  ASSUME NEW i \in 1 .. 20
  PROVE  \/ i = 1 \/ i = 2 \/ i = 3 \/ i = 4 \/ i = 5 \/ i = 6 \/ i = 7 \/ i = 8 \/ i = 9 \/ i = 10
         \/ i = 11 \/ i = 12 \/ i = 13 \/ i = 14 \/ i = 15 \/ i = 16 \/ i = 17 \/ i = 18 \/ i = 19 \/ i = 20
  OBVIOUS

LEMMA RulesDiffer ==
  \A i, j \in 1 .. Len(Rules) : Rules[i].artifact = Rules[j].artifact => i = j
  <1> DEFINE Only(n, name) == \A i \in 1 .. 20 : Rules[i].artifact = name => i = n
  <1>1. Only(1, "Chrome History")
    BY RuleArtifacts, Twenty, ZenonT(60)
  <1>2. Only(2, "Edge History")
    BY RuleArtifacts, Twenty, ZenonT(60)
  <1>3. Only(3, "Downloads")
    BY RuleArtifacts, Twenty, ZenonT(60)
  <1>4. Only(4, "Cookies")
    BY RuleArtifacts, Twenty, ZenonT(60)
  <1>5. Only(5, "Login Data")
    BY RuleArtifacts, Twenty, ZenonT(60)
  <1>6. Only(6, "Prefetch")
    BY RuleArtifacts, Twenty, ZenonT(60)
  <1>7. Only(7, "Amcache")
    BY RuleArtifacts, Twenty, ZenonT(60)
  <1>8. Only(8, "RecentDocs resolver")
    BY RuleArtifacts, Twenty, ZenonT(60)
  <1>9. Only(9, "UserAssist resolver")
    BY RuleArtifacts, Twenty, ZenonT(60)
  <1>10. Only(10, "Run/RunOnce resolver")
    BY RuleArtifacts, Twenty, ZenonT(60)
  <1>11. Only(11, "Startup folder")
    BY RuleArtifacts, Twenty, ZenonT(60)
  <1>12. Only(12, "Scheduled Tasks")
    BY RuleArtifacts, Twenty, ZenonT(60)
  <1>13. Only(13, "Services hive resolver")
    BY RuleArtifacts, Twenty, ZenonT(60)
  <1>14. Only(14, "BAM/DAM resolver")
    BY RuleArtifacts, Twenty, ZenonT(60)
  <1>15. Only(15, "AppCompatCache resolver")
    BY RuleArtifacts, Twenty, ZenonT(60)
  <1>16. Only(16, "Recycle Bin")
    BY RuleArtifacts, Twenty, ZenonT(60)
  <1>17. Only(17, "USB registry resolver")
    BY RuleArtifacts, Twenty, ZenonT(60)
  <1>18. Only(18, "EVTX root")
    BY RuleArtifacts, Twenty, ZenonT(60)
  <1>19. Only(19, "SRUM metadata probe")
    BY RuleArtifacts, Twenty, ZenonT(60)
  <1>20. Only(20, "WER")
    BY RuleArtifacts, Twenty, ZenonT(60)
  <1> HIDE DEF Only
  <1>21. /\ Only(1, Rules[1].artifact) /\ Only(2, Rules[2].artifact) /\ Only(3, Rules[3].artifact) /\ Only(4, Rules[4].artifact)
         /\ Only(5, Rules[5].artifact) /\ Only(6, Rules[6].artifact) /\ Only(7, Rules[7].artifact) /\ Only(8, Rules[8].artifact)
         /\ Only(9, Rules[9].artifact) /\ Only(10, Rules[10].artifact) /\ Only(11, Rules[11].artifact) /\ Only(12, Rules[12].artifact)
         /\ Only(13, Rules[13].artifact) /\ Only(14, Rules[14].artifact) /\ Only(15, Rules[15].artifact) /\ Only(16, Rules[16].artifact)
         /\ Only(17, Rules[17].artifact) /\ Only(18, Rules[18].artifact) /\ Only(19, Rules[19].artifact) /\ Only(20, Rules[20].artifact)
    BY <1>1, <1>2, <1>3, <1>4, <1>5, <1>6, <1>7, <1>8, <1>9, <1>10, <1>11, <1>12, <1>13, <1>14,
       <1>15, <1>16, <1>17, <1>18, <1>19, <1>20, RuleArtifacts
  <1>22. Len(Rules) = 20
    BY RuleArtifacts
  <1>23. QED
    <2>1. \A n \in 1 .. 20 : Only(n, Rules[n].artifact)
      BY <1>21, Twenty
    <2>2. QED
      BY <1>22, <2>1 DEF Only

LEMMA RuleNamesApart ==
  RuleNames \intersect WalkNames = {} /\ "none" \notin RuleNames \union WalkNames
  <1>1. \A i \in 1 .. 20 : Rules[i].artifact # "none" /\ Rules[i].artifact \notin WalkNames
    BY RuleArtifacts, Twenty, ZenonT(60) DEF WalkNames
  <1>2. "none" \notin WalkNames
    BY DEF WalkNames
  <1>3. \A a \in RuleNames : \E i \in 1 .. 20 : a = Rules[i].artifact
    <2>1. Len(Rules) = 20
      BY RuleArtifacts
    <2>2. QED
      BY <2>1 DEF RuleNames
  <1>4. QED
    BY <1>1, <1>2, <1>3

LEMMA RulePaths ==
  /\ Rules[1].path = Append(ChromeData, "History")
  /\ Rules[2].path = Local \o <<"Microsoft", "Edge", "User Data", "Default", "History">>
  /\ Rules[3].path = Append(Home, "Downloads")
  /\ Rules[4].path = Append(ChromeData, "Cookies")
  /\ Rules[5].path = Append(ChromeData, "Login Data")
  /\ Rules[6].path = <<"Windows", "Prefetch">>
  /\ Rules[7].path = <<"Windows", "AppCompat", "Programs", "Amcache.hve">>
  /\ Rules[8].path = Append(Home, "NTUSER.DAT")
  /\ Rules[9].path = Append(Home, "NTUSER.DAT")
  /\ Rules[10].path = Append(Home, "NTUSER.DAT")
  /\ Rules[11].path = Shell \o <<"Start Menu", "Programs", "Startup">>
  /\ Rules[12].path = Append(System32, "Tasks")
  /\ Rules[13].path = SystemHive
  /\ Rules[14].path = SystemHive
  /\ Rules[15].path = SystemHive
  /\ Rules[16].path = <<"$Recycle.Bin">>
  /\ Rules[17].path = SystemHive
  /\ Rules[18].path = System32 \o <<"winevt", "Logs">>
  /\ Rules[19].path = System32 \o <<"sru", "SRUDB.dat">>
  /\ Rules[20].path = <<"ProgramData", "Microsoft", "Windows", "WER">>
  BY DEF Rules, Profile, Machine

LEMMA RulesHavePaths ==
  \A r \in 1 .. 20 : Rules[r].path \in Paths
  <1>1. /\ Append(ChromeData, "History") \in Paths /\ Append(ChromeData, "Cookies") \in Paths
        /\ Append(ChromeData, "Login Data") \in Paths
        /\ Append(Home, "Downloads") \in Paths /\ Append(Home, "NTUSER.DAT") \in Paths
        /\ Append(System32, "Tasks") \in Paths /\ SystemHive \in Paths
    BY PathsOfRules, JoinPaths DEF Names
  <1>2. /\ <<"Windows", "Prefetch">> \in Paths /\ <<"Windows", "AppCompat", "Programs", "Amcache.hve">> \in Paths
        /\ <<"$Recycle.Bin">> \in Paths /\ <<"ProgramData", "Microsoft", "Windows", "WER">> \in Paths
        /\ <<"Microsoft", "Edge", "User Data", "Default", "History">> \in Paths
        /\ <<"Start Menu", "Programs", "Startup">> \in Paths /\ <<"winevt", "Logs">> \in Paths
        /\ <<"sru", "SRUDB.dat">> \in Paths
    BY DEF Names, Paths
  <1>3. /\ Local \o <<"Microsoft", "Edge", "User Data", "Default", "History">> \in Paths
        /\ Shell \o <<"Start Menu", "Programs", "Startup">> \in Paths
        /\ System32 \o <<"winevt", "Logs">> \in Paths /\ System32 \o <<"sru", "SRUDB.dat">> \in Paths
    BY <1>2, PathsOfRules, JoinPaths
  <1>4. /\ Rules[1].path \in Paths /\ Rules[2].path \in Paths /\ Rules[3].path \in Paths /\ Rules[4].path \in Paths
        /\ Rules[5].path \in Paths /\ Rules[6].path \in Paths /\ Rules[7].path \in Paths /\ Rules[8].path \in Paths
        /\ Rules[9].path \in Paths /\ Rules[10].path \in Paths /\ Rules[11].path \in Paths /\ Rules[12].path \in Paths
        /\ Rules[13].path \in Paths /\ Rules[14].path \in Paths /\ Rules[15].path \in Paths /\ Rules[16].path \in Paths
        /\ Rules[17].path \in Paths /\ Rules[18].path \in Paths /\ Rules[19].path \in Paths /\ Rules[20].path \in Paths
    BY <1>1, <1>2, <1>3, RulePaths
  <1>5. QED
    BY <1>4, Twenty

-----------------------------------------------------------------------------
(* What is looked up, and what is walked. *)

LookupT == [artifact : RuleNames, profile : Names, path : Paths]
WalkT   == [artifact : WalkNames, profile : Names, root : Paths, kinds : SUBSET AnyKind, maxDepth : Nat]

LEMMA ForUserPath ==
  ASSUME NEW path \in Paths, NEW user \in Names
  PROVE  ForUser(path, user) \in Paths
  <1>1. path \in Seq(Names)
    BY DEF Paths
  <1>2. \A i \in 1 .. Len(path) : path[i] \in Names
    BY <1>1
  <1> DEFINE Part(i) == IF path[i] = "{user}" THEN user ELSE path[i]
  <1>3. \A i \in 1 .. Len(path) : Part(i) \in Names
    BY <1>2
  <1>4. ForUser(path, user) = [i \in 1 .. Len(path) |-> Part(i)]
    BY DEF ForUser
  <1> HIDE DEF Part
  <1>5. QED
    BY <1>1, <1>3, <1>4 DEF Paths

LEMMA LookupFields ==
  ASSUME NEW r \in 1 .. 20, NEW user \in Names
  PROVE  /\ Lookup(Rules[r], user) \in LookupT
         /\ Lookup(Rules[r], user).artifact = Rules[r].artifact
         /\ Lookup(Rules[r], user).profile = user
  <1>1. Rules[r].path \in Paths /\ ForUser(Rules[r].path, user) \in Paths
    BY RulesHavePaths, ForUserPath
  <1>2. Rules[r].artifact \in RuleNames
    <2>1. Len(Rules) = 20
      BY RuleArtifacts
    <2>2. QED
      BY <2>1 DEF RuleNames
  <1>3. QED
    BY <1>1, <1>2 DEF Lookup, LookupT

LEMMA LookupsOfRule ==
  ASSUME NEW users \in Seq(STRING), NEW r \in 1 .. 20
  PROVE  /\ LookupsOf(Rules[r], users) \in Seq(LookupT)
         /\ \A l \in Elements(LookupsOf(Rules[r], users)) : l.artifact = Rules[r].artifact
         /\ Distinct(users) => KeysDiffer(LookupsOf(Rules[r], users))
  <1> DEFINE rule == Rules[r]
             n == Len(users)
             many == [u \in 1 .. n |-> Lookup(rule, users[u])]
             one == << Lookup(rule, "SYSTEM") >>
  <1>1. n \in Nat /\ \A u \in 1 .. n : users[u] \in Names
    <2>1. \A u \in 1 .. n : users[u] \in STRING
      OBVIOUS
    <2>2. STRING \subseteq Names
      BY DEF Names
    <2>3. n \in Nat
      OBVIOUS
    <2> HIDE DEF n
    <2>4. QED
      BY <2>1, <2>2, <2>3
  <1>2. "SYSTEM" \in Names
    BY DEF Names
  <1>3. \A u \in 1 .. n : /\ Lookup(rule, users[u]) \in LookupT
                          /\ Lookup(rule, users[u]).artifact = rule.artifact
                          /\ Lookup(rule, users[u]).profile = users[u]
    BY <1>1, LookupFields
  <1>4. Lookup(rule, "SYSTEM") \in LookupT /\ Lookup(rule, "SYSTEM").artifact = rule.artifact
    BY <1>2, LookupFields
  <1>5. LookupsOf(rule, users) = many \/ LookupsOf(rule, users) = one
    BY DEF LookupsOf
  <1> HIDE DEF rule
  <1>6. CASE LookupsOf(rule, users) = many
    <2>1. many \in Seq(LookupT) /\ Len(many) = n /\ \A u \in 1 .. n : many[u] = Lookup(rule, users[u])
      <3> HIDE DEF n
      <3>1. QED
        BY <1>1, <1>3
    <2> HIDE DEF many
    <2>2. \A l \in Elements(many) : l.artifact = rule.artifact
      BY <1>3, <2>1 DEF Elements
    <2>3. Distinct(users) => KeysDiffer(many)
      BY <1>3, <2>1 DEF Distinct, KeysDiffer, Key
    <2>4. QED
      BY <1>6, <2>1, <2>2, <2>3 DEF rule
  <1>7. CASE LookupsOf(rule, users) = one
    <2>1. one \in Seq(LookupT) /\ Len(one) = 1 /\ one[1] = Lookup(rule, "SYSTEM")
      BY <1>4
    <2> HIDE DEF one
    <2>2. \A l \in Elements(one) : l.artifact = rule.artifact
      BY <1>4, <2>1 DEF Elements
    <2>3. KeysDiffer(one)
      BY <2>1 DEF KeysDiffer
    <2>4. QED
      BY <1>7, <2>1, <2>2, <2>3 DEF rule
  <1>8. QED
    BY <1>5, <1>6, <1>7

LEMMA LookupsTyped ==
  ASSUME NEW users \in Seq(STRING)
  PROVE  /\ Lookups(users) \in Seq(LookupT)
         /\ Distinct(users) => KeysDiffer(Lookups(users))
  <1> DEFINE parts == [r \in 1 .. Len(Rules) |-> LookupsOf(Rules[r], users)]
  <1>1. Len(Rules) = 20 /\ parts = [r \in 1 .. 20 |-> LookupsOf(Rules[r], users)]
    BY RuleArtifacts
  <1>2. \A r \in 1 .. 20 : /\ LookupsOf(Rules[r], users) \in Seq(LookupT)
                           /\ \A l \in Elements(LookupsOf(Rules[r], users)) : l.artifact = Rules[r].artifact
                           /\ Distinct(users) => KeysDiffer(LookupsOf(Rules[r], users))
    BY LookupsOfRule
  <1> HIDE DEF parts
  <1>3. parts \in Seq(Seq(LookupT)) /\ Len(parts) = 20 /\ \A r \in 1 .. 20 : parts[r] = LookupsOf(Rules[r], users)
    BY <1>1, <1>2
  <1>4. Lookups(users) = Joined(parts)
    BY DEF Lookups, parts
  <1>5. Joined(parts) \in Seq(LookupT)
    BY <1>3, ElementsOfJoined
  <1>6. ASSUME Distinct(users) PROVE KeysDiffer(Joined(parts))
    <2>1. \A i \in 1 .. Len(parts) : KeysDiffer(parts[i])
      BY <1>2, <1>3, <1>6
    <2>2. ASSUME NEW i \in 1 .. Len(parts), NEW j \in 1 .. Len(parts),
                 NEW x \in Elements(parts[i]), NEW y \in Elements(parts[j]), Key(x) = Key(y)
          PROVE  i = j
      <3>1. i \in 1 .. 20 /\ j \in 1 .. 20 /\ x.artifact = Rules[i].artifact /\ y.artifact = Rules[j].artifact
        BY <1>2, <1>3
      <3>2. x.artifact = y.artifact
        BY <2>2 DEF Key
      <3>3. QED
        BY <1>1, <3>1, <3>2, RulesDiffer
    <2>3. QED
      BY <1>3, <2>1, <2>2, KeysOfJoined
  <1>7. QED
    BY <1>4, <1>5, <1>6

(* The walks' artifacts are five, whatever their names. *)
LEMMA WalksNamed ==
  \E lnk, jump, task, wer, evtx \in WalkNames :
    /\ lnk # jump /\ task # wer /\ task # evtx /\ wer # evtx
    /\ lnk \notin {task, wer, evtx} /\ jump \notin {task, wer, evtx}
    /\ \A user : WalksOf(user) =
         << Walk(lnk, user, ForUser(Append(Shell, "Recent"), user), {"lnk"}, 2),
            Walk(jump, user, ForUser(Append(Shell, "Recent"), user), {"auto", "custom"}, 3) >>
    /\ MachineWalks =
         << Walk(task, "SYSTEM", Append(System32, "Tasks"), AnyKind, 8),
            Walk(wer, "SYSTEM", <<"ProgramData", "Microsoft", "Windows", "WER">>, {"wer"}, 8),
            Walk(evtx, "SYSTEM", System32 \o <<"winevt", "Logs">>, {"evtx"}, 6) >>
  <1> DEFINE lnk == "LNK files"
             jump == "Jump Lists"
             task == "Scheduled Task definitions"
             wer == "WER report files"
             evtx == "EVTX files"
  <1>1. /\ lnk \in WalkNames /\ jump \in WalkNames /\ task \in WalkNames
        /\ wer \in WalkNames /\ evtx \in WalkNames
    BY DEF WalkNames
  <1>2. /\ lnk # jump /\ task # wer /\ task # evtx /\ wer # evtx
        /\ lnk \notin {task, wer, evtx} /\ jump \notin {task, wer, evtx}
    OBVIOUS
  <1>3. \A user : WalksOf(user) =
          << Walk(lnk, user, ForUser(Append(Shell, "Recent"), user), {"lnk"}, 2),
             Walk(jump, user, ForUser(Append(Shell, "Recent"), user), {"auto", "custom"}, 3) >>
    BY DEF WalksOf
  <1>4. MachineWalks =
          << Walk(task, "SYSTEM", Append(System32, "Tasks"), AnyKind, 8),
             Walk(wer, "SYSTEM", <<"ProgramData", "Microsoft", "Windows", "WER">>, {"wer"}, 8),
             Walk(evtx, "SYSTEM", System32 \o <<"winevt", "Logs">>, {"evtx"}, 6) >>
    BY DEF MachineWalks
  <1> HIDE DEF lnk, jump, task, wer, evtx
  <1>5. QED
    BY <1>1, <1>2, <1>3, <1>4

LEMMA WalkFields ==
  ASSUME NEW artifact \in WalkNames, NEW profile \in Names, NEW root \in Paths,
         NEW kinds \in SUBSET AnyKind, NEW depth \in Nat
  PROVE  /\ Walk(artifact, profile, root, kinds, depth) \in WalkT
         /\ Walk(artifact, profile, root, kinds, depth).artifact = artifact
         /\ Walk(artifact, profile, root, kinds, depth).profile = profile
  BY DEF Walk, WalkT

LEMMA WalkRoots ==
  /\ \A user \in STRING : user \in Names /\ ForUser(Append(Shell, "Recent"), user) \in Paths
  /\ Append(System32, "Tasks") \in Paths /\ System32 \o <<"winevt", "Logs">> \in Paths
  /\ <<"ProgramData", "Microsoft", "Windows", "WER">> \in Paths
  /\ "SYSTEM" \in Names
  <1>1. STRING \subseteq Names /\ "Recent" \in Names /\ "Tasks" \in Names /\ "SYSTEM" \in Names
    BY DEF Names
  <1>2. <<"winevt", "Logs">> \in Paths /\ <<"ProgramData", "Microsoft", "Windows", "WER">> \in Paths
    BY DEF Names, Paths
  <1>3. /\ Append(Shell, "Recent") \in Paths /\ Append(System32, "Tasks") \in Paths
        /\ System32 \o <<"winevt", "Logs">> \in Paths
    BY <1>1, <1>2, PathsOfRules, JoinPaths
  <1>4. \A user \in STRING : user \in Names /\ ForUser(Append(Shell, "Recent"), user) \in Paths
    BY <1>1, <1>3, ForUserPath
  <1>5. QED
    BY <1>1, <1>2, <1>3, <1>4

LEMMA WalksTyped ==
  ASSUME NEW users \in Seq(STRING)
  PROVE  /\ Walks(users) \in Seq(WalkT)
         /\ Distinct(users) => KeysDiffer(Walks(users))
  <1> DEFINE n == Len(users)
             parts == [u \in 1 .. n |-> WalksOf(users[u])]
  <1>1. PICK lnk \in WalkNames, jump \in WalkNames, task \in WalkNames, wer \in WalkNames, evtx \in WalkNames :
          /\ lnk # jump /\ task # wer /\ task # evtx /\ wer # evtx
          /\ lnk \notin {task, wer, evtx} /\ jump \notin {task, wer, evtx}
          /\ \A user : WalksOf(user) =
               << Walk(lnk, user, ForUser(Append(Shell, "Recent"), user), {"lnk"}, 2),
                  Walk(jump, user, ForUser(Append(Shell, "Recent"), user), {"auto", "custom"}, 3) >>
          /\ MachineWalks =
               << Walk(task, "SYSTEM", Append(System32, "Tasks"), AnyKind, 8),
                  Walk(wer, "SYSTEM", <<"ProgramData", "Microsoft", "Windows", "WER">>, {"wer"}, 8),
                  Walk(evtx, "SYSTEM", System32 \o <<"winevt", "Logs">>, {"evtx"}, 6) >>
    BY WalksNamed
  <1>2. /\ {"lnk"} \in SUBSET AnyKind /\ {"auto", "custom"} \in SUBSET AnyKind
        /\ {"wer"} \in SUBSET AnyKind /\ {"evtx"} \in SUBSET AnyKind /\ AnyKind \in SUBSET AnyKind
    BY DEF AnyKind
  <1>3. n \in Nat /\ \A u \in 1 .. n : users[u] \in STRING
    OBVIOUS
  <1> HIDE DEF n, parts
  <1>4. ASSUME NEW user \in STRING
        PROVE  \E a, b \in WalkT : /\ WalksOf(user) = <<a, b>>
                                   /\ a.artifact = lnk /\ b.artifact = jump
                                   /\ a.profile = user /\ b.profile = user
    <2> DEFINE a == Walk(lnk, user, ForUser(Append(Shell, "Recent"), user), {"lnk"}, 2)
               b == Walk(jump, user, ForUser(Append(Shell, "Recent"), user), {"auto", "custom"}, 3)
    <2>1. user \in Names /\ ForUser(Append(Shell, "Recent"), user) \in Paths
      BY WalkRoots
    <2>2. a \in WalkT /\ a.artifact = lnk /\ a.profile = user
      BY <1>2, <2>1, WalkFields
    <2>3. b \in WalkT /\ b.artifact = jump /\ b.profile = user
      BY <1>2, <2>1, WalkFields
    <2>4. WalksOf(user) = <<a, b>>
      BY <1>1
    <2> HIDE DEF a, b
    <2>5. QED
      BY <2>2, <2>3, <2>4
  <1>5. ASSUME NEW user \in STRING
        PROVE  /\ WalksOf(user) \in Seq(WalkT) /\ KeysDiffer(WalksOf(user))
               /\ \A w \in Elements(WalksOf(user)) : w.artifact \in {lnk, jump} /\ w.profile = user
    <2>1. PICK a \in WalkT, b \in WalkT :
            /\ WalksOf(user) = <<a, b>> /\ a.artifact = lnk /\ b.artifact = jump
            /\ a.profile = user /\ b.profile = user
      BY <1>4
    <2> DEFINE s == <<a, b>>
    <2>2. s \in Seq(WalkT) /\ Len(s) = 2 /\ s[1] = a /\ s[2] = b /\ \A i \in 1 .. 2 : i = 1 \/ i = 2
      OBVIOUS
    <2> HIDE DEF s
    <2>3. KeysDiffer(s)
      BY <1>1, <2>1, <2>2 DEF KeysDiffer, Key
    <2>4. \A w \in Elements(s) : w.artifact \in {lnk, jump} /\ w.profile = user
      BY <2>1, <2>2 DEF Elements
    <2>5. QED
      BY <2>1, <2>2, <2>3, <2>4 DEF s
  <1>6. \E a, b, c \in WalkT : /\ MachineWalks = <<a, b, c>>
                               /\ a.artifact = task /\ b.artifact = wer /\ c.artifact = evtx
    <2> DEFINE a == Walk(task, "SYSTEM", Append(System32, "Tasks"), AnyKind, 8)
               b == Walk(wer, "SYSTEM", <<"ProgramData", "Microsoft", "Windows", "WER">>, {"wer"}, 8)
               c == Walk(evtx, "SYSTEM", System32 \o <<"winevt", "Logs">>, {"evtx"}, 6)
    <2>1. a \in WalkT /\ a.artifact = task
      BY <1>2, WalkRoots, WalkFields
    <2>2. b \in WalkT /\ b.artifact = wer
      BY <1>2, WalkRoots, WalkFields
    <2>3. c \in WalkT /\ c.artifact = evtx
      BY <1>2, WalkRoots, WalkFields
    <2>4. MachineWalks = <<a, b, c>>
      BY <1>1
    <2> HIDE DEF a, b, c
    <2>5. QED
      BY <2>1, <2>2, <2>3, <2>4
  <1>7. /\ MachineWalks \in Seq(WalkT) /\ KeysDiffer(MachineWalks)
        /\ \A w \in Elements(MachineWalks) : w.artifact \in {task, wer, evtx}
    <2>1. PICK a \in WalkT, b \in WalkT, c \in WalkT :
            MachineWalks = <<a, b, c>> /\ a.artifact = task /\ b.artifact = wer /\ c.artifact = evtx
      BY <1>6
    <2> DEFINE s == <<a, b, c>>
    <2>2. /\ s \in Seq(WalkT) /\ Len(s) = 3 /\ s[1] = a /\ s[2] = b /\ s[3] = c
          /\ \A i \in 1 .. 3 : i = 1 \/ i = 2 \/ i = 3
      OBVIOUS
    <2> HIDE DEF s
    <2>3. KeysDiffer(s)
      BY <1>1, <2>1, <2>2 DEF KeysDiffer, Key
    <2>4. \A w \in Elements(s) : w.artifact \in {task, wer, evtx}
      BY <2>1, <2>2 DEF Elements
    <2>5. QED
      BY <2>1, <2>2, <2>3, <2>4 DEF s
  <1>8. /\ parts \in Seq(Seq(WalkT)) /\ Len(parts) = n
        /\ \A u \in 1 .. n : parts[u] = WalksOf(users[u])
    <2>1. \A u \in 1 .. n : WalksOf(users[u]) \in Seq(WalkT)
      BY <1>3, <1>5
    <2>2. QED
      BY <1>3, <2>1 DEF parts
  <1>9. /\ Joined(parts) \in Seq(WalkT)
        /\ \A w \in Elements(Joined(parts)) : w.artifact \in {lnk, jump}
    <2>1. /\ Joined(parts) \in Seq(WalkT)
          /\ \A x : x \in Elements(Joined(parts)) <=> \E i \in 1 .. n : x \in Elements(parts[i])
      BY <1>8, ElementsOfJoined
    <2>2. \A i \in 1 .. n : \A w \in Elements(parts[i]) : w.artifact \in {lnk, jump}
      BY <1>3, <1>5, <1>8
    <2>3. QED
      BY <2>1, <2>2
  <1>10. ASSUME Distinct(users) PROVE KeysDiffer(Joined(parts))
    <2>1. \A i \in 1 .. Len(parts) : KeysDiffer(parts[i])
      BY <1>3, <1>5, <1>8
    <2>2. ASSUME NEW i \in 1 .. Len(parts), NEW j \in 1 .. Len(parts),
                 NEW x \in Elements(parts[i]), NEW y \in Elements(parts[j]), Key(x) = Key(y)
          PROVE  i = j
      <3>1. x.profile = users[i] /\ y.profile = users[j]
        BY <1>3, <1>5, <1>8
      <3>2. users[i] = users[j]
        BY <2>2, <3>1 DEF Key
      <3>3. QED
        BY <1>8, <1>10, <3>2 DEF Distinct, n
    <2>3. QED
      BY <1>8, <2>1, <2>2, KeysOfJoined
  <1>11. ASSUME Distinct(users) PROVE KeysDiffer(Joined(parts) \o MachineWalks)
    <2>1. \A x \in Elements(Joined(parts)), y \in Elements(MachineWalks) : Key(x) # Key(y)
      BY <1>1, <1>7, <1>9 DEF Key
    <2>2. QED
      BY <1>7, <1>9, <1>10, <1>11, <2>1, KeysOfConcat
  <1>12. Walks(users) = Joined(parts) \o MachineWalks
    BY DEF Walks, parts, n
  <1>13. Joined(parts) \o MachineWalks \in Seq(WalkT)
    BY <1>7, <1>9, ElementsOfConcat
  <1>14. QED
    BY <1>11, <1>12, <1>13

-----------------------------------------------------------------------------
(* A listing holds entries, or has failed. *)

Open(d, p) == ListingOn(d, p) # Failure
SetsNames(d) ==
  \A n \in DOMAIN d.kids : \A i, j \in 1 .. Len(d.kids[n]) :
    d.kids[n][i].name = d.kids[n][j].name => i = j

LEMMA FailureIsNoListing == Failure \notin Seq(Entry)
  <1>1. SUFFICES ASSUME Failure \in Seq(Entry) PROVE FALSE
    OBVIOUS
  <1>2. Len(Failure) = 1 /\ Failure[1].kind = "error"
    BY DEF Failure
  <1>3. Failure[1] \in Entry
    BY <1>1, <1>2
  <1>4. "error" \in AnyKind
    BY <1>2, <1>3, EntryFields
  <1>5. QED
    BY <1>4 DEF AnyKind

LEMMA ListingTyped ==
  ASSUME NEW d, TypedDisk(d), NEW p
  PROVE  /\ Open(d, p) => ListingOn(d, p) \in Seq(Entry)
         /\ Open(d, p) /\ SetsNames(d) => NamesDiffer(ListingOn(d, p))
  <1> DEFINE n == Resolve(d, p)
  <1>1. ListingOn(d, p) = IF n \in DOMAIN d.kids \ d.unreadable THEN d.kids[n] ELSE Failure
    BY DEF ListingOn
  <1> HIDE DEF n
  <1>2. Open(d, p) => n \in DOMAIN d.kids /\ ListingOn(d, p) = d.kids[n]
    BY <1>1 DEF Open
  <1>3. QED
    BY <1>2 DEF TypedDisk, SetsNames, NamesDiffer

LEMMA BelowPath ==
  ASSUME NEW p \in Paths, NEW e \in Entry
  PROVE  /\ Append(p, e.name) \in Paths /\ Len(Append(p, e.name)) = Len(p) + 1
         /\ \A i \in 1 .. Len(p) : Append(p, e.name)[i] = p[i]
         /\ Append(p, e.name)[Len(p) + 1] = e.name
  <1>1. e.name \in STRING
    BY EntryFields
  <1>2. STRING \subseteq Names
    BY DEF Names
  <1>3. e.name \in Names /\ p \in Seq(Names)
    BY <1>1, <1>2 DEF Paths
  <1> HIDE DEF Names
  <1>4. QED
    BY <1>3, AppendFacts DEF Paths

-----------------------------------------------------------------------------
(* What a walk finds under a folder: "records" of its files, or "warnings" *)
(* of its folders that cannot be listed.  k is how much deeper the walk    *)
(* may still go.  Both are told by recursion over k, from the bottom up,   *)
(* while the walk goes down by its stack and Level goes down level by      *)
(* level.                                                                  *)

ReportT == [artifact : RuleNames \union WalkNames, profile : Names, path : Paths,
            status : {"Present", "Missing"}]
Things  == ReportT \union Paths

Finds(d, what, w, p, k, e) ==
  LET q == Append(p, e.name) IN
  IF what = "records"
  THEN {r \in {Record(w.artifact, w.profile, q, "Present")} : ~e.folder /\ e.kind \in w.kinds}
  ELSE {x \in {q} : e.folder /\ k > 0 /\ ~Open(d, q)}

Spread(d, what, w, k, under) ==
  [p \in Paths |->
     {x \in Things : /\ Open(d, p)
                     /\ \E e \in Elements(ListingOn(d, p)) :
                          \/ x \in Finds(d, what, w, p, k, e)
                          \/ e.folder /\ k > 0 /\ x \in under[Append(p, e.name)]}]

Nothing == [p \in Paths |-> {}]
Unders(w) == [0 .. w.maxDepth -> [Paths -> SUBSET Things]]
Under(d, what, w) ==
  CHOOSE u \in Unders(w) :
    /\ u[0] = Spread(d, what, w, 0, Nothing)
    /\ \A k \in 1 .. w.maxDepth : u[k] = Spread(d, what, w, k, u[k - 1])

From(d, what, w, p, k, e) ==
  Finds(d, what, w, p, k, e) \union
  (IF e.folder /\ k > 0 THEN Under(d, what, w)[k - 1][Append(p, e.name)] ELSE {})

LEMMA UnderDefined ==
  ASSUME NEW d, NEW what, NEW w \in WalkT
  PROVE  /\ Under(d, what, w) \in Unders(w)
         /\ Under(d, what, w)[0] = Spread(d, what, w, 0, Nothing)
         /\ \A k \in 1 .. w.maxDepth : Under(d, what, w)[k] = Spread(d, what, w, k, Under(d, what, w)[k - 1])
  <1> DEFINE D == [Paths -> SUBSET Things]
             n == w.maxDepth
             first == Spread(d, what, w, 0, Nothing)
  <1>1. n \in Nat
    BY DEF WalkT
  <1>2. \A k, u : Spread(d, what, w, k, u) \in D
    BY DEF Spread
  <1>3. first \in D
    BY <1>2
  <1> HIDE DEF D, n, first
  <1>3a. \A next \in [1 .. n -> [D -> D]] :
          \E f \in [0 .. n -> D] : f[0] = first /\ \A k \in 1 .. n : f[k] = next[k][f[k - 1]]
    BY <1>1, <1>3, LoopDefined
  <1> DEFINE next == [k \in 1 .. n |-> [u \in D |-> Spread(d, what, w, k, u)]]
  <1>4. PICK f \in [0 .. n -> D] : f[0] = first /\ \A k \in 1 .. n : f[k] = next[k][f[k - 1]]
    <2>1. next \in [1 .. n -> [D -> D]]
      BY <1>2
    <2> HIDE DEF next
    <2>2. QED
      BY <1>3a, <2>1
  <1>5. \A k \in 1 .. n : f[k] = Spread(d, what, w, k, f[k - 1])
    <2>1. \A k \in 1 .. n : k - 1 \in 0 .. n
      BY <1>1
    <2>2. \A k \in 1 .. n : f[k - 1] \in D
      BY <2>1
    <2>3. QED
      BY <1>4, <2>2
  <1>6. f \in Unders(w) /\ f[0] = Spread(d, what, w, 0, Nothing)
    BY <1>4 DEF D, n, first, Unders
  <1>7. \A k \in 1 .. w.maxDepth : f[k] = Spread(d, what, w, k, f[k - 1])
    BY <1>5 DEF n
  <1>8. QED
    BY <1>6, <1>7 DEF Under

LEMMA FindsTyped ==
  ASSUME NEW d, NEW what, NEW w \in WalkT, NEW p \in Paths, NEW k, NEW e \in Entry
  PROVE  Finds(d, what, w, p, k, e) \subseteq Things
  <1>1. Append(p, e.name) \in Paths
    BY BelowPath
  <1>2. Record(w.artifact, w.profile, Append(p, e.name), "Present") \in ReportT
    BY <1>1 DEF Record, ReportT, WalkT
  <1>3. QED
    BY <1>1, <1>2 DEF Finds, Things

LEMMA UnderUnfolds ==
  ASSUME NEW d, TypedDisk(d), NEW what, NEW w \in WalkT, NEW k \in 0 .. w.maxDepth, NEW p \in Paths
  PROVE  \A x : x \in Under(d, what, w)[k][p] <=>
           /\ Open(d, p)
           /\ \E e \in Elements(ListingOn(d, p)) : x \in From(d, what, w, p, k, e)
  <1> DEFINE U == Under(d, what, w)
  <1>1. w.maxDepth \in Nat
    BY DEF WalkT
  <1>2. /\ U \in [0 .. w.maxDepth -> [Paths -> SUBSET Things]]
        /\ U[0] = Spread(d, what, w, 0, Nothing)
        /\ \A i \in 1 .. w.maxDepth : U[i] = Spread(d, what, w, i, U[i - 1])
    BY UnderDefined DEF Unders
  <1>3. Open(d, p) => \A e \in Elements(ListingOn(d, p)) : e \in Entry
    BY ListingTyped DEF Elements
  <1>4. Open(d, p) => \A e \in Elements(ListingOn(d, p)) :
          Finds(d, what, w, p, k, e) \subseteq Things /\ Append(p, e.name) \in Paths
    BY <1>3, FindsTyped, BelowPath
  <1> DEFINE F(e) == Finds(d, what, w, p, k, e)
             S == ListingOn(d, p)
  <1>5. \A e : From(d, what, w, p, k, e) =
               F(e) \union (IF e.folder /\ k > 0 THEN U[k - 1][Append(p, e.name)] ELSE {})
    BY DEF From
  <1> HIDE DEF U, F, S
  <1>6. CASE k = 0
    <2>1. \A x : x \in U[k][p] <=> x \in Things /\ Open(d, p) /\ \E e \in Elements(S) : x \in F(e)
      BY <1>2, <1>6 DEF Spread, F, S
    <2>2. \A e : From(d, what, w, p, k, e) = F(e)
      BY <1>5, <1>6
    <2>3. QED
      BY <1>4, <2>1, <2>2 DEF U, S, F
  <1>7. CASE k \in 1 .. w.maxDepth
    <2>1. \A x : x \in U[k][p] <=>
                   /\ x \in Things /\ Open(d, p)
                   /\ \E e \in Elements(S) : x \in F(e) \/ (e.folder /\ k > 0 /\ x \in U[k - 1][Append(p, e.name)])
      <3>1. \A u, x : x \in Spread(d, what, w, k, u)[p] <=>
              /\ x \in Things /\ Open(d, p)
              /\ \E e \in Elements(S) : x \in F(e) \/ (e.folder /\ k > 0 /\ x \in u[Append(p, e.name)])
        BY DEF Spread, F, S
      <3>2. U[k] = Spread(d, what, w, k, U[k - 1])
        BY <1>2, <1>7
      <3>3. QED
        BY <3>1, <3>2
    <2>2. k > 0 /\ k - 1 \in 0 .. w.maxDepth
      BY <1>1, <1>7
    <2>3. \A e, x : x \in From(d, what, w, p, k, e) <=>
                      x \in F(e) \/ (e.folder /\ k > 0 /\ x \in U[k - 1][Append(p, e.name)])
      BY <1>5
    <2>4. Open(d, p) => \A e \in Elements(S) : F(e) \subseteq Things /\ U[k - 1][Append(p, e.name)] \subseteq Things
      BY <1>2, <1>4, <2>2 DEF S, F
    <2>5. QED
      BY <2>1, <2>3, <2>4 DEF U, S
  <1>8. QED
    BY <1>1, <1>6, <1>7

(* The four things an entry can be to a walk. *)
LEMMA FromEntry ==
  ASSUME NEW d, TypedDisk(d), NEW what \in {"records", "warnings"}, NEW w \in WalkT,
         NEW k \in 0 .. w.maxDepth, NEW p \in Paths, NEW e \in Entry
  PROVE  LET q == Append(p, e.name)
             r == Record(w.artifact, w.profile, q, "Present") IN
         /\ e.folder /\ k > 0 /\ Open(d, q) => From(d, what, w, p, k, e) = Under(d, what, w)[k - 1][q]
         /\ e.folder /\ k > 0 /\ ~Open(d, q) => From(d, what, w, p, k, e) = IF what = "records" THEN {} ELSE {q}
         /\ e.folder /\ k = 0 => From(d, what, w, p, k, e) = {}
         /\ ~e.folder => From(d, what, w, p, k, e) = IF what = "records" /\ e.kind \in w.kinds THEN {r} ELSE {}
  <1> DEFINE q == Append(p, e.name)
             r == Record(w.artifact, w.profile, q, "Present")
             F == Finds(d, what, w, p, k, e)
             A == From(d, what, w, p, k, e)
             B == Under(d, what, w)[k - 1][q]
  <1>1. w.maxDepth \in Nat /\ q \in Paths /\ e.folder \in BOOLEAN
    BY BelowPath, EntryFields DEF WalkT
  <1>2. A = F \union (IF e.folder /\ k > 0 THEN B ELSE {})
    BY DEF From
  <1>3. /\ what = "records" => F = IF ~e.folder /\ e.kind \in w.kinds THEN {r} ELSE {}
        /\ what = "warnings" => F = IF e.folder /\ k > 0 /\ ~Open(d, q) THEN {q} ELSE {}
    <2> DEFINE R(x) == ~e.folder /\ e.kind \in w.kinds
               W(x) == e.folder /\ k > 0 /\ ~Open(d, x)
    <2>1. what = "records" => F = {x \in {r} : R(x)}
      BY DEF Finds
    <2>2. what = "warnings" => F = {x \in {q} : W(x)}
      BY DEF Finds
    <2>3. {x \in {r} : R(x)} = IF R(r) THEN {r} ELSE {}
      OBVIOUS
    <2>4. {x \in {q} : W(x)} = IF W(q) THEN {q} ELSE {}
      OBVIOUS
    <2>5. QED
      BY <2>1, <2>2, <2>3, <2>4
  <1>4. k > 0 /\ ~Open(d, q) => B = {}
    <2>1. SUFFICES ASSUME k > 0, ~Open(d, q) PROVE B = {}
      OBVIOUS
    <2>2. k - 1 \in 0 .. w.maxDepth
      BY <1>1, <2>1
    <2>3. \A x : x \notin Under(d, what, w)[k - 1][q]
      BY <1>1, <2>1, <2>2, UnderUnfolds
    <2>4. QED
      BY <2>3
  <1> HIDE DEF q, r, F, A, B
  <1>5. CASE ~e.folder
    BY <1>2, <1>3, <1>5 DEF q, r, A
  <1>6. CASE e.folder /\ k = 0
    BY <1>2, <1>3, <1>6 DEF q, r, A
  <1>7. CASE e.folder /\ k > 0 /\ Open(d, q)
    BY <1>2, <1>3, <1>7 DEF q, r, A, B
  <1>8. CASE e.folder /\ k > 0 /\ ~Open(d, q)
    BY <1>2, <1>3, <1>4, <1>8 DEF q, r, A
  <1>9. QED
    BY <1>5, <1>6, <1>7, <1>8 DEF q, r, A, B

-----------------------------------------------------------------------------
(* A folder on the stack still has to give what its remaining entries do.  *)

FrameT == [path : Paths, depth : Nat, entries : Seq(Entry)]
Rest(d, what, w, f) ==
  UNION {From(d, what, w, f.path, w.maxDepth - f.depth, f.entries[i]) : i \in 1 .. Len(f.entries)}

LEMMA RestOfNone ==
  ASSUME NEW d, NEW what, NEW w, NEW f, f.entries = <<>>
  PROVE  Rest(d, what, w, f) = {}
  <1>1. Len(f.entries) = 0
    BY EmptyFacts
  <1>2. 1 .. Len(f.entries) = {}
    BY <1>1
  <1>3. QED
    BY <1>2 DEF Rest

LEMMA RestOfListing ==
  ASSUME NEW d, TypedDisk(d), NEW what, NEW w \in WalkT, NEW p \in Paths, NEW j \in 0 .. w.maxDepth,
         Open(d, p)
  PROVE  Rest(d, what, w, [path |-> p, depth |-> j, entries |-> ListingOn(d, p)])
           = Under(d, what, w)[w.maxDepth - j][p]
  <1> DEFINE k == w.maxDepth - j
             s == ListingOn(d, p)
             f == [path |-> p, depth |-> j, entries |-> s]
             A == Rest(d, what, w, f)
             B == Under(d, what, w)[k][p]
  <1>1. k \in 0 .. w.maxDepth
    BY DEF WalkT
  <1>2. \A x : x \in B <=> \E e \in Elements(s) : x \in From(d, what, w, p, k, e)
    <2> HIDE DEF k
    <2>1. QED
      BY <1>1, UnderUnfolds
  <1>3. A = UNION {From(d, what, w, p, k, s[i]) : i \in 1 .. Len(s)}
    BY DEF Rest
  <1> HIDE DEF k, s, f, A, B
  <1>4. \A x : x \in A <=> \E i \in 1 .. Len(s) : x \in From(d, what, w, p, k, s[i])
    BY <1>3
  <1>5. \A x : x \in A <=> x \in B
    BY <1>2, <1>4 DEF Elements
  <1>6. A = B
    BY <1>5
  <1>7. QED
    BY <1>6 DEF A, B, f, s, k

Left(f) == [f EXCEPT !.entries = Tail(@)]

LEMMA RestByEntry ==
  ASSUME NEW d, NEW what, NEW w, NEW f \in FrameT, f.entries # <<>>
  PROVE  /\ Left(f) \in FrameT
         /\ Head(f.entries) \in Entry
         /\ Rest(d, what, w, f) =
              From(d, what, w, f.path, w.maxDepth - f.depth, Head(f.entries))
              \union Rest(d, what, w, Left(f))
  <1> DEFINE s == f.entries
             t == Tail(s)
             g == Left(f)
             k == w.maxDepth - f.depth
             G(e) == From(d, what, w, f.path, k, e)
  <1>1. s \in Seq(Entry) /\ s # <<>>
    BY DEF FrameT
  <1>2. /\ Head(s) \in Entry /\ t \in Seq(Entry)
        /\ Elements(s) = {Head(s)} \union Elements(t)
    BY <1>1, ElementsOfTail
  <1>3. g \in FrameT /\ g.path = f.path /\ g.depth = f.depth /\ g.entries = t
    BY <1>2 DEF FrameT, Left
  <1>4. Rest(d, what, w, f) = UNION {G(s[i]) : i \in 1 .. Len(s)}
    BY DEF Rest
  <1>5. Rest(d, what, w, g) = UNION {G(t[i]) : i \in 1 .. Len(t)}
    BY <1>3 DEF Rest
  <1> HIDE DEF G, g, t, s
  <1>6. UNION {G(s[i]) : i \in 1 .. Len(s)} = UNION {G(e) : e \in Elements(s)}
    BY DEF Elements
  <1>7. UNION {G(t[i]) : i \in 1 .. Len(t)} = UNION {G(e) : e \in Elements(t)}
    BY DEF Elements
  <1>8. UNION {G(e) : e \in Elements(s)} = G(Head(s)) \union UNION {G(e) : e \in Elements(t)}
    BY <1>2
  <1>9. QED
    BY <1>2, <1>3, <1>4, <1>5, <1>6, <1>7, <1>8 DEF G, g, t, s

-----------------------------------------------------------------------------
(* What a walk finds, told level by level.  Level, Files and Unlisted are  *)
(* of the disk of the state.                                               *)

NextLevel(L) == UNION {{Append(p, e.name) : e \in Folders(p)} : p \in {q \in L : Readable(q)}}

LEMMA ReadableIsOpen ==
  \A p : /\ Readable(p) <=> Open(disk, p)
         /\ Listing(p) = ListingOn(disk, p)
  BY DEF Readable, Open, Listing

LEMMA InNextLevel ==
  ASSUME TypedDisk(disk), NEW L \in SUBSET Paths
  PROVE  /\ NextLevel(L) \in SUBSET Paths
         /\ \A q : q \in NextLevel(L) <=>
              \E p \in L : /\ Open(disk, p)
                           /\ \E e \in Elements(ListingOn(disk, p)) : e.folder /\ q = Append(p, e.name)
  <1>1. \A q : q \in NextLevel(L) <=>
          \E p \in L : /\ Open(disk, p)
                       /\ \E e \in Elements(ListingOn(disk, p)) : e.folder /\ q = Append(p, e.name)
    BY ReadableIsOpen DEF NextLevel, Folders
  <1>2. ASSUME NEW q \in NextLevel(L) PROVE q \in Paths
    <2>1. PICK p \in L : /\ Open(disk, p)
                         /\ \E e \in Elements(ListingOn(disk, p)) : e.folder /\ q = Append(p, e.name)
      BY <1>1
    <2>2. PICK e \in Elements(ListingOn(disk, p)) : q = Append(p, e.name)
      BY <2>1
    <2>3. e \in Entry
      BY <2>1, <2>2, ListingTyped DEF Elements
    <2>4. QED
      BY <2>2, <2>3, BelowPath
  <1>3. QED
    BY <1>1, <1>2

LEMMA LevelLoop ==
  ASSUME TypedDisk(disk), NEW w \in WalkT
  PROVE  /\ Level(w) \in [0 .. w.maxDepth -> SUBSET Paths]
         /\ Level(w)[0] = {w.root}
         /\ \A j \in 1 .. w.maxDepth : Level(w)[j] = NextLevel(Level(w)[j - 1])
  <1> DEFINE k == w.maxDepth
             D == SUBSET Paths
             first == {w.root}
  <1>1. k \in Nat /\ first \in D
    BY DEF WalkT
  <1>2. \A L \in D : NextLevel(L) \in D
    BY InNextLevel
  <1> HIDE DEF k, D, first
  <1>3. \A next \in [1 .. k -> [D -> D]] :
          \E f \in [0 .. k -> D] : f[0] = first /\ \A i \in 1 .. k : f[i] = next[i][f[i - 1]]
    BY <1>1, LoopDefined
  <1> DEFINE next == [i \in 1 .. k |-> [L \in D |-> NextLevel(L)]]
             Loop(f) == f = [i \in 0 .. k |-> IF i = 0 THEN first ELSE NextLevel(f[i - 1])]
  <1>4. \E f : Loop(f)
    <2>1. next \in [1 .. k -> [D -> D]]
      BY <1>2
    <2>2. PICK f \in [0 .. k -> D] : f[0] = first /\ \A i \in 1 .. k : f[i] = next[i][f[i - 1]]
      BY <1>3, <2>1
    <2>3. \A i \in 0 .. k : f[i] = IF i = 0 THEN first ELSE NextLevel(f[i - 1])
      <3>1. \A i \in 1 .. k : i - 1 \in 0 .. k
        BY <1>1
      <3>2. \A i \in 1 .. k : f[i] = NextLevel(f[i - 1])
        BY <1>1, <2>2, <3>1
      <3>3. QED
        BY <1>1, <2>2, <3>2
    <2>4. f = [i \in 0 .. k |-> f[i]]
      BY <2>2
    <2>5. QED
      BY <2>3, <2>4
  <1> DEFINE u == CHOOSE g : Loop(g)
  <1>5. Loop(u) /\ Level(w) = u
    <2>1. Loop(u)
      BY <1>4
    <2>2. Level(w) = u
      BY DEF Level, NextLevel, first, k
    <2>3. QED
      BY <2>1, <2>2
  <1> HIDE DEF u
  <1>6. u[0] = first /\ \A i \in 1 .. k : u[i] = NextLevel(u[i - 1])
    <2>1. \A i \in 0 .. k : u[i] = IF i = 0 THEN first ELSE NextLevel(u[i - 1])
      BY <1>5
    <2>2. QED
      BY <1>1, <2>1
  <1>7. 0 .. k \subseteq {i \in 0 .. k : u[i] \in D}
    <2> DEFINE S == {i \in 0 .. k : u[i] \in D}
    <2>1. 0 \in S
      BY <1>1, <1>6
    <2>2. ASSUME NEW i \in 1 .. k, i - 1 \in S PROVE i \in S
      BY <1>2, <1>6, <2>2
    <2> HIDE DEF S
    <2>3. QED
      BY <1>1, <2>1, <2>2, RangeInduction DEF S
  <1>8. u \in [0 .. k -> D]
    BY <1>5, <1>7
  <1>9. QED
    BY <1>5, <1>6, <1>8 DEF k, D, first

(* A folder of level j is j names longer than the root. *)
LEMMA LevelLength ==
  ASSUME TypedDisk(disk), NEW w \in WalkT
  PROVE  \A j \in 0 .. w.maxDepth : \A p \in Level(w)[j] : Len(p) = Len(w.root) + j
  <1> DEFINE k == w.maxDepth
             T == Level(w)
             n == Len(w.root)
             S == {j \in 0 .. k : \A p \in T[j] : Len(p) = n + j}
  <1>1. k \in Nat /\ n \in Nat
    BY DEF WalkT, Paths
  <1>2. T \in [0 .. k -> SUBSET Paths] /\ T[0] = {w.root} /\ \A j \in 1 .. k : T[j] = NextLevel(T[j - 1])
    BY LevelLoop
  <1>3. 0 \in S
    BY <1>1, <1>2
  <1>4. ASSUME NEW j \in 1 .. k, j - 1 \in S PROVE j \in S
    <2>1. T[j - 1] \in SUBSET Paths /\ T[j] = NextLevel(T[j - 1]) /\ j - 1 \in 0 .. k
      BY <1>1, <1>2
    <2>2. \A p \in T[j - 1] : Len(p) = n + (j - 1)
      BY <1>4
    <2> HIDE DEF T, n, k
    <2>3. ASSUME NEW q \in T[j] PROVE Len(q) = n + j
      <3>1. PICK p \in T[j - 1] :
              /\ Open(disk, p)
              /\ \E e \in Elements(ListingOn(disk, p)) : e.folder /\ q = Append(p, e.name)
        BY <2>1, InNextLevel
      <3>2. PICK e \in Elements(ListingOn(disk, p)) : q = Append(p, e.name)
        BY <3>1
      <3>3. e \in Entry
        BY <3>1, <3>2, ListingTyped DEF Elements
      <3>4. Len(q) = Len(p) + 1
        BY <2>1, <3>2, <3>3, BelowPath
      <3>5. Len(p) = n + (j - 1)
        BY <2>2
      <3>6. QED
        BY <1>1, <3>4, <3>5
    <2>4. QED
      BY <1>1, <2>3
  <1>5. 0 .. k \subseteq S
    <2> HIDE DEF S, k
    <2>1. QED
      BY <1>1, <1>3, <1>4, RangeInduction
  <1>6. QED
    BY <1>5

(* A set peeled layer by layer is the union of its layers. *)
LEMMA Peeled ==
  ASSUME NEW n \in Nat, NEW X, NEW O,
         \A j \in 0 .. n - 1 : X[j] = O[j] \union X[j + 1],
         X[n] = O[n]
  PROVE  X[0] = UNION {O[j] : j \in 0 .. n}
  <1> DEFINE S == {m \in 0 .. n : X[n - m] = UNION {O[j] : j \in n - m .. n}}
  <1>1. 0 \in S
    <2>1. n - 0 .. n = {n}
      OBVIOUS
    <2>2. UNION {O[j] : j \in {n}} = O[n]
      OBVIOUS
    <2>3. n - 0 = n
      OBVIOUS
    <2>4. QED
      BY <2>1, <2>2, <2>3
  <1>2. ASSUME NEW m \in 1 .. n, m - 1 \in S PROVE m \in S
    <2> DEFINE j == n - m
    <2>1. j \in 0 .. n - 1 /\ n - (m - 1) = j + 1
      OBVIOUS
    <2>2. X[j] = O[j] \union X[j + 1]
      BY <2>1
    <2>3. X[j + 1] = UNION {O[i] : i \in j + 1 .. n}
      BY <1>2, <2>1
    <2>4. j .. n = {j} \union (j + 1 .. n)
      BY <2>1
    <2> HIDE DEF j
    <2>5. UNION {O[i] : i \in {j} \union (j + 1 .. n)} = O[j] \union UNION {O[i] : i \in j + 1 .. n}
      OBVIOUS
    <2>6. X[j] = UNION {O[i] : i \in j .. n}
      BY <2>2, <2>3, <2>4, <2>5
    <2>7. QED
      BY <2>6 DEF j
  <1>3. n \in S
    <2> HIDE DEF S
    <2>1. 0 .. n \subseteq S
      BY <1>1, <1>2, RangeInduction
    <2>2. QED
      BY <2>1
  <1>4. n - n = 0
    OBVIOUS
  <1>5. QED
    BY <1>3, <1>4

(* The files of a level; its folders that cannot be listed; and all there  *)
(* is at or below a level.                                                 *)
FilesAt(w, j) ==
  {x \in ReportT : \E p \in Level(w)[j] :
     /\ Open(disk, p)
     /\ \E e \in Elements(ListingOn(disk, p)) :
          ~e.folder /\ e.kind \in w.kinds /\ x = Record(w.artifact, w.profile, Append(p, e.name), "Present")}
UnlistedAt(w, j) == {p \in Level(w)[j] : ~Open(disk, p)}
FromLevel(what, w, j) == UNION {Under(disk, what, w)[w.maxDepth - j][p] : p \in Level(w)[j]}

LEMMA InFromLevel ==
  ASSUME TypedDisk(disk), NEW what, NEW w \in WalkT, NEW j \in 0 .. w.maxDepth
  PROVE  \A x : x \in FromLevel(what, w, j) <=>
           \E p \in Level(w)[j] :
             /\ Open(disk, p)
             /\ \E e \in Elements(ListingOn(disk, p)) :
                  /\ e \in Entry /\ p \in Paths
                  /\ \/ x \in Finds(disk, what, w, p, w.maxDepth - j, e)
                     \/ /\ e.folder /\ j < w.maxDepth
                        /\ x \in Under(disk, what, w)[w.maxDepth - (j + 1)][Append(p, e.name)]
  <1> DEFINE k == w.maxDepth - j
             L == Level(w)[j]
             S(p) == ListingOn(disk, p)
             E(p, e, x) == x \in From(disk, what, w, p, k, e)
  <1>1. w.maxDepth \in Nat /\ k \in 0 .. w.maxDepth
    BY DEF WalkT
  <1>2. L \in SUBSET Paths
    BY LevelLoop
  <1>3. (k > 0 <=> j < w.maxDepth) /\ w.maxDepth - (j + 1) = k - 1
    BY <1>1
  <1>4. \A x : x \in FromLevel(what, w, j) <=> \E p \in L : x \in Under(disk, what, w)[k][p]
    BY DEF FromLevel
  <1>5. \A p \in L : \A x : x \in Under(disk, what, w)[k][p] <=>
          Open(disk, p) /\ \E e \in Elements(S(p)) : E(p, e, x)
    <2> HIDE DEF k, L
    <2>1. QED
      BY <1>1, <1>2, UnderUnfolds
  <1>6. \A p, e, x : E(p, e, x) <=>
          \/ x \in Finds(disk, what, w, p, k, e)
          \/ e.folder /\ k > 0 /\ x \in Under(disk, what, w)[k - 1][Append(p, e.name)]
    <2> HIDE DEF k
    <2>1. QED
      BY DEF From
  <1>7. \A p \in L : Open(disk, p) => \A e \in Elements(S(p)) : e \in Entry
    BY <1>2, ListingTyped DEF Elements
  <1> HIDE DEF E, S, L
  <1>8. \A x : x \in FromLevel(what, w, j) <=>
          \E p \in L : /\ Open(disk, p)
                       /\ \E e \in Elements(S(p)) :
                            e \in Entry /\ p \in Paths /\ E(p, e, x)
    BY <1>2, <1>4, <1>5, <1>7
  <1>9. \A x : x \in FromLevel(what, w, j) <=>
          \E p \in L : /\ Open(disk, p)
                       /\ \E e \in Elements(S(p)) :
                            /\ e \in Entry /\ p \in Paths
                            /\ \/ x \in Finds(disk, what, w, p, k, e)
                               \/ /\ e.folder /\ j < w.maxDepth
                                  /\ x \in Under(disk, what, w)[k - 1][Append(p, e.name)]
    <2> HIDE DEF k
    <2>1. QED
      BY <1>3, <1>6, <1>8
  <1>10. QED
    BY <1>3, <1>9 DEF L, S

LEMMA LevelUnfolds ==
  ASSUME TypedDisk(disk), NEW w \in WalkT, NEW j \in 0 .. w.maxDepth
  PROVE  /\ j < w.maxDepth =>
              /\ FromLevel("records", w, j) = FilesAt(w, j) \union FromLevel("records", w, j + 1)
              /\ FromLevel("warnings", w, j) = UnlistedAt(w, j + 1) \union FromLevel("warnings", w, j + 1)
         /\ j = w.maxDepth =>
              /\ FromLevel("records", w, j) = FilesAt(w, j)
              /\ FromLevel("warnings", w, j) = {}
  <1> DEFINE k == w.maxDepth - j
             L == Level(w)[j]
             M == Level(w)[j + 1]
             S(p) == ListingOn(disk, p)
             R(p, e) == Record(w.artifact, w.profile, Append(p, e.name), "Present")
             Found(what, p, e, x) == x \in Finds(disk, what, w, p, k, e)
             Deeper(what, q, x) == x \in Under(disk, what, w)[w.maxDepth - (j + 1)][q]
  <1>1. w.maxDepth \in Nat /\ (k > 0 <=> j < w.maxDepth) /\ k \in Nat
    BY DEF WalkT
  <1>2. L \in SUBSET Paths
    BY LevelLoop
  <1>3. \A p, e, x : /\ Found("records", p, e, x) <=> ~e.folder /\ e.kind \in w.kinds /\ x = R(p, e)
                     /\ Found("warnings", p, e, x) <=>
                          e.folder /\ k > 0 /\ ~Open(disk, Append(p, e.name)) /\ x = Append(p, e.name)
    <2> HIDE DEF k
    <2>1. QED
      BY DEF Finds
  <1>4. \A p \in Paths : \A e \in Entry : e.kind \in w.kinds => R(p, e) \in ReportT
    <2>1. \A p \in Paths : \A e \in Entry : Append(p, e.name) \in Paths
      BY BelowPath
    <2>2. QED
      BY <2>1 DEF Record, ReportT, WalkT
  <1>5. \A what, x : x \in FromLevel(what, w, j) <=>
          \E p \in L : /\ Open(disk, p)
                       /\ \E e \in Elements(S(p)) :
                            /\ e \in Entry /\ p \in Paths
                            /\ \/ Found(what, p, e, x)
                               \/ e.folder /\ j < w.maxDepth /\ Deeper(what, Append(p, e.name), x)
    BY InFromLevel
  <1>6. \A p \in L : Open(disk, p) => \A e \in Elements(S(p)) : e \in Entry
    BY <1>2, ListingTyped DEF Elements
  <1>7. \A x : x \in FilesAt(w, j) <=>
          \E p \in L : /\ Open(disk, p)
                       /\ \E e \in Elements(S(p)) :
                            /\ e \in Entry /\ p \in Paths
                            /\ ~e.folder /\ e.kind \in w.kinds /\ x = R(p, e)
    <2>1. \A x : x \in FilesAt(w, j) <=>
            /\ x \in ReportT
            /\ \E p \in L : /\ Open(disk, p)
                            /\ \E e \in Elements(S(p)) : ~e.folder /\ e.kind \in w.kinds /\ x = R(p, e)
      BY DEF FilesAt
    <2> HIDE DEF R, S, L
    <2>2. QED
      BY <1>2, <1>4, <1>6, <2>1
  <1>8. CASE j = w.maxDepth
    <2> HIDE DEF R, S, L, Found, Deeper, k
    <2>1. \A x : x \in FromLevel("records", w, j) <=> x \in FilesAt(w, j)
      BY <1>1, <1>3, <1>5, <1>7, <1>8
    <2>2. \A x : x \notin FromLevel("warnings", w, j)
      BY <1>1, <1>3, <1>5, <1>8
    <2>3. QED
      BY <1>1, <1>8, <2>1, <2>2
  <1>9. CASE j < w.maxDepth
    <2>1. j + 1 \in 1 .. w.maxDepth /\ (j + 1) - 1 = j
      BY <1>1, <1>9
    <2>2. M = NextLevel(L) /\ M \in SUBSET Paths
      <3>1. \A i \in 1 .. w.maxDepth : Level(w)[i] = NextLevel(Level(w)[i - 1])
        BY LevelLoop
      <3>2. M = NextLevel(L)
        BY <2>1, <3>1
      <3>3. NextLevel(L) \in SUBSET Paths
        <4> HIDE DEF L
        <4>1. QED
          BY <1>2, InNextLevel
      <3>4. QED
        BY <3>2, <3>3
    <2>3. \A q : q \in M <=> \E p \in L : /\ Open(disk, p)
                                          /\ \E e \in Elements(S(p)) : e.folder /\ q = Append(p, e.name)
      <3> HIDE DEF L
      <3>1. QED
        BY <1>2, <2>2, InNextLevel
    <2>4. \A what, x : x \in FromLevel(what, w, j + 1) <=> \E q \in M : Deeper(what, q, x)
      <3> HIDE DEF M
      <3>1. \A what, x : x \in FromLevel(what, w, j + 1) <=>
              \E q \in M : x \in Under(disk, what, w)[w.maxDepth - (j + 1)][q]
        BY DEF FromLevel, M
      <3>2. QED
        BY <3>1
    <2>5. \A q : q \in UnlistedAt(w, j + 1) <=> q \in M /\ ~Open(disk, q)
      BY DEF UnlistedAt
    <2> HIDE DEF R, S, L, M, Found, Deeper, k
    <2>6. \A what, x : (\E p \in L : /\ Open(disk, p)
                                     /\ \E e \in Elements(S(p)) :
                                          e \in Entry /\ p \in Paths /\ e.folder /\ Deeper(what, Append(p, e.name), x))
                       <=> x \in FromLevel(what, w, j + 1)
      <3>1. ASSUME NEW what, NEW x, NEW p \in L, Open(disk, p), NEW e \in Elements(S(p)), e.folder,
                   Deeper(what, Append(p, e.name), x)
            PROVE  x \in FromLevel(what, w, j + 1)
        <4>1. Append(p, e.name) \in M
          BY <2>3, <3>1
        <4>2. QED
          BY <2>4, <3>1, <4>1
      <3>2. ASSUME NEW what, NEW x \in FromLevel(what, w, j + 1)
            PROVE  \E p \in L : /\ Open(disk, p)
                                /\ \E e \in Elements(S(p)) :
                                     e \in Entry /\ p \in Paths /\ e.folder /\ Deeper(what, Append(p, e.name), x)
        <4>1. PICK q \in M : Deeper(what, q, x)
          BY <2>4
        <4>2. PICK p \in L : Open(disk, p) /\ \E e \in Elements(S(p)) : e.folder /\ q = Append(p, e.name)
          BY <2>3
        <4>3. PICK e \in Elements(S(p)) : e.folder /\ q = Append(p, e.name)
          BY <4>2
        <4>4. p \in Paths /\ e \in Entry
          BY <1>2, <1>6, <4>2
        <4>5. QED
          BY <4>1, <4>2, <4>3, <4>4
      <3>3. QED
        BY <3>1, <3>2
    <2>7. \A what, x : x \in FromLevel(what, w, j) <=>
            \/ \E p \in L : /\ Open(disk, p)
                            /\ \E e \in Elements(S(p)) : e \in Entry /\ p \in Paths /\ Found(what, p, e, x)
            \/ x \in FromLevel(what, w, j + 1)
      BY <1>5, <1>9, <2>6
    <2>8. \A x : x \in FromLevel("records", w, j) <=> x \in FilesAt(w, j) \/ x \in FromLevel("records", w, j + 1)
      BY <1>3, <1>7, <2>7
    <2>9. \A x : x \in UnlistedAt(w, j + 1) <=>
            \E p \in L : /\ Open(disk, p)
                         /\ \E e \in Elements(S(p)) : e \in Entry /\ p \in Paths /\ Found("warnings", p, e, x)
      <3>1. ASSUME NEW x, NEW p \in L, Open(disk, p), NEW e \in Elements(S(p)), Found("warnings", p, e, x)
            PROVE  x \in UnlistedAt(w, j + 1)
        <4>1. e.folder /\ x = Append(p, e.name) /\ ~Open(disk, x)
          BY <1>3, <3>1
        <4>2. x \in M
          BY <2>3, <3>1, <4>1
        <4>3. QED
          BY <2>5, <4>1, <4>2
      <3>2. ASSUME NEW x \in UnlistedAt(w, j + 1)
            PROVE  \E p \in L : /\ Open(disk, p)
                                /\ \E e \in Elements(S(p)) : e \in Entry /\ p \in Paths /\ Found("warnings", p, e, x)
        <4>1. x \in M /\ ~Open(disk, x)
          BY <2>5
        <4>2. PICK p \in L : Open(disk, p) /\ \E e \in Elements(S(p)) : e.folder /\ x = Append(p, e.name)
          BY <2>3, <4>1
        <4>3. PICK e \in Elements(S(p)) : e.folder /\ x = Append(p, e.name)
          BY <4>2
        <4>4. p \in Paths /\ e \in Entry
          BY <1>2, <1>6, <4>2
        <4>5. Found("warnings", p, e, x)
          BY <1>1, <1>3, <1>9, <4>1, <4>3
        <4>6. QED
          BY <4>2, <4>4, <4>5
      <3>3. QED
        BY <3>1, <3>2
    <2>10. \A x : x \in FromLevel("warnings", w, j) <=> x \in UnlistedAt(w, j + 1) \/ x \in FromLevel("warnings", w, j + 1)
      BY <2>7, <2>9
    <2>11. j # w.maxDepth
      BY <1>1, <1>9
    <2>12. QED
      BY <2>8, <2>10, <2>11
  <1>10. QED
    BY <1>1, <1>8, <1>9

(* All a walk finds, from its root. *)
All(d, what, w) == Under(d, what, w)[w.maxDepth][w.root]

LEMMA AllByLevel ==
  ASSUME TypedDisk(disk), NEW w \in WalkT
  PROVE  All(disk, "records", w) = Files(w) /\ All(disk, "warnings", w) = Unlisted(w)
  <1> DEFINE n == w.maxDepth
             T == Level(w)
             Recs == [j \in 0 .. n |-> FromLevel("records", w, j)]
             Own == [j \in 0 .. n |-> FilesAt(w, j)]
             Warns == [j \in 0 .. n |-> FromLevel("warnings", w, j)]
             Bad == [j \in 0 .. n |-> IF j < n THEN UnlistedAt(w, j + 1) ELSE {}]
  <1>1. n \in Nat /\ w.root \in Paths
    BY DEF WalkT
  <1>2. T \in [0 .. n -> SUBSET Paths] /\ T[0] = {w.root}
    BY LevelLoop
  <1>3. \A what : FromLevel(what, w, 0) = All(disk, what, w)
    <2>1. n - 0 = n
      BY <1>1
    <2>2. QED
      BY <1>2, <2>1 DEF FromLevel, All
  <1>4. \A j \in 0 .. n - 1 : j \in 0 .. n /\ j + 1 \in 0 .. n /\ j < n
    BY <1>1
  <1>5. Recs[0] = UNION {Own[j] : j \in 0 .. n}
    <2>1. \A j \in 0 .. n - 1 : Recs[j] = Own[j] \union Recs[j + 1]
      BY <1>4, LevelUnfolds
    <2>2. Recs[n] = Own[n]
      BY <1>1, LevelUnfolds
    <2> HIDE DEF Recs, Own, n
    <2>3. QED
      BY <1>1, <2>1, <2>2, Peeled
  <1>6. Warns[0] = UNION {Bad[j] : j \in 0 .. n}
    <2>1. \A j \in 0 .. n - 1 : Warns[j] = Bad[j] \union Warns[j + 1]
      BY <1>4, LevelUnfolds
    <2>2. Warns[n] = Bad[n]
      <3>1. n \in 0 .. n /\ ~(n < n) /\ FromLevel("warnings", w, n) = {}
        BY <1>1, LevelUnfolds
      <3> HIDE DEF n
      <3>2. QED
        BY <3>1
    <2> HIDE DEF Warns, Bad, n
    <2>3. QED
      BY <1>1, <2>1, <2>2, Peeled
  <1>7. All(disk, "records", w) = Files(w)
    <2>1. \A x : x \in All(disk, "records", w) <=> \E j \in 0 .. n : x \in FilesAt(w, j)
      <3>1. \A x : x \in Recs[0] <=> \E j \in 0 .. n : x \in Own[j]
        BY <1>5
      <3>2. \A j \in 0 .. n : Own[j] = FilesAt(w, j)
        OBVIOUS
      <3>3. Recs[0] = All(disk, "records", w)
        BY <1>1, <1>3
      <3> HIDE DEF Recs, Own
      <3>4. QED
        BY <3>1, <3>2, <3>3
    <2>2. \A p : p \in Opened(w) <=> \E j \in 0 .. n : p \in T[j]
      BY DEF Opened
    <2>3. \A x : x \in Files(w) <=>
            \E p \in Opened(w) :
              /\ Open(disk, p)
              /\ \E e \in Elements(ListingOn(disk, p)) :
                   ~e.folder /\ e.kind \in w.kinds /\ x = Record(w.artifact, w.profile, Append(p, e.name), "Present")
      BY ReadableIsOpen DEF Files, Matches
    <2>4. ASSUME NEW x \in Files(w) PROVE x \in ReportT
      <3>1. PICK p \in Opened(w) :
              /\ Open(disk, p)
              /\ \E e \in Elements(ListingOn(disk, p)) :
                   ~e.folder /\ e.kind \in w.kinds /\ x = Record(w.artifact, w.profile, Append(p, e.name), "Present")
        BY <2>3
      <3>2. PICK e \in Elements(ListingOn(disk, p)) :
              x = Record(w.artifact, w.profile, Append(p, e.name), "Present")
        BY <3>1
      <3>3. p \in Paths
        BY <1>2, <2>2
      <3>4. e \in Entry
        BY <3>1, <3>2, ListingTyped DEF Elements
      <3>5. Append(p, e.name) \in Paths
        BY <3>3, <3>4, BelowPath
      <3>6. QED
        BY <3>2, <3>5 DEF Record, ReportT, WalkT
    <2>5. \A x, j : x \in FilesAt(w, j) <=>
            /\ x \in ReportT
            /\ \E p \in T[j] :
                 /\ Open(disk, p)
                 /\ \E e \in Elements(ListingOn(disk, p)) :
                      ~e.folder /\ e.kind \in w.kinds /\ x = Record(w.artifact, w.profile, Append(p, e.name), "Present")
      BY DEF FilesAt
    <2>6. \A x : x \in All(disk, "records", w) <=> x \in Files(w)
      <3> DEFINE Gives(p, x) ==
                   /\ Open(disk, p)
                   /\ \E e \in Elements(ListingOn(disk, p)) :
                        ~e.folder /\ e.kind \in w.kinds /\ x = Record(w.artifact, w.profile, Append(p, e.name), "Present")
      <3>1. \A x : x \in Files(w) <=> x \in ReportT /\ \E p \in Opened(w) : Gives(p, x)
        BY <2>3, <2>4
      <3>2. \A x, j : x \in FilesAt(w, j) <=> x \in ReportT /\ \E p \in T[j] : Gives(p, x)
        BY <2>5
      <3> HIDE DEF Gives, T, n
      <3>3. QED
        BY <2>1, <2>2, <3>1, <3>2
    <2>7. QED
      BY <2>6
  <1>8. All(disk, "warnings", w) = Unlisted(w)
    <2>1. \A x : x \in All(disk, "warnings", w) <=> \E j \in 0 .. n : j < n /\ x \in UnlistedAt(w, j + 1)
      <3>1. \A x : x \in Warns[0] <=> \E j \in 0 .. n : x \in Bad[j]
        BY <1>6
      <3>2. \A j \in 0 .. n : \A x : x \in Bad[j] <=> j < n /\ x \in UnlistedAt(w, j + 1)
        OBVIOUS
      <3>3. Warns[0] = All(disk, "warnings", w)
        BY <1>1, <1>3
      <3> HIDE DEF Warns, Bad
      <3>4. QED
        BY <3>1, <3>2, <3>3
    <2>2. \A p : p \in Unlisted(w) <=> p # w.root /\ ~Open(disk, p) /\ \E j \in 0 .. n : p \in T[j]
      BY ReadableIsOpen DEF Unlisted, Opened
    <2>3. \A j \in 1 .. n : \A p \in T[j] : p # w.root
      <3>1. \A j \in 0 .. n : \A p \in T[j] : Len(p) = Len(w.root) + j
        BY LevelLength
      <3>2. Len(w.root) \in Nat
        BY <1>1 DEF Paths
      <3> HIDE DEF T
      <3>3. SUFFICES ASSUME NEW j \in 1 .. n, w.root \in T[j] PROVE FALSE
        OBVIOUS
      <3>4. j \in 0 .. n
        BY <1>1
      <3>5. Len(w.root) = Len(w.root) + j
        BY <3>1, <3>3, <3>4
      <3>6. QED
        BY <1>1, <3>2, <3>5
    <2>4. \A p, j : p \in UnlistedAt(w, j) <=> p \in T[j] /\ ~Open(disk, p)
      BY DEF UnlistedAt
    <2> HIDE DEF T, n
    <2>5. ASSUME NEW p \in Unlisted(w) PROVE p \in All(disk, "warnings", w)
      <3>1. PICK j \in 0 .. n : p \in T[j]
        BY <2>2
      <3>2. j # 0
        BY <1>2, <2>2, <2>5, <3>1
      <3>3. j - 1 \in 0 .. n /\ j - 1 < n /\ (j - 1) + 1 = j
        BY <1>1, <3>2
      <3>4. p \in UnlistedAt(w, j)
        BY <2>2, <2>4, <2>5, <3>1
      <3>5. QED
        BY <2>1, <3>3, <3>4
    <2>6. ASSUME NEW p \in All(disk, "warnings", w) PROVE p \in Unlisted(w)
      <3>1. PICK j \in 0 .. n : j < n /\ p \in UnlistedAt(w, j + 1)
        BY <2>1
      <3>2. j + 1 \in 1 .. n /\ j + 1 \in 0 .. n
        BY <1>1, <3>1
      <3>3. p \in T[j + 1] /\ ~Open(disk, p)
        BY <2>4, <3>1
      <3>4. QED
        BY <2>2, <2>3, <3>2, <3>3
    <2>7. QED
      BY <2>5, <2>6
  <1>9. QED
    BY <1>7, <1>8

-----------------------------------------------------------------------------
(* A record of a walk bears the walk's key, and its path goes through the  *)
(* folder it was found under.                                              *)

Beneath(x, w, p) ==
  /\ x \in ReportT /\ Key(x) = Key(w)
  /\ Len(x.path) > Len(p) /\ \A i \in 1 .. Len(p) : x.path[i] = p[i]
Through(x, w, p, e) == Beneath(x, w, p) /\ x.path[Len(p) + 1] = e.name

LEMMA RecordOfFile ==
  ASSUME NEW w \in WalkT, NEW p \in Paths, NEW e \in Entry
  PROVE  LET r == Record(w.artifact, w.profile, Append(p, e.name), "Present") IN
         r \in ReportT /\ Through(r, w, p, e)
  <1> DEFINE q == Append(p, e.name)
             r == Record(w.artifact, w.profile, q, "Present")
  <1>1. /\ q \in Paths /\ Len(q) = Len(p) + 1 /\ q[Len(p) + 1] = e.name
        /\ \A i \in 1 .. Len(p) : q[i] = p[i]
    BY BelowPath
  <1>2. Len(p) \in Nat
    BY DEF Paths
  <1>3. r \in ReportT
    BY <1>1 DEF Record, ReportT, WalkT
  <1>4. r.path = q /\ Key(r) = Key(w)
    BY DEF Record, Key
  <1> HIDE DEF r, q
  <1>5. Through(r, w, p, e)
    BY <1>1, <1>2, <1>3, <1>4 DEF Through, Beneath
  <1>6. QED
    BY <1>3, <1>5 DEF r, q

LEMMA FromDeeper ==
  ASSUME NEW d, TypedDisk(d), NEW w \in WalkT, NEW k \in 0 .. w.maxDepth, NEW p \in Paths, NEW e \in Entry,
         k > 0 => \A q \in Paths : \A x \in Under(d, "records", w)[k - 1][q] : Beneath(x, w, q)
  PROVE  \A x \in From(d, "records", w, p, k, e) : Through(x, w, p, e)
  <1> DEFINE q == Append(p, e.name)
             r == Record(w.artifact, w.profile, q, "Present")
             A == From(d, "records", w, p, k, e)
  <1>1. /\ q \in Paths /\ Len(q) = Len(p) + 1 /\ q[Len(p) + 1] = e.name
        /\ \A i \in 1 .. Len(p) : q[i] = p[i]
    BY BelowPath
  <1>2. Through(r, w, p, e)
    BY RecordOfFile
  <1>3. k \in Nat /\ Len(p) \in Nat /\ e.folder \in BOOLEAN
    BY EntryFields DEF WalkT, Paths
  <1>4. \A x \in Under(d, "records", w)[k - 1][q] : k > 0 => Beneath(x, w, q)
    BY <1>1
  <1>5. \A x : Beneath(x, w, q) => Through(x, w, p, e)
    <2>1. SUFFICES ASSUME NEW x, Beneath(x, w, q) PROVE Through(x, w, p, e)
      OBVIOUS
    <2>2. /\ x \in ReportT /\ Key(x) = Key(w)
          /\ Len(x.path) > Len(q) /\ \A i \in 1 .. Len(q) : x.path[i] = q[i]
      BY <2>1 DEF Beneath
    <2> HIDE DEF q
    <2>3. Len(x.path) > Len(p)
      <3>1. x.path \in Paths
        BY <2>2 DEF ReportT
      <3>2. Len(x.path) \in Nat
        BY <3>1 DEF Paths
      <3>3. QED
        BY <1>1, <1>3, <2>2, <3>2
    <2>4. \A i \in 1 .. Len(p) : i \in 1 .. Len(q)
      BY <1>1, <1>3
    <2>5. Len(p) + 1 \in 1 .. Len(q)
      BY <1>1, <1>3
    <2>6. QED
      BY <1>1, <2>2, <2>3, <2>4, <2>5 DEF Through, Beneath
  <1>6. /\ e.folder /\ k > 0 /\ Open(d, q) => A = Under(d, "records", w)[k - 1][q]
        /\ e.folder /\ k > 0 /\ ~Open(d, q) => A = {}
        /\ e.folder /\ k = 0 => A = {}
        /\ ~e.folder => A = IF e.kind \in w.kinds THEN {r} ELSE {}
    BY FromEntry
  <1> HIDE DEF A, r, q
  <1>7. CASE e.folder /\ k > 0 /\ Open(d, q)
    BY <1>4, <1>5, <1>6, <1>7 DEF A
  <1>8. CASE ~e.folder
    BY <1>2, <1>6, <1>8 DEF A
  <1>9. CASE e.folder /\ ~(k > 0 /\ Open(d, q))
    <2>1. A = {}
      BY <1>3, <1>6, <1>9
    <2>2. QED
      BY <2>1 DEF A
  <1>10. QED
    BY <1>7, <1>8, <1>9

LEMMA UnderIsBeneath ==
  ASSUME NEW d, TypedDisk(d), NEW w \in WalkT
  PROVE  \A k \in 0 .. w.maxDepth : \A p \in Paths : \A x \in Under(d, "records", w)[k][p] : Beneath(x, w, p)
  <1> DEFINE n == w.maxDepth
             B(k) == \A p \in Paths : \A x \in Under(d, "records", w)[k][p] : Beneath(x, w, p)
             S == {k \in 0 .. n : B(k)}
  <1>1. n \in Nat
    BY DEF WalkT
  <1>2. ASSUME NEW k \in 0 .. n, k > 0 => B(k - 1) PROVE B(k)
    <2>1. SUFFICES ASSUME NEW p \in Paths, NEW x \in Under(d, "records", w)[k][p] PROVE Beneath(x, w, p)
      OBVIOUS
    <2>2. PICK e \in Elements(ListingOn(d, p)) : Open(d, p) /\ x \in From(d, "records", w, p, k, e)
      BY <2>1, UnderUnfolds
    <2>3. e \in Entry
      BY <2>2, ListingTyped DEF Elements
    <2>4. \A y \in From(d, "records", w, p, k, e) : Through(y, w, p, e)
      BY <1>2, <2>3, FromDeeper
    <2>5. QED
      BY <2>2, <2>4 DEF Through
  <1> HIDE DEF B
  <1>3. 0 \in S
    BY <1>1, <1>2
  <1>4. ASSUME NEW k \in 1 .. n, k - 1 \in S PROVE k \in S
    <2>1. k \in 0 .. n /\ B(k - 1)
      BY <1>1, <1>4
    <2>2. QED
      BY <1>2, <2>1
  <1>5. 0 .. n \subseteq S
    <2> HIDE DEF S, n
    <2>1. QED
      BY <1>1, <1>3, <1>4, RangeInduction
  <1>6. \A k \in 0 .. n : B(k)
    BY <1>5
  <1>7. QED
    BY <1>6 DEF B

LEMMA FromIsThrough ==
  ASSUME NEW d, TypedDisk(d), NEW w \in WalkT, NEW k \in 0 .. w.maxDepth, NEW p \in Paths, NEW e \in Entry
  PROVE  \A x \in From(d, "records", w, p, k, e) : Through(x, w, p, e)
  <1>1. k > 0 => k - 1 \in 0 .. w.maxDepth
    BY DEF WalkT
  <1>2. k > 0 => \A q \in Paths : \A x \in Under(d, "records", w)[k - 1][q] : Beneath(x, w, q)
    BY <1>1, UnderIsBeneath
  <1>3. QED
    BY <1>2, FromDeeper

LEMMA AllHasItsKey ==
  ASSUME NEW d, TypedDisk(d), NEW w \in WalkT
  PROVE  \A x \in All(d, "records", w) : x \in ReportT /\ Key(x) = Key(w)
  <1>1. w.root \in Paths /\ w.maxDepth \in 0 .. w.maxDepth
    BY DEF WalkT
  <1>2. QED
    BY <1>1, UnderIsBeneath DEF All, Beneath

(* A root that cannot be listed gives nothing, and is not warned of.       *)
LEMMA AllOfClosed ==
  ASSUME NEW d, TypedDisk(d), NEW what, NEW w \in WalkT, ~Open(d, w.root)
  PROVE  All(d, what, w) = {}
  <1>1. w.root \in Paths /\ w.maxDepth \in 0 .. w.maxDepth
    BY DEF WalkT
  <1>2. \A x : x \notin Under(d, what, w)[w.maxDepth][w.root]
    BY <1>1, UnderUnfolds
  <1>3. QED
    BY <1>2 DEF All

(* Where names differ, what one entry gives no other entry of the folder does. *)
LEMMA RestApart ==
  ASSUME NEW d, TypedDisk(d), NEW w \in WalkT, NEW f \in FrameT, f.entries # <<>>,
         f.depth <= w.maxDepth, NamesDiffer(f.entries)
  PROVE  /\ NamesDiffer(Tail(f.entries))
         /\ From(d, "records", w, f.path, w.maxDepth - f.depth, Head(f.entries))
            \intersect Rest(d, "records", w, Left(f)) = {}
  <1> DEFINE s == f.entries
             t == Tail(s)
             g == Left(f)
             k == w.maxDepth - f.depth
             p == f.path
             G(e) == From(d, "records", w, p, k, e)
  <1>1. s \in Seq(Entry) /\ s # <<>> /\ p \in Paths /\ k \in 0 .. w.maxDepth
    BY DEF FrameT, WalkT
  <1>2. /\ Head(s) \in Entry /\ t \in Seq(Entry) /\ Head(s) = s[1] /\ Len(t) = Len(s) - 1
        /\ \A i \in 1 .. Len(s) - 1 : t[i] = s[i + 1]
    BY <1>1, ElementsOfTail
  <1>3. g.path = p /\ g.depth = f.depth /\ g.entries = t
    BY <1>2 DEF FrameT, Left
  <1>4. Rest(d, "records", w, g) = UNION {G(t[i]) : i \in 1 .. Len(t)}
    BY <1>3 DEF Rest
  <1>5. \A e \in Entry : \A x \in G(e) : Through(x, w, p, e)
    <2> HIDE DEF k, p
    <2>1. QED
      BY <1>1, FromIsThrough
  <1>6. Len(s) \in Nat /\ Len(s) > 0
    BY <1>1, TailFacts
  <1>7. \A i \in 1 .. Len(t) : i + 1 \in 1 .. Len(s) /\ 1 \in 1 .. Len(s) /\ i + 1 # 1 /\ t[i] = s[i + 1]
    BY <1>2, <1>6
  <1>8. NamesDiffer(s)
    OBVIOUS
  <1>9. \A i \in 1 .. Len(t) : t[i] \in Entry
    BY <1>2
  <1> HIDE DEF G, g, t, s, k, p
  <1>10. NamesDiffer(t)
    <2>1. SUFFICES ASSUME NEW i \in 1 .. Len(t), NEW j \in 1 .. Len(t), t[i].name = t[j].name PROVE i = j
      BY DEF NamesDiffer
    <2>2. s[i + 1].name = s[j + 1].name
      BY <1>7, <2>1
    <2>3. i + 1 = j + 1
      BY <1>7, <1>8, <2>2 DEF NamesDiffer
    <2>4. QED
      BY <2>3
  <1>11. ASSUME NEW x \in G(Head(s)), NEW i \in 1 .. Len(t), x \in G(t[i]) PROVE FALSE
    <2>1. Through(x, w, p, Head(s)) /\ Through(x, w, p, t[i])
      BY <1>2, <1>5, <1>9, <1>11
    <2>2. s[1].name = s[i + 1].name
      BY <1>2, <1>7, <2>1 DEF Through
    <2>3. QED
      BY <1>7, <1>8, <2>2 DEF NamesDiffer
  <1>12. G(Head(s)) \intersect Rest(d, "records", w, g) = {}
    BY <1>4, <1>11
  <1>13. QED
    BY <1>10, <1>12 DEF G, g, t, s, k, p

-----------------------------------------------------------------------------
(* The record made of a lookup, and of a file.                             *)

Found(d, path) ==
  LET list == ListingOn(d, Front(path))
  IN  list # Failure /\ \E i \in 1 .. Len(list) : list[i].name = Last(path)
Looked(d, l) == Record(l.artifact, l.profile, l.path, IF Found(d, l.path) THEN "Present" ELSE "Missing")

LEMMA LookedUpIsLooked == \A l : LookedUp(l) = Looked(disk, l)
  BY DEF LookedUp, Looked, FindEntry, Found, Listing

LEMMA LookedTyped ==
  ASSUME NEW d, NEW l \in LookupT
  PROVE  /\ Looked(d, l) \in ReportT /\ Key(Looked(d, l)) = Key(l)
         /\ Looked(d, l).artifact = l.artifact /\ l.artifact \in RuleNames
  <1> DEFINE present == IF Found(d, l.path) THEN "Present" ELSE "Missing"
  <1>1. present \in {"Present", "Missing"}
    OBVIOUS
  <1>2. Looked(d, l) = Record(l.artifact, l.profile, l.path, present)
    BY DEF Looked
  <1> HIDE DEF present
  <1>3. QED
    BY <1>1, <1>2 DEF LookupT, ReportT, Record, Key

LEMMA NoRecordApart == NoRecord \notin ReportT
  <1>1. SUFFICES ASSUME NoRecord \in ReportT PROVE FALSE
    OBVIOUS
  <1>2. NoRecord.artifact \in RuleNames \union WalkNames
    BY <1>1 DEF ReportT
  <1>3. NoRecord.artifact = "none"
    BY DEF NoRecord
  <1>4. QED
    BY <1>2, <1>3, RuleNamesApart

LEMMA NoNodeTyped == NoNode \in FrameT /\ NoNode.entries = <<>> /\ NoNode.depth = 0
  BY DEF NoNode, FrameT, Paths

LEMMA NoWalkNamed == NoWalk.artifact \notin WalkNames
  <1>1. NoWalk.artifact = "none"
    BY DEF NoWalk
  <1>2. QED
    BY <1>1, RuleNamesApart

LEMMA UsersIsAPath == <<"Users">> \in Paths
  BY DEF Paths, Names

-----------------------------------------------------------------------------
(* Stages: what the variables hold in each phase of a discovery.           *)

Made == Elements(out) \union (IF pending = NoRecord THEN {} ELSE {pending})

TodoTyped ==
  /\ pc = "rules" => todo \in Seq(LookupT)
  /\ pc = "walks" => todo \in Seq(WalkT)
  /\ pc \in {"profiles", "done"} => todo = <<>>
FramesTyped ==
  /\ stack \in Seq(FrameT) /\ node \in FrameT
  /\ pc # "walks" => stack = <<>> /\ node = NoNode
DepthsBounded ==
  /\ node.entries # <<>> => walk \in WalkT /\ node.depth <= walk.maxDepth
  /\ \A i \in 1 .. Len(stack) : walk \in WalkT /\ stack[i].depth <= walk.maxDepth
ReportsTyped ==
  /\ pending \in ReportT \union {NoRecord} /\ out \in Seq(ReportT) /\ warnings \in Seq(Paths)
  /\ pc = "profiles" => out = <<>> /\ warnings = <<>>
  /\ pc \in {"profiles", "done"} => pending = NoRecord
  /\ pc = "rules" => \A r \in Made : r.artifact \in RuleNames
Stages ==
  /\ TypedDisk(disk) /\ cancelled \in BOOLEAN
  /\ pc \in {"profiles", "rules", "walks", "done"}
  /\ profiles \in Seq(STRING)
  /\ walk \in WalkT \union {NoWalk} /\ (pc \in {"profiles", "rules"} => walk = NoWalk)
  /\ TodoTyped /\ FramesTyped /\ DepthsBounded /\ ReportsTyped

LEMMA MadeByAppend ==
  ASSUME Stages, AppendRecord
  PROVE  /\ pending \in ReportT /\ out' \in Seq(ReportT)
         /\ Elements(out') = Elements(out) \union {pending} /\ Made' = Made
  <1>1. pending # NoRecord /\ out' = Append(out, pending) /\ pending' = NoRecord
    BY DEF AppendRecord
  <1>2. pending \in ReportT /\ out \in Seq(ReportT)
    BY <1>1 DEF Stages, ReportsTyped
  <1>3. out' \in Seq(ReportT) /\ Elements(out') = Elements(out) \union {pending}
    BY <1>1, <1>2, ElementsOfAppend
  <1>4. Made = Elements(out) \union {pending}
    BY <1>1 DEF Made
  <1>5. Made' = Elements(out')
    BY <1>1 DEF Made
  <1>6. QED
    BY <1>2, <1>3, <1>4, <1>5

LEMMA MadeByRecord ==
  ASSUME NEW r \in ReportT, pending = NoRecord, pending' = r, out' = out
  PROVE  Made' = Made \union {r} /\ pending' # NoRecord
  <1>1. r # NoRecord
    BY NoRecordApart
  <1>2. Made = Elements(out)
    BY DEF Made
  <1>3. Made' = Elements(out) \union {r}
    BY <1>1 DEF Made
  <1>4. QED
    BY <1>1, <1>2, <1>3

LEMMA StagesFindProfiles ==
  ASSUME Stages, FindProfiles
  PROVE  Stages' /\ profiles' \in Seq(STRING) /\ (SetsNames(disk) => Distinct(profiles')) /\ Made' = {}
         /\ (~cancelled => Elements(warnings') = IF Open(disk, <<"Users">>) THEN {} ELSE {<<"Users">>})
  <1> DEFINE users == Listing(<<"Users">>)
  <1>1. /\ pc = "profiles" /\ pc' = "rules" /\ todo' = Lookups(profiles')
        /\ profiles' = IF cancelled \/ users = Failure THEN <<>> ELSE EnumerateProfiles(users)
        /\ warnings' = IF ~cancelled /\ users = Failure THEN <<<<"Users">>>> ELSE warnings
        /\ UNCHANGED <<disk, cancelled, walk, stack, node, pending, out>>
    BY DEF FindProfiles
  <1>2. users = ListingOn(disk, <<"Users">>) /\ (users = Failure <=> ~Open(disk, <<"Users">>))
    BY DEF Listing, Open
  <1>3. TypedDisk(disk) /\ cancelled \in BOOLEAN /\ warnings = <<>> /\ out = <<>> /\ pending = NoRecord
    BY <1>1 DEF Stages, ReportsTyped
  <1>4. users # Failure => users \in Seq(Entry) /\ (SetsNames(disk) => NamesDiffer(users))
    BY <1>2, <1>3, ListingTyped
  <1>5. users # Failure => /\ EnumerateProfiles(users) \in Seq(STRING)
                           /\ SetsNames(disk) => Distinct(EnumerateProfiles(users))
    BY <1>4, ProfilesDiffer
  <1>6. <<>> \in Seq(STRING) /\ Distinct(<<>>)
    BY DEF Distinct
  <1> HIDE DEF users
  <1>7. profiles' \in Seq(STRING) /\ (SetsNames(disk) => Distinct(profiles'))
    BY <1>1, <1>5, <1>6
  <1>8. <<<<"Users">>>> \in Seq(Paths) /\ Elements(<<<<"Users">>>>) = {<<"Users">>} /\ Elements(<<>>) = {}
    <2> DEFINE u == <<"Users">>
    <2>1. u \in Paths
      BY UsersIsAPath
    <2> HIDE DEF u
    <2>2. <<u>> \in Seq(Paths) /\ Elements(<<u>>) = {u} /\ Elements(<<>>) = {}
      BY <2>1 DEF Elements
    <2>3. QED
      BY <2>2 DEF u
  <1>9. /\ warnings' \in Seq(Paths)
        /\ ~cancelled => Elements(warnings') = IF Open(disk, <<"Users">>) THEN {} ELSE {<<"Users">>}
    <2>1. <<>> \in Seq(Paths)
      OBVIOUS
    <2>2. QED
      BY <1>1, <1>2, <1>3, <1>8, <2>1
  <1>10. todo' \in Seq(LookupT)
    BY <1>1, <1>7, LookupsTyped
  <1>11. Made' = {}
    <2>1. out' = <<>> /\ pending' = NoRecord
      BY <1>1, <1>3
    <2>2. QED
      BY <2>1 DEF Made, Elements
  <1>12. ReportsTyped'
    BY <1>1, <1>3, <1>9, <1>11 DEF ReportsTyped, Stages
  <1>13. TodoTyped'
    BY <1>1, <1>10 DEF TodoTyped
  <1>14. FramesTyped' /\ DepthsBounded'
    BY <1>1 DEF Stages, FramesTyped, DepthsBounded
  <1>15. (TypedDisk(disk) /\ cancelled \in BOOLEAN)' /\ walk' = NoWalk
    BY <1>1 DEF Stages
  <1>16. QED
    BY <1>1, <1>7, <1>9, <1>11, <1>12, <1>13, <1>14, <1>15 DEF Stages

LEMMA StagesLookUp ==
  ASSUME Stages, LookUp
  PROVE  /\ Stages' /\ Head(todo) \in LookupT /\ pending' = Looked(disk, Head(todo))
         /\ Elements(todo) = {Head(todo)} \union Elements(todo')
         /\ Made' = Made \union {Looked(disk, Head(todo))}
  <1> DEFINE l == Head(todo)
  <1>1. /\ pc = "rules" /\ pending = NoRecord /\ todo # <<>> /\ ~cancelled
        /\ pending' = LookedUp(l) /\ todo' = Tail(todo)
        /\ UNCHANGED <<disk, cancelled, pc, profiles, walk, stack, node, out, warnings>>
    BY DEF LookUp
  <1>2. todo \in Seq(LookupT)
    BY <1>1 DEF Stages, TodoTyped
  <1>3. l \in LookupT /\ todo' \in Seq(LookupT) /\ Elements(todo) = {l} \union Elements(todo')
    BY <1>1, <1>2, ElementsOfTail
  <1>4. pending' = Looked(disk, l)
    BY <1>1, LookedUpIsLooked
  <1> HIDE DEF l
  <1>5. Looked(disk, l) \in ReportT /\ Looked(disk, l).artifact \in RuleNames
    BY <1>3, LookedTyped
  <1>6. Made' = Made \union {Looked(disk, l)}
    BY <1>1, <1>4, <1>5, MadeByRecord
  <1>7. TodoTyped'
    BY <1>1, <1>3 DEF TodoTyped
  <1>8. ReportsTyped'
    <2>1. \A r \in Made : r.artifact \in RuleNames
      BY <1>1 DEF Stages, ReportsTyped
    <2>2. out \in Seq(ReportT) /\ warnings \in Seq(Paths)
      BY DEF Stages, ReportsTyped
    <2>3. QED
      BY <1>1, <1>4, <1>5, <1>6, <2>1, <2>2 DEF ReportsTyped
  <1>9. FramesTyped' /\ DepthsBounded'
    BY <1>1 DEF Stages, FramesTyped, DepthsBounded
  <1>10. Stages'
    BY <1>1, <1>7, <1>8, <1>9 DEF Stages
  <1>11. QED
    BY <1>3, <1>4, <1>6, <1>10 DEF l

LEMMA StagesAppendRecord ==
  ASSUME Stages, AppendRecord
  PROVE  Stages'
  <1>1. /\ pending # NoRecord /\ pending' = NoRecord
        /\ UNCHANGED <<disk, cancelled, pc, profiles, todo, walk, stack, node, warnings>>
    BY DEF AppendRecord
  <1>2. out' \in Seq(ReportT) /\ Made' = Made
    BY MadeByAppend
  <1>3. ReportsTyped'
    BY <1>1, <1>2 DEF Stages, ReportsTyped
  <1>4. TodoTyped' /\ FramesTyped' /\ DepthsBounded'
    BY <1>1 DEF Stages, TodoTyped, FramesTyped, DepthsBounded
  <1>5. QED
    BY <1>1, <1>3, <1>4 DEF Stages

LEMMA StagesRulesDone ==
  ASSUME Stages, RulesDone
  PROVE  Stages'
  <1>1. /\ pc = "rules" /\ pending = NoRecord /\ pc' = "walks" /\ todo' = Walks(profiles)
        /\ UNCHANGED <<disk, cancelled, profiles, walk, stack, node, pending, out, warnings>>
    BY DEF RulesDone
  <1>2. todo' \in Seq(WalkT)
    BY <1>1, WalksTyped DEF Stages
  <1>3. TodoTyped' /\ ReportsTyped'
    BY <1>1, <1>2 DEF Stages, TodoTyped, ReportsTyped
  <1>4. FramesTyped' /\ DepthsBounded'
    BY <1>1 DEF Stages, FramesTyped, DepthsBounded
  <1>5. QED
    BY <1>1, <1>3, <1>4 DEF Stages

-----------------------------------------------------------------------------
(* What the walk under way is still to find: in the folder being visited   *)
(* (layer 0) and in each folder on the stack.                              *)

Reports == {"records", "warnings"}
Layer(what, i) == IF i = 0 THEN Rest(disk, what, walk, node) ELSE Rest(disk, what, walk, stack[i])
Ahead(what) == UNION {Layer(what, i) : i \in 0 .. Len(stack)}
NamesApart == NamesDiffer(node.entries) /\ \A i \in 1 .. Len(stack) : NamesDiffer(stack[i].entries)

LEMMA IdleHasNothingAhead ==
  ASSUME node.entries = <<>>, stack = <<>>
  PROVE  \A what : Layer(what, 0) = {} /\ Ahead(what) = {}
  <1>1. \A what : Layer(what, 0) = {}
    BY RestOfNone DEF Layer
  <1>2. 0 .. Len(stack) = {0}
    <2>1. Len(stack) = 0
      BY EmptyFacts
    <2>2. QED
      BY <2>1
  <1> HIDE DEF Layer
  <1>3. QED
    BY <1>1, <1>2 DEF Ahead

LEMMA StagesBeginWalk ==
  ASSUME Stages, BeginWalk
  PROVE  /\ Stages' /\ walk' = Head(todo) /\ walk' \in WalkT
         /\ Elements(todo) = {walk'} \union Elements(todo')
         /\ Len(stack') \in {0, 1} /\ node.entries = <<>> /\ stack = <<>>
         /\ SetsNames(disk) => NamesApart'
         /\ \A what : /\ Layer(what, 0)' = {} /\ Ahead(what)' = All(disk, what, walk')
                      /\ Len(stack') = 1 => Layer(what, 1)' = All(disk, what, walk')
  <1> DEFINE w == Head(todo)
             list == ListingOn(disk, w.root)
             f == [path |-> w.root, depth |-> 0, entries |-> list]
  <1>1. /\ pc = "walks" /\ node.entries = <<>> /\ stack = <<>> /\ pending = NoRecord /\ todo # <<>>
        /\ walk' = w /\ todo' = Tail(todo)
        /\ stack' = IF list = Failure THEN <<>> ELSE <<f>>
        /\ UNCHANGED <<disk, cancelled, pc, profiles, node, pending, out, warnings>>
    BY DEF BeginWalk, Idle, Listing
  <1>2. todo \in Seq(WalkT) /\ TypedDisk(disk) /\ node \in FrameT
    BY <1>1 DEF Stages, TodoTyped, FramesTyped
  <1>3. w \in WalkT /\ todo' \in Seq(WalkT) /\ Elements(todo) = {w} \union Elements(todo')
    BY <1>1, <1>2, ElementsOfTail
  <1> HIDE DEF w
  <1>4. /\ w.root \in Paths /\ w.maxDepth \in Nat /\ (list = Failure <=> ~Open(disk, w.root))
        /\ \A what : All(disk, what, w) = Under(disk, what, w)[w.maxDepth - 0][w.root]
    <2>1. w.root \in Paths /\ w.maxDepth \in Nat
      BY <1>3 DEF WalkT
    <2>2. w.maxDepth - 0 = w.maxDepth
      BY <2>1
    <2>3. QED
      BY <2>1, <2>2 DEF Open, All
  <1>5. CASE Open(disk, w.root)
    <2>1. list \in Seq(Entry) /\ (SetsNames(disk) => NamesDiffer(list))
      BY <1>2, <1>5, ListingTyped
    <2>2. f \in FrameT /\ f.depth = 0 /\ f.entries = list
      BY <1>4, <2>1 DEF FrameT
    <2>3. \A what : Rest(disk, what, w, f) = All(disk, what, w)
      <3>1. 0 \in 0 .. w.maxDepth
        BY <1>4
      <3>2. \A what : Rest(disk, what, w, f) = Under(disk, what, w)[w.maxDepth - 0][w.root]
        BY <1>2, <1>3, <1>4, <1>5, <3>1, RestOfListing
      <3>3. QED
        BY <1>4, <3>2
    <2> HIDE DEF f
    <2>4. stack' = <<f>>
      BY <1>1, <1>4, <1>5
    <2>5. stack' \in Seq(FrameT) /\ Len(stack') = 1 /\ stack'[1] = f /\ \A i \in 1 .. 1 : i = 1
      BY <2>2, <2>4
    <2> DEFINE L(what, i) == Layer(what, i)'
    <2>6. \A what : L(what, 0) = {} /\ L(what, 1) = All(disk, what, w)
      <3>1. node'.entries = <<>> /\ disk' = disk
        BY <1>1
      <3>2. \A what : L(what, 0) = Rest(disk, what, w, node)
        BY <1>1 DEF Layer
      <3>3. \A what : L(what, 1) = Rest(disk, what, w, f)
        BY <1>1, <2>5 DEF Layer
      <3>4. \A what : Rest(disk, what, w, node) = {}
        BY <1>1, RestOfNone
      <3> HIDE DEF L
      <3>5. QED
        BY <2>3, <3>2, <3>3, <3>4
    <2>7. \A what : Ahead(what)' = All(disk, what, w)
      <3>1. 0 .. Len(stack') = {0, 1}
        BY <2>5
      <3>2. \A what : Ahead(what)' = UNION {L(what, i) : i \in 0 .. Len(stack')}
        BY DEF Ahead
      <3> HIDE DEF L
      <3>3. \A what : UNION {L(what, i) : i \in {0, 1}} = L(what, 0) \union L(what, 1)
        OBVIOUS
      <3>4. QED
        BY <2>6, <3>1, <3>2, <3>3
    <2>8. FramesTyped'
      BY <1>1, <1>2, <2>5 DEF FramesTyped
    <2>9. DepthsBounded'
      BY <1>1, <1>3, <1>4, <2>2, <2>5 DEF DepthsBounded
    <2>10. TodoTyped' /\ ReportsTyped'
      <3>1. TodoTyped'
        BY <1>1, <1>3 DEF TodoTyped
      <3>2. ReportsTyped'
        BY <1>1 DEF ReportsTyped, Stages
      <3>3. QED
        BY <3>1, <3>2
    <2>11. SetsNames(disk) => NamesApart'
      <3>1. NamesDiffer(<<>>)
        BY DEF NamesDiffer
      <3>2. QED
        BY <1>1, <2>1, <2>2, <2>5, <3>1 DEF NamesApart
    <2>12. Stages'
      BY <1>1, <1>3, <2>8, <2>9, <2>10 DEF Stages
    <2>13. QED
      BY <1>1, <1>3, <2>5, <2>6, <2>7, <2>11, <2>12 DEF w
  <1>6. CASE ~Open(disk, w.root)
    <2>1. stack' = <<>> /\ Len(stack') = 0 /\ node'.entries = <<>>
      BY <1>1, <1>4, <1>6, EmptyFacts
    <2>2. \A what : All(disk, what, w) = {}
      BY <1>2, <1>3, <1>6, AllOfClosed
    <2>3. \A what : Layer(what, 0)' = {} /\ Ahead(what)' = {}
      <3> DEFINE L(what) == Layer(what, 0)'
      <3>1. \A what : L(what) = Rest(disk, what, w, node)
        BY <1>1 DEF Layer
      <3>2. \A what : Rest(disk, what, w, node) = {}
        BY <1>1, RestOfNone
      <3>3. 0 .. Len(stack') = {0}
        BY <2>1
      <3>4. \A what : Ahead(what)' = L(what)
        <4>1. \A what : Ahead(what)' = UNION {Layer(what, i)' : i \in {0}}
          BY <3>3 DEF Ahead
        <4>2. QED
          BY <4>1
      <3> HIDE DEF L
      <3>5. \A what : L(what) = {} /\ Ahead(what)' = {}
        BY <3>1, <3>2, <3>4
      <3>6. QED
        BY <3>5 DEF L
    <2>4. FramesTyped' /\ DepthsBounded' /\ NamesApart'
      <3>1. 1 .. Len(stack') = {} /\ stack' \in Seq(FrameT)
        BY <2>1
      <3>2. NamesDiffer(<<>>)
        BY DEF NamesDiffer
      <3>3. QED
        BY <1>1, <1>2, <2>1, <3>1, <3>2 DEF FramesTyped, DepthsBounded, NamesApart
    <2>5. TodoTyped' /\ ReportsTyped'
      <3>1. TodoTyped'
        BY <1>1, <1>3 DEF TodoTyped
      <3>2. ReportsTyped'
        BY <1>1 DEF ReportsTyped, Stages
      <3>3. QED
        BY <3>1, <3>2
    <2>6. Stages'
      BY <1>1, <1>3, <2>4, <2>5 DEF Stages
    <2>7. \A what : /\ Layer(what, 0)' = {} /\ Ahead(what)' = All(disk, what, walk')
                    /\ Len(stack') = 1 => Layer(what, 1)' = All(disk, what, walk')
      <3>1. walk' = w /\ Len(stack') # 1
        BY <1>1, <2>1
      <3> HIDE DEF f, list
      <3>2. QED
        BY <2>2, <2>3, <3>1
    <2> HIDE DEF f, list
    <2>8. Len(stack') \in {0, 1} /\ walk' = Head(todo) /\ walk' \in WalkT
      BY <1>1, <1>3, <2>1 DEF w
    <2>9. QED
      BY <1>1, <1>3, <2>4, <2>6, <2>7, <2>8
  <1>7. QED
    BY <1>5, <1>6

LEMMA LastAndFront ==
  ASSUME NEW X, NEW s \in Seq(X), s # <<>>
  PROVE  /\ Len(s) > 0 /\ Last(s) = s[Len(s)] /\ Last(s) \in X
         /\ Front(s) \in Seq(X) /\ Len(Front(s)) = Len(s) - 1
         /\ \A i \in 1 .. Len(s) - 1 : Front(s)[i] = s[i]
  <1>1. Len(s) > 0 /\ Len(s) \in Nat
    BY TailFacts
  <1>2. s[Len(s)] \in X
    BY <1>1
  <1>3. SubSeq(s, 1, Len(s) - 1) \in Seq(X) /\ Len(SubSeq(s, 1, Len(s) - 1)) = Len(s) - 1
        /\ \A i \in 1 .. Len(s) - 1 : SubSeq(s, 1, Len(s) - 1)[i] = s[i]
    <2>1. Len(s) - 1 \in 0 .. Len(s)
      BY <1>1
    <2>2. QED
      BY <2>1, SubSeqFacts
  <1>4. QED
    BY <1>1, <1>2, <1>3 DEF Last, Front

LEMMA StagesPopFolder ==
  ASSUME Stages, PopFolder
  PROVE  /\ Stages' /\ Len(stack) > 0 /\ Len(stack') = Len(stack) - 1
         /\ NamesApart => NamesApart'
         /\ \A what : /\ Layer(what, 0) = {} /\ Layer(what, 0)' = Layer(what, Len(stack))
                      /\ \A i \in 1 .. Len(stack') : Layer(what, i)' = Layer(what, i)
  <1> DEFINE n == Len(stack)
  <1>1. /\ node.entries = <<>> /\ stack # <<>> /\ node' = Last(stack) /\ stack' = Front(stack)
        /\ UNCHANGED <<disk, cancelled, pc, profiles, todo, walk, pending, out, warnings>>
    BY DEF PopFolder
  <1>2. stack \in Seq(FrameT)
    BY DEF Stages, FramesTyped
  <1>3. /\ n > 0 /\ node' = stack[n] /\ node' \in FrameT
        /\ stack' \in Seq(FrameT) /\ Len(stack') = n - 1
        /\ \A i \in 1 .. n - 1 : stack'[i] = stack[i]
    BY <1>1, <1>2, LastAndFront
  <1>4. n \in Nat /\ n \in 1 .. n /\ \A i \in 1 .. n - 1 : i \in 1 .. n /\ i # 0
    BY <1>2, <1>3
  <1> HIDE DEF n
  <1>5. FramesTyped'
    BY <1>1, <1>3, EmptyFacts DEF FramesTyped, Stages
  <1>6. DepthsBounded'
    <2>1. \A i \in 1 .. n : walk \in WalkT /\ stack[i].depth <= walk.maxDepth
      BY DEF Stages, DepthsBounded, n
    <2>2. QED
      BY <1>1, <1>3, <1>4, <2>1 DEF DepthsBounded
  <1>7. TodoTyped' /\ ReportsTyped'
    <2>1. TodoTyped'
      BY <1>1 DEF TodoTyped, Stages
    <2>2. ReportsTyped'
      BY <1>1 DEF ReportsTyped, Stages, Made
    <2>3. QED
      BY <2>1, <2>2
  <1>8. Stages'
    BY <1>1, <1>5, <1>6, <1>7 DEF Stages
  <1>9. NamesApart => NamesApart'
    <2>1. NamesApart => \A i \in 1 .. n : NamesDiffer(stack[i].entries)
      BY DEF NamesApart, n
    <2>2. QED
      BY <1>3, <1>4, <2>1 DEF NamesApart
  <1>10. \A what : Layer(what, 0) = {}
    BY <1>1, RestOfNone DEF Layer
  <1>11. \A what : /\ Layer(what, 0)' = Layer(what, n)
                   /\ \A i \in 1 .. n - 1 : Layer(what, i)' = Layer(what, i)
    BY <1>1, <1>3, <1>4 DEF Layer
  <1>12. QED
    BY <1>3, <1>8, <1>9, <1>10, <1>11 DEF n

(* What a visit makes of an entry, by what it is. *)
Given(what) == From(disk, what, walk, node.path, walk.maxDepth - node.depth, Head(node.entries))

LEMMA GivenAndLeft ==
  ASSUME node \in FrameT, node.entries # <<>>, NEW what
  PROVE  Rest(disk, what, walk, node) = Given(what) \union Rest(disk, what, walk, Left(node))
  BY RestByEntry DEF Given

LEMMA StagesVisitEntry ==
  ASSUME Stages, VisitEntry
  PROVE  /\ Stages' /\ walk \in WalkT /\ pc = "walks" /\ pending = NoRecord
         /\ SetsNames(disk) /\ NamesApart => NamesApart'
         /\ \A what \in Reports : Layer(what, 0) = Given(what) \union Layer(what, 0)'
         /\ \A what \in Reports : \A i \in 1 .. Len(stack) : Layer(what, i)' = Layer(what, i)
         /\ \/ /\ Len(stack') = Len(stack) + 1 /\ Made' = Made /\ warnings' = warnings
               /\ pending' = NoRecord
               /\ \A what \in Reports : \A top : top = Len(stack') => Layer(what, top)' = Given(what)
            \/ /\ Len(stack') = Len(stack) /\ Made' = Made \union Given("records")
               /\ Elements(warnings') = Elements(warnings) \union Given("warnings")
               /\ pending' = NoRecord \/ pending' \in Given("records")
  <1> DEFINE e == Head(node.entries)
             q == Append(node.path, e.name)
             k == walk.maxDepth - node.depth
             list == IF Descends(e) THEN ListingOn(disk, q) ELSE Failure
             f == [path |-> q, depth |-> node.depth + 1, entries |-> list]
             r == Record(walk.artifact, walk.profile, q, "Present")
             n == Len(stack)
             rest == Left(node)
  <1>1. /\ node.entries # <<>> /\ pending = NoRecord /\ node' = rest
        /\ warnings' = IF Descends(e) /\ list = Failure THEN Append(warnings, q) ELSE warnings
        /\ stack' = IF list = Failure THEN stack ELSE Append(stack, f)
        /\ pending' = IF ~e.folder /\ e.kind \in walk.kinds THEN r ELSE NoRecord
        /\ UNCHANGED <<disk, cancelled, pc, profiles, todo, walk, out>>
    BY DEF VisitEntry, Listing, Warned, Left
  <1>2. /\ TypedDisk(disk) /\ stack \in Seq(FrameT) /\ node \in FrameT
        /\ walk \in WalkT /\ node.depth <= walk.maxDepth
        /\ warnings \in Seq(Paths) /\ out \in Seq(ReportT)
    BY <1>1 DEF Stages, FramesTyped, DepthsBounded, ReportsTyped
  <1>3. pc = "walks"
    <2>1. pc # "walks" => node.entries = <<>>
      BY NoNodeTyped DEF Stages, FramesTyped
    <2>2. QED
      BY <1>1, <2>1
  <1>4. /\ node.path \in Paths /\ node.depth \in Nat /\ node.entries \in Seq(Entry)
        /\ walk.maxDepth \in Nat /\ k \in 0 .. walk.maxDepth
        /\ (node.depth < walk.maxDepth <=> k > 0)
    BY <1>2 DEF FrameT, WalkT
  <1>5. /\ rest \in FrameT /\ rest.path = node.path /\ rest.depth = node.depth
        /\ rest.entries = Tail(node.entries) /\ e \in Entry
        /\ \A what : Rest(disk, what, walk, node) = Given(what) \union Rest(disk, what, walk, rest)
    <2>1. rest \in FrameT /\ e \in Entry
      <3>1. node \in FrameT /\ node.entries # <<>>
        BY <1>1, <1>2
      <3>2. QED
        BY <3>1, RestByEntry
    <2>2. rest.path = node.path /\ rest.depth = node.depth /\ rest.entries = Tail(node.entries)
      BY <1>2 DEF FrameT, Left
    <2>3. \A what : Rest(disk, what, walk, node) = Given(what) \union Rest(disk, what, walk, rest)
      BY <1>1, <1>2, GivenAndLeft
    <2> HIDE DEF rest, e
    <2>4. QED
      BY <2>1, <2>2, <2>3
  <1>6. q \in Paths /\ e.folder \in BOOLEAN /\ (Descends(e) <=> e.folder /\ k > 0)
    BY <1>4, <1>5, BelowPath, EntryFields DEF Descends
  <1>7. \A what \in Reports :
          /\ e.folder /\ k > 0 /\ Open(disk, q) => Given(what) = Under(disk, what, walk)[k - 1][q]
          /\ e.folder /\ k > 0 /\ ~Open(disk, q) => Given(what) = IF what = "records" THEN {} ELSE {q}
          /\ e.folder /\ k = 0 => Given(what) = {}
          /\ ~e.folder => Given(what) = IF what = "records" /\ e.kind \in walk.kinds THEN {r} ELSE {}
    <2>1. \A what : Given(what) = From(disk, what, walk, node.path, k, e)
      BY DEF Given
    <2>2. node.path \in Paths /\ k \in 0 .. walk.maxDepth /\ e \in Entry /\ TypedDisk(disk) /\ walk \in WalkT
      BY <1>2, <1>4, <1>5
    <2> HIDE DEF k, e, rest, f, list, n
    <2>3. ASSUME NEW what \in Reports
          PROVE  /\ e.folder /\ k > 0 /\ Open(disk, q) => Given(what) = Under(disk, what, walk)[k - 1][q]
                 /\ e.folder /\ k > 0 /\ ~Open(disk, q) => Given(what) = IF what = "records" THEN {} ELSE {q}
                 /\ e.folder /\ k = 0 => Given(what) = {}
                 /\ ~e.folder => Given(what) = IF what = "records" /\ e.kind \in walk.kinds THEN {r} ELSE {}
      <3>1. what \in {"records", "warnings"}
        BY DEF Reports
      <3>2. QED
        BY <2>1, <2>2, <3>1, FromEntry
    <2>4. QED
      BY <2>3
  <1>8. n \in Nat /\ \A i \in 1 .. n : i # 0 /\ i \in 1 .. n + 1
    BY <1>2
  <1>9. NamesApart => NamesDiffer(rest.entries)
    <2>1. NamesApart => NamesDiffer(node.entries)
      BY DEF NamesApart
    <2>2. NamesDiffer(node.entries) => NamesDiffer(Tail(node.entries))
      BY <1>1, <1>2, RestApart
    <2>3. QED
      BY <1>5, <2>1, <2>2
  <1>10. \A what : Layer(what, 0)' = Rest(disk, what, walk, rest)
    BY <1>1 DEF Layer
  <1>11. \A what : Layer(what, 0) = Rest(disk, what, walk, node)
    BY DEF Layer
  <1>12. r \in ReportT
    BY <1>2, <1>6 DEF ReportT, Record, WalkT
  <1> HIDE DEF k, r, rest, n
  <1>13. \A what \in Reports : Layer(what, 0) = Given(what) \union Layer(what, 0)'
    <2> DEFINE L(what) == Layer(what, 0)'
    <2> HIDE DEF f, list, q, e
    <2>1. \A what : L(what) = Rest(disk, what, walk, rest)
      BY <1>10
    <2> HIDE DEF L
    <2>2. \A what \in Reports : Layer(what, 0) = Given(what) \union L(what)
      BY <1>5, <1>11, <2>1
    <2>3. QED
      BY <2>2 DEF L
  <1>14. TodoTyped'
    BY <1>1 DEF TodoTyped, Stages
  <1>15. CASE Descends(e) /\ Open(disk, q)
    <2>1. list = ListingOn(disk, q) /\ list # Failure /\ e.folder /\ k > 0
      BY <1>6, <1>15 DEF Open
    <2>2. list \in Seq(Entry) /\ (SetsNames(disk) => NamesDiffer(list))
      BY <1>2, <1>15, <2>1, ListingTyped
    <2>3. f \in FrameT /\ f.depth = node.depth + 1 /\ f.entries = list
      BY <1>4, <1>6, <2>2 DEF FrameT
    <2>4. \A what \in Reports : Rest(disk, what, walk, f) = Given(what)
      <3>1. node.depth + 1 \in 0 .. walk.maxDepth /\ walk.maxDepth - (node.depth + 1) = k - 1
        BY <1>4, <2>1 DEF k
      <3>2. \A what : Rest(disk, what, walk, [path |-> q, depth |-> node.depth + 1, entries |-> ListingOn(disk, q)])
                        = Under(disk, what, walk)[walk.maxDepth - (node.depth + 1)][q]
        <4> HIDE DEF q, e, list
        <4>1. QED
          BY <1>2, <1>6, <1>15, <3>1, RestOfListing
      <3>3. f = [path |-> q, depth |-> node.depth + 1, entries |-> ListingOn(disk, q)]
        BY <2>1
      <3> HIDE DEF f, q, e, list
      <3>4. QED
        BY <1>7, <1>15, <2>1, <3>1, <3>2, <3>3
    <2>5. stack' = Append(stack, f) /\ warnings' = warnings /\ pending' = NoRecord
      BY <1>1, <2>1
    <2> HIDE DEF f, q, e, list
    <2>6. /\ stack' \in Seq(FrameT) /\ Len(stack') = n + 1 /\ stack'[n + 1] = f
          /\ \A i \in 1 .. n : stack'[i] = stack[i]
      BY <1>2, <2>3, <2>5, AppendFacts DEF n
    <2>7. \A i \in 1 .. Len(stack') : i \in 1 .. n \/ i = n + 1
      BY <1>8, <2>6
    <2>8. Made' = Made
      BY <1>1, <2>5 DEF Made
    <2>9. DepthsBounded'
      <3>1. \A i \in 1 .. n : walk \in WalkT /\ stack[i].depth <= walk.maxDepth
        BY DEF Stages, DepthsBounded, n
      <3>2. f.depth <= walk.maxDepth
        BY <1>4, <2>1, <2>3 DEF k
      <3>3. \A i \in 1 .. Len(stack') : stack'[i].depth <= walk.maxDepth
        BY <2>6, <2>7, <3>1, <3>2
      <3>4. QED
        BY <1>1, <1>2, <1>5, <3>3 DEF DepthsBounded
    <2>10. FramesTyped' /\ ReportsTyped'
      <3>1. FramesTyped'
        BY <1>1, <1>3, <1>5, <2>6 DEF FramesTyped
      <3>2. ReportsTyped'
        BY <1>1, <1>2, <1>3, <2>5 DEF ReportsTyped
      <3>3. QED
        BY <3>1, <3>2
    <2>11. Stages'
      BY <1>1, <1>14, <2>9, <2>10 DEF Stages
    <2>12. SetsNames(disk) /\ NamesApart => NamesApart'
      <3>1. NamesApart => \A i \in 1 .. n : NamesDiffer(stack[i].entries)
        BY DEF NamesApart, n
      <3>2. SetsNames(disk) => NamesDiffer(f.entries)
        BY <2>2, <2>3
      <3>3. QED
        BY <1>1, <1>9, <2>6, <2>7, <3>1, <3>2 DEF NamesApart
    <2>13. \A what \in Reports : /\ \A top : top = Len(stack') => Layer(what, top)' = Given(what)
                                 /\ \A i \in 1 .. n : Layer(what, i)' = Layer(what, i)
      <3>1. \A what : \A i \in 1 .. n : Layer(what, i)' = Layer(what, i)
        BY <1>1, <1>8, <2>6 DEF Layer
      <3>2. ASSUME NEW what \in Reports, NEW top, top = Len(stack') PROVE Layer(what, top)' = Given(what)
        <4>1. top # 0 /\ stack'[top] = f
          BY <1>8, <2>6, <3>2
        <4>2. Layer(what, top)' = Rest(disk, what, walk, f)
          BY <1>1, <4>1 DEF Layer
        <4> DEFINE L == Layer(what, top)'
        <4>3. L = Rest(disk, what, walk, f)
          BY <4>2
        <4> HIDE DEF L
        <4>4. L = Given(what)
          BY <2>4, <4>3
        <4>5. QED
          BY <4>4 DEF L
      <3>3. QED
        BY <3>1, <3>2
    <2>14. QED
      BY <1>1, <1>2, <1>3, <1>13, <2>5, <2>6, <2>8, <2>11, <2>12, <2>13 DEF n
  <1>16. CASE ~(Descends(e) /\ Open(disk, q))
    <2>1. list = Failure /\ stack' = stack
      BY <1>1, <1>16 DEF Open
    <2> HIDE DEF f, q, e, list
    <2>2. Made' = Made \union Given("records") /\ (pending' = NoRecord \/ pending' \in Given("records"))
          /\ pending' \in ReportT \union {NoRecord}
      <3>1. "records" \in Reports
        BY DEF Reports
      <3>2. CASE ~e.folder /\ e.kind \in walk.kinds
        <4>1. pending' = r /\ Given("records") = {r} /\ out' = out
          BY <1>1, <1>7, <3>1, <3>2
        <4>2. QED
          BY <1>1, <1>12, <4>1, MadeByRecord
      <3>3. CASE ~(~e.folder /\ e.kind \in walk.kinds)
        <4>1. pending' = NoRecord
          BY <1>1, <3>3
        <4>2. Made' = Made
          BY <1>1, <4>1 DEF Made
        <4>3. Given("records") = {}
          <5>1. CASE ~e.folder
            BY <1>7, <3>1, <3>3, <5>1
          <5>2. CASE e.folder /\ k = 0
            BY <1>7, <3>1, <5>2
          <5>3. CASE e.folder /\ k > 0
            BY <1>6, <1>7, <1>16, <3>1, <5>3
          <5>4. QED
            BY <1>4, <1>6, <5>1, <5>2, <5>3
        <4>4. QED
          BY <4>1, <4>2, <4>3
      <3>4. QED
        BY <3>2, <3>3
    <2>3. Elements(warnings') = Elements(warnings) \union Given("warnings") /\ warnings' \in Seq(Paths)
      <3>1. "warnings" \in Reports /\ "warnings" # "records"
        BY DEF Reports
      <3>2. CASE Descends(e)
        <4>1. warnings' = Append(warnings, q) /\ Given("warnings") = {q}
          BY <1>1, <1>6, <1>7, <1>16, <2>1, <3>1, <3>2
        <4>2. QED
          BY <1>2, <1>6, <4>1, ElementsOfAppend
      <3>3. CASE ~Descends(e)
        <4>1. warnings' = warnings
          BY <1>1, <3>3
        <4>2. Given("warnings") = {}
          <5>1. CASE ~e.folder
            BY <1>7, <3>1, <5>1
          <5>2. CASE e.folder /\ k = 0
            BY <1>7, <3>1, <5>2
          <5>3. QED
            BY <1>4, <1>6, <3>3, <5>1, <5>2
        <4>3. QED
          BY <1>2, <4>1, <4>2
      <3>4. QED
        BY <3>2, <3>3
    <2>4. FramesTyped' /\ DepthsBounded' /\ ReportsTyped'
      <3>1. FramesTyped'
        BY <1>1, <1>2, <1>3, <1>5, <2>1 DEF FramesTyped
      <3>2. DepthsBounded'
        <4>1. \A i \in 1 .. Len(stack) : walk \in WalkT /\ stack[i].depth <= walk.maxDepth
          BY DEF Stages, DepthsBounded
        <4>2. QED
          BY <1>1, <1>2, <1>5, <2>1, <4>1 DEF DepthsBounded
      <3>3. ReportsTyped'
        BY <1>1, <1>2, <1>3, <2>2, <2>3 DEF ReportsTyped
      <3>4. QED
        BY <3>1, <3>2, <3>3
    <2>5. Stages'
      BY <1>1, <1>14, <2>4 DEF Stages
    <2>6. NamesApart => NamesApart'
      <3>1. NamesApart => \A i \in 1 .. Len(stack) : NamesDiffer(stack[i].entries)
        BY DEF NamesApart
      <3>2. QED
        BY <1>1, <1>9, <2>1, <3>1 DEF NamesApart
    <2>7. \A what \in Reports : \A i \in 1 .. n : Layer(what, i)' = Layer(what, i)
      BY <1>1, <1>8, <2>1 DEF Layer
    <2>8. QED
      BY <1>1, <1>2, <1>3, <1>13, <2>1, <2>2, <2>3, <2>5, <2>6, <2>7 DEF n
  <1>17. QED
    BY <1>15, <1>16

LEMMA StagesReturn ==
  ASSUME Stages, Return
  PROVE  /\ Stages' /\ Made' = Made /\ Made = Elements(out) /\ pending = NoRecord
         /\ node'.entries = <<>> /\ stack' = <<>> /\ todo' = <<>>
         /\ ~cancelled => pc = "walks" /\ node.entries = <<>> /\ stack = <<>> /\ todo = <<>>
  <1>1. /\ pc \in {"rules", "walks"} /\ pc' = "done" /\ todo' = <<>> /\ stack' = <<>> /\ node' = NoNode
        /\ UNCHANGED <<disk, cancelled, profiles, walk, pending, out, warnings>>
        /\ pending = NoRecord
        /\ ~cancelled => pc = "walks" /\ node.entries = <<>> /\ stack = <<>> /\ todo = <<>>
    BY DEF Return, ReturnEarly, Idle
  <1>2. Made' = Made /\ Made = Elements(out)
    BY <1>1 DEF Made
  <1>3. NoNode \in FrameT /\ NoNode.entries = <<>> /\ 1 .. Len(<<>>) = {}
    BY NoNodeTyped
  <1>4. TodoTyped' /\ ReportsTyped'
    BY <1>1 DEF Stages, TodoTyped, ReportsTyped
  <1>5. FramesTyped'
    BY <1>1, <1>3 DEF FramesTyped
  <1>6. DepthsBounded'
    BY <1>1, <1>3 DEF DepthsBounded
  <1>7. Stages'
    BY <1>1, <1>4, <1>5, <1>6 DEF Stages
  <1>8. QED
    BY <1>1, <1>2, <1>3, <1>7

LEMMA StagesCancel ==
  ASSUME Stages, RequestCancel
  PROVE  Stages'
  <1>1. /\ cancelled' = TRUE
        /\ UNCHANGED <<disk, pc, profiles, todo, walk, stack, node, pending, out, warnings>>
    BY DEF RequestCancel
  <1>2. TodoTyped' /\ FramesTyped' /\ DepthsBounded'
    BY <1>1 DEF Stages, TodoTyped, FramesTyped, DepthsBounded
  <1>3. ReportsTyped'
    BY <1>1 DEF Stages, ReportsTyped, Made
  <1>4. QED
    BY <1>1, <1>2, <1>3 DEF Stages

LEMMA NotWalking ==
  ASSUME Stages, pc # "walks"
  PROVE  node.entries = <<>> /\ stack = <<>>
  BY NoNodeTyped DEF Stages, FramesTyped

-----------------------------------------------------------------------------
(* Covered: what was made, what the folders still give and what the walks  *)
(* ahead will find make up the whole report, and so for the warnings.      *)

TargetsOf(d, users) == {Looked(d, l) : l \in Elements(Lookups(users))}
AllOf(d, what, users) == UNION {All(d, what, w) : w \in Elements(Walks(users))}
UsersUnread(d) == IF Open(d, <<"Users">>) THEN {} ELSE {<<"Users">>}
Coming(what) == UNION {All(disk, what, w) : w \in Elements(todo)}

CoveredByRules ==
  /\ Made \union {Looked(disk, l) : l \in Elements(todo)} = TargetsOf(disk, profiles)
  /\ Elements(warnings) = UsersUnread(disk)
CoveredByWalks ==
  /\ Made \union Ahead("records") \union Coming("records")
       = TargetsOf(disk, profiles) \union AllOf(disk, "records", profiles)
  /\ Elements(warnings) \union Ahead("warnings") \union Coming("warnings")
       = UsersUnread(disk) \union AllOf(disk, "warnings", profiles)
CoveredAtEnd ==
  /\ Elements(out) = TargetsOf(disk, profiles) \union AllOf(disk, "records", profiles)
  /\ Elements(warnings) = UsersUnread(disk) \union AllOf(disk, "warnings", profiles)
Covered ==
  ~cancelled => /\ pc = "rules" => CoveredByRules
                /\ pc = "walks" => CoveredByWalks
                /\ pc = "done"  => CoveredAtEnd

LEMMA CoveredFindProfiles ==
  ASSUME Stages, Covered, FindProfiles
  PROVE  Covered'
  <1>1. /\ Made' = {} /\ pc' = "rules" /\ todo' = Lookups(profiles') /\ disk' = disk /\ cancelled' = cancelled
        /\ ~cancelled => Elements(warnings') = UsersUnread(disk)
    <2>1. /\ pc' = "rules" /\ todo' = Lookups(profiles') /\ disk' = disk /\ cancelled' = cancelled
      BY DEF FindProfiles
    <2>2. Made' = {} /\ (~cancelled => Elements(warnings') = UsersUnread(disk))
      BY StagesFindProfiles DEF UsersUnread
    <2>3. QED
      BY <2>1, <2>2
  <1>2. ~cancelled => CoveredByRules'
    BY <1>1 DEF CoveredByRules, TargetsOf
  <1>3. QED
    BY <1>1, <1>2 DEF Covered

LEMMA CoveredLookUp ==
  ASSUME Stages, Covered, LookUp
  PROVE  Covered'
  <1>1. /\ pc = "rules" /\ pc' = "rules" /\ ~cancelled /\ UNCHANGED <<disk, profiles, warnings>>
    BY DEF LookUp
  <1>2. /\ Elements(todo) = {Head(todo)} \union Elements(todo')
        /\ Made' = Made \union {Looked(disk, Head(todo))}
    BY StagesLookUp
  <1>3. CoveredByRules
    BY <1>1 DEF Covered
  <1>4. Made' \union {Looked(disk, l) : l \in Elements(todo')} = Made \union {Looked(disk, l) : l \in Elements(todo)}
    BY <1>2
  <1>5. CoveredByRules'
    BY <1>1, <1>3, <1>4 DEF CoveredByRules
  <1>6. QED
    BY <1>1, <1>5 DEF Covered

LEMMA CoveredAppendRecord ==
  ASSUME Stages, Covered, AppendRecord
  PROVE  Covered'
  <1>1. /\ pending # NoRecord
        /\ UNCHANGED <<disk, cancelled, pc, profiles, todo, walk, stack, node, warnings>>
    BY DEF AppendRecord
  <1>2. Made' = Made
    BY MadeByAppend
  <1>3. pc # "done"
    BY <1>1 DEF Stages, ReportsTyped
  <1>4. \A what : Ahead(what)' = Ahead(what) /\ Coming(what)' = Coming(what)
    BY <1>1 DEF Ahead, Layer, Coming
  <1>5. CoveredByRules => CoveredByRules'
    BY <1>1, <1>2 DEF CoveredByRules
  <1>6. CoveredByWalks => CoveredByWalks'
    BY <1>1, <1>2, <1>4 DEF CoveredByWalks
  <1>7. QED
    BY <1>1, <1>3, <1>5, <1>6 DEF Covered

LEMMA CoveredRulesDone ==
  ASSUME Stages, Covered, RulesDone
  PROVE  Covered'
  <1>1. /\ pc = "rules" /\ todo = <<>> /\ ~cancelled /\ pc' = "walks" /\ todo' = Walks(profiles)
        /\ UNCHANGED <<disk, cancelled, profiles, walk, stack, node, pending, out, warnings>>
    BY DEF RulesDone
  <1>2. \A what : Ahead(what)' = {}
    <2>1. \A what : Ahead(what) = {}
      BY <1>1, NotWalking, IdleHasNothingAhead
    <2>2. \A what : Ahead(what)' = Ahead(what)
      BY <1>1 DEF Ahead, Layer
    <2>3. QED
      BY <2>1, <2>2
  <1>3. \A what : Coming(what)' = AllOf(disk, what, profiles)
    BY <1>1 DEF Coming, AllOf
  <1>4. Elements(todo) = {}
    BY <1>1, EmptyFacts DEF Elements
  <1>5. Made = TargetsOf(disk, profiles) /\ Elements(warnings) = UsersUnread(disk)
    BY <1>1, <1>4 DEF Covered, CoveredByRules
  <1>6. Made' = Made
    BY <1>1 DEF Made
  <1>7. CoveredByWalks'
    <2> DEFINE A(what) == Ahead(what)'
               C(what) == Coming(what)'
    <2>1. \A what : A(what) = {} /\ C(what) = AllOf(disk, what, profiles)
      BY <1>2, <1>3
    <2> HIDE DEF A, C
    <2>2. /\ Made' \union A("records") \union C("records")
               = TargetsOf(disk, profiles) \union AllOf(disk, "records", profiles)
          /\ Elements(warnings) \union A("warnings") \union C("warnings")
               = UsersUnread(disk) \union AllOf(disk, "warnings", profiles)
      BY <1>5, <1>6, <2>1
    <2>3. QED
      BY <1>1, <2>2 DEF CoveredByWalks, A, C
  <1>8. QED
    BY <1>1, <1>7 DEF Covered

LEMMA CoveredBeginWalk ==
  ASSUME Stages, Covered, BeginWalk
  PROVE  Covered'
  <1>1. /\ pc = "walks" /\ ~cancelled
        /\ UNCHANGED <<disk, cancelled, pc, profiles, node, pending, out, warnings>>
    BY DEF BeginWalk
  <1>2. /\ Elements(todo) = {walk'} \union Elements(todo') /\ node.entries = <<>> /\ stack = <<>>
        /\ \A what : Ahead(what)' = All(disk, what, walk')
    BY StagesBeginWalk
  <1>3. \A what : Ahead(what) = {}
    BY <1>2, IdleHasNothingAhead
  <1>4. Made' = Made
    BY <1>1 DEF Made
  <1> DEFINE A(what) == Ahead(what)'
             C(what) == Coming(what)'
  <1>5. \A what : A(what) \union C(what) = Ahead(what) \union Coming(what)
    <2>1. \A what : C(what) = UNION {All(disk, what, w) : w \in Elements(todo')}
      BY <1>1 DEF Coming
    <2>2. \A what : A(what) = All(disk, what, walk')
      BY <1>2
    <2> HIDE DEF A, C
    <2>3. \A what : Coming(what) = All(disk, what, walk') \union UNION {All(disk, what, w) : w \in Elements(todo')}
      BY <1>2 DEF Coming
    <2>4. QED
      BY <1>3, <2>1, <2>2, <2>3
  <1> HIDE DEF A, C
  <1>6. CoveredByWalks
    BY <1>1 DEF Covered
  <1>7. /\ Made' \union A("records") \union C("records")
             = TargetsOf(disk, profiles) \union AllOf(disk, "records", profiles)
        /\ Elements(warnings) \union A("warnings") \union C("warnings")
             = UsersUnread(disk) \union AllOf(disk, "warnings", profiles)
    <2>1. /\ A("records") \union C("records") = Ahead("records") \union Coming("records")
          /\ A("warnings") \union C("warnings") = Ahead("warnings") \union Coming("warnings")
      BY <1>5
    <2>2. QED
      BY <1>4, <1>6, <2>1 DEF CoveredByWalks
  <1>8. CoveredByWalks'
    BY <1>1, <1>7 DEF CoveredByWalks, A, C
  <1>9. QED
    BY <1>1, <1>8 DEF Covered

LEMMA AheadPop ==
  ASSUME Stages, PopFolder
  PROVE  \A what : Ahead(what)' = Ahead(what)
  <1> DEFINE n == Len(stack)
             m == Len(stack')
             L(what, i) == Layer(what, i)
             N(what, i) == Layer(what, i)'
  <1>1. /\ n > 0 /\ m = n - 1
        /\ \A what : /\ L(what, 0) = {} /\ N(what, 0) = L(what, n)
                     /\ \A i \in 1 .. m : N(what, i) = L(what, i)
    BY StagesPopFolder
  <1>2. n \in Nat
    BY DEF Stages, FramesTyped
  <1>3. \A what : Ahead(what) = UNION {L(what, i) : i \in 0 .. n}
    BY DEF Ahead
  <1>4. \A what : Ahead(what)' = UNION {N(what, i) : i \in 0 .. m}
    BY DEF Ahead
  <1> HIDE DEF n, m, L, N
  <1>5. ASSUME NEW what, NEW x, NEW i \in 0 .. n, x \in L(what, i) PROVE \E j \in 0 .. m : x \in N(what, j)
    <2>1. i # 0
      BY <1>1, <1>5
    <2>2. CASE i = n
      <3>1. 0 \in 0 .. m /\ x \in N(what, 0)
        BY <1>1, <1>2, <1>5, <2>2
      <3>2. QED
        BY <3>1
    <2>3. CASE i # n
      <3>1. i \in 1 .. m /\ i \in 0 .. m
        BY <1>1, <1>2, <2>1, <2>3
      <3>2. QED
        BY <1>1, <1>5, <3>1
    <2>4. QED
      BY <2>2, <2>3
  <1>6. ASSUME NEW what, NEW x, NEW j \in 0 .. m, x \in N(what, j) PROVE \E i \in 0 .. n : x \in L(what, i)
    <2>1. CASE j = 0
      <3>1. n \in 0 .. n /\ x \in L(what, n)
        BY <1>1, <1>2, <1>6, <2>1
      <3>2. QED
        BY <3>1
    <2>2. CASE j # 0
      <3>1. j \in 1 .. m /\ j \in 0 .. n
        BY <1>1, <1>2, <2>2
      <3>2. QED
        BY <1>1, <1>6, <3>1
    <2>3. QED
      BY <2>1, <2>2
  <1>7. \A what : UNION {N(what, i) : i \in 0 .. m} = UNION {L(what, i) : i \in 0 .. n}
    BY <1>5, <1>6
  <1>8. QED
    BY <1>3, <1>4, <1>7

(* A visit leaves what is ahead as it was, or takes from it what it gives. *)
LEMMA AheadVisit ==
  ASSUME Stages, VisitEntry
  PROVE  \A what \in Reports :
           /\ Len(stack') = Len(stack) + 1 => Ahead(what)' = Ahead(what)
           /\ Len(stack') = Len(stack) => Ahead(what) = Given(what) \union Ahead(what)'
  <1> DEFINE n == Len(stack)
             m == Len(stack')
             L(what, i) == Layer(what, i)
             N(what, i) == Layer(what, i)'
             G(what) == Given(what)
  <1>1. /\ \A what \in Reports : L(what, 0) = G(what) \union N(what, 0)
        /\ \A what \in Reports : \A i \in 1 .. n : N(what, i) = L(what, i)
        /\ m = n + 1 \/ m = n
        /\ m = n + 1 => \A what \in Reports : \A top : top = m => N(what, top) = G(what)
    <2>1. Len(stack) \in Nat
      BY DEF Stages, FramesTyped
    <2>2. Len(stack) + 1 # Len(stack)
      BY <2>1
    <2>3. QED
      BY <2>2, StagesVisitEntry
  <1>2. n \in Nat
    BY DEF Stages, FramesTyped
  <1>3. \A what : Ahead(what) = UNION {L(what, i) : i \in 0 .. n}
    BY DEF Ahead
  <1>4. \A what : Ahead(what)' = UNION {N(what, i) : i \in 0 .. m}
    BY DEF Ahead
  <1>5. SUFFICES ASSUME NEW what \in Reports
                 PROVE  /\ m = n + 1 => Ahead(what)' = Ahead(what)
                        /\ m = n => Ahead(what) = G(what) \union Ahead(what)'
    OBVIOUS
  <1> HIDE DEF n, m, L, N, G
  <1>6. 0 .. n = {0} \union (1 .. n) /\ 0 .. n + 1 = {0, n + 1} \union (1 .. n)
    BY <1>2
  <1>7. UNION {L(what, i) : i \in 0 .. n} = G(what) \union N(what, 0) \union UNION {N(what, i) : i \in 1 .. n}
    <2>1. UNION {L(what, i) : i \in {0} \union (1 .. n)} = L(what, 0) \union UNION {L(what, i) : i \in 1 .. n}
      OBVIOUS
    <2>2. UNION {L(what, i) : i \in 1 .. n} = UNION {N(what, i) : i \in 1 .. n}
      BY <1>1
    <2>3. QED
      BY <1>1, <1>6, <2>1, <2>2
  <1>8. CASE m = n
    <2>1. UNION {N(what, i) : i \in {0} \union (1 .. n)} = N(what, 0) \union UNION {N(what, i) : i \in 1 .. n}
      OBVIOUS
    <2>2. m # n + 1
      BY <1>2, <1>8
    <2>3. QED
      BY <1>3, <1>4, <1>6, <1>7, <1>8, <2>1, <2>2
  <1>9. CASE m = n + 1
    <2>1. UNION {N(what, i) : i \in {0, n + 1} \union (1 .. n)}
            = N(what, 0) \union N(what, n + 1) \union UNION {N(what, i) : i \in 1 .. n}
      OBVIOUS
    <2>2. m # n /\ N(what, n + 1) = G(what)
      BY <1>1, <1>2, <1>9
    <2>3. Ahead(what)' = N(what, 0) \union G(what) \union UNION {N(what, i) : i \in 1 .. n}
      BY <1>4, <1>6, <1>9, <2>1, <2>2
    <2>4. QED
      BY <1>3, <1>7, <2>2, <2>3
  <1>10. QED
    BY <1>1, <1>8, <1>9

LEMMA CoveredPopFolder ==
  ASSUME Stages, Covered, PopFolder
  PROVE  Covered'
  <1>1. /\ stack # <<>>
        /\ UNCHANGED <<disk, cancelled, pc, profiles, todo, walk, pending, out, warnings>>
    BY DEF PopFolder
  <1>2. pc = "walks"
    BY <1>1, NotWalking
  <1>3. \A what : Ahead(what)' = Ahead(what) /\ Coming(what)' = Coming(what)
    BY <1>1, AheadPop DEF Coming
  <1>4. Made' = Made
    BY <1>1 DEF Made
  <1>5. CoveredByWalks => CoveredByWalks'
    BY <1>1, <1>3, <1>4 DEF CoveredByWalks
  <1>6. QED
    BY <1>1, <1>2, <1>5 DEF Covered

LEMMA CoveredVisitEntry ==
  ASSUME Stages, Covered, VisitEntry
  PROVE  Covered'
  <1>1. /\ ~cancelled
        /\ UNCHANGED <<disk, cancelled, pc, profiles, todo, walk, out>>
    BY DEF VisitEntry
  <1> DEFINE A(what) == Ahead(what)'
             C(what) == Coming(what)'
             W == Elements(warnings)'
  <1>2. /\ pc = "walks"
        /\ \/ Len(stack') = Len(stack) + 1 /\ Made' = Made /\ W = Elements(warnings)
           \/ /\ Len(stack') = Len(stack) /\ Made' = Made \union Given("records")
              /\ W = Elements(warnings) \union Given("warnings")
    BY StagesVisitEntry
  <1>3. \A what : C(what) = Coming(what)
    BY <1>1 DEF Coming
  <1>4. \A what \in Reports :
          /\ Len(stack') = Len(stack) + 1 => A(what) = Ahead(what)
          /\ Len(stack') = Len(stack) => Ahead(what) = Given(what) \union A(what)
    BY AheadVisit
  <1>5. "records" \in Reports /\ "warnings" \in Reports
    BY DEF Reports
  <1>6. CoveredByWalks
    BY <1>1, <1>2 DEF Covered
  <1> HIDE DEF A, C, W
  <1>7. Made' \union A("records") = Made \union Ahead("records") /\ W \union A("warnings") = Elements(warnings) \union Ahead("warnings")
    BY <1>2, <1>4, <1>5
  <1>8. /\ Made' \union A("records") \union C("records")
             = TargetsOf(disk, profiles) \union AllOf(disk, "records", profiles)
        /\ W \union A("warnings") \union C("warnings")
             = UsersUnread(disk) \union AllOf(disk, "warnings", profiles)
    BY <1>3, <1>6, <1>7 DEF CoveredByWalks
  <1>9. CoveredByWalks'
    BY <1>1, <1>8 DEF CoveredByWalks, A, C, W
  <1>10. QED
    BY <1>1, <1>2, <1>9 DEF Covered

LEMMA CoveredReturn ==
  ASSUME Stages, Covered, Return
  PROVE  Covered'
  <1>1. pc' = "done" /\ UNCHANGED <<disk, cancelled, profiles, out, warnings>>
    BY DEF Return
  <1>2. SUFFICES ASSUME ~cancelled PROVE CoveredAtEnd
    BY <1>1 DEF Covered, CoveredAtEnd
  <1>3. /\ pc = "walks" /\ node.entries = <<>> /\ stack = <<>> /\ todo = <<>> /\ Made = Elements(out)
    BY <1>2, StagesReturn
  <1>4. \A what : Ahead(what) = {}
    BY <1>3, IdleHasNothingAhead
  <1>5. \A what : Coming(what) = {}
    <2>1. Elements(todo) = {}
      BY <1>3, EmptyFacts DEF Elements
    <2>2. QED
      BY <2>1 DEF Coming
  <1>6. CoveredByWalks
    BY <1>2, <1>3 DEF Covered
  <1>7. QED
    BY <1>3, <1>4, <1>5, <1>6 DEF CoveredByWalks, CoveredAtEnd

LEMMA CoveredCancel ==
  ASSUME RequestCancel
  PROVE  Covered'
  BY DEF RequestCancel, Covered

-----------------------------------------------------------------------------
(* Single: where names differ, nothing is found in two places.             *)

Apart ==
  /\ \A i \in 0 .. Len(stack) : Made \intersect Layer("records", i) = {}
  /\ \A i, j \in 0 .. Len(stack) : i # j => Layer("records", i) \intersect Layer("records", j) = {}
KeysApart ==
  /\ KeysDiffer(todo)
  /\ \A r \in Made, l \in Elements(todo) : Key(r) # Key(l)
  /\ pc = "walks" => \A l \in Elements(todo) : Key(l) # Key(walk)
OnceMade == Distinct(out) /\ pending \notin Elements(out) /\ Distinct(profiles)
Single == SetsNames(disk) => NamesApart /\ Apart /\ KeysApart /\ OnceMade

LEMMA ApartNothing ==
  ASSUME node'.entries = <<>>, stack' = <<>>
  PROVE  (NamesApart /\ Apart)'
  <1>1. Len(stack') = 0 /\ Len(node'.entries) = 0
    BY EmptyFacts
  <1>2. \A i \in 0 .. Len(stack') : i = 0
    BY <1>1
  <1>3. Apart'
    <2>1. \A i \in 0 .. Len(stack') : Layer("records", i)' = {}
      <3>1. SUFFICES ASSUME NEW i \in 0 .. Len(stack') PROVE Layer("records", i)' = {}
        OBVIOUS
      <3>2. i = 0
        BY <1>2
      <3>3. QED
        BY <3>2, RestOfNone DEF Layer
    <2> DEFINE L(i) == Layer("records", i)'
    <2>2. \A i \in 0 .. Len(stack') : Made' \intersect L(i) = {}
      BY <2>1
    <2>3. \A i, j \in 0 .. Len(stack') : i # j => L(i) \intersect L(j) = {}
      BY <1>2
    <2>4. QED
      BY <2>2, <2>3 DEF Apart
  <1>4. NamesApart'
    BY <1>1 DEF NamesApart, NamesDiffer
  <1>5. QED
    BY <1>3, <1>4

LEMMA NoRecordNotOut ==
  ASSUME NEW s \in Seq(ReportT)
  PROVE  NoRecord \notin Elements(s)
  BY NoRecordApart DEF Elements

LEMMA SingleFindProfiles ==
  ASSUME Stages, Single, FindProfiles
  PROVE  Single'
  <1>1. /\ pc = "profiles" /\ pc' = "rules" /\ todo' = Lookups(profiles')
        /\ UNCHANGED <<disk, walk, stack, node, pending, out>>
    BY DEF FindProfiles
  <1>2. SUFFICES ASSUME SetsNames(disk) PROVE (NamesApart /\ Apart /\ KeysApart /\ OnceMade)'
    BY <1>1 DEF Single
  <1>3. profiles' \in Seq(STRING) /\ Distinct(profiles') /\ Made' = {}
    BY <1>2, StagesFindProfiles
  <1>4. (NamesApart /\ Apart)'
    <2>1. node'.entries = <<>> /\ stack' = <<>>
      BY <1>1, NotWalking
    <2>2. QED
      BY <2>1, ApartNothing
  <1>5. KeysApart'
    BY <1>1, <1>3, LookupsTyped DEF KeysApart
  <1>6. OnceMade'
    BY <1>1, <1>2, <1>3 DEF OnceMade, Single
  <1>7. QED
    BY <1>4, <1>5, <1>6

LEMMA SingleLookUp ==
  ASSUME Stages, Single, LookUp
  PROVE  Single'
  <1> DEFINE l == Head(todo)
             r == Looked(disk, l)
  <1>1. /\ pc = "rules" /\ pending = NoRecord /\ todo # <<>> /\ todo' = Tail(todo)
        /\ UNCHANGED <<disk, pc, profiles, walk, stack, node, out>>
    BY DEF LookUp
  <1>2. SUFFICES ASSUME SetsNames(disk) PROVE (NamesApart /\ Apart /\ KeysApart /\ OnceMade)'
    BY <1>1 DEF Single
  <1>3. /\ l \in LookupT /\ pending' = r /\ Made' = Made \union {r}
        /\ Elements(todo) = {l} \union Elements(todo')
    BY StagesLookUp
  <1>4. Key(r) = Key(l)
    BY <1>3, LookedTyped
  <1>5. KeysApart /\ OnceMade
    BY <1>2 DEF Single
  <1>6. KeysDiffer(todo') /\ \A x \in Elements(todo') : Key(x) # Key(l)
    <2>1. todo \in Seq(LookupT)
      BY <1>1 DEF Stages, TodoTyped
    <2>2. QED
      BY <1>1, <1>5, <2>1, KeysOfTail DEF KeysApart
  <1>7. (NamesApart /\ Apart)'
    <2>1. node'.entries = <<>> /\ stack' = <<>>
      BY <1>1, NotWalking
    <2>2. QED
      BY <2>1, ApartNothing
  <1> HIDE DEF r, l
  <1>8. KeysApart'
    BY <1>1, <1>3, <1>4, <1>5, <1>6 DEF KeysApart
  <1>9. r \notin Elements(out)
    <2>1. \A x \in Elements(out) : x \in Made
      BY DEF Made
    <2>2. QED
      BY <1>3, <1>4, <1>5, <2>1 DEF KeysApart
  <1>10. OnceMade'
    BY <1>1, <1>3, <1>5, <1>9 DEF OnceMade
  <1>11. QED
    BY <1>7, <1>8, <1>10

LEMMA SingleAppendRecord ==
  ASSUME Stages, Single, AppendRecord
  PROVE  Single'
  <1>1. /\ out' = Append(out, pending) /\ pending' = NoRecord
        /\ UNCHANGED <<disk, pc, profiles, todo, walk, stack, node>>
    BY DEF AppendRecord
  <1>2. SUFFICES ASSUME SetsNames(disk) PROVE (NamesApart /\ Apart /\ KeysApart /\ OnceMade)'
    BY <1>1 DEF Single
  <1>3. pending \in ReportT /\ out' \in Seq(ReportT) /\ Made' = Made
    BY MadeByAppend
  <1>4. NamesApart /\ Apart /\ KeysApart /\ OnceMade
    BY <1>2 DEF Single
  <1>5. Apart' /\ NamesApart'
    BY <1>1, <1>3, <1>4 DEF Apart, NamesApart, Layer
  <1>6. KeysApart'
    BY <1>1, <1>3, <1>4 DEF KeysApart
  <1>7. Distinct(out')
    <2>1. out \in Seq(ReportT)
      BY DEF Stages, ReportsTyped
    <2>2. QED
      BY <1>1, <1>3, <1>4, <2>1, DistinctAppend DEF OnceMade
  <1>8. NoRecord \notin Elements(out')
    BY <1>3, NoRecordNotOut
  <1>9. OnceMade'
    BY <1>1, <1>4, <1>7, <1>8 DEF OnceMade
  <1>10. QED
    BY <1>5, <1>6, <1>9

LEMMA SingleRulesDone ==
  ASSUME Stages, Single, RulesDone
  PROVE  Single'
  <1>1. /\ pc = "rules" /\ pc' = "walks" /\ todo' = Walks(profiles)
        /\ UNCHANGED <<disk, profiles, walk, stack, node, pending, out>>
    BY DEF RulesDone
  <1>2. SUFFICES ASSUME SetsNames(disk) PROVE (NamesApart /\ Apart /\ KeysApart /\ OnceMade)'
    BY <1>1 DEF Single
  <1>3. OnceMade
    BY <1>2 DEF Single
  <1>4. todo' \in Seq(WalkT) /\ KeysDiffer(todo')
    BY <1>1, <1>3, WalksTyped DEF Stages, OnceMade
  <1>5. Made' = Made /\ walk' = NoWalk
    BY <1>1 DEF Made, Stages
  <1>6. \A l \in Elements(todo') : l.artifact \in WalkNames
    <2>1. \A i \in 1 .. Len(todo') : todo'[i] \in WalkT
      BY <1>4
    <2>2. \A l \in Elements(todo') : l \in WalkT
      BY <2>1 DEF Elements
    <2>3. QED
      BY <2>2 DEF WalkT
  <1>7. \A r \in Made : r.artifact \in RuleNames
    BY <1>1 DEF Stages, ReportsTyped
  <1>8. \A r \in Made, l \in Elements(todo') : Key(r) # Key(l)
    BY <1>6, <1>7, RuleNamesApart DEF Key
  <1>9. \A l \in Elements(todo') : Key(l) # Key(NoWalk)
    BY <1>6, NoWalkNamed DEF Key
  <1>10. KeysApart'
    BY <1>4, <1>5, <1>8, <1>9 DEF KeysApart
  <1>11. (NamesApart /\ Apart)'
    <2>1. node'.entries = <<>> /\ stack' = <<>>
      BY <1>1, NotWalking
    <2>2. QED
      BY <2>1, ApartNothing
  <1>12. OnceMade'
    BY <1>1, <1>3 DEF OnceMade
  <1>13. QED
    BY <1>10, <1>11, <1>12

LEMMA SingleBeginWalk ==
  ASSUME Stages, Single, BeginWalk
  PROVE  Single'
  <1>1. /\ pc = "walks" /\ todo # <<>> /\ walk' = Head(todo) /\ todo' = Tail(todo)
        /\ UNCHANGED <<disk, pc, profiles, node, pending, out>>
    BY DEF BeginWalk
  <1>2. SUFFICES ASSUME SetsNames(disk) PROVE (NamesApart /\ Apart /\ KeysApart /\ OnceMade)'
    BY <1>1 DEF Single
  <1> DEFINE m == Len(stack')
             N(i) == Layer("records", i)'
  <1>3. /\ walk' \in WalkT /\ Elements(todo) = {walk'} \union Elements(todo')
        /\ m \in {0, 1} /\ NamesApart'
        /\ N(0) = {} /\ (m = 1 => N(1) = All(disk, "records", walk'))
    BY <1>2, StagesBeginWalk
  <1>4. KeysApart /\ OnceMade /\ Made' = Made /\ TypedDisk(disk)
    BY <1>1, <1>2 DEF Single, Made, Stages
  <1>5. KeysDiffer(todo') /\ \A x \in Elements(todo') : Key(x) # Key(walk')
    <2>1. todo \in Seq(WalkT)
      BY <1>1 DEF Stages, TodoTyped
    <2>2. QED
      BY <1>1, <1>4, <2>1, KeysOfTail DEF KeysApart
  <1>6. \A x \in All(disk, "records", walk') : Key(x) = Key(walk')
    BY <1>3, <1>4, AllHasItsKey
  <1>7. \A r \in Made : Key(r) # Key(walk')
    BY <1>3, <1>4 DEF KeysApart
  <1>8. Apart'
    <2> HIDE DEF m, N
    <2>1. \A i \in 0 .. m : i = 0 \/ (i = 1 /\ m = 1)
      <3>1. m = 0 \/ m = 1
        BY <1>3
      <3>2. QED
        BY <3>1
    <2>2. \A i \in 0 .. m : Made' \intersect N(i) = {}
      BY <1>3, <1>4, <1>6, <1>7, <2>1
    <2>3. \A i, j \in 0 .. m : i # j => N(i) \intersect N(j) = {}
      BY <1>3, <2>1
    <2>4. QED
      BY <2>2, <2>3 DEF Apart, m, N
  <1>9. KeysApart'
    BY <1>1, <1>3, <1>4, <1>5 DEF KeysApart
  <1>10. OnceMade'
    BY <1>1, <1>4 DEF OnceMade
  <1>11. QED
    BY <1>3, <1>8, <1>9, <1>10

LEMMA SinglePopFolder ==
  ASSUME Stages, Single, PopFolder
  PROVE  Single'
  <1>1. UNCHANGED <<disk, pc, profiles, todo, walk, pending, out>>
    BY DEF PopFolder
  <1>2. SUFFICES ASSUME SetsNames(disk) PROVE (NamesApart /\ Apart /\ KeysApart /\ OnceMade)'
    BY <1>1 DEF Single
  <1> DEFINE n == Len(stack)
             m == Len(stack')
             L(i) == Layer("records", i)
             N(i) == Layer("records", i)'
  <1>3. NamesApart /\ Apart /\ KeysApart /\ OnceMade /\ Made' = Made
    BY <1>1, <1>2 DEF Single, Made
  <1>4. /\ n > 0 /\ m = n - 1 /\ NamesApart' /\ N(0) = L(n) /\ \A i \in 1 .. m : N(i) = L(i)
    BY <1>3, StagesPopFolder
  <1>5. n \in Nat
    BY DEF Stages, FramesTyped
  <1>6. Apart'
    <2>1. /\ \A i \in 0 .. n : Made \intersect L(i) = {}
          /\ \A i, j \in 0 .. n : i # j => L(i) \intersect L(j) = {}
      BY <1>3 DEF Apart
    <2> HIDE DEF n, m, L, N
    <2> DEFINE o(i) == IF i = 0 THEN n ELSE i
    <2>2. \A i \in 0 .. m : o(i) \in 0 .. n /\ N(i) = L(o(i))
      <3>1. \A i \in 0 .. m : i = 0 \/ i \in 1 .. m
        BY <1>4, <1>5
      <3>2. QED
        BY <1>4, <1>5, <3>1
    <2>3. \A i, j \in 0 .. m : i # j => o(i) # o(j)
      BY <1>4, <1>5
    <2> HIDE DEF o
    <2>4. \A i \in 0 .. m : Made \intersect N(i) = {}
      BY <2>1, <2>2
    <2>5. \A i, j \in 0 .. m : i # j => N(i) \intersect N(j) = {}
      BY <2>1, <2>2, <2>3
    <2>6. QED
      BY <1>3, <2>4, <2>5 DEF Apart, m, N
  <1>7. KeysApart' /\ OnceMade'
    BY <1>1, <1>3 DEF KeysApart, OnceMade
  <1>8. QED
    BY <1>4, <1>6, <1>7

(* What the entry gives bears the walk's key and is found nowhere else.    *)
LEMMA GivenApart ==
  ASSUME Stages, VisitEntry, NamesApart
  PROVE  /\ Given("records") \intersect Layer("records", 0)' = {}
         /\ \A x \in Given("records") : Key(x) = Key(walk)
  <1>1. /\ node.entries # <<>> /\ node' = Left(node) /\ walk' = walk /\ disk' = disk
    BY DEF VisitEntry, Left
  <1>2. TypedDisk(disk) /\ node \in FrameT /\ walk \in WalkT /\ node.depth <= walk.maxDepth
    BY <1>1 DEF Stages, FramesTyped, DepthsBounded
  <1>3. NamesDiffer(node.entries)
    BY DEF NamesApart
  <1>4. From(disk, "records", walk, node.path, walk.maxDepth - node.depth, Head(node.entries))
          \intersect Rest(disk, "records", walk, Left(node)) = {}
    BY <1>1, <1>2, <1>3, RestApart
  <1>5. Layer("records", 0)' = Rest(disk, "records", walk, Left(node))
    BY <1>1 DEF Layer
  <1>6. \A x \in Given("records") : Key(x) = Key(walk)
    <2>1. /\ node.path \in Paths /\ walk.maxDepth - node.depth \in 0 .. walk.maxDepth
          /\ Head(node.entries) \in Entry
      <3>1. node.path \in Paths /\ node.depth \in Nat /\ walk.maxDepth \in Nat
        BY <1>2 DEF FrameT, WalkT
      <3>2. Head(node.entries) \in Entry
        BY <1>1, <1>2, RestByEntry
      <3>3. QED
        BY <1>2, <3>1, <3>2
    <2> DEFINE k == walk.maxDepth - node.depth
               e == Head(node.entries)
    <2>2. Given("records") = From(disk, "records", walk, node.path, k, e)
      BY DEF Given
    <2> HIDE DEF k, e
    <2>3. k \in 0 .. walk.maxDepth /\ e \in Entry
      BY <2>1 DEF k, e
    <2>4. \A x \in From(disk, "records", walk, node.path, k, e) : Through(x, walk, node.path, e)
      BY <1>2, <2>1, <2>3, FromIsThrough
    <2>5. QED
      BY <2>2, <2>4 DEF Through, Beneath
  <1>7. QED
    BY <1>4, <1>5, <1>6 DEF Given

LEMMA SingleVisitEntry ==
  ASSUME Stages, Single, VisitEntry
  PROVE  Single'
  <1>1. UNCHANGED <<disk, cancelled, pc, profiles, todo, walk, out>>
    BY DEF VisitEntry
  <1>2. SUFFICES ASSUME SetsNames(disk) PROVE (NamesApart /\ Apart /\ KeysApart /\ OnceMade)'
    BY <1>1 DEF Single
  <1> DEFINE n == Len(stack)
             m == Len(stack')
             L(i) == Layer("records", i)
             N(i) == Layer("records", i)'
             G == Given("records")
  <1>3. NamesApart /\ Apart /\ KeysApart /\ OnceMade
    BY <1>2 DEF Single
  <1>4. /\ pc = "walks" /\ NamesApart' /\ L(0) = G \union N(0) /\ \A i \in 1 .. n : N(i) = L(i)
        /\ \/ m = n + 1 /\ Made' = Made /\ pending' = NoRecord /\ (\A top : top = m => N(top) = G)
           \/ m = n /\ Made' = Made \union G /\ (pending' = NoRecord \/ pending' \in G)
    <2>1. "records" \in Reports
      BY DEF Reports
    <2>2. QED
      BY <1>2, <1>3, <2>1, StagesVisitEntry
  <1>5. G \intersect N(0) = {} /\ \A x \in G : Key(x) = Key(walk)
    BY <1>3, GivenApart
  <1>6. n \in Nat /\ out \in Seq(ReportT)
    BY DEF Stages, FramesTyped, ReportsTyped
  <1>7. /\ \A i \in 0 .. n : Made \intersect L(i) = {}
        /\ \A i, j \in 0 .. n : i # j => L(i) \intersect L(j) = {}
    BY <1>3 DEF Apart
  <1> HIDE DEF n, m, L, N, G
  <1>8. 0 \in 0 .. n /\ (\A i \in 1 .. n : i \in 0 .. n /\ i # 0) /\ \A i \in 0 .. n : i = 0 \/ i \in 1 .. n
    BY <1>6
  <1>9. /\ \A i \in 0 .. n : Made \intersect N(i) = {} /\ G \intersect N(i) = {}
        /\ Made \intersect G = {}
        /\ \A i, j \in 0 .. n : i # j => N(i) \intersect N(j) = {}
    <2>1. Made \intersect G = {} /\ Made \intersect N(0) = {}
      BY <1>4, <1>7, <1>8
    <2>2. \A i \in 1 .. n : /\ Made \intersect N(i) = {} /\ G \intersect N(i) = {}
                            /\ N(0) \intersect N(i) = {}
      BY <1>4, <1>7, <1>8
    <2>3. \A i, j \in 1 .. n : i # j => N(i) \intersect N(j) = {}
      BY <1>4, <1>7, <1>8
    <2>4. \A i, j \in 0 .. n : i # j => N(i) \intersect N(j) = {}
      BY <1>8, <2>2, <2>3
    <2>5. QED
      BY <1>5, <1>8, <2>1, <2>2, <2>4
  <1>10. Apart'
    <2>1. CASE m = n /\ Made' = Made \union G
      <3>1. /\ \A i \in 0 .. m : Made' \intersect N(i) = {}
            /\ \A i, j \in 0 .. m : i # j => N(i) \intersect N(j) = {}
        BY <1>9, <2>1
      <3>2. QED
        BY <3>1 DEF Apart, m, N
    <2>2. CASE m = n + 1 /\ Made' = Made /\ \A top : top = m => N(top) = G
      <3>1. \A i \in 0 .. m : i \in 0 .. n \/ i = m
        BY <1>6, <2>2
      <3>2. \A i \in 0 .. m : i = m => N(i) = G
        BY <2>2
      <3>3. \A i \in 0 .. m : Made' \intersect N(i) = {}
        BY <1>9, <2>2, <3>1, <3>2
      <3>4. \A i, j \in 0 .. m : i # j => N(i) \intersect N(j) = {}
        BY <1>9, <3>1, <3>2
      <3>5. QED
        BY <3>3, <3>4 DEF Apart, m, N
    <2>3. QED
      BY <1>4, <2>1, <2>2
  <1>11. KeysApart'
    <2>1. \A x \in Made' : x \in Made \/ x \in G
      BY <1>4
    <2>2. QED
      BY <1>1, <1>3, <1>4, <1>5, <2>1 DEF KeysApart
  <1>12. OnceMade'
    <2>1. NoRecord \notin Elements(out)
      BY <1>6, NoRecordNotOut
    <2>2. \A x \in Elements(out) : x \in Made
      BY DEF Made
    <2>3. pending' \notin Elements(out)
      BY <1>4, <1>9, <2>1, <2>2
    <2>4. QED
      BY <1>1, <1>3, <2>3 DEF OnceMade
  <1>13. QED
    BY <1>4, <1>10, <1>11, <1>12

LEMMA SingleReturn ==
  ASSUME Stages, Single, Return
  PROVE  Single'
  <1>1. /\ pc' = "done" /\ UNCHANGED <<disk, profiles, pending, out>>
        /\ node'.entries = <<>> /\ stack' = <<>> /\ todo' = <<>>
    BY StagesReturn DEF Return
  <1>2. SUFFICES ASSUME SetsNames(disk) PROVE (NamesApart /\ Apart /\ KeysApart /\ OnceMade)'
    BY <1>1 DEF Single
  <1>3. (NamesApart /\ Apart)'
    BY <1>1, ApartNothing
  <1>4. Len(todo') = 0 /\ Elements(todo') = {}
    BY <1>1 DEF Elements
  <1>5. KeysApart'
    BY <1>1, <1>4 DEF KeysApart, KeysDiffer
  <1>6. OnceMade'
    BY <1>1, <1>2 DEF OnceMade, Single
  <1>7. QED
    BY <1>3, <1>5, <1>6

LEMMA SingleCancel ==
  ASSUME Single, RequestCancel
  PROVE  Single'
  <1>1. UNCHANGED <<disk, pc, profiles, todo, walk, stack, node, pending, out>>
    BY DEF RequestCancel
  <1>2. (NamesApart /\ Apart /\ KeysApart /\ OnceMade) => (NamesApart /\ Apart /\ KeysApart /\ OnceMade)'
    <2>1. NamesApart => NamesApart'
      BY <1>1 DEF NamesApart
    <2>2. Apart => Apart'
      BY <1>1 DEF Apart, Layer, Made
    <2>3. KeysApart => KeysApart'
      BY <1>1 DEF KeysApart, Made
    <2>4. OnceMade => OnceMade'
      BY <1>1 DEF OnceMade
    <2>5. QED
      BY <2>1, <2>2, <2>3, <2>4
  <1>3. QED
    BY <1>1, <1>2 DEF Single

-----------------------------------------------------------------------------
(* Once cancelled, only the record being made is still appended.           *)

LateOnce ==
  /\ late \in {0, 1} /\ (~cancelled => late = 0)
  /\ late = 1 => pending = NoRecord

LEMMA LateKept ==
  ASSUME LateOnce, Discover \/ RequestCancel
  PROVE  LateOnce'
  <1>1. CASE AppendRecord
    BY <1>1 DEF AppendRecord, LateOnce
  <1>2. CASE LookUp \/ VisitEntry
    <2>1. ~cancelled /\ UNCHANGED <<cancelled, late>>
      BY <1>2 DEF LookUp, VisitEntry
    <2>2. QED
      BY <2>1 DEF LateOnce
  <1>3. CASE FindProfiles \/ RulesDone \/ BeginWalk \/ PopFolder \/ Return
    <2>1. UNCHANGED <<cancelled, pending, late>>
      BY <1>3 DEF FindProfiles, RulesDone, BeginWalk, PopFolder, Return
    <2>2. QED
      BY <2>1 DEF LateOnce
  <1>4. CASE RequestCancel
    BY <1>4 DEF RequestCancel, LateOnce
  <1>5. QED
    BY <1>1, <1>2, <1>3, <1>4 DEF Discover

-----------------------------------------------------------------------------
(* The invariant, and what it says of the report.                          *)

Inv == Stages /\ Covered /\ Single /\ LateOnce

LEMMA InvInit == Init => Inv
  <1>1. SUFFICES ASSUME Init PROVE Inv
    OBVIOUS
  <1>2. /\ cancelled = FALSE /\ pc = "profiles" /\ profiles = <<>> /\ todo = <<>> /\ walk = NoWalk
        /\ stack = <<>> /\ node = NoNode /\ pending = NoRecord /\ out = <<>> /\ warnings = <<>> /\ late = 0
    BY <1>1 DEF Init, DiscoveryInit
  <1>3. TypedDisk(disk)
    <2>1. disk \in Workers \/ \E c \in Cases : disk = c.disk
      BY <1>1 DEF Init
    <2>2. QED
      BY <2>1, CommandLineAssumption
  <1>4. /\ NoNode \in FrameT /\ NoNode.entries = <<>> /\ 1 .. Len(<<>>) = {} /\ Len(<<>>) = 0
        /\ Elements(<<>>) = {}
    BY NoNodeTyped DEF Elements
  <1>5. Made = {}
    BY <1>2, <1>4 DEF Made
  <1>6. Stages
    <2>1. TodoTyped /\ ReportsTyped
      BY <1>2 DEF TodoTyped, ReportsTyped
    <2>2. FramesTyped
      BY <1>2, <1>4 DEF FramesTyped
    <2>3. DepthsBounded
      BY <1>2, <1>4 DEF DepthsBounded
    <2>4. /\ cancelled \in BOOLEAN /\ pc \in {"profiles", "rules", "walks", "done"}
          /\ walk \in WalkT \union {NoWalk} /\ (pc \in {"profiles", "rules"} => walk = NoWalk)
      BY <1>2
    <2>5. profiles \in Seq(STRING)
      BY <1>2
    <2>6. QED
      BY <1>3, <2>1, <2>2, <2>3, <2>4, <2>5 DEF Stages
  <1>7. Covered
    BY <1>2 DEF Covered
  <1>8. Single
    <2>1. 0 .. Len(stack) = {0}
      BY <1>2, <1>4
    <2>2. \A i \in 0 .. Len(stack) : i = 0
      BY <2>1
    <2>3. Apart
      BY <1>5, <2>2 DEF Apart
    <2>4. NamesApart /\ KeysApart
      BY <1>2, <1>4, <1>5 DEF NamesApart, NamesDiffer, KeysApart, KeysDiffer
    <2>5. OnceMade
      BY <1>2, <1>4 DEF OnceMade, Distinct
    <2>6. QED
      BY <2>3, <2>4, <2>5 DEF Single
  <1>9. LateOnce
    BY <1>2 DEF LateOnce
  <1>10. QED
    BY <1>6, <1>7, <1>8, <1>9 DEF Inv

(* The steps of main leave the discovery alone. *)
LEMMA MainKeepsDiscovery == Main => UNCHANGED discoveryVars
  BY DEF Main, ReadArguments, OpenReader, OpenImage, LoadPartitions, FindPartition, OpenFileSystem,
         ListDirectory, ResolveEntry, Extract, WriteCatalog, Describe, PrintPayload, Exit, Fail, Untouched

LEMMA InvUnchanged ==
  ASSUME Inv, UNCHANGED discoveryVars
  PROVE  Inv'
  <1>1. UNCHANGED <<disk, cancelled, pc, profiles, todo, walk, stack, node, pending, out, warnings, late>>
    BY DEF discoveryVars
  <1>2. Stages'
    BY <1>1 DEF Inv, Stages, TodoTyped, FramesTyped, DepthsBounded, ReportsTyped, Made
  <1>3. Covered'
    <2>1. CoveredByRules => CoveredByRules'
      BY <1>1 DEF CoveredByRules, Made
    <2>2. CoveredByWalks => CoveredByWalks'
      BY <1>1 DEF CoveredByWalks, Made, Ahead, Layer, Coming
    <2>3. CoveredAtEnd => CoveredAtEnd'
      BY <1>1 DEF CoveredAtEnd
    <2>4. QED
      BY <1>1, <2>1, <2>2, <2>3 DEF Inv, Covered
  <1>4. Single'
    <2>1. NamesApart => NamesApart'
      BY <1>1 DEF NamesApart
    <2>2. Apart => Apart'
      BY <1>1 DEF Apart, Layer, Made
    <2>3. KeysApart => KeysApart'
      BY <1>1 DEF KeysApart, Made
    <2>4. OnceMade => OnceMade'
      BY <1>1 DEF OnceMade
    <2>5. QED
      BY <1>1, <2>1, <2>2, <2>3, <2>4 DEF Inv, Single
  <1>5. LateOnce'
    BY <1>1 DEF Inv, LateOnce
  <1>6. QED
    BY <1>2, <1>3, <1>4, <1>5 DEF Inv

LEMMA InvNext == Inv /\ [Next]_vars => Inv'
  <1>1. SUFFICES ASSUME Inv, [Next]_vars PROVE Inv'
    OBVIOUS
  <1>2. Stages /\ Covered /\ Single /\ LateOnce
    BY <1>1 DEF Inv
  <1>3. CASE UNCHANGED discoveryVars
    BY <1>1, <1>3, InvUnchanged
  <1>4. CASE FindProfiles
    BY <1>2, <1>4, StagesFindProfiles, CoveredFindProfiles, SingleFindProfiles, LateKept DEF Inv, Discover
  <1>5. CASE LookUp
    BY <1>2, <1>5, StagesLookUp, CoveredLookUp, SingleLookUp, LateKept DEF Inv, Discover
  <1>6. CASE AppendRecord
    BY <1>2, <1>6, StagesAppendRecord, CoveredAppendRecord, SingleAppendRecord, LateKept DEF Inv, Discover
  <1>7. CASE RulesDone
    BY <1>2, <1>7, StagesRulesDone, CoveredRulesDone, SingleRulesDone, LateKept DEF Inv, Discover
  <1>8. CASE BeginWalk
    BY <1>2, <1>8, StagesBeginWalk, CoveredBeginWalk, SingleBeginWalk, LateKept DEF Inv, Discover
  <1>9. CASE PopFolder
    BY <1>2, <1>9, StagesPopFolder, CoveredPopFolder, SinglePopFolder, LateKept DEF Inv, Discover
  <1>10. CASE VisitEntry
    BY <1>2, <1>10, StagesVisitEntry, CoveredVisitEntry, SingleVisitEntry, LateKept DEF Inv, Discover
  <1>11. CASE Return
    BY <1>2, <1>11, StagesReturn, CoveredReturn, SingleReturn, LateKept DEF Inv, Discover
  <1>12. CASE RequestCancel
    BY <1>2, <1>12, StagesCancel, CoveredCancel, SingleCancel, LateKept DEF Inv
  <1>13. UNCHANGED discoveryVars \/ Discover \/ RequestCancel
    <2>1. Next => UNCHANGED discoveryVars \/ Discover \/ RequestCancel
      BY MainKeepsDiscovery DEF Next, Walking, Cancel
    <2>2. UNCHANGED vars => UNCHANGED discoveryVars
      BY DEF vars
    <2>3. QED
      BY <1>1, <2>1, <2>2
  <1>14. QED
    BY <1>3, <1>4, <1>5, <1>6, <1>7, <1>8, <1>9, <1>10, <1>11, <1>12, <1>13 DEF Discover

(* The two descriptions of a walk agree, so the invariant says what the    *)
(* properties say.                                                         *)
LEMMA ReportByLevel ==
  ASSUME Stages
  PROVE  /\ TargetsOf(disk, profiles) \union AllOf(disk, "records", profiles) = Expected
         /\ AllOf(disk, "warnings", profiles) = Unread
  <1>1. TypedDisk(disk) /\ profiles \in Seq(STRING)
    BY DEF Stages
  <1>2. \A w \in TheWalks : w \in WalkT
    <2>1. Walks(profiles) \in Seq(WalkT)
      BY <1>1, WalksTyped
    <2>2. \A i \in 1 .. Len(Walks(profiles)) : Walks(profiles)[i] \in WalkT
      BY <2>1
    <2>3. QED
      BY <2>2 DEF TheWalks, Elements
  <1>3. \A w \in TheWalks : All(disk, "records", w) = Files(w) /\ All(disk, "warnings", w) = Unlisted(w)
    BY <1>1, <1>2, AllByLevel
  <1>4. AllOf(disk, "records", profiles) = UNION {Files(w) : w \in TheWalks}
    BY <1>3 DEF AllOf, TheWalks
  <1>5. AllOf(disk, "warnings", profiles) = UNION {Unlisted(w) : w \in TheWalks}
    BY <1>3 DEF AllOf, TheWalks
  <1>6. TargetsOf(disk, profiles) = {LookedUp(l) : l \in Elements(Lookups(profiles))}
    BY LookedUpIsLooked DEF TargetsOf
  <1>7. QED
    BY <1>4, <1>5, <1>6 DEF Expected, Unread

(* A discovery that was not cancelled reports every target and every file  *)
(* within the depth of its walk and nothing else, on any disk; where no    *)
(* folder lists a name twice nothing is reported twice, and after a        *)
(* cancellation at most one record is still appended (discover,            *)
(* appendRecursiveBySuffix).                                               *)
THEOREM DiscoveryReportIsComplete == Spec => []ReportIsComplete
  <1>1. Inv => ReportIsComplete
    <2>1. SUFFICES ASSUME Inv PROVE ReportIsComplete
      OBVIOUS
    <2>2. Stages /\ Covered /\ Single /\ LateOnce
      BY <2>1 DEF Inv
    <2>3. pc = "done" /\ ~cancelled => Elements(out) = Expected
      BY <2>2, ReportByLevel DEF Covered, CoveredAtEnd
    <2>4. DistinctNames => Distinct(out)
      BY <2>2 DEF DistinctNames, SetsNames, Single, OnceMade
    <2>5. late <= 1
      BY <2>2 DEF LateOnce
    <2>6. QED
      BY <2>3, <2>4, <2>5 DEF ReportIsComplete, Distinct
  <1>2. QED
    BY <1>1, InvInit, InvNext, PTL DEF Spec

(* It warns of every folder below the root of a walk that could not be     *)
(* listed, and of /Users, and of no other.                                 *)
THEOREM DiscoveryFailedFoldersWarned == Spec => []FailedFoldersWarned
  <1>1. Inv => FailedFoldersWarned
    <2>1. SUFFICES ASSUME Inv, pc = "done", ~cancelled
                   PROVE  Elements(warnings) = Unread \union (IF Readable(<<"Users">>) THEN {} ELSE {<<"Users">>})
      BY DEF FailedFoldersWarned
    <2>2. Stages /\ Covered
      BY <2>1 DEF Inv
    <2>3. Elements(warnings) = UsersUnread(disk) \union Unread
      BY <2>1, <2>2, ReportByLevel DEF Covered, CoveredAtEnd
    <2>4. UsersUnread(disk) = IF Readable(<<"Users">>) THEN {} ELSE {<<"Users">>}
      BY ReadableIsOpen DEF UsersUnread
    <2>5. QED
      BY <2>3, <2>4
  <1>2. QED
    BY <1>1, InvInit, InvNext, PTL DEF Spec
=============================================================================
