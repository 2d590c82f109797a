--------------------------------- MODULE Hive ---------------------------------
(***************************************************************************)
(* Registry hives (forensics/RegistryHive and the helpers of the detail    *)
(* providers that read one): key cells, the index lists that lead to their *)
(* subkeys, value cells, lookup by path and listing of children.           *)
(*                                                                         *)
(* A hive is [regf, root, cells].  cells maps an offset to what its cell   *)
(* holds; an offset outside the domain is one cellBody refuses.  A path is *)
(* a sequence of names.  The code compares names without regard to case,   *)
(* so a name stands for all its spellings.  What a value holds is a        *)
(* sequence of numbers.                                                    *)
(***************************************************************************)
EXTENDS Lists, SequencesExt

(* Cells lead to others by their offsets, any of which may lead nowhere.    *)
IsHive(h) ==
  \A c \in DOMAIN h.cells :
    LET cell == h.cells[c]
    IN  CASE cell.sig = "nk" -> cell.time \in Nat /\ cell.values \in Seq(Int)
          [] cell.sig \in {"vk", "data"} -> cell.data \in Seq(Int)
          [] cell.sig \in {"li", "lf", "lh", "ri"} -> cell.items \in Seq(Int)
          [] OTHER -> FALSE

NoCell == 0

MaxNesting == 2  \* bound: index lists inside index lists

Sig(h, c) == IF c \in DOMAIN h.cells THEN h.cells[c].sig ELSE "none"

(* A key cell too short for its header is no key; one just long enough has *)
(* values and subkeys but no name.                                         *)
Parses(h, c) == Sig(h, c) = "nk" /\ h.cells[c].body # "short"
Named(h, c)  == Sig(h, c) = "nk" /\ h.cells[c].body = "whole"

(* A value cell or data cell that is damaged is passed over in silence.    *)
Data(h, v)   == IF v.inline THEN v.data ELSE h.cells[v.at].data

GoodValue(h, v) == Sig(h, v) = "vk" /\ (h.cells[v].inline \/ Sig(h, h.cells[v].at) = "data")
ValueAt(h, v)   == [name |-> h.cells[v].name, type |-> h.cells[v].type, data |-> Data(h, h.cells[v])]

\* Mutant: the first damaged value ends the list.
ValuesToDamage(h, c) ==
  LET vs   == h.cells[c].values
      good == {n \in 0 .. Len(vs) : \A i \in 1 .. n : GoodValue(h, vs[i])}
  IN  [i \in 1 .. Cardinality(good) - 1 |-> ValueAt(h, vs[i])]

Values(h, c) ==
  LET good == Where(h.cells[c].values, LAMBDA v : GoodValue(h, v))
  IN  [i \in DOMAIN good |-> ValueAt(h, good[i])]

ValuesAt(h, c) == IF c = NoCell THEN <<>> ELSE Values(h, c)

(* What the lists hold, given what the lists in a list of lists do.        *)
Expanded(h, below) ==
  [l \in DOMAIN h.cells |->
     CASE Sig(h, l) \in {"li", "lf", "lh"} -> h.cells[l].items
       [] Sig(h, l) = "ri" ->
            Concat([i \in DOMAIN h.cells[l].items |->
                      IF h.cells[l].items[i] \in DOMAIN h.cells THEN below[h.cells[l].items[i]] ELSE <<>>])
       [] OTHER -> <<>>]

Subkeys(h, list) ==
  LET expand[d \in 0 .. MaxNesting + 1] ==
        IF d = 0 THEN [l \in DOMAIN h.cells |-> <<>>] ELSE Expanded(h, expand[d - 1])
  IN  IF list \in DOMAIN h.cells THEN expand[MaxNesting + 1][list] ELSE <<>>

HasSubkeys(h, c) == Sig(h, c) = "nk" /\ h.cells[c].count > 0

FirstOf(cells) == IF cells = <<>> THEN NoCell ELSE Head(cells)
Below(h, c, name) ==
  IF HasSubkeys(h, c)
    THEN FirstOf(Where(Subkeys(h, h.cells[c].list), LAMBDA s : Named(h, s) /\ h.cells[s].name = name))
    ELSE NoCell

(* The cell of the key at a path, or NoCell: the first match at each level, *)
(* no other is tried.                                                       *)
KeyAt(h, c) == IF Parses(h, c) THEN c ELSE NoCell
KeyByPath(h, path) ==
  LET at[i \in 0 .. Len(path)] == IF i = 0 THEN h.root ELSE Below(h, at[i - 1], path[i])
  IN  KeyAt(h, at[Len(path)])

(* The children of a key that is there; the caller tests that first.  The   *)
(* code walks the names a second time, to the cell it found before.         *)
ChildrenOf(h, c) ==
  IF c = NoCell \/ ~HasSubkeys(h, c) THEN <<>>
  ELSE Where(Subkeys(h, h.cells[c].list), LAMBDA s : Parses(h, s) /\ Named(h, s))
ChildKeys(h, path) == ChildrenOf(h, KeyByPath(h, path))

Opens(h) == h.regf /\ Parses(h, h.root)

-----------------------------------------------------------------------------
FindValue(vs, name) ==
  LET hits == Where(vs, LAMBDA v : v.name = name)
  IN  IF hits = <<>> THEN [name |-> "", type |-> 0, data |-> <<>>] ELSE Head(hits)

Dword == 4

(* The control set a SYSTEM hive was last started with.  When Select does   *)
(* not say, the first is taken, with a warning.                             *)
SetName == <<"ControlSet001", "ControlSet002">>
\* Mutant: the first control set is always taken.
ControlSetAssumed(h) == [name |-> SetName[1], warnings |-> {}]

SetNamedBy(current) ==
  IF current.name = "Current" /\ current.type = Dword /\ current.data # <<>>
    THEN [name |-> IF current.data[1] \in DOMAIN SetName THEN SetName[current.data[1]]
                                                         ELSE "ControlSet999",
          warnings |-> {}]
    ELSE [name |-> SetName[1], warnings |-> {"control set guessed"}]
ControlSet(h) == SetNamedBy(FindValue(ValuesAt(h, KeyByPath(h, <<"Select">>)), "Current"))

(* The order of a most-recently-used list: the names of its values, by the  *)
(* first of MRUList and MRUListEx; the latter ends at its terminator.       *)
Terminator == -1
MruLists   == {"MRUList", "MRUListEx"}
MruOrder(vs) ==
  LET lists == Where(vs, LAMBDA v : v.name \in MruLists)
      l     == Head(lists)
      ends  == {i \in DOMAIN l.data : l.name = "MRUListEx" /\ l.data[i] = Terminator}
  IN  IF lists = <<>> THEN <<>>
      ELSE IF ends = {} THEN l.data
      ELSE SubSeq(l.data, 1, (CHOOSE i \in ends : \A j \in ends : i <= j) - 1)
=============================================================================
