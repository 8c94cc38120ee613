------------------------- MODULE RouterConfigProofs -------------------------
(***************************************************************************)
(* What is written into a router's configuration is what is read back, and *)
(* writing it again changes nothing: for every element and item, every     *)
(* list section and every document.  What is written is a fold over a      *)
(* list, so the module starts with induction over one: a set of naturals   *)
(* that is not empty has a least member.                                   *)
(***************************************************************************)
EXTENDS Shapes, TLAPS, FiniteSetTheorems, SequenceTheorems

-----------------------------------------------------------------------------
(* Induction and folds.                                                      *)

LEMMA NatMin ==
  ASSUME NEW T \in SUBSET Nat, T # {}
  PROVE  \E x \in T : \A y \in T : x <= y
<1> DEFINE R == {r \in Nat \X Nat : r[1] < r[2]}
<1>0. IsWellFoundedOn(R, Nat)
  BY NatLessThanWellFounded DEF OpToRel
<1>1. PICK x \in T : \A y \in T : ~(<<y, x>> \in R)
  BY <1>0, WFMin
<1>2. \A y \in T : ~(y < x)
  BY <1>1
<1> QED
  BY <1>1, <1>2

LEMMA NatInduct ==
  ASSUME NEW S, 0 \in S, \A n \in Nat : n \in S => n + 1 \in S
  PROVE  \A n \in Nat : n \in S
<1> DEFINE T == {n \in Nat : n \notin S}
<1>1. SUFFICES ASSUME T # {} PROVE FALSE
  OBVIOUS
<1>2. PICK x \in T : \A y \in T : x <= y
  BY <1>1, NatMin
<1>3. x # 0 /\ x - 1 \in Nat /\ x - 1 + 1 = x /\ ~(x <= x - 1)
  OBVIOUS
<1>4. x - 1 \in S
  BY <1>2, <1>3
<1> QED
  BY <1>3, <1>4

\* One step of PutAt and one of Apply, and the steps of every fold by a name of its own, so
\* that one lemma speaks of them all.
Wrap(root, path, inner, i) ==
  With(Obj(Fields(Node(root, SubSeq(path, 1, Len(path) - i)))), path[Len(path) - i + 1], inner)
Overlay(c, d, s) == IF c[s] = <<>> THEN d ELSE WriteSection(s, c[s][1], d)
Do(o, x, y) ==
  CASE o.of = "Post"  -> Posted(x, y)
    [] o.of = "Node"  -> At(x, y)
    [] o.of = "PutAt" -> Wrap(o.root, o.path, x, y)
    [] o.of = "Ports" -> WriteSwitchPort(x, y)
    [] o.of = "Apply" -> Overlay(o.c, x, y)
    [] o.of = "Encode" -> EncodeField(o.item, x, y)
    [] o.of = "Kept" -> IF y \in o.kept THEN Append(x, y) ELSE x

IsFold(o, base, q, n, f) == f = [i \in 0..n |-> IF i = 0 THEN base ELSE Do(o, f[i - 1], q[i])]

LEMMA Runs ==
  ASSUME NEW o, NEW base, NEW q, NEW n \in Nat
  PROVE  \E f : IsFold(o, base, q, n, f)
<1> DEFINE S == {k \in Nat : \E f : IsFold(o, base, q, k, f)}
<1>1. 0 \in S
  <2>1. IsFold(o, base, q, 0, [i \in 0..0 |-> base])
    BY DEF IsFold
  <2> QED
    BY <2>1
<1>2. ASSUME NEW k \in Nat, k \in S PROVE k + 1 \in S
  <2>1. PICK g : IsFold(o, base, q, k, g)
    BY <1>2
  <2> DEFINE f == [i \in 0..(k + 1) |-> IF i <= k THEN g[i] ELSE Do(o, g[k], q[k + 1])]
  <2>2. ASSUME NEW i \in 0..(k + 1) PROVE f[i] = IF i = 0 THEN base ELSE Do(o, f[i - 1], q[i])
    <3>1. CASE i = 0
      BY <2>1, <3>1 DEF IsFold
    <3>2. CASE i # 0 /\ i <= k
      BY <2>1, <3>2 DEF IsFold
    <3>3. CASE i = k + 1
      BY <2>1, <3>3 DEF IsFold
    <3> QED
      BY <3>1, <3>2, <3>3
  <2>3. IsFold(o, base, q, k + 1, f)
    BY <2>2 DEF IsFold
  <2> QED
    BY <2>3
<1>3. \A k \in Nat : k \in S
  <2> HIDE DEF S
  <2> QED
    BY <1>1, <1>2, NatInduct
<1> QED
  BY <1>3

LEMMA NodeRuns ==
  ASSUME NEW root, NEW path, Len(path) \in Nat
  PROVE  \E f : /\ f[0] = root /\ Node(root, path) = f[Len(path)]
               /\ \A i \in 1..Len(path) : f[i] = At(f[i - 1], path[i])
<1> DEFINE g == CHOOSE g : g = [i \in 0..Len(path) |-> IF i = 0 THEN root ELSE At(g[i - 1], path[i])]
<1>1. \A x, y : Do([of |-> "Node"], x, y) = At(x, y)
  BY DEF Do
<1>2. PICK f : IsFold([of |-> "Node"], root, path, Len(path), f)
  BY Runs
<1>3. f = [i \in 0..Len(path) |-> IF i = 0 THEN root ELSE At(f[i - 1], path[i])]
  BY <1>1, <1>2 DEF IsFold
<1>4. g = [i \in 0..Len(path) |-> IF i = 0 THEN root ELSE At(g[i - 1], path[i])]
  BY <1>3
<1>5. Node(root, path) = g[Len(path)]
  BY DEF Node, Fold
<1> HIDE DEF g
<1>6. g[0] = root /\ \A i \in 1..Len(path) : g[i] = At(g[i - 1], path[i])
  BY <1>4
<1> QED
  BY <1>5, <1>6

PostAlong(d, q) == Fold(Posted, d, q)

LEMMA PostedRuns ==
  ASSUME NEW d, NEW q, Len(q) \in Nat
  PROVE  \E f : /\ f[0] = d /\ PostAlong(d, q) = f[Len(q)]
               /\ \A i \in 1..Len(q) : f[i] = Posted(f[i - 1], q[i])
<1> DEFINE g == CHOOSE g : g = [i \in 0..Len(q) |-> IF i = 0 THEN d ELSE Posted(g[i - 1], q[i])]
<1>1. \A x, y : Do([of |-> "Post"], x, y) = Posted(x, y)
  BY DEF Do
<1>2. PICK f : IsFold([of |-> "Post"], d, q, Len(q), f)
  BY Runs
<1>3. f = [i \in 0..Len(q) |-> IF i = 0 THEN d ELSE Posted(f[i - 1], q[i])]
  BY <1>1, <1>2 DEF IsFold
<1>4. g = [i \in 0..Len(q) |-> IF i = 0 THEN d ELSE Posted(g[i - 1], q[i])]
  BY <1>3
<1>5. PostAlong(d, q) = g[Len(q)]
  BY DEF PostAlong, Fold
<1> HIDE DEF g
<1>6. g[0] = d /\ \A i \in 1..Len(q) : g[i] = Posted(g[i - 1], q[i])
  BY <1>4
<1> QED
  BY <1>5, <1>6

LEMMA PortsRuns ==
  ASSUME NEW device, NEW items, Len(items) \in Nat
  PROVE  \E f : /\ f[0] = device /\ WriteSwitchPorts(device, items) = f[Len(items)]
               /\ \A i \in 1..Len(items) : f[i] = WriteSwitchPort(f[i - 1], items[i])
<1> DEFINE g == CHOOSE g : g = [i \in 0..Len(items) |-> IF i = 0 THEN device ELSE WriteSwitchPort(g[i - 1], items[i])]
<1>1. \A x, y : Do([of |-> "Ports"], x, y) = WriteSwitchPort(x, y)
  BY DEF Do
<1>2. PICK f : IsFold([of |-> "Ports"], device, items, Len(items), f)
  BY Runs
<1>3. f = [i \in 0..Len(items) |-> IF i = 0 THEN device ELSE WriteSwitchPort(f[i - 1], items[i])]
  BY <1>1, <1>2 DEF IsFold
<1>4. g = [i \in 0..Len(items) |-> IF i = 0 THEN device ELSE WriteSwitchPort(g[i - 1], items[i])]
  BY <1>3
<1>5. WriteSwitchPorts(device, items) = g[Len(items)]
  BY DEF WriteSwitchPorts, Fold
<1> HIDE DEF g
<1>6. g[0] = device /\ \A i \in 1..Len(items) : g[i] = WriteSwitchPort(g[i - 1], items[i])
  BY <1>4
<1> QED
  BY <1>5, <1>6

LEMMA ApplyRuns ==
  ASSUME NEW c, NEW d, Len(Sections) \in Nat
  PROVE  \E f : /\ f[0] = d /\ Apply(c, d) = f[Len(Sections)]
               /\ \A i \in 1..Len(Sections) : f[i] = Overlay(c, f[i - 1], Sections[i])
<1> DEFINE g == CHOOSE g : g = [i \in 0..Len(Sections) |-> IF i = 0 THEN d ELSE Overlay(c, g[i - 1], Sections[i])]
<1>1. \A x, y : Do([of |-> "Apply", c |-> c], x, y) = Overlay(c, x, y)
  BY DEF Do
<1>2. PICK f : IsFold([of |-> "Apply", c |-> c], d, Sections, Len(Sections), f)
  BY Runs
<1>3. f = [i \in 0..Len(Sections) |-> IF i = 0 THEN d ELSE Overlay(c, f[i - 1], Sections[i])]
  BY <1>1, <1>2 DEF IsFold
<1>4. g = [i \in 0..Len(Sections) |-> IF i = 0 THEN d ELSE Overlay(c, g[i - 1], Sections[i])]
  BY <1>3
<1>5. Apply(c, d) = g[Len(Sections)]
  BY DEF Apply, Overlay, Fold
<1> HIDE DEF g
<1>6. g[0] = d /\ \A i \in 1..Len(Sections) : g[i] = Overlay(c, g[i - 1], Sections[i])
  BY <1>4
<1> QED
  BY <1>5, <1>6

PutAlong(root, path, v, q) == Fold(LAMBDA inner, i : Wrap(root, path, inner, i), v, q)

LEMMA WrapRuns ==
  ASSUME NEW root, NEW path, NEW v, NEW q, Len(q) \in Nat
  PROVE  \E f : /\ f[0] = v /\ PutAlong(root, path, v, q) = f[Len(q)]
               /\ \A i \in 1..Len(q) : f[i] = Wrap(root, path, f[i - 1], q[i])
<1> DEFINE g == CHOOSE g : g = [i \in 0..Len(q) |-> IF i = 0 THEN v ELSE Wrap(root, path, g[i - 1], q[i])]
<1>1. \A x, y : Do([of |-> "PutAt", root |-> root, path |-> path], x, y) = Wrap(root, path, x, y)
  BY DEF Do
<1>2. PICK f : IsFold([of |-> "PutAt", root |-> root, path |-> path], v, q, Len(q), f)
  BY Runs
<1>3. f = [i \in 0..Len(q) |-> IF i = 0 THEN v ELSE Wrap(root, path, f[i - 1], q[i])]
  BY <1>1, <1>2 DEF IsFold
<1>4. g = [i \in 0..Len(q) |-> IF i = 0 THEN v ELSE Wrap(root, path, g[i - 1], q[i])]
  BY <1>3
<1>5. PutAlong(root, path, v, q) = g[Len(q)]
  BY DEF PutAlong, Fold
<1> HIDE DEF g
<1>6. g[0] = v /\ \A i \in 1..Len(q) : g[i] = Wrap(root, path, g[i - 1], q[i])
  BY <1>4
<1> QED
  BY <1>5, <1>6

LEMMA PutAtRuns ==
  ASSUME NEW root, NEW path, NEW v, Len(path) \in Nat
  PROVE  \E f : /\ f[0] = v /\ PutAt(root, path, v) = f[Len(path)]
               /\ \A i \in 1..Len(path) : f[i] = Wrap(root, path, f[i - 1], i)
<1> DEFINE q == [i \in 1..Len(path) |-> i]
<1>1. Len(q) = Len(path) /\ \A i \in 1..Len(path) : q[i] = i
  OBVIOUS
<1>2. PutAt(root, path, v) = PutAlong(root, path, v, q)
  BY DEF PutAt, PutAlong, Fold, Wrap
<1> HIDE DEF q
<1>3. PICK f : /\ f[0] = v /\ PutAlong(root, path, v, q) = f[Len(q)]
               /\ \A i \in 1..Len(q) : f[i] = Wrap(root, path, f[i - 1], q[i])
  BY <1>1, WrapRuns
<1> QED
  BY <1>1, <1>2, <1>3

-----------------------------------------------------------------------------
(* What a write does to what a document says.                                *)

LEMMA AtWith ==
  ASSUME NEW o, NEW k, NEW v, NEW j
  PROVE  At(With(o, k, v), j) = IF j = k THEN v ELSE At(o, j)
BY DEF At, With, Fields, Obj, Over

LEMMA FieldsWith ==
  ASSUME NEW o, NEW k, NEW v
  PROVE  DOMAIN Fields(With(o, k, v)) = {k} \cup DOMAIN Fields(o)
BY DEF With, Fields, Obj, Over

LEMMA FiniteOver ==
  ASSUME NEW f, NEW g, IsFiniteSet(DOMAIN f), IsFiniteSet(DOMAIN g)
  PROVE  IsFiniteSet(DOMAIN Over(f, g))
BY FS_Union DEF Over

LEMMA FiniteWith ==
  ASSUME NEW o, NEW k, NEW v, IsFiniteSet(DOMAIN Fields(o))
  PROVE  IsFiniteSet(DOMAIN Fields(With(o, k, v)))
<1>1. IsFiniteSet({k})
  BY FS_Singleton
<1>2. IsFiniteSet({k} \cup DOMAIN Fields(o))
  BY <1>1, FS_Union
<1> QED
  BY <1>2, FieldsWith

-----------------------------------------------------------------------------
(* One field of an element.                                                  *)

LEMMA AtOmit ==
  ASSUME NEW o, NEW k, NEW j
  PROVE  At(Omit(o, k), j) = IF j = k THEN Null ELSE At(o, j)
BY DEF At, Omit, Fields, Obj, Null

LEMMA AtPruned ==
  ASSUME NEW o, NEW k, NEW j
  PROVE  At(PruneEmpty(o, k), j) = IF j = k /\ At(o, k) = EmptyObj THEN Null ELSE At(o, j)
BY AtOmit DEF PruneEmpty

LEMMA Tags ==
  /\ Null[1] = "null" /\ EmptyObj[1] = "obj"
  /\ \A x : /\ Str(x)[1] = "str" /\ Str(x)[2] = x /\ Num(x)[1] = "num" /\ Num(x)[2] = x
            /\ Joined(x, FALSE)[1] = "csv" /\ Joined(x, FALSE)[2] = x
            /\ List(x)[1] = "list" /\ List(x)[2] = x /\ Bool(x)[1] = "bool" /\ Bool(x)[2] = x
<1>1. Null[1] = "null" /\ EmptyObj[1] = "obj"
  BY DEF Null, EmptyObj, Obj
<1>2. \A x : Str(x)[1] = "str" /\ Str(x)[2] = x /\ Num(x)[1] = "num" /\ Num(x)[2] = x
  BY DEF Str, Num
<1>3. \A x : Joined(x, FALSE)[1] = "csv" /\ Joined(x, FALSE)[2] = x
  BY DEF Joined
<1>4. \A x : List(x)[1] = "list" /\ List(x)[2] = x /\ Bool(x)[1] = "bool" /\ Bool(x)[2] = x
  BY DEF List, Bool
<1> QED
  BY <1>1, <1>2, <1>3, <1>4

LEMMA AtSame ==
  ASSUME NEW o, NEW k
  PROVE  At(Omit(o, k), k) = Null /\ \A v : At(With(o, k, v), k) = v
<1>1. At(Omit(o, k), k) = Null
  BY AtOmit
<1>2. \A v : At(With(o, k, v), k) = v
  BY AtWith
<1> QED
  BY <1>1, <1>2

\* An object of a function, and two objects that have the same at k.
Agree(o, p, k) == (k \in DOMAIN Fields(o) <=> k \in DOMAIN Fields(p)) /\ At(o, k) = At(p, k)

LEMMA FieldsOmit ==
  ASSUME NEW o, NEW k
  PROVE  DOMAIN Fields(Omit(o, k)) = DOMAIN Fields(o) \ {k}
BY DEF Omit, Fields, Obj

LEMMA OmitIsObj == ASSUME NEW o, NEW k PROVE IsObj(Omit(o, k))
<1>1. Fields(Omit(o, k)) = [j \in DOMAIN Fields(o) \ {k} |-> Fields(o)[j]]
  BY DEF Omit, Fields, Obj
<1> QED
  BY <1>1, FieldsOmit DEF IsObj, Omit

LEMMA WithIsObj == ASSUME NEW o, NEW k, NEW v PROVE IsObj(With(o, k, v))
<1> DEFINE f == Over([j \in {k} |-> v], Fields(o))
<1>1. With(o, k, v) = Obj(f) /\ Fields(Obj(f)) = f
  BY DEF With, Fields, Obj
<1>2. f = [j \in DOMAIN f |-> f[j]]
  BY DEF Over
<1> HIDE DEF f
<1> QED
  BY <1>1, <1>2 DEF IsObj

\* What is put at a key is put there alone.
Puts(o, k, p) == p = o \/ p = Omit(o, k) \/ \E v : p = With(o, k, v)

LEMMA PutsLeavesOthers ==
  ASSUME NEW o, NEW k, NEW p, Puts(o, k, p), NEW j, j # k
  PROVE  Agree(p, o, j)
<1>1. Agree(Omit(o, k), o, j)
  BY AtOmit, FieldsOmit DEF Agree
<1>2. ASSUME NEW v PROVE Agree(With(o, k, v), o, j)
  <2>1. At(With(o, k, v), j) = At(o, j)
    BY AtWith
  <2>2. DOMAIN Fields(With(o, k, v)) = {k} \cup DOMAIN Fields(o)
    BY FieldsWith
  <2> QED
    BY <2>1, <2>2 DEF Agree
<1>3. Agree(o, o, j)
  BY DEF Agree
<1> QED
  BY <1>1, <1>2, <1>3 DEF Puts

LEMMA PutsInObject ==
  ASSUME NEW o, NEW k, NEW p, Puts(o, k, p), IsObj(o)
  PROVE  IsObj(p)
BY OmitIsObj, WithIsObj DEF Puts

LEMMA PutsOne ==
  ASSUME NEW o, NEW k, NEW want
  PROVE  /\ Puts(o, k, PutString(o, k, want)) /\ Puts(o, k, PutPort(o, k, want)) /\ Puts(o, k, PutInt(o, k, want))
         /\ Puts(o, k, PutFlag(o, k, want)) /\ Puts(o, k, PutTri(o, k, want)) /\ Puts(o, k, PutCSV(o, k, want))
         /\ Puts(o, k, PutStringSet(o, k, want)) /\ Puts(o, k, PutIntSet(o, k, want))
<1>1. Puts(o, k, PutString(o, k, want))
  BY DEF PutString, Puts
<1>2. Puts(o, k, PutPort(o, k, want))
  BY <1>1 DEF PutPort, Puts
<1>3. Puts(o, k, PutInt(o, k, want))
  BY DEF PutInt, Puts
<1>4. Puts(o, k, PutFlag(o, k, want))
  BY DEF PutFlag, Puts
<1>5. Puts(o, k, PutTri(o, k, want))
  BY DEF PutTri, Puts
<1>6. Puts(o, k, PutCSV(o, k, want))
  BY DEF PutCSV, Puts
<1>7. Puts(o, k, PutStringSet(o, k, want))
  <2>1. Puts(o, k, PutStrings(o, k, want))
    BY DEF PutStrings, Puts
  <2> QED
    BY <2>1 DEF PutStringSet, Puts
<1>8. Puts(o, k, PutIntSet(o, k, want))
  BY DEF PutIntSet, Puts
<1> QED
  BY <1>1, <1>2, <1>3, <1>4, <1>5, <1>6, <1>7, <1>8

FieldKinds == {"string", "int", "number", "flag", "noflag", "tri", "csv", "set", "endpoint"}

\* A row's field is written at its own key.
LEMMA FieldLeavesOthers ==
  ASSUME NEW item, NEW e, NEW row, row[3] \in FieldKinds \cup {"destination"}, NEW j, j # row[2]
  PROVE  Agree(EncodeField(item, e, row), e, j)
<1> DEFINE p == EncodeField(item, e, row)
<1>1. CASE row[3] \in {"destination", "string"}
  <2>1. \E want : p = PutString(e, row[2], want)
    BY <1>1 DEF EncodeField
  <2> QED
    BY <2>1, PutsOne, PutsLeavesOthers
<1>2. CASE row[3] \in {"int", "number"}
  <2>1. \E want : p = PutInt(e, row[2], want)
    BY <1>2 DEF EncodeField
  <2> QED
    BY <2>1, PutsOne, PutsLeavesOthers
<1>3. CASE row[3] \in {"flag", "noflag"}
  <2>1. \E want : p = PutFlag(e, row[2], want)
    BY <1>3 DEF EncodeField
  <2> QED
    BY <2>1, PutsOne, PutsLeavesOthers
<1>4. CASE row[3] = "tri"
  <2>1. \E want : p = PutTri(e, row[2], want)
    BY <1>4 DEF EncodeField
  <2> QED
    BY <2>1, PutsOne, PutsLeavesOthers
<1>5. CASE row[3] = "csv"
  <2>1. \E want : p = PutCSV(e, row[2], want)
    BY <1>5 DEF EncodeField
  <2> QED
    BY <2>1, PutsOne, PutsLeavesOthers
<1>6. CASE row[3] = "set"
  <2>1. \E want : p = PutStringSet(e, row[2], want)
    BY <1>6 DEF EncodeField
  <2> QED
    BY <2>1, PutsOne, PutsLeavesOthers
<1>7. CASE row[3] = "endpoint"
  <2>1. p = EncodeEndpoint(e, row[2], item[row[1]])
    BY <1>7 DEF EncodeField
  <2>2. PICK v : EncodeEndpoint(e, row[2], item[row[1]]) = PruneEmpty(With(e, row[2], v), row[2])
    BY DEF EncodeEndpoint
  <2>3. PICK q : q = With(e, row[2], v)
    OBVIOUS
  <2>4. Puts(q, row[2], PruneEmpty(q, row[2])) /\ Puts(e, row[2], q)
    BY <2>3 DEF PruneEmpty, Puts
  <2>5. Agree(PruneEmpty(q, row[2]), q, j) /\ Agree(q, e, j)
    BY <2>4, PutsLeavesOthers
  <2> QED
    BY <2>1, <2>2, <2>3, <2>5 DEF Agree
<1> QED
  BY <1>1, <1>2, <1>3, <1>4, <1>5, <1>6, <1>7 DEF FieldKinds

\* A value is read back as it was written or in its stored form, and a set in whatever order
\* the element has it.
ReadsAs(kind, x, y) == x = y \/ x = Stored(kind, y) \/ (kind = "set" /\ SameMembers(x, y))

LEMMA StringReads ==
  ASSUME NEW o, NEW k, NEW want
  PROVE  AsString(At(PutString(o, k, want), k)) = want
<1>1. AsString(Null) = "" /\ AsString(Str(want)) = want
  BY Tags DEF AsString
<1>2. CASE want = ""
  BY <1>1, <1>2, AtSame DEF PutString
<1>3. CASE want # "" /\ AsString(At(o, k)) = want
  BY <1>3 DEF PutString
<1>4. CASE want # "" /\ AsString(At(o, k)) # want
  <2>1. PutString(o, k, want) = With(o, k, Str(want))
    BY <1>4 DEF PutString
  <2>2. At(With(o, k, Str(want)), k) = Str(want)
    BY AtSame
  <2> QED
    BY <1>1, <2>1, <2>2
<1> QED
  BY <1>2, <1>3, <1>4

LEMMA IntReads ==
  ASSUME NEW o, NEW k, NEW want \in Numbers \cup {NoInt}
  PROVE  AsInt(At(PutInt(o, k, want), k)) = want
<1>1. AsInt(Null) = NoInt
  BY Tags DEF AsInt
<1>2. want # NoInt => AsInt(Num(ToString(want))) = want
  BY Tags, DecimalAssumption DEF AsInt, Numbers
<1>3. CASE want = NoInt
  BY <1>1, <1>3, AtSame DEF PutInt
<1>4. CASE want # NoInt /\ AsInt(At(o, k)) = want
  BY <1>4 DEF PutInt
<1>5. CASE want # NoInt /\ AsInt(At(o, k)) # want
  <2>1. PutInt(o, k, want) = With(o, k, Num(ToString(want)))
    BY <1>5 DEF PutInt
  <2>2. At(With(o, k, Num(ToString(want))), k) = Num(ToString(want))
    BY AtSame
  <2> QED
    BY <1>2, <1>5, <2>1, <2>2
<1> QED
  BY <1>3, <1>4, <1>5

LEMMA FlagReads == ASSUME NEW o, NEW k, NEW want \in BOOLEAN PROVE AsFlag(At(PutFlag(o, k, want), k)) = want
<1>1. AsFlag(Bool(TRUE)) /\ ~AsFlag(Null)
  BY Tags DEF AsFlag
<1>3. CASE want
  <2>1. AsFlag(At(PutFlag(o, k, want), k))
    BY <1>1, <1>3, AtSame DEF PutFlag
  <2> QED
    BY <1>3, <2>1 DEF AsFlag
<1>4. CASE ~want
  <2>1. ~AsFlag(At(PutFlag(o, k, want), k))
    BY <1>1, <1>4, AtSame DEF PutFlag
  <2> QED
    BY <1>4, <2>1 DEF AsFlag
<1> QED
  BY <1>3, <1>4

LEMMA SetReads ==
  ASSUME NEW o, NEW k, NEW want, want = [i \in DOMAIN want |-> want[i]]
  PROVE  LET x == AsStrings(At(PutStringSet(o, k, want), k)) IN x = want \/ SameMembers(x, want)
<1> DEFINE v == List([i \in DOMAIN want |-> Str(want[i])])
<1>1. AsStrings(Null) = <<>>
  <2>1. Entries(Null) = <<>>
    BY Tags DEF Entries
  <2>2. \A q : q = <<>> => [i \in DOMAIN q |-> AsString(q[i])] = <<>>
    OBVIOUS
  <2> QED
    BY <2>1, <2>2 DEF AsStrings
<1>2. AsStrings(v) = want
  <2>1. Entries(v) = [i \in DOMAIN want |-> Str(want[i])]
    BY Tags DEF Entries
  <2>2. \A i \in DOMAIN want : AsString(Str(want[i])) = want[i]
    BY Tags DEF AsString
  <2> HIDE DEF v
  <2> QED
    BY <2>1, <2>2 DEF AsStrings
<1> HIDE DEF v
<1>3. AsStrings(At(PutStrings(o, k, want), k)) = want
  <2>1. CASE want = <<>>
    BY <1>1, <2>1, AtSame DEF PutStrings
  <2>2. CASE want # <<>> /\ AsStrings(At(o, k)) = want
    BY <2>2 DEF PutStrings
  <2>3. CASE want # <<>> /\ AsStrings(At(o, k)) # want
    <3>1. PutStrings(o, k, want) = With(o, k, v)
      BY <2>3 DEF PutStrings, v
    <3>2. At(With(o, k, v), k) = v
      BY AtSame
    <3> QED
      BY <1>2, <3>1, <3>2
  <2> QED
    BY <2>1, <2>2, <2>3
<1> QED
  BY <1>3 DEF PutStringSet

LEMMA PortReads ==
  ASSUME NEW o, NEW k, NEW want
  PROVE  LET x == AsString(At(PutPort(o, k, want), k)) IN x = want \/ x = Unpadded(want)
<1>1. \A t : AsString(Num(t)) = t
  BY Tags DEF AsString
<1>2. CASE want \in DOMAIN Decimal /\ AsString(At(o, k)) # want
  <2>1. PutPort(o, k, want) = With(o, k, Num(ToString(Decimal[want])))
    BY <1>2 DEF PutPort
  <2>2. At(PutPort(o, k, want), k) = Num(ToString(Decimal[want]))
    BY <2>1, AtSame
  <2> QED
    BY <1>1, <1>2, <2>2 DEF Unpadded
<1>3. CASE ~(want \in DOMAIN Decimal /\ AsString(At(o, k)) # want)
  <2>1. PutPort(o, k, want) = PutString(o, k, want)
    BY <1>3 DEF PutPort
  <2> QED
    BY <2>1, StringReads
<1> QED
  BY <1>2, <1>3

LEMMA EndpointReads ==
  ASSUME NEW o, NEW k, NEW x, Plain("endpoint", x)
  PROVE  LET y == DecodeEndpoint(EncodeEndpoint(o, k, x), k) IN y = x \/ y = Stored("endpoint", x)
<1> DEFINE inner == PutPort(PutString(Child(o, k), "address", x.Address), "port", x.Port)
           v == At(EncodeEndpoint(o, k, x), k)
<1>1. AsString(At(inner, "address")) = x.Address /\ AsString(At(inner, "port")) \in {x.Port, Unpadded(x.Port)}
  <2> DEFINE named == PutString(Child(o, k), "address", x.Address)
  <2>1. AsString(At(named, "address")) = x.Address
    BY StringReads
  <2> HIDE DEF named
  <2>2. AsString(At(PutPort(named, "port", x.Port), "port")) \in {x.Port, Unpadded(x.Port)}
    BY PortReads
  <2>3. At(PutPort(named, "port", x.Port), "address") = At(named, "address")
    BY PutsOne, PutsLeavesOthers DEF Agree
  <2> QED
    BY <2>1, <2>2, <2>3 DEF named
<1>2. v = IF inner = EmptyObj THEN Null ELSE inner
  BY AtPruned, AtWith DEF EncodeEndpoint
<1>3. \A j : At(EmptyObj, j) = Null /\ At(Null, j) = Null
  BY DEF At, EmptyObj, Fields, Obj, Null
<1> HIDE DEF inner, v
<1>4. AsString(At(v, "address")) = x.Address /\ AsString(At(v, "port")) \in {x.Port, Unpadded(x.Port)}
  BY <1>1, <1>2, <1>3
<1>5. x = [Address |-> x.Address, Port |-> x.Port]
  BY DEF Plain
<1>6. Stored("endpoint", x) = [Address |-> x.Address, Port |-> Unpadded(x.Port)]
  BY DEF Stored
<1>7. DecodeEndpoint(EncodeEndpoint(o, k, x), k) = [Address |-> AsString(At(v, "address")), Port |-> AsString(At(v, "port"))]
  BY DEF DecodeEndpoint, v
<1> QED
  BY <1>4, <1>5, <1>6, <1>7

LEMMA FieldReads ==
  ASSUME NEW item, NEW e, NEW row, row[3] \in FieldKinds, Plain(row[3], item[row[1]])
  PROVE  ReadsAs(row[3], DecodeField(EncodeField(item, e, row), row[2], row[3]), item[row[1]])
<1> DEFINE f == row[1]
           k == row[2]
           kind == row[3]
           x == item[f]
<1> HIDE DEF f, k, kind
<1>0. kind \in FieldKinds /\ Plain(kind, x)
  BY DEF f, kind
<1>1. SUFFICES ReadsAs(kind, DecodeField(EncodeField(item, e, row), k, kind), x)
  BY DEF f, k, kind
<1>2. CASE kind = "string"
  <2>1. EncodeField(item, e, row) = PutString(e, k, x)
    BY <1>2 DEF EncodeField, f, k, kind
  <2> QED
    BY <1>2, <2>1, StringReads DEF DecodeField, ReadsAs
<1>3. CASE kind \in {"int", "number"}
  <2>1. EncodeField(item, e, row) = PutInt(e, k, x)
    BY <1>3 DEF EncodeField, f, k, kind
  <2>2. x \in Numbers \cup {NoInt}
    BY <1>0, <1>3 DEF Plain
  <2>3. AsInt(At(PutInt(e, k, x), k)) = x
    BY <2>2, IntReads
  <2>4. kind = "number" => x # NoInt
    <3>1. \A n \in Numbers : n # NoInt
      BY DecimalAssumption DEF Numbers, NoInt
    <3> QED
      BY <1>0, <3>1 DEF Plain
  <2> QED
    BY <1>3, <2>1, <2>3, <2>4 DEF DecodeField, ReadsAs
<1>4. CASE kind \in {"flag", "noflag"}
  <2>1. EncodeField(item, e, row) = PutFlag(e, k, IF kind = "flag" THEN x ELSE ~x) /\ x \in BOOLEAN
    BY <1>0, <1>4 DEF EncodeField, f, k, kind, Plain
  <2>2. AsFlag(At(EncodeField(item, e, row), k)) = IF kind = "flag" THEN x ELSE ~x
    BY <2>1, FlagReads
  <2> QED
    BY <1>4, <2>1, <2>2 DEF DecodeField, ReadsAs
<1>5. CASE kind = "tri"
  <2>1. EncodeField(item, e, row) = PutTri(e, k, x) /\ (x = <<>> \/ x = <<x[1]>>)
    BY <1>0, <1>5 DEF EncodeField, f, k, kind, Plain
  <2>2. At(PutTri(e, k, x), k) = IF x = <<>> THEN Null ELSE Bool(x[1])
    BY AtSame DEF PutTri
  <2>3. DecodeField(EncodeField(item, e, row), k, kind) =
          IF At(PutTri(e, k, x), k)[1] = "bool" THEN <<At(PutTri(e, k, x), k)[2]>> ELSE <<>>
    BY <1>5, <2>1 DEF DecodeField
  <2> HIDE DEF x
  <2>4. DecodeField(EncodeField(item, e, row), k, kind) = x
    <3>1. CASE x = <<>>
      BY <2>2, <2>3, <3>1, Tags
    <3>2. CASE x # <<>>
      BY <2>1, <2>2, <2>3, <3>2, Tags
    <3> QED
      BY <3>1, <3>2
  <2> QED
    BY <2>4 DEF ReadsAs
<1>6. CASE kind = "csv"
  <2>1. EncodeField(item, e, row) = PutCSV(e, k, x)
    BY <1>6 DEF EncodeField, f, k, kind
  <2>2. At(PutCSV(e, k, x), k) = IF x \in {<<>>, <<"">>} THEN Null ELSE Joined(NamesIn(x), FALSE)
    BY AtSame DEF PutCSV
  <2>3. SplitCSV(Null) = <<>> /\ SplitCSV(Joined(NamesIn(x), FALSE)) = NamesIn(x)
    BY Tags DEF SplitCSV, AsString
  <2>4. DecodeField(EncodeField(item, e, row), k, kind) = SplitCSV(At(PutCSV(e, k, x), k))
    BY <1>6, <2>1 DEF DecodeField
  <2> HIDE DEF x
  <2>5. DecodeField(EncodeField(item, e, row), k, kind) = IF x \in {<<>>, <<"">>} THEN <<>> ELSE NamesIn(x)
    BY <2>2, <2>3, <2>4
  <2>6. Stored(kind, x) = IF x \in {<<>>, <<"">>} THEN <<>> ELSE NamesIn(x)
    BY <1>6, RejoinedAssumption DEF Stored, NamesIn
  <2> QED
    BY <2>5, <2>6 DEF ReadsAs
<1>7. CASE kind = "set"
  <2>1. EncodeField(item, e, row) = PutStringSet(e, k, x) /\ x = [i \in DOMAIN x |-> x[i]]
    <3>1. EncodeField(item, e, row) = PutStringSet(e, k, x)
      BY <1>7 DEF EncodeField, f, k, kind
    <3>2. Listing(x)
      BY <1>0, <1>7 DEF Plain
    <3> HIDE DEF x
    <3>3. x = [i \in DOMAIN x |-> x[i]]
      BY <3>2 DEF Listing
    <3> QED
      BY <3>1, <3>3
  <2>2. DecodeField(EncodeField(item, e, row), k, kind) = AsStrings(At(PutStringSet(e, k, x), k))
    BY <1>7, <2>1 DEF DecodeField
  <2> HIDE DEF x
  <2> QED
    BY <1>7, <2>1, <2>2, SetReads DEF ReadsAs
<1>8. CASE kind = "endpoint"
  <2>1. EncodeField(item, e, row) = EncodeEndpoint(e, k, x)
    BY <1>8 DEF EncodeField, f, k, kind
  <2>2. DecodeField(EncodeField(item, e, row), k, kind) = DecodeEndpoint(EncodeEndpoint(e, k, x), k)
    BY <1>8, <2>1 DEF DecodeField
  <2> HIDE DEF x
  <2> QED
    BY <1>0, <1>8, <2>2, EndpointReads DEF ReadsAs
<1> QED
  BY <1>0, <1>2, <1>3, <1>4, <1>5, <1>6, <1>7, <1>8 DEF FieldKinds

-----------------------------------------------------------------------------
(* An element, row by row.                                                   *)

LEMMA EncodeRuns ==
  ASSUME NEW fields, NEW item, NEW e, Len(fields) \in Nat
  PROVE  \E f : /\ f[0] = e /\ Encode(fields, item, e) = f[Len(fields)]
               /\ \A i \in 1..Len(fields) : f[i] = EncodeField(item, f[i - 1], fields[i])
<1> DEFINE g == CHOOSE g : g = [i \in 0..Len(fields) |-> IF i = 0 THEN e ELSE EncodeField(item, g[i - 1], fields[i])]
<1>1. \A x, y : Do([of |-> "Encode", item |-> item], x, y) = EncodeField(item, x, y)
  BY DEF Do
<1>2. PICK f : IsFold([of |-> "Encode", item |-> item], e, fields, Len(fields), f)
  BY Runs
<1>3. f = [i \in 0..Len(fields) |-> IF i = 0 THEN e ELSE EncodeField(item, f[i - 1], fields[i])]
  BY <1>1, <1>2 DEF IsFold
<1>4. g = [i \in 0..Len(fields) |-> IF i = 0 THEN e ELSE EncodeField(item, g[i - 1], fields[i])]
  BY <1>3
<1>5. Encode(fields, item, e) = g[Len(fields)]
  BY DEF Encode, Fold
<1> HIDE DEF g
<1>6. g[0] = e /\ \A i \in 1..Len(fields) : g[i] = EncodeField(item, g[i - 1], fields[i])
  BY <1>4
<1> QED
  BY <1>5, <1>6

\* A codec's rows have keys of their own, and names of their own but for a constant.
Table(fields) ==
  /\ Len(fields) \in Nat /\ DOMAIN fields = 1..Len(fields)
  /\ \A i \in DOMAIN fields : fields[i][3] \in FieldKinds \cup {"destination"}
  /\ \A i, j \in DOMAIN fields : i # j => fields[i][2] # fields[j][2]
  /\ \A i, j \in DOMAIN fields :
       i # j /\ fields[i][3] # "destination" /\ fields[j][3] # "destination" => fields[i][1] # fields[j][1]

LEMMA Tables ==
  Table(VLANFields) /\ Table(StaticRouteFields) /\ Table(PortForwardFields) /\ Table(FirewallRuleFields)
<1>1. Table(VLANFields)
  BY SMTT(60) DEF Table, VLANFields, FieldKinds
<1>2. Table(StaticRouteFields)
  BY SMTT(60) DEF Table, StaticRouteFields, FieldKinds
<1>3. Table(PortForwardFields)
  BY SMTT(60) DEF Table, PortForwardFields, FieldKinds
<1>4. Table(FirewallRuleFields)
  BY SMTT(60) DEF Table, FirewallRuleFields, FieldKinds
<1> QED
  BY <1>1, <1>2, <1>3, <1>4

-----------------------------------------------------------------------------
(* Writing a field once more.                                                *)

LEMMA OmitAbsent ==
  ASSUME NEW o, NEW k, IsObj(o), k \notin DOMAIN Fields(o)
  PROVE  Omit(o, k) = o
<1>1. DOMAIN Fields(o) \ {k} = DOMAIN Fields(o)
  OBVIOUS
<1> QED
  BY <1>1 DEF Omit, IsObj

LEMMA WithSame ==
  ASSUME NEW o, NEW k, IsObj(o), k \in DOMAIN Fields(o)
  PROVE  With(o, k, At(o, k)) = o
<1>1. Over([j \in {k} |-> At(o, k)], Fields(o)) = [j \in DOMAIN Fields(o) |-> Fields(o)[j]]
  BY DEF Over, At
<1> QED
  BY <1>1 DEF With, IsObj

LEMMA OmitWith ==
  ASSUME NEW o, NEW k, NEW v, IsObj(o), k \notin DOMAIN Fields(o)
  PROVE  Omit(With(o, k, v), k) = o
<1>1. Fields(With(o, k, v)) = Over([j \in {k} |-> v], Fields(o))
  BY DEF With, Fields, Obj
<1>2. DOMAIN Fields(With(o, k, v)) \ {k} = DOMAIN Fields(o)
  <2>1. DOMAIN Fields(With(o, k, v)) = {k} \cup DOMAIN Fields(o)
    BY FieldsWith
  <2> QED
    BY <2>1
<1>3. \A j \in DOMAIN Fields(o) : Fields(With(o, k, v))[j] = Fields(o)[j]
  BY <1>1 DEF Over
<1>4. [j \in DOMAIN Fields(With(o, k, v)) \ {k} |-> Fields(With(o, k, v))[j]] = [j \in DOMAIN Fields(o) |-> Fields(o)[j]]
  BY <1>2, <1>3
<1> QED
  BY <1>4 DEF Omit, IsObj

\* p is what putting a value at k makes of o, and q has the same at k as p.
Settled(q, p, k) == IsObj(q) /\ Agree(q, p, k)

LEMMA SettledOmit ==
  ASSUME NEW o, NEW k, NEW q, Settled(q, Omit(o, k), k)
  PROVE  Omit(q, k) = q /\ At(q, k) = Null
<1>1. k \notin DOMAIN Fields(q)
  BY FieldsOmit DEF Settled, Agree
<1> QED
  BY <1>1, OmitAbsent DEF Settled, At

LEMMA SettledWith ==
  ASSUME NEW o, NEW k, NEW v, NEW q, Settled(q, With(o, k, v), k)
  PROVE  With(q, k, v) = q /\ At(q, k) = v
<1>1. k \in DOMAIN Fields(q)
  <2>1. DOMAIN Fields(With(o, k, v)) = {k} \cup DOMAIN Fields(o)
    BY FieldsWith
  <2> QED
    BY <2>1 DEF Settled, Agree
<1>2. At(q, k) = v
  <2>1. At(With(o, k, v), k) = v
    BY AtSame
  <2> QED
    BY <2>1 DEF Settled, Agree
<1> QED
  BY <1>1, <1>2, WithSame DEF Settled

LEMMA StringAgain ==
  ASSUME NEW o, NEW k, NEW want, NEW q, Settled(q, PutString(o, k, want), k)
  PROVE  PutString(q, k, want) = q
<1>1. CASE want = ""
  <2>1. PutString(o, k, want) = Omit(o, k) /\ PutString(q, k, want) = Omit(q, k)
    BY <1>1 DEF PutString
  <2> QED
    BY <2>1, SettledOmit
<1>2. CASE want # ""
  <2>1. AsString(At(q, k)) = want
    BY StringReads DEF Settled, Agree
  <2> QED
    BY <1>2, <2>1 DEF PutString
<1> QED
  BY <1>1, <1>2

LEMMA PortAgain ==
  ASSUME NEW o, NEW k, NEW want, NEW q, Settled(q, PutPort(o, k, want), k)
  PROVE  PutPort(q, k, want) = q
<1> DEFINE v == Num(ToString(Decimal[want]))
<1>1. CASE want \in DOMAIN Decimal /\ AsString(At(o, k)) # want
  <2>1. PutPort(o, k, want) = With(o, k, v)
    BY <1>1 DEF PutPort
  <2> HIDE DEF v
  <2>2. With(q, k, v) = q
    BY <2>1, SettledWith
  <2>3. want # ""
    BY <1>1, EmptyIsNoNumber
  <2>4. CASE AsString(At(q, k)) # want
    BY <1>1, <2>2, <2>4 DEF PutPort, v
  <2>5. CASE AsString(At(q, k)) = want
    BY <2>3, <2>5 DEF PutPort, PutString
  <2> QED
    BY <2>4, <2>5
<1>2. CASE ~(want \in DOMAIN Decimal /\ AsString(At(o, k)) # want)
  <2>1. PutPort(o, k, want) = PutString(o, k, want)
    BY <1>2 DEF PutPort
  <2>2. PutString(q, k, want) = q
    BY <2>1, StringAgain
  <2>3. AsString(At(q, k)) = want
    BY <2>1, StringReads DEF Settled, Agree
  <2> QED
    BY <2>2, <2>3 DEF PutPort
<1> QED
  BY <1>1, <1>2

LEMMA IntAgain ==
  ASSUME NEW o, NEW k, NEW want, NEW q, Settled(q, PutInt(o, k, want), k)
  PROVE  PutInt(q, k, want) = q
<1> DEFINE v == Num(ToString(want))
<1>1. CASE want = NoInt
  <2>1. PutInt(o, k, want) = Omit(o, k) /\ PutInt(q, k, want) = Omit(q, k)
    BY <1>1 DEF PutInt
  <2> QED
    BY <2>1, SettledOmit
<1>2. CASE want # NoInt /\ AsInt(At(o, k)) = want
  <2>1. PutInt(o, k, want) = o
    BY <1>2 DEF PutInt
  <2>2. AsInt(At(q, k)) = want
    BY <1>2, <2>1 DEF Settled, Agree
  <2> QED
    BY <1>2, <2>2 DEF PutInt
<1>3. CASE want # NoInt /\ AsInt(At(o, k)) # want
  <2>1. PutInt(o, k, want) = With(o, k, v)
    BY <1>3 DEF PutInt
  <2> HIDE DEF v
  <2>2. With(q, k, v) = q
    BY <2>1, SettledWith
  <2> QED
    BY <1>3, <2>2 DEF PutInt, v
<1> QED
  BY <1>1, <1>2, <1>3

LEMMA FlagAgain ==
  ASSUME NEW o, NEW k, NEW want, NEW q, Settled(q, PutFlag(o, k, want), k)
  PROVE  PutFlag(q, k, want) = q
<1>1. CASE want
  <2>1. PutFlag(o, k, want) = With(o, k, Bool(TRUE)) /\ PutFlag(q, k, want) = With(q, k, Bool(TRUE))
    BY <1>1 DEF PutFlag
  <2>2. Settled(q, With(o, k, Bool(TRUE)), k)
    BY <2>1
  <2>3. With(q, k, Bool(TRUE)) = q
    BY <2>2, SettledWith
  <2> QED
    BY <2>1, <2>3
<1>2. CASE ~want
  <2>1. PutFlag(o, k, want) = Omit(o, k) /\ PutFlag(q, k, want) = Omit(q, k)
    BY <1>2 DEF PutFlag
  <2> QED
    BY <2>1, SettledOmit
<1> QED
  BY <1>1, <1>2

LEMMA TriAgain ==
  ASSUME NEW o, NEW k, NEW want, NEW q, Settled(q, PutTri(o, k, want), k)
  PROVE  PutTri(q, k, want) = q
<1>1. CASE want = <<>>
  <2>1. PutTri(o, k, want) = Omit(o, k) /\ PutTri(q, k, want) = Omit(q, k)
    BY <1>1 DEF PutTri
  <2> QED
    BY <2>1, SettledOmit
<1>2. CASE want # <<>>
  <2>1. PutTri(o, k, want) = With(o, k, Bool(want[1])) /\ PutTri(q, k, want) = With(q, k, Bool(want[1]))
    BY <1>2 DEF PutTri
  <2>2. Settled(q, With(o, k, Bool(want[1])), k)
    BY <2>1
  <2>3. With(q, k, Bool(want[1])) = q
    BY <2>2, SettledWith
  <2> QED
    BY <2>1, <2>3
<1> QED
  BY <1>1, <1>2

LEMMA CSVAgain ==
  ASSUME NEW o, NEW k, NEW want, NEW q, Settled(q, PutCSV(o, k, want), k)
  PROVE  PutCSV(q, k, want) = q
<1>1. CASE want \in {<<>>, <<"">>}
  <2>1. PutCSV(o, k, want) = Omit(o, k) /\ PutCSV(q, k, want) = Omit(q, k)
    BY <1>1 DEF PutCSV
  <2> QED
    BY <2>1, SettledOmit
<1>2. CASE want \notin {<<>>, <<"">>}
  <2>1. PutCSV(o, k, want) = With(o, k, Joined(NamesIn(want), FALSE)) /\ PutCSV(q, k, want) = With(q, k, Joined(NamesIn(want), FALSE))
    BY <1>2 DEF PutCSV
  <2>2. Settled(q, With(o, k, Joined(NamesIn(want), FALSE)), k)
    BY <2>1
  <2>3. With(q, k, Joined(NamesIn(want), FALSE)) = q
    BY <2>2, SettledWith
  <2> QED
    BY <2>1, <2>3
<1> QED
  BY <1>1, <1>2

LEMMA SetAgain ==
  ASSUME NEW o, NEW k, NEW want, want = [i \in DOMAIN want |-> want[i]],
         NEW q, Settled(q, PutStringSet(o, k, want), k)
  PROVE  PutStringSet(q, k, want) = q
<1>1. SameMembers(want, want)
  BY DEF SameMembers
<1>2. AsStrings(At(q, k)) = want \/ SameMembers(AsStrings(At(q, k)), want)
  BY SetReads DEF Settled, Agree
<1> QED
  BY <1>1, <1>2 DEF PutStringSet

LEMMA EmptyObject == Omit(EmptyObj, "address") = EmptyObj /\ IsObj(EmptyObj) /\ Obj(Fields(Null)) = EmptyObj
<1>1. EmptyObj = Obj(<<>>) /\ Fields(EmptyObj) = <<>> /\ Fields(Null) = <<>>
  BY DEF EmptyObj, Fields, Obj, Null
<1>2. [j \in DOMAIN <<>> |-> <<>>[j]] = <<>>
  OBVIOUS
<1>3. IsObj(EmptyObj)
  BY <1>1, <1>2 DEF IsObj
<1>4. "address" \notin DOMAIN Fields(EmptyObj)
  BY <1>1
<1> QED
  BY <1>1, <1>3, <1>4, OmitAbsent

LEMMA EndpointAgain ==
  ASSUME NEW o, NEW k, NEW x, IsObj(Child(o, k)), NEW q, Settled(q, EncodeEndpoint(o, k, x), k)
  PROVE  EncodeEndpoint(q, k, x) = q
<1> DEFINE Named(c) == PutString(c, "address", x.Address)
           inner(c) == PutPort(Named(c), "port", x.Port)
           c == Child(o, k)
           p == inner(c)
<1>1. Puts(c, "address", Named(c)) /\ Puts(Named(c), "port", p)
  BY PutsOne
<1>2. IsObj(p)
  <2>1. IsObj(c)
    OBVIOUS
  <2>2. IsObj(Named(c))
    BY <1>1, <2>1, PutsInObject
  <2> QED
    BY <1>1, <2>2, PutsInObject
<1>3. inner(p) = p
  <2>1. Agree(p, Named(c), "address")
    BY <1>1, PutsLeavesOthers
  <2>2. Named(p) = p
    BY <1>2, <2>1, StringAgain DEF Settled
  <2>3. Agree(p, p, "port")
    BY DEF Agree
  <2>4. PutPort(p, "port", x.Port) = p
    BY <1>2, <2>3, PortAgain DEF Settled
  <2> QED
    BY <2>2, <2>4
<1> HIDE DEF p
<1>4. EncodeEndpoint(o, k, x) = PruneEmpty(With(o, k, p), k)
  BY DEF EncodeEndpoint, p
<1>5. EncodeEndpoint(q, k, x) = PruneEmpty(With(q, k, inner(Child(q, k))), k)
  BY DEF EncodeEndpoint
<1> HIDE DEF inner, Named
<1>6. CASE p = EmptyObj
  <2>1. EncodeEndpoint(o, k, x) = Omit(With(o, k, p), k)
    BY <1>4, <1>6, AtSame DEF PruneEmpty
  <2>2. k \notin DOMAIN Fields(q) /\ At(q, k) = Null
    <3>1. DOMAIN Fields(Omit(With(o, k, p), k)) = DOMAIN Fields(With(o, k, p)) \ {k}
      BY FieldsOmit
    <3> QED
      BY <2>1, <3>1 DEF Settled, Agree, At
  <2>3. inner(Child(q, k)) = p
    BY <1>3, <1>6, <2>2, EmptyObject DEF Child
  <2>4. EncodeEndpoint(q, k, x) = Omit(With(q, k, p), k)
    <3>1. At(With(q, k, p), k) = p
      BY AtSame
    <3> QED
      BY <1>5, <1>6, <2>3, <3>1 DEF PruneEmpty
  <2> QED
    BY <2>2, <2>4, OmitWith DEF Settled
<1>7. CASE p # EmptyObj
  <2>1. EncodeEndpoint(o, k, x) = With(o, k, p)
    BY <1>4, <1>7, AtSame DEF PruneEmpty
  <2>2. With(q, k, p) = q /\ At(q, k) = p
    BY <2>1, SettledWith
  <2>3. Child(q, k) = p
    <3>1. Fields(p) = p[2] /\ p = Obj(Fields(p))
      BY <1>2 DEF IsObj, Fields, Obj
    <3> QED
      BY <2>2, <3>1 DEF Child
  <2> QED
    BY <1>3, <1>5, <1>7, <2>2, <2>3 DEF PruneEmpty
<1> QED
  BY <1>6, <1>7

LEMMA FieldAgain ==
  ASSUME NEW item, NEW o, NEW row, row[3] \in FieldKinds \cup {"destination"},
         row[3] = "set" => item[row[1]] = [i \in DOMAIN item[row[1]] |-> item[row[1]][i]],
         row[3] = "endpoint" => IsObj(Child(o, row[2])), NEW q, Settled(q, EncodeField(item, o, row), row[2])
  PROVE  EncodeField(item, q, row) = q
<1>1. CASE row[3] \in {"destination", "string"}
  <2>1. PICK want : want = IF row[3] = "string" THEN item[row[1]] ELSE "destination"
    OBVIOUS
  <2>2. \A e : EncodeField(item, e, row) = PutString(e, row[2], want)
    BY <1>1, <2>1 DEF EncodeField
  <2> QED
    BY <2>2, StringAgain
<1>2. CASE row[3] \in {"int", "number"}
  <2>1. \A e : EncodeField(item, e, row) = PutInt(e, row[2], item[row[1]])
    BY <1>2 DEF EncodeField
  <2> QED
    BY <2>1, IntAgain
<1>3. CASE row[3] = "flag"
  <2>1. \A e : EncodeField(item, e, row) = PutFlag(e, row[2], item[row[1]])
    BY <1>3 DEF EncodeField
  <2> QED
    BY <2>1, FlagAgain
<1>4. CASE row[3] = "noflag"
  <2>1. \A e : EncodeField(item, e, row) = PutFlag(e, row[2], ~item[row[1]])
    BY <1>4 DEF EncodeField
  <2> QED
    BY <2>1, FlagAgain
<1>5. CASE row[3] = "tri"
  <2>1. \A e : EncodeField(item, e, row) = PutTri(e, row[2], item[row[1]])
    BY <1>5 DEF EncodeField
  <2> QED
    BY <2>1, TriAgain
<1>6. CASE row[3] = "csv"
  <2>1. \A e : EncodeField(item, e, row) = PutCSV(e, row[2], item[row[1]])
    BY <1>6 DEF EncodeField
  <2> QED
    BY <2>1, CSVAgain
<1>7. CASE row[3] = "set"
  <2>1. \A e : EncodeField(item, e, row) = PutStringSet(e, row[2], item[row[1]])
    BY <1>7 DEF EncodeField
  <2>2. PICK want : want = item[row[1]] /\ want = [i \in DOMAIN want |-> want[i]]
    BY <1>7
  <2> QED
    BY <2>1, <2>2, SetAgain
<1>8. CASE row[3] = "endpoint"
  <2>1. \A e : EncodeField(item, e, row) = EncodeEndpoint(e, row[2], item[row[1]])
    BY <1>8 DEF EncodeField
  <2> QED
    BY <1>8, <2>1, EndpointAgain
<1> QED
  BY <1>1, <1>2, <1>3, <1>4, <1>5, <1>6, <1>7, <1>8 DEF FieldKinds

-----------------------------------------------------------------------------
(* A whole element.                                                          *)

\* Each row's key ends as its own row left it, the others as they were.
LEMMA RowsSettle ==
  ASSUME NEW fields, Table(fields), NEW item, NEW e
  PROVE  /\ \A k : (\A i \in DOMAIN fields : fields[i][2] # k) => Agree(Encode(fields, item, e), e, k)
         /\ \A i \in DOMAIN fields : \E o :
              /\ Agree(o, e, fields[i][2])
              /\ Agree(Encode(fields, item, e), EncodeField(item, o, fields[i]), fields[i][2])
<1> DEFINE n == Len(fields)
<1>1. PICK f : /\ f[0] = e /\ Encode(fields, item, e) = f[n]
               /\ \A i \in 1..n : f[i] = EncodeField(item, f[i - 1], fields[i])
  BY EncodeRuns DEF Table
<1>2. n \in Nat /\ DOMAIN fields = 1..n
  BY DEF Table
<1> HIDE DEF n
<1>3. ASSUME NEW k, NEW a \in 0..n, NEW b \in a..n, \A i \in (a + 1)..b : fields[i][2] # k
      PROVE  Agree(f[b], f[a], k)
  <2> DEFINE S == {m \in Nat : a + m <= b => Agree(f[a + m], f[a], k)}
  <2>1. 0 \in S
    BY <1>2 DEF Agree
  <2>2. ASSUME NEW m \in Nat, m \in S PROVE m + 1 \in S
    <3>1. SUFFICES ASSUME a + m + 1 <= b PROVE Agree(f[a + m + 1], f[a], k)
      BY <1>2
    <3> DEFINE i == a + m + 1
    <3>2. i \in 1..n /\ i \in (a + 1)..b /\ i - 1 = a + m /\ a + m <= b
      BY <1>2, <3>1
    <3> HIDE DEF i
    <3>3. f[i] = EncodeField(item, f[a + m], fields[i])
      BY <1>1, <3>2
    <3>4. fields[i][3] \in FieldKinds \cup {"destination"} /\ k # fields[i][2]
      BY <1>2, <1>3, <3>2 DEF Table
    <3>5. Agree(f[i], f[a + m], k)
      BY <3>3, <3>4, FieldLeavesOthers
    <3>6. Agree(f[a + m], f[a], k)
      BY <2>2, <3>2
    <3> QED
      BY <3>5, <3>6 DEF Agree, i
  <2>3. \A m \in Nat : m \in S
    <3> HIDE DEF S
    <3> QED
      BY <2>1, <2>2, NatInduct
  <2>4. b - a \in Nat /\ a + (b - a) = b
    BY <1>2
  <2> QED
    BY <2>3, <2>4
<1>4. ASSUME NEW k, \A i \in DOMAIN fields : fields[i][2] # k PROVE Agree(f[n], e, k)
  <2>1. 0 \in 0..n /\ n \in 0..n /\ \A i \in (0 + 1)..n : fields[i][2] # k
    BY <1>2, <1>4
  <2> QED
    BY <1>1, <1>3, <2>1
<1>5. ASSUME NEW i \in DOMAIN fields
      PROVE  \E o : Agree(o, e, fields[i][2]) /\ Agree(f[n], EncodeField(item, o, fields[i]), fields[i][2])
  <2>1. i \in 1..n /\ i - 1 \in 0..n /\ 0 \in 0..n /\ i - 1 \in 0..(i - 1) /\ n \in i..n /\ i \in 0..n /\ i - 1 \in 0..n
    BY <1>2
  <2>2. \A j \in (0 + 1)..(i - 1) : fields[j][2] # fields[i][2]
    BY <1>2, <2>1 DEF Table
  <2>3. \A j \in (i + 1)..n : fields[j][2] # fields[i][2]
    BY <1>2, <2>1 DEF Table
  <2>4. Agree(f[i - 1], f[0], fields[i][2])
    BY <1>3, <2>1, <2>2
  <2>5. Agree(f[n], f[i], fields[i][2])
    BY <1>3, <2>1, <2>3
  <2>6. f[i] = EncodeField(item, f[i - 1], fields[i])
    BY <1>1, <2>1
  <2> QED
    BY <1>1, <2>4, <2>5, <2>6
<1> QED
  BY <1>1, <1>4, <1>5

LEMMA FieldInObject ==
  ASSUME NEW item, NEW e, NEW row, row[3] \in FieldKinds \cup {"destination"}, IsObj(e)
  PROVE  IsObj(EncodeField(item, e, row))
<1> DEFINE p == EncodeField(item, e, row)
<1>1. CASE row[3] # "endpoint"
  <2>1. \E want : \/ p = PutString(e, row[2], want) \/ p = PutInt(e, row[2], want)
                  \/ p = PutFlag(e, row[2], want) \/ p = PutTri(e, row[2], want)
                  \/ p = PutCSV(e, row[2], want) \/ p = PutStringSet(e, row[2], want)
    <3>1. CASE row[3] \in {"destination", "string", "int", "number"}
      BY <3>1 DEF EncodeField
    <3>2. CASE row[3] \in {"flag", "noflag"}
      BY <3>2 DEF EncodeField
    <3>3. CASE row[3] \in {"tri", "csv", "set"}
      BY <3>3 DEF EncodeField
    <3> QED
      BY <1>1, <3>1, <3>2, <3>3 DEF FieldKinds
  <2> HIDE DEF p
  <2>2. Puts(e, row[2], p)
    BY <2>1, PutsOne
  <2>3. IsObj(p)
    BY <2>2, PutsInObject
  <2> QED
    BY <2>3 DEF p
<1>2. CASE row[3] = "endpoint"
  <2>1. PICK v : p = PruneEmpty(With(e, row[2], v), row[2])
    BY <1>2 DEF EncodeField, EncodeEndpoint
  <2> QED
    BY <2>1, OmitIsObj, WithIsObj DEF PruneEmpty
<1> QED
  BY <1>1, <1>2

LEMMA EncodedInObject ==
  ASSUME NEW fields, Table(fields), NEW item, NEW e, IsObj(e)
  PROVE  IsObj(Encode(fields, item, e))
<1> DEFINE n == Len(fields)
<1>1. n \in Nat /\ DOMAIN fields = 1..n
  BY DEF Table
<1> HIDE DEF n
<1>2. PICK f : /\ f[0] = e /\ Encode(fields, item, e) = f[n]
               /\ \A i \in 1..n : f[i] = EncodeField(item, f[i - 1], fields[i])
  BY <1>1, EncodeRuns DEF n
<1> DEFINE S == {m \in Nat : m <= n => IsObj(f[m])}
<1>3. 0 \in S
  BY <1>2
<1>4. ASSUME NEW m \in Nat, m \in S PROVE m + 1 \in S
  <2>1. SUFFICES ASSUME m + 1 <= n PROVE IsObj(f[m + 1])
    OBVIOUS
  <2>2. m + 1 \in 1..n /\ (m + 1) - 1 = m /\ m <= n
    BY <1>1, <2>1
  <2>3. IsObj(f[m]) /\ f[m + 1] = EncodeField(item, f[m], fields[m + 1])
    BY <1>2, <1>4, <2>2
  <2>4. fields[m + 1][3] \in FieldKinds \cup {"destination"}
    BY <1>1, <2>2 DEF Table
  <2> QED
    BY <2>3, <2>4, FieldInObject
<1>5. \A m \in Nat : m \in S
  <2> HIDE DEF S
  <2> QED
    BY <1>3, <1>4, NatInduct
<1> QED
  BY <1>1, <1>2, <1>5

LEMMA RowOf ==
  ASSUME NEW path, NEW order, NEW fields, NEW f \in DOMAIN ListCodec(path, order, fields).row
  PROVE  \E i \in DOMAIN fields :
           ListCodec(path, order, fields).row[f] = fields[i] /\ fields[i][1] = f /\ fields[i][3] # "destination"
<1> DEFINE read == {row \in ToSet(fields) : row[3] # "destination"}
           rows == [g \in {row[1] : row \in read} |-> CHOOSE row \in read : row[1] = g]
<1>1. ListCodec(path, order, fields).row = rows
  BY DEF ListCodec
<1>2. PICK r \in read : r[1] = f
  BY <1>1
<1>3. rows[f] = CHOOSE row \in read : row[1] = f
  BY <1>1
<1>4. rows[f] \in read /\ rows[f][1] = f
  BY <1>2, <1>3
<1> HIDE DEF rows
<1>5. \A row \in read : \E i \in DOMAIN fields : row = fields[i] /\ fields[i][3] # "destination"
  BY DEF ToSet
<1> QED
  BY <1>1, <1>4, <1>5

LEMMA Codecs ==
  ASSUME NEW s \in DOMAIN Codec
  PROVE  /\ Table(Codec[s].fields)
         /\ \A f \in DOMAIN Codec[s].row : \E i \in DOMAIN Codec[s].fields :
              /\ Codec[s].row[f] = Codec[s].fields[i] /\ Codec[s].fields[i][1] = f
              /\ Codec[s].fields[i][3] # "destination"
<1>1. \E path, order, fields : Codec[s] = ListCodec(path, order, fields) /\ Table(fields)
  BY Tables DEF Codec
<1>2. PICK path, order, fields : Codec[s] = ListCodec(path, order, fields) /\ Table(fields)
  BY <1>1
<1>3. Codec[s].fields = fields
  BY <1>2 DEF ListCodec
<1> QED
  BY <1>2, <1>3, RowOf

LEMMA EveryRow ==
  ASSUME NEW s \in DOMAIN Codec, NEW i \in DOMAIN Codec[s].fields, Codec[s].fields[i][3] # "destination"
  PROVE  LET f == Codec[s].fields[i][1] IN f \in DOMAIN Codec[s].row /\ Codec[s].row[f] = Codec[s].fields[i]
<1> DEFINE f == Codec[s].fields[i][1]
<1>1. PICK path, order, fields : Codec[s] = ListCodec(path, order, fields)
  BY DEF Codec
<1>2. Codec[s].fields = fields /\ Codec[s].row = ListCodec(path, order, fields).row
  BY <1>1 DEF ListCodec
<1>3. f \in DOMAIN Codec[s].row
  <2>1. fields[i] \in {row \in ToSet(fields) : row[3] # "destination"}
    BY <1>2 DEF ToSet
  <2> QED
    BY <1>2, <2>1 DEF ListCodec
<1>4. PICK j \in DOMAIN Codec[s].fields :
        Codec[s].row[f] = Codec[s].fields[j] /\ Codec[s].fields[j][1] = f /\ Codec[s].fields[j][3] # "destination"
  BY <1>3, Codecs
<1>5. j = i
  BY <1>4, Codecs DEF Table
<1> QED
  BY <1>3, <1>4, <1>5

LEMMA DecodesWhatAgrees ==
  ASSUME NEW o, NEW p, NEW k, Agree(o, p, k), NEW kind \in FieldKinds
  PROVE  DecodeField(o, k, kind) = DecodeField(p, k, kind)
BY DEF Agree, DecodeField, DecodeEndpoint, FieldKinds

\* Whatever an element held, once an item is written over it each of the item's fields reads
\* back as it was written: a set in whatever order the element had, a padded port perhaps
\* without its padding, and one empty DNS server as none.
THEOREM ElementReadsBack ==
  ASSUME NEW s \in DOMAIN Codec, NEW e, NEW item, PlainItem(s, item)
  PROVE  LET back == Decode(Codec[s].row, Encode(Codec[s].fields, item, e))
         IN \A f \in DOMAIN Codec[s].row : ReadsAs(Codec[s].row[f][3], back[f], item[f])
<1> DEFINE row == Codec[s].row
           q == Encode(Codec[s].fields, item, e)
<1>1. SUFFICES ASSUME NEW f \in DOMAIN row PROVE ReadsAs(row[f][3], Decode(row, q)[f], item[f])
  OBVIOUS
<1>2. PICK i \in DOMAIN Codec[s].fields : row[f] = Codec[s].fields[i] /\ row[f][1] = f /\ row[f][3] # "destination"
  BY Codecs
<1>3. Decode(row, q)[f] = DecodeField(q, row[f][2], row[f][3])
  BY DEF Decode
<1>4. row[f][3] \in FieldKinds
  BY <1>2, Codecs DEF Table
<1>5. PICK o : Agree(q, EncodeField(item, o, row[f]), row[f][2])
  BY <1>2, Codecs, RowsSettle
<1>6. DecodeField(q, row[f][2], row[f][3]) = DecodeField(EncodeField(item, o, row[f]), row[f][2], row[f][3])
  BY <1>4, <1>5, DecodesWhatAgrees
<1>7. Plain(row[f][3], item[row[f][1]])
  BY <1>2 DEF PlainItem
<1> HIDE DEF row, q
<1>8. ReadsAs(row[f][3], DecodeField(EncodeField(item, o, row[f]), row[f][2], row[f][3]), item[row[f][1]])
  BY <1>4, <1>7, FieldReads
<1> QED
  BY <1>2, <1>3, <1>6, <1>8

\* A field of an element that no row of its codec names is kept as it was.
THEOREM UnknownFieldsAreKept ==
  ASSUME NEW s \in DOMAIN Codec, NEW e, NEW item, NEW k, k \notin {row[2] : row \in ToSet(Codec[s].fields)}
  PROVE  Agree(Encode(Codec[s].fields, item, e), e, k)
<1>1. \A i \in DOMAIN Codec[s].fields : Codec[s].fields[i][2] # k
  BY DEF ToSet
<1> QED
  BY <1>1, Codecs, RowsSettle

\* Writing the same item over what it was just written over changes nothing: whatever the
\* element held before, the write that was made is the last one the item asks for.
THEOREM SecondEncodeIsQuiet ==
  ASSUME NEW s \in DOMAIN Codec, NEW e, IsElement(e), NEW item, PlainItem(s, item)
  PROVE  Encode(Codec[s].fields, item, Encode(Codec[s].fields, item, e)) = Encode(Codec[s].fields, item, e)
<1> DEFINE fields == Codec[s].fields
           q == Encode(fields, item, e)
<1>1. Table(fields)
  BY Codecs
<1>2. ASSUME NEW i \in DOMAIN fields PROVE EncodeField(item, q, fields[i]) = q
  <2>1. PICK o : Agree(o, e, fields[i][2]) /\ Agree(q, EncodeField(item, o, fields[i]), fields[i][2])
    BY <1>1, RowsSettle
  <2>2. fields[i][3] \in FieldKinds \cup {"destination"}
    BY <1>1 DEF Table
  <2>3. fields[i][3] = "set" => item[fields[i][1]] = [j \in DOMAIN item[fields[i][1]] |-> item[fields[i][1]][j]]
    <3>1. SUFFICES ASSUME fields[i][3] = "set"
                   PROVE  item[fields[i][1]] = [j \in DOMAIN item[fields[i][1]] |-> item[fields[i][1]][j]]
      OBVIOUS
    <3>2. fields[i][3] # "destination"
      BY <3>1
    <3>3. fields[i][1] \in DOMAIN Codec[s].row /\ Codec[s].row[fields[i][1]] = fields[i]
      BY <3>2, EveryRow
    <3> HIDE DEF fields
    <3>4. Plain(fields[i][3], item[fields[i][1]])
      BY <3>3 DEF PlainItem
    <3>5. Listing(item[fields[i][1]])
      BY <3>1, <3>4 DEF Plain
    <3> QED
      BY <3>5 DEF Listing
  <2>4. IsObj(Child(o, fields[i][2]))
    <3>1. Child(o, fields[i][2]) = Child(e, fields[i][2])
      BY <2>1 DEF Agree, Child
    <3>2. fields[i][2] \notin DOMAIN Fields(e) => Child(e, fields[i][2]) = EmptyObj
      BY EmptyObject DEF Child, At
    <3> QED
      BY <3>1, <3>2, EmptyObject DEF IsElement, IsValue, Child
  <2>5. IsObj(q)
    BY <1>1, EncodedInObject DEF IsElement
  <2> HIDE DEF fields, q
  <2>6. Settled(q, EncodeField(item, o, fields[i]), fields[i][2])
    BY <2>1, <2>5 DEF Settled
  <2> QED
    BY <2>2, <2>3, <2>4, <2>6, FieldAgain
<1> HIDE DEF fields, q
<1> DEFINE n == Len(fields)
<1>3. n \in Nat /\ DOMAIN fields = 1..n
  BY <1>1 DEF Table
<1> HIDE DEF n
<1>4. PICK f : /\ f[0] = q /\ Encode(fields, item, q) = f[n]
               /\ \A i \in 1..n : f[i] = EncodeField(item, f[i - 1], fields[i])
  BY <1>3, EncodeRuns DEF n
<1> DEFINE S == {m \in Nat : m <= n => f[m] = q}
<1>5. 0 \in S
  BY <1>4
<1>6. ASSUME NEW m \in Nat, m \in S PROVE m + 1 \in S
  <2>1. SUFFICES ASSUME m + 1 <= n PROVE f[m + 1] = q
    OBVIOUS
  <2>2. m + 1 \in 1..n /\ (m + 1) - 1 = m /\ m <= n
    BY <1>3, <2>1
  <2>3. f[m] = q
    BY <1>6, <2>2
  <2> QED
    BY <1>2, <1>3, <1>4, <2>2, <2>3
<1>7. \A m \in Nat : m \in S
  <2> HIDE DEF S
  <2> QED
    BY <1>5, <1>6, NatInduct
<1>8. f[n] = q
  BY <1>3, <1>7
<1> QED
  BY <1>4, <1>8 DEF q, fields

-----------------------------------------------------------------------------
(* What is put at a path is found there.                                     *)

Prefix(path, m) == SubSeq(path, 1, m)

LEMMA PrefixOf ==
  ASSUME NEW path, Len(path) \in Nat, NEW m \in 0..Len(path)
  PROVE  Len(Prefix(path, m)) = m /\ \A i \in 1..m : Prefix(path, m)[i] = path[i]
BY DEF Prefix

\* g holds the nodes along a path.
IsWalk(root, path, g) ==
  /\ g[0] = root /\ Node(root, path) = g[Len(path)]
  /\ \A i \in 1..Len(path) : g[i] = At(g[i - 1], path[i])
  /\ \A m \in 0..Len(path) : Node(root, Prefix(path, m)) = g[m]

LEMMA NodesAlong ==
  ASSUME NEW root, NEW path, Len(path) \in Nat
  PROVE  \E g : IsWalk(root, path, g)
<1> DEFINE n == Len(path)
<1>1. PICK g : g[0] = root /\ Node(root, path) = g[n] /\ \A i \in 1..n : g[i] = At(g[i - 1], path[i])
  BY NodeRuns
<1>2. ASSUME NEW m \in 0..n PROVE Node(root, Prefix(path, m)) = g[m]
  <2> DEFINE q == Prefix(path, m)
  <2>1. m \in Nat /\ Len(q) = m /\ \A i \in 1..m : q[i] = path[i] /\ i \in 1..n
    BY PrefixOf
  <2> HIDE DEF q
  <2>2. PICK h : h[0] = root /\ Node(root, q) = h[m] /\ \A i \in 1..m : h[i] = At(h[i - 1], q[i])
    <3>1. Len(q) \in Nat
      BY <2>1
    <3>2. PICK h : h[0] = root /\ Node(root, q) = h[Len(q)] /\ \A i \in 1..Len(q) : h[i] = At(h[i - 1], q[i])
      BY <3>1, NodeRuns
    <3> QED
      BY <2>1, <3>2
  <2> DEFINE S == {i \in Nat : i <= m => h[i] = g[i]}
  <2>3. 0 \in S
    <3>1. h[0] = g[0]
      BY <1>1, <2>2
    <3> QED
      BY <3>1
  <2>4. ASSUME NEW i \in Nat, i \in S PROVE i + 1 \in S
    <3>1. SUFFICES ASSUME i + 1 <= m PROVE h[i + 1] = g[i + 1]
      OBVIOUS
    <3>2. i + 1 \in 1..m /\ (i + 1) - 1 = i /\ i <= m
      BY <2>1, <3>1
    <3>3. h[i] = g[i] /\ i + 1 \in 1..n /\ q[i + 1] = path[i + 1]
      BY <2>1, <2>4, <3>2
    <3> QED
      BY <1>1, <2>2, <3>2, <3>3
  <2>5. \A i \in Nat : i \in S
    <3> HIDE DEF S
    <3> QED
      BY <2>3, <2>4, NatInduct
  <2> QED
    BY <2>1, <2>2, <2>5 DEF q
<1>3. IsWalk(root, path, g)
  BY <1>1, <1>2 DEF IsWalk
<1> QED
  BY <1>3

LEMMA NodeAlong ==
  ASSUME NEW root, NEW path, Len(path) \in Nat
  PROVE  /\ Node(root, Prefix(path, 0)) = root
         /\ Node(root, path) = Node(root, Prefix(path, Len(path)))
<1>1. 0 \in 0..Len(path) /\ Len(path) \in 0..Len(path)
  OBVIOUS
<1>2. PICK g : IsWalk(root, path, g)
  BY NodesAlong
<1> QED
  BY <1>1, <1>2 DEF IsWalk

LEMMA NodeNext ==
  ASSUME NEW root, NEW path, Len(path) \in Nat, NEW m \in 1..Len(path)
  PROVE  Node(root, Prefix(path, m)) = At(Node(root, Prefix(path, m - 1)), path[m])
<1>1. m \in 0..Len(path) /\ m - 1 \in 0..Len(path)
  OBVIOUS
<1>2. PICK g : IsWalk(root, path, g)
  BY NodesAlong
<1> QED
  BY <1>1, <1>2 DEF IsWalk

\* The objects of PutAt, from the outermost: what was there with one key put anew.
LEMMA PutAlongPath ==
  ASSUME NEW root, NEW path, NEW v, Len(path) \in Nat
  PROVE  \E f : /\ f[0] = v /\ PutAt(root, path, v) = f[Len(path)]
               /\ \A i \in 1..Len(path) :
                    f[i] = With(Obj(Fields(Node(root, Prefix(path, Len(path) - i)))), path[Len(path) - i + 1], f[i - 1])
BY PutAtRuns DEF Wrap, Prefix

LEMMA FieldsObj == ASSUME NEW f PROVE Fields(Obj(f)) = f
BY DEF Fields, Obj

LEMMA NodePut ==
  ASSUME NEW root, NEW path, NEW v, Len(path) \in Nat, NEW f,
         f[0] = v, PutAt(root, path, v) = f[Len(path)],
         \A i \in 1..Len(path) :
           f[i] = With(Obj(Fields(Node(root, Prefix(path, Len(path) - i)))), path[Len(path) - i + 1], f[i - 1])
  PROVE  \A m \in 0..Len(path) : Node(PutAt(root, path, v), Prefix(path, m)) = f[Len(path) - m]
<1> DEFINE n == Len(path)
           next == PutAt(root, path, v)
           S == {m \in Nat : m <= n => Node(next, Prefix(path, m)) = f[n - m]}
<1> HIDE DEF next
<1>4. \A m \in 1..Len(path) : Node(next, Prefix(path, m)) = At(Node(next, Prefix(path, m - 1)), path[m])
  BY NodeNext
<1> HIDE DEF n
<1>0. /\ n \in Nat /\ f[0] = v /\ next = f[n]
      /\ \A i \in 1..n : f[i] = With(Obj(Fields(Node(root, Prefix(path, n - i)))), path[n - i + 1], f[i - 1])
  BY DEF n, next
<1>1. 0 \in S
  <2>1. Node(next, Prefix(path, 0)) = next
    BY NodeAlong
  <2> QED
    BY <1>0, <2>1
<1>2. ASSUME NEW m \in Nat, m \in S PROVE m + 1 \in S
  <2>1. SUFFICES ASSUME m + 1 <= n PROVE Node(next, Prefix(path, m + 1)) = f[n - (m + 1)]
    OBVIOUS
  <2>2. m + 1 \in 1..n /\ (m + 1) - 1 = m /\ m <= n /\ n - m \in 1..n /\ n - (n - m) + 1 = m + 1 /\ (n - m) - 1 = n - (m + 1)
    BY <1>0, <2>1
  <2>3. Node(next, Prefix(path, m + 1)) = At(Node(next, Prefix(path, m)), path[m + 1])
    BY <1>4, <2>2 DEF n
  <2>4. Node(next, Prefix(path, m)) = f[n - m]
    BY <1>2, <2>2
  <2>5. PICK o : f[n - m] = With(o, path[m + 1], f[n - (m + 1)])
    BY <1>0, <2>2
  <2>6. \A k, w : At(With(o, k, w), k) = w
    BY AtSame
  <2> QED
    BY <2>3, <2>4, <2>5, <2>6
<1>3. \A m \in Nat : m \in S
  <2> HIDE DEF S
  <2> QED
    BY <1>1, <1>2, NatInduct
<1> QED
  BY <1>0, <1>3 DEF n, next

LEMMA PutIsThere ==
  ASSUME NEW root, NEW path, NEW v, Len(path) \in Nat
  PROVE  Node(PutAt(root, path, v), path) = v
<1>1. PICK f : /\ f[0] = v /\ PutAt(root, path, v) = f[Len(path)]
               /\ \A i \in 1..Len(path) :
                    f[i] = With(Obj(Fields(Node(root, Prefix(path, Len(path) - i)))), path[Len(path) - i + 1], f[i - 1])
  BY PutAlongPath
<1>2. Len(path) \in 0..Len(path) /\ Len(path) - Len(path) = 0
  OBVIOUS
<1>3. Node(PutAt(root, path, v), Prefix(path, Len(path))) = f[Len(path) - Len(path)]
  BY <1>1, <1>2, NodePut
<1> QED
  BY <1>1, <1>2, <1>3, NodeAlong

-----------------------------------------------------------------------------
(* The members of a list that are kept.                                      *)

Members(q) == {q[i] : i \in 1..Len(q)}

LEMMA KeptRuns ==
  ASSUME NEW q, NEW S, Len(q) \in Nat
  PROVE  \E f : /\ f[0] = <<>> /\ Kept(q, S) = f[Len(q)]
               /\ \A i \in 1..Len(q) : f[i] = IF q[i] \in S THEN Append(f[i - 1], q[i]) ELSE f[i - 1]
<1> DEFINE next(x, y) == IF y \in S THEN Append(x, y) ELSE x
           g == CHOOSE g : g = [i \in 0..Len(q) |-> IF i = 0 THEN <<>> ELSE next(g[i - 1], q[i])]
<1>1. \A x, y : Do([of |-> "Kept", kept |-> S], x, y) = next(x, y)
  BY DEF Do
<1>5. Kept(q, S) = g[Len(q)]
  BY DEF Kept, Fold
<1> HIDE DEF next
<1>2. PICK f : IsFold([of |-> "Kept", kept |-> S], <<>>, q, Len(q), f)
  BY Runs
<1>3. f = [i \in 0..Len(q) |-> IF i = 0 THEN <<>> ELSE next(f[i - 1], q[i])]
  BY <1>1, <1>2 DEF IsFold
<1>4. g = [i \in 0..Len(q) |-> IF i = 0 THEN <<>> ELSE next(g[i - 1], q[i])]
  BY <1>3
<1> HIDE DEF g
<1>6. g[0] = <<>> /\ \A i \in 1..Len(q) : g[i] = next(g[i - 1], q[i])
  BY <1>4
<1> QED
  BY <1>5, <1>6 DEF next

\* They are those in S, and all of the list when all are.
IsKept(q, S, k) ==
  /\ k \in Seq(Members(q) \cap S)
  /\ \A x \in Members(q) \cap S : \E j \in 1..Len(k) : k[j] = x
  /\ Members(q) \cap S = {} => k = <<>>
  /\ (\A i \in 1..Len(q) : q[i] \in S) => k = q

LEMMA KeptIs ==
  ASSUME NEW q, Listing(q), NEW S
  PROVE  IsKept(q, S, Kept(q, S))
<1> DEFINE n == Len(q)
           T == {q[i] : i \in 1..n} \cap S
<1>0. n \in Nat
  BY DEF Listing
<1>1. PICK f : /\ f[0] = <<>> /\ Kept(q, S) = f[n]
               /\ \A i \in 1..n : f[i] = IF q[i] \in S THEN Append(f[i - 1], q[i]) ELSE f[i - 1]
  BY <1>0, KeptRuns
<1> DEFINE Good(m) ==
             /\ f[m] \in Seq(T)
             /\ \A i \in 1..m : q[i] \in S => \E j \in 1..Len(f[m]) : f[m][j] = q[i]
             /\ (\A i \in 1..m : q[i] \in S) => Len(f[m]) = m /\ \A i \in 1..m : f[m][i] = q[i]
           Z == {m \in Nat : m <= n => Good(m)}
<1>2. 0 \in Z
  <2>1. f[0] \in Seq(T) /\ Len(f[0]) = 0
    BY <1>1, EmptySeq
  <2>2. \A i \in 1..0 : FALSE
    OBVIOUS
  <2> HIDE DEF T
  <2>3. Good(0)
    BY <2>1, <2>2
  <2> QED
    BY <2>3
<1>3. ASSUME NEW m \in Nat, m \in Z PROVE m + 1 \in Z
  <2>1. SUFFICES ASSUME m + 1 <= n PROVE Good(m + 1)
    OBVIOUS
  <2>2. m + 1 \in 1..n /\ (m + 1) - 1 = m /\ m <= n /\ \A i \in 1..(m + 1) : i \in 1..m \/ i = m + 1
    BY <1>0, <2>1
  <2>3. Good(m)
    BY <1>3, <2>2
  <2> DEFINE x == q[m + 1]
             r == f[m]
  <2>4. f[m + 1] = IF x \in S THEN Append(r, x) ELSE r
    BY <1>1, <2>2
  <2>5. r \in Seq(T) /\ Len(r) \in Nat
    BY <2>3
  <2>6. CASE x \in S
    <3>1. x \in T
      BY <2>2, <2>6
    <3> HIDE DEF x, r, T
    <3>2. f[m + 1] = Append(r, x)
      BY <2>4, <2>6
    <3>3. /\ Append(r, x) \in Seq(T) /\ Len(Append(r, x)) = Len(r) + 1
          /\ \A j \in 1..Len(r) : Append(r, x)[j] = r[j]
          /\ Append(r, x)[Len(r) + 1] = x
      BY <2>5, <3>1, AppendProperties
    <3>4. ASSUME NEW i \in 1..(m + 1), q[i] \in S PROVE \E j \in 1..(Len(r) + 1) : Append(r, x)[j] = q[i]
      <4>1. CASE i = m + 1
        BY <2>5, <3>3, <4>1 DEF x
      <4>2. CASE i \in 1..m
        <5>1. PICK j \in 1..Len(r) : r[j] = q[i]
          BY <2>3, <3>4, <4>2 DEF r
        <5> QED
          BY <2>5, <3>3, <5>1
      <4> QED
        BY <2>2, <4>1, <4>2
    <3>5. ASSUME \A i \in 1..(m + 1) : q[i] \in S
          PROVE  Len(r) + 1 = m + 1 /\ \A i \in 1..(m + 1) : Append(r, x)[i] = q[i]
      <4>1. Len(r) = m /\ \A i \in 1..m : r[i] = q[i]
        BY <2>3, <3>5 DEF r
      <4> QED
        BY <2>2, <3>3, <4>1 DEF x
    <3> QED
      BY <3>2, <3>3, <3>4, <3>5
  <2>7. CASE x \notin S
    <3>1. f[m + 1] = r
      BY <2>4, <2>7
    <3>2. \A i \in 1..(m + 1) : q[i] \in S => i \in 1..m
      BY <2>2, <2>7
    <3>3. m + 1 \in 1..(m + 1)
      OBVIOUS
    <3> QED
      BY <2>3, <2>7, <3>1, <3>2, <3>3
  <2> QED
    BY <2>6, <2>7
<1>4. \A m \in Nat : m \in Z
  <2> HIDE DEF Z
  <2> QED
    BY <1>2, <1>3, NatInduct
<1>5. Good(n)
  BY <1>0, <1>4
<1>6. T = {} => Kept(q, S) = <<>>
  <2> HIDE DEF T
  <2>1. SUFFICES ASSUME T = {} PROVE Kept(q, S) = <<>>
    OBVIOUS
  <2>2. Kept(q, S) \in Seq({})
    BY <1>1, <1>5, <2>1
  <2> QED
    BY <2>2, EmptySeq
<1>7. (\A i \in 1..n : q[i] \in S) => Kept(q, S) = q
  <2>1. SUFFICES ASSUME \A i \in 1..n : q[i] \in S PROVE Kept(q, S) = q
    OBVIOUS
  <2> DEFINE k == Kept(q, S)
  <2>2. Len(k) = n /\ \A i \in 1..n : k[i] = q[i]
    BY <1>1, <1>5, <2>1
  <2>3. k \in Seq(T)
    BY <1>1, <1>5
  <2> HIDE DEF k, T
  <2>4. k = [i \in 1..n |-> k[i]]
    BY <2>2, <2>3
  <2> QED
    BY <2>2, <2>4 DEF Listing, k
<1>8. \A x \in T : \E j \in 1..Len(Kept(q, S)) : Kept(q, S)[j] = x
  <2>1. SUFFICES ASSUME NEW x \in T PROVE \E j \in 1..Len(Kept(q, S)) : Kept(q, S)[j] = x
    OBVIOUS
  <2>2. PICK i \in 1..n : q[i] = x /\ q[i] \in S
    OBVIOUS
  <2> QED
    BY <1>1, <1>5, <2>2
<1>9. T = Members(q) \cap S
  BY DEF Members
<1> HIDE DEF T
<1>10. Kept(q, S) \in Seq(T)
  BY <1>1, <1>5
<1> QED
  BY <1>6, <1>7, <1>8, <1>9, <1>10 DEF IsKept

-----------------------------------------------------------------------------
(* A list of elements.                                                       *)

LEMMA ListingOf ==
  ASSUME NEW q, NEW n \in Nat, DOMAIN q = 1..n, q = [i \in DOMAIN q |-> q[i]]
  PROVE  Listing(q) /\ Len(q) = n /\ q \in Seq({q[i] : i \in 1..n})
<1>1. q \in [1..n -> {q[i] : i \in 1..n}]
  OBVIOUS
<1>2. q \in Seq({q[i] : i \in 1..n})
  BY <1>1
<1>3. Len(q) = n
  BY <1>2, LenProperties
<1> QED
  BY <1>2, <1>3 DEF Listing

LEMMA SeqListing ==
  ASSUME NEW S, NEW q \in Seq(S)
  PROVE  Listing(q) /\ DOMAIN q = 1..Len(q) /\ \A i \in 1..Len(q) : q[i] \in S
BY DEF Listing

LEMMA SeqSubset == ASSUME NEW S, NEW T, S \subseteq T, NEW q \in Seq(S) PROVE q \in Seq(T)
<1>1. Len(q) \in Nat /\ q \in [1..Len(q) -> S]
  OBVIOUS
<1>2. q \in [1..Len(q) -> T]
  BY <1>1
<1> QED
  BY <1>1, <1>2

LEMMA ListingDomain == ASSUME NEW q, Listing(q) PROVE DOMAIN q = 1..Len(q)
BY DEF Listing

\* The wanted ids that are there, then the others: all the wanted, and no other.
LEMMA StableOrderIs ==
  ASSUME NEW current, NEW wanted, Listing(current), Listing(wanted)
  PROVE  LET order == StableOrder(current, wanted) IN
         /\ Listing(order)
         /\ Members(order) = Members(wanted)
         /\ Members(current) = Members(wanted) => order = current
<1> DEFINE W == Members(wanted)
           C == Members(current)
           a == Kept(current, W)
           b == Kept(wanted, W \ C)
           order == a \o b
<1>1. StableOrder(current, wanted) = order
  <2>1. ToSet(wanted) = W /\ ToSet(current) = C
    BY ListingDomain DEF ToSet, Members
  <2> HIDE DEF W, C
  <2> QED
    BY <2>1 DEF StableOrder
<1>2. /\ a \in Seq(C \cap W) /\ \A x \in C \cap W : \E j \in 1..Len(a) : a[j] = x
      /\ (\A i \in 1..Len(current) : current[i] \in W) => a = current
  <2>1. IsKept(current, W, a)
    BY KeptIs
  <2> HIDE DEF a, W
  <2> QED
    BY <2>1 DEF IsKept
<1>3. /\ b \in Seq(W \cap (W \ C)) /\ \A x \in W \cap (W \ C) : \E j \in 1..Len(b) : b[j] = x
      /\ W \cap (W \ C) = {} => b = <<>>
  <2>1. IsKept(wanted, W \ C, b)
    BY KeptIs
  <2> HIDE DEF b, C
  <2> QED
    BY <2>1 DEF IsKept
<1>9. C = W => \A i \in 1..Len(current) : current[i] \in W
  BY DEF Members
<1> HIDE DEF W, C, a, b
<1>4. a \in Seq(W) /\ b \in Seq(W) /\ Len(a) \in Nat /\ Len(b) \in Nat
  <2>1. C \cap W \subseteq W /\ W \cap (W \ C) \subseteq W
    OBVIOUS
  <2> QED
    BY <1>2, <1>3, <2>1, SeqSubset
<1>5. /\ order \in Seq(W) /\ Len(order) = Len(a) + Len(b)
      /\ \A i \in 1..Len(a) : order[i] = a[i]
      /\ \A i \in 1..Len(b) : order[Len(a) + i] = b[i]
  <2>1. /\ order \in Seq(W) /\ Len(order) = Len(a) + Len(b)
        /\ \A i \in 1..(Len(a) + Len(b)) : order[i] = IF i <= Len(a) THEN a[i] ELSE b[i - Len(a)]
    BY <1>4, ConcatProperties
  <2> HIDE DEF order
  <2>2. \A i \in 1..Len(a) : order[i] = a[i]
    BY <1>4, <2>1
  <2>3. \A i \in 1..Len(b) : Len(a) + i \in 1..(Len(a) + Len(b)) /\ ~(Len(a) + i <= Len(a)) /\ Len(a) + i - Len(a) = i
    BY <1>4
  <2> QED
    BY <2>1, <2>2, <2>3
<1>6. \A x \in W : \E i \in 1..Len(order) : order[i] = x
  <2>1. SUFFICES ASSUME NEW x \in W PROVE \E i \in 1..Len(order) : order[i] = x
    OBVIOUS
  <2>2. CASE x \in C
    <3>1. PICK j \in 1..Len(a) : a[j] = x
      BY <1>2, <2>2
    <3> QED
      BY <1>4, <1>5, <3>1
  <2>3. CASE x \notin C
    <3>1. PICK j \in 1..Len(b) : b[j] = x
      BY <1>3, <2>3
    <3>2. Len(a) + j \in 1..Len(order)
      BY <1>4, <1>5
    <3> QED
      BY <1>5, <3>1, <3>2
  <2> QED
    BY <2>2, <2>3
<1>7. Listing(order) /\ \A i \in 1..Len(order) : order[i] \in W
  <2> HIDE DEF order
  <2> QED
    BY <1>5, SeqListing
<1>8. C = W => order = current
  <2>1. SUFFICES ASSUME C = W PROVE order = current
    OBVIOUS
  <2>2. a = current /\ b = <<>>
    BY <1>2, <1>3, <1>9, <2>1
  <2> QED
    BY <1>4, <2>2
<1> HIDE DEF order
<1>10. Members(order) = W
  BY <1>6, <1>7 DEF Members
<1> QED
  BY <1>1, <1>7, <1>8, <1>10 DEF W, C

-----------------------------------------------------------------------------
(* The element an item is written over, and the id it then has.              *)

LEMMA GreatestOf ==
  ASSUME NEW n \in Nat, NEW T \in SUBSET (1..n), T # {}
  PROVE  \E x \in T : \A y \in T : y <= x
<1> DEFINE R == {n - y : y \in T}
<1>1. R \in SUBSET Nat /\ R # {}
  <2>1. \A y \in T : n - y \in Nat
    OBVIOUS
  <2>2. \A z \in R : z \in Nat
    BY <2>1
  <2>3. PICK y : y \in T
    OBVIOUS
  <2>4. n - y \in R
    BY <2>3
  <2> QED
    BY <2>2, <2>4
<1>2. PICK z \in R : \A y \in R : z <= y
  BY <1>1, NatMin
<1>3. PICK x \in T : z = n - x
  OBVIOUS
<1>4. ASSUME NEW y \in T PROVE y <= x
  <2>1. n - x <= n - y
    BY <1>2, <1>3
  <2> QED
    BY <2>1
<1> QED
  BY <1>3, <1>4

\* It is the last that has the id, or an empty object.
LEMMA ExistingIs ==
  ASSUME NEW current, Listing(current), NEW id
  PROVE  \/ /\ Existing(current, id) = EmptyObj
            /\ \A i \in 1..Len(current) : AsString(At(current[i], "id")) # id
         \/ \E i \in 1..Len(current) :
              Existing(current, id) = current[i] /\ AsString(At(current[i], "id")) = id
<1> DEFINE at == {i \in DOMAIN current : AsString(At(current[i], "id")) = id}
           last == CHOOSE i \in at : \A j \in at : j <= i
<1>1. Len(current) \in Nat /\ DOMAIN current = 1..Len(current)
  BY ListingDomain DEF Listing
<1>2. Existing(current, id) = IF at = {} THEN EmptyObj ELSE current[last]
  BY DEF Existing
<1>3. CASE at = {}
  BY <1>1, <1>2, <1>3
<1>4. CASE at # {}
  <2>1. at \in SUBSET (1..Len(current))
    BY <1>1
  <2>2. \A i \in at : i \in 1..Len(current) /\ AsString(At(current[i], "id")) = id
    BY <1>1
  <2> HIDE DEF at
  <2>3. \E i \in at : \A j \in at : j <= i
    BY <1>1, <1>4, <2>1, GreatestOf
  <2>4. last \in at
    BY <2>3
  <2> QED
    BY <1>2, <1>4, <2>2, <2>4
<1> QED
  BY <1>3, <1>4

LEMMA IdentityRow ==
  ASSUME NEW s \in DOMAIN Codec, NEW item
  PROVE  /\ \E i \in DOMAIN Codec[s].fields :
              /\ Codec[s].fields[i][1] = "ID" /\ Codec[s].fields[i][2] = "id"
              /\ Codec[s].fields[i][3] = IF s = "VLANs" THEN "number" ELSE "string"
         /\ Identity(s, item) = IF s = "VLANs" THEN Text(item["ID"]) ELSE item["ID"]
<1>1. s \in {"PortForwards", "FirewallRules", "VLANs", "StaticRoutes"}
  BY DEF Codec
<1>2. Identity(s, item) = IF s = "VLANs" THEN Text(item["ID"]) ELSE item["ID"]
  BY <1>1 DEF Identity
<1>3. Codec[s].fields = CASE s = "PortForwards" -> PortForwardFields [] s = "FirewallRules" -> FirewallRuleFields
                          [] s = "VLANs" -> VLANFields [] s = "StaticRoutes" -> StaticRouteFields
  BY <1>1 DEF Codec, ListCodec
<1>4. /\ 1 \in DOMAIN VLANFields /\ VLANFields[1] = <<"ID", "id", "number">>
      /\ 1 \in DOMAIN StaticRouteFields /\ StaticRouteFields[1] = <<"ID", "id", "string">>
      /\ 1 \in DOMAIN PortForwardFields /\ PortForwardFields[1] = <<"ID", "id", "string">>
      /\ 1 \in DOMAIN FirewallRuleFields /\ FirewallRuleFields[1] = <<"ID", "id", "string">>
  BY DEF VLANFields, StaticRouteFields, PortForwardFields, FirewallRuleFields
<1>5. CASE s = "VLANs"
  <2>1. 1 \in DOMAIN Codec[s].fields /\ Codec[s].fields[1] = <<"ID", "id", "number">>
    BY <1>3, <1>4, <1>5
  <2> QED
    BY <1>2, <1>5, <2>1
<1>6. CASE s # "VLANs"
  <2>1. 1 \in DOMAIN Codec[s].fields /\ Codec[s].fields[1] = <<"ID", "id", "string">>
    <3> HIDE DEF VLANFields, StaticRouteFields, PortForwardFields, FirewallRuleFields
    <3>1. s \in {"PortForwards", "FirewallRules", "StaticRoutes"}
      BY <1>1, <1>6
    <3>2. CASE s = "PortForwards"
      BY <1>3, <1>4, <3>2
    <3>3. CASE s = "FirewallRules"
      BY <1>3, <1>4, <3>3
    <3>4. CASE s = "StaticRoutes"
      BY <1>3, <1>4, <3>4
    <3> QED
      BY <3>1, <3>2, <3>3, <3>4
  <2> QED
    BY <1>2, <1>6, <2>1
<1> QED
  BY <1>5, <1>6

LEMMA NumberReadsAsText ==
  ASSUME NEW o, NEW k, NEW want \in Numbers, At(o, k) = Null \/ AsString(At(o, k)) = Text(want)
  PROVE  AsString(At(PutInt(o, k, want), k)) = Text(want)
<1>1. want # NoInt /\ Text(want) = ToString(want)
  BY DecimalAssumption DEF Numbers, NoInt, Text
<1>2. AsInt(Null) = NoInt /\ AsString(Num(ToString(want))) = ToString(want)
  BY Tags DEF AsInt, AsString
<1>3. CASE AsInt(At(o, k)) = want
  <2>1. PutInt(o, k, want) = o /\ At(o, k) # Null
    BY <1>1, <1>2, <1>3 DEF PutInt
  <2> QED
    BY <2>1
<1>4. CASE AsInt(At(o, k)) # want
  <2>1. PutInt(o, k, want) = With(o, k, Num(ToString(want)))
    BY <1>1, <1>4 DEF PutInt
  <2>2. At(With(o, k, Num(ToString(want))), k) = Num(ToString(want))
    BY AtSame
  <2> QED
    BY <1>1, <1>2, <2>1, <2>2
<1> QED
  BY <1>3, <1>4

\* Over the element that has its id, or over an empty one, an item is written under its id.
LEMMA IdentityIsWritten ==
  ASSUME NEW s \in DOMAIN Codec, NEW item, PlainItem(s, item), NEW e,
         At(e, "id") = Null \/ AsString(At(e, "id")) = Identity(s, item)
  PROVE  AsString(At(Encode(Codec[s].fields, item, e), "id")) = Identity(s, item)
<1> DEFINE fields == Codec[s].fields
           q == Encode(fields, item, e)
<1>1. PICK i \in DOMAIN fields :
        fields[i][1] = "ID" /\ fields[i][2] = "id" /\ fields[i][3] = IF s = "VLANs" THEN "number" ELSE "string"
  BY IdentityRow
<1>2. Identity(s, item) = IF s = "VLANs" THEN Text(item["ID"]) ELSE item["ID"]
  BY IdentityRow
<1>3. PICK o : Agree(o, e, "id") /\ Agree(q, EncodeField(item, o, fields[i]), "id")
  BY <1>1, Codecs, RowsSettle
<1>4. At(o, "id") = At(e, "id") /\ At(q, "id") = At(EncodeField(item, o, fields[i]), "id")
  BY <1>3 DEF Agree
<1>5. CASE s = "VLANs"
  <2>1. EncodeField(item, o, fields[i]) = PutInt(o, "id", item["ID"])
    BY <1>1, <1>5 DEF EncodeField
  <2>2. Plain("number", item["ID"])
    <3>1. fields[i][3] # "destination" /\ fields[i][3] = "number"
      BY <1>1, <1>5
    <3>2. fields[i][1] \in DOMAIN Codec[s].row /\ Codec[s].row[fields[i][1]] = fields[i]
      BY <3>1, EveryRow
    <3> HIDE DEF fields
    <3>3. Plain(Codec[s].row["ID"][3], item["ID"])
      BY <1>1, <3>2 DEF PlainItem
    <3> QED
      BY <1>1, <3>1, <3>2, <3>3
  <2>3. item["ID"] \in Numbers
    BY <2>2 DEF Plain
  <2> HIDE DEF q, fields
  <2>4. Identity(s, item) = Text(item["ID"])
    BY <1>2, <1>5
  <2> QED
    BY <1>4, <2>1, <2>3, <2>4, NumberReadsAsText DEF q, fields
<1>6. CASE s # "VLANs"
  <2>1. EncodeField(item, o, fields[i]) = PutString(o, "id", item["ID"])
    BY <1>1, <1>6 DEF EncodeField
  <2> HIDE DEF q, fields
  <2> QED
    BY <1>2, <1>4, <1>6, <2>1, StringReads DEF q, fields
<1> QED
  BY <1>5, <1>6

-----------------------------------------------------------------------------
(* Sorting: what Sorted lists is every member of the set, once, in order.    *)

IsOrder(S, R) ==
  /\ \A x \in S : <<x, x>> \notin R
  /\ \A x, y \in S : x # y => <<x, y>> \in R \/ <<y, x>> \in R
  /\ \A x, y, z \in S : <<x, y>> \in R /\ <<y, z>> \in R => <<x, z>> \in R
Rank(S, R, x) == Cardinality({y \in S : <<y, x>> \in R})

LEMMA RankIncreases ==
  ASSUME NEW S, IsFiniteSet(S), NEW R, IsOrder(S, R), NEW x \in S, NEW y \in S, <<x, y>> \in R
  PROVE  Rank(S, R, x) < Rank(S, R, y)
<1> DEFINE below(z) == {w \in S : <<w, z>> \in R}
<1>1. below(x) \in SUBSET below(y) /\ x \in below(y) /\ x \notin below(x)
  BY DEF IsOrder
<1>2. IsFiniteSet(below(y)) /\ IsFiniteSet(below(x))
  <2>1. below(y) \in SUBSET S /\ below(x) \in SUBSET S
    OBVIOUS
  <2> HIDE DEF below
  <2> QED
    BY <2>1, FS_Subset
<1> HIDE DEF below
<1>3. Cardinality(below(x)) <= Cardinality(below(y)) /\ Cardinality(below(y)) # Cardinality(below(x))
  BY <1>1, <1>2, FS_Subset
<1>4. Cardinality(below(x)) \in Nat /\ Cardinality(below(y)) \in Nat
  BY <1>2, FS_CardinalityType
<1>5. Cardinality(below(x)) < Cardinality(below(y))
  BY <1>3, <1>4
<1> QED
  BY <1>5 DEF Rank, below

LEMMA Ranks ==
  ASSUME NEW S, IsFiniteSet(S), NEW R, IsOrder(S, R)
  PROVE  /\ Cardinality(S) \in Nat
         /\ \A x \in S : Rank(S, R, x) \in 0..(Cardinality(S) - 1)
         /\ \A x, y \in S : Rank(S, R, x) = Rank(S, R, y) => x = y
         /\ \A i \in 0..(Cardinality(S) - 1) : \E x \in S : Rank(S, R, x) = i
<1> DEFINE n == Cardinality(S)
           f == [x \in S |-> Rank(S, R, x)]
<1>1. n \in Nat
  BY FS_CardinalityType
<1>2. ASSUME NEW x \in S PROVE Rank(S, R, x) \in 0..(n - 1)
  <2> DEFINE B == {w \in S : <<w, x>> \in R}
  <2>1. B \in SUBSET S /\ x \notin B
    BY DEF IsOrder
  <2>2. Rank(S, R, x) = Cardinality(B)
    BY DEF Rank
  <2> HIDE DEF B
  <2>3. IsFiniteSet(B) /\ Cardinality(B) <= n /\ n # Cardinality(B)
    BY <2>1, FS_Subset
  <2>4. Cardinality(B) \in Nat
    BY <2>3, FS_CardinalityType
  <2> HIDE DEF n
  <2> QED
    BY <1>1, <2>2, <2>3, <2>4
<1>3. ASSUME NEW x \in S, NEW y \in S, Rank(S, R, x) = Rank(S, R, y) PROVE x = y
  <2>1. SUFFICES ASSUME x # y PROVE FALSE
    OBVIOUS
  <2>2. Rank(S, R, x) < Rank(S, R, y) \/ Rank(S, R, y) < Rank(S, R, x)
    BY <2>1, RankIncreases DEF IsOrder
  <2>3. Rank(S, R, x) \in Int
    BY <1>1, <1>2
  <2> QED
    BY <1>3, <2>2, <2>3
<1>4. f \in Injection(S, 0..(n - 1))
  BY <1>2, <1>3 DEF Injection, IsInjective
<1>5. IsFiniteSet(0..(n - 1)) /\ Cardinality(0..(n - 1)) = n
  <2> HIDE DEF n
  <2>1. n - 1 \in Int /\ 0 \in Int
    BY <1>1
  <2>2. IsFiniteSet(0..(n - 1)) /\ Cardinality(0..(n - 1)) = IF 0 > n - 1 THEN 0 ELSE (n - 1) - 0 + 1
    BY <2>1, FS_Interval
  <2> QED
    BY <1>1, <2>2
<1>6. f \in Surjection(S, 0..(n - 1))
  <2> HIDE DEF f
  <2> QED
    BY <1>4, <1>5, FS_Injection
<1>7. ASSUME NEW i \in 0..(n - 1) PROVE \E x \in S : Rank(S, R, x) = i
  BY <1>6 DEF Surjection
<1> QED
  BY <1>1, <1>2, <1>3, <1>7

\* p lists S in the order R.
Lists(S, R, p) ==
  /\ p \in [1..Cardinality(S) -> S]
  /\ \A x \in S : \E i \in 1..Cardinality(S) : p[i] = x
  /\ \A i, j \in 1..Cardinality(S) : i < j => <<p[i], p[j]>> \in R

LEMMA SortedLists ==
  ASSUME NEW S, IsFiniteSet(S), NEW R, IsOrder(S, R), NEW p, p = [i \in 1..Cardinality(S) |-> p[i]],
         \A i \in 1..Cardinality(S) :
           (\E x \in S : Rank(S, R, x) = i - 1) => p[i] \in S /\ Rank(S, R, p[i]) = i - 1
  PROVE  Lists(S, R, p)
<1> DEFINE n == Cardinality(S)
<1>1. /\ n \in Nat
      /\ \A x \in S : Rank(S, R, x) \in 0..(n - 1)
      /\ \A x, y \in S : Rank(S, R, x) = Rank(S, R, y) => x = y
      /\ \A i \in 0..(n - 1) : \E x \in S : Rank(S, R, x) = i
  BY Ranks
<1>2. ASSUME NEW i \in 1..n PROVE p[i] \in S /\ Rank(S, R, p[i]) = i - 1
  <2>1. i - 1 \in 0..(n - 1)
    BY <1>1
  <2>2. \E x \in S : Rank(S, R, x) = i - 1
    BY <1>1, <2>1
  <2> QED
    BY <2>2
<1> HIDE DEF n
<1>3. p \in [1..n -> S]
  <2>1. p = [i \in 1..n |-> p[i]]
    BY DEF n
  <2> QED
    BY <1>2, <2>1
<1>4. ASSUME NEW x \in S PROVE \E i \in 1..n : p[i] = x
  <2> DEFINE i == Rank(S, R, x) + 1
  <2>1. i \in 1..n /\ i - 1 = Rank(S, R, x)
    BY <1>1
  <2> HIDE DEF i
  <2>2. p[i] \in S /\ Rank(S, R, p[i]) = Rank(S, R, x)
    BY <1>2, <2>1
  <2> QED
    BY <1>1, <2>1, <2>2
<1>5. ASSUME NEW i \in 1..n, NEW j \in 1..n, i < j PROVE <<p[i], p[j]>> \in R
  <2>1. /\ p[i] \in S /\ p[j] \in S /\ Rank(S, R, p[i]) = i - 1 /\ Rank(S, R, p[j]) = j - 1
    BY <1>2
  <2>2. p[i] # p[j]
    BY <1>5, <2>1
  <2>3. CASE <<p[j], p[i]>> \in R
    <3>1. Rank(S, R, p[j]) < Rank(S, R, p[i])
      BY <2>1, <2>3, RankIncreases
    <3> QED
      BY <1>1, <1>5, <2>1, <3>1
  <2> QED
    BY <2>1, <2>2, <2>3 DEF IsOrder
<1> QED
  BY <1>3, <1>4, <1>5 DEF Lists, n

-----------------------------------------------------------------------------
(* The portal's order of routes.                                             *)

Place(t) == CHOOSE i \in DOMAIN Lexical : Lexical[i] = t

LEMMA PlaceOf ==
  /\ \A t \in ToSet(Lexical) : Place(t) \in Nat
  /\ \A s, t \in ToSet(Lexical) : Before(s, t) <=> Place(s) < Place(t)
<1>1. DOMAIN Lexical \subseteq Nat
  BY LexicalAssumption
<1>2. \A t \in ToSet(Lexical) : Place(t) \in DOMAIN Lexical /\ Lexical[Place(t)] = t
  BY DEF Place, ToSet
<1>3. \A i \in DOMAIN Lexical : Place(Lexical[i]) = i
  <2>1. \A i \in DOMAIN Lexical : Lexical[i] \in ToSet(Lexical)
    BY DEF ToSet
  <2> QED
    BY <1>2, <2>1, LexicalAssumption
<1>4. ASSUME NEW s \in ToSet(Lexical), NEW t \in ToSet(Lexical) PROVE Before(s, t) <=> Place(s) < Place(t)
  <2>1. Before(s, t) => Place(s) < Place(t)
    BY <1>3 DEF Before
  <2>2. Place(s) < Place(t) => Before(s, t)
    BY <1>2 DEF Before
  <2> QED
    BY <2>1, <2>2
<1> QED
  BY <1>1, <1>2, <1>4

\* Routes whose metrics are integers and whose networks are texts with a place.
Routes(items) ==
  /\ Listing(items)
  /\ \A i \in 1..Len(items) : items[i].Metric \in Int /\ items[i].Network \in ToSet(Lexical)
First(items, i, j) == RouteBefore(items[i], items[j]) \/ (~RouteBefore(items[j], items[i]) /\ i < j)
Firsts(items) == {w \in (1..Len(items)) \X (1..Len(items)) : First(items, w[1], w[2])}

LEMMA RoutesAreOrdered ==
  ASSUME NEW items, Routes(items)
  PROVE  IsOrder(1..Len(items), Firsts(items))
<1> DEFINE S == 1..Len(items)
           m(i) == MetricOf(items[i])
           p(i) == Place(items[i].Network)
<1>1. Len(items) \in Nat
  BY DEF Routes, Listing
<1>2. \A i \in S : m(i) \in Int /\ p(i) \in Int
  BY PlaceOf DEF Routes, MetricOf
<1>3. \A i, j \in S : RouteBefore(items[i], items[j]) <=> m(i) < m(j) \/ (m(i) = m(j) /\ p(i) < p(j))
  BY PlaceOf DEF Routes, RouteBefore
<1> HIDE DEF m, p
<1>4. \A i, j \in S : First(items, i, j) <=>
        \/ m(i) < m(j) \/ (m(i) = m(j) /\ p(i) < p(j))
        \/ ~(m(j) < m(i) \/ (m(j) = m(i) /\ p(j) < p(i))) /\ i < j
  BY <1>3 DEF First
<1>5. S \subseteq Int
  BY <1>1
<1>6. \A x \in S : ~First(items, x, x)
  BY <1>2, <1>4, <1>5
<1>7. \A x, y \in S : x # y => First(items, x, y) \/ First(items, y, x)
  BY <1>2, <1>4, <1>5
<1>8. ASSUME NEW x \in S, NEW y \in S, NEW z \in S, First(items, x, y), First(items, y, z)
      PROVE  First(items, x, z)
  BY <1>2, <1>4, <1>5, <1>8
<1> HIDE DEF S
<1>9. \A x, y \in S : <<x, y>> \in Firsts(items) <=> First(items, x, y)
  BY DEF Firsts, S
<1> QED
  BY <1>6, <1>7, <1>8, <1>9 DEF IsOrder, S

\* Sorted routes are the same routes, in the order of their metrics and networks.
LEMMA SortedRoutesAre ==
  ASSUME NEW items, Routes(items)
  PROVE  \E p :
               /\ p \in [1..Len(items) -> 1..Len(items)]
               /\ \A i \in 1..Len(items) : \E j \in 1..Len(items) : p[j] = i
               /\ \A i, j \in 1..Len(items) : i < j =>
                    First(items, p[i], p[j]) /\ ~RouteBefore(items[p[j]], items[p[i]])
               /\ SortedRoutes(items) = [i \in 1..Len(items) |-> items[p[i]]]
<1> DEFINE S == 1..Len(items)
           R == Firsts(items)
           p == [i \in 1..Cardinality(DOMAIN items) |->
                   CHOOSE x \in DOMAIN items : Cardinality({y \in DOMAIN items : First(items, y, x)}) = i - 1]
<1>1. Len(items) \in Nat /\ DOMAIN items = S
  BY ListingDomain DEF Routes, Listing
<1>2. IsFiniteSet(S) /\ Cardinality(S) = Len(items)
  <2>1. 1 \in Int /\ Len(items) \in Int
    BY <1>1
  <2>2. IsFiniteSet(1..Len(items)) /\ Cardinality(1..Len(items)) = IF 1 > Len(items) THEN 0 ELSE Len(items) - 1 + 1
    BY <2>1, FS_Interval
  <2> QED
    BY <1>1, <2>2
<1>3. SortedRoutes(items) = [i \in DOMAIN items |-> items[p[i]]]
  BY DEF SortedRoutes, Sorted, First
<1>4. p = [i \in 1..Cardinality(S) |->
             CHOOSE x \in S : Cardinality({y \in S : First(items, y, x)}) = i - 1]
  BY <1>1
<1>4a. p = [i \in 1..Cardinality(S) |-> p[i]]
  <2> DEFINE at(i) == CHOOSE x \in S : Cardinality({y \in S : First(items, y, x)}) = i - 1
  <2>1. p = [i \in 1..Cardinality(S) |-> at(i)]
    BY <1>4
  <2> HIDE DEF at, p, S
  <2> QED
    BY <2>1
<1>5. ASSUME NEW x \in S PROVE Rank(S, R, x) = Cardinality({y \in S : First(items, y, x)})
  <2>1. {y \in S : <<y, x>> \in R} = {y \in S : First(items, y, x)}
    BY DEF Firsts
  <2> QED
    BY <2>1 DEF Rank
<1> HIDE DEF p
<1>6. ASSUME NEW i \in 1..Cardinality(S), \E x \in S : Rank(S, R, x) = i - 1
      PROVE  p[i] \in S /\ Rank(S, R, p[i]) = i - 1
  <2> DEFINE P(x) == Cardinality({y \in S : First(items, y, x)}) = i - 1
  <2>1. p[i] = CHOOSE x \in S : P(x)
    BY <1>4
  <2>2. \A x \in S : P(x) <=> Rank(S, R, x) = i - 1
    BY <1>5
  <2> HIDE DEF P, S, R
  <2>3. \E x \in S : P(x)
    BY <1>6, <2>2
  <2>4. p[i] \in S /\ P(p[i])
    BY <2>1, <2>3
  <2> QED
    BY <2>2, <2>4
<1>7. Lists(S, R, p)
  <2>1. IsOrder(S, R)
    BY RoutesAreOrdered
  <2> HIDE DEF S, R
  <2> QED
    BY <1>2, <1>6, <1>4a, <2>1, SortedLists
<1>8. \A i, j \in S : <<i, j>> \in R => ~RouteBefore(items[j], items[i])
  <2>1. ASSUME NEW i \in S, NEW j \in S, First(items, i, j) PROVE ~RouteBefore(items[j], items[i])
    <3>1. \A k \in S : MetricOf(items[k]) \in Int /\ items[k].Network \in ToSet(Lexical)
      BY DEF Routes, MetricOf
    <3>2. \A k \in S : Place(items[k].Network) \in Int
      BY <3>1, PlaceOf
    <3> QED
      BY <2>1, <3>1, <3>2, PlaceOf DEF First, RouteBefore
  <2> QED
    BY <2>1 DEF Firsts
<1>9. /\ p \in [S -> S]
      /\ \A x \in S : \E i \in S : p[i] = x
      /\ \A i, j \in S : i < j => <<p[i], p[j]>> \in R
  <2> HIDE DEF R
  <2> QED
    BY <1>2, <1>7 DEF Lists
<1>10. \A i, j \in S : i < j => First(items, p[i], p[j]) /\ ~RouteBefore(items[p[j]], items[p[i]])
  <2>1. \A w \in R : First(items, w[1], w[2])
    BY DEF Firsts
  <2> HIDE DEF R, S
  <2> QED
    BY <1>8, <1>9, <2>1
<1> QED
  BY <1>1, <1>3, <1>9, <1>10

-----------------------------------------------------------------------------
(* The elements a list is written as.                                        *)

\* Items that a list can hold: each with an id of its own and fields that are read back, and
\* of routes, networks that have a place in the order of texts.
Listable(s, items) ==
  /\ Listing(items) /\ ~ListError(s, items)
  /\ \A i \in 1..Len(items) : PlainItem(s, items[i])
  /\ s = "StaticRoutes" => \A i \in 1..Len(items) : items[i].Network \in ToSet(Lexical)

LEMMA IdentitiesOf ==
  ASSUME NEW s, NEW items, Listing(items)
  PROVE  /\ Len(items) \in Nat
         /\ Identities(s, items) = [i \in 1..Len(items) |-> Identity(s, items[i])]
         /\ Listing(Identities(s, items)) /\ Len(Identities(s, items)) = Len(items)
<1>1. Len(items) \in Nat /\ DOMAIN items = 1..Len(items)
  BY ListingDomain DEF Listing
<1> DEFINE id(i) == Identity(s, items[i])
           q == [i \in 1..Len(items) |-> id(i)]
<1>2. Identities(s, items) = q
  BY <1>1 DEF Identities
<1> HIDE DEF id
<1>3. DOMAIN q = 1..Len(items) /\ q = [i \in DOMAIN q |-> q[i]]
  OBVIOUS
<1> HIDE DEF q
<1>4. Listing(q) /\ Len(q) = Len(items)
  BY <1>1, <1>3, ListingOf
<1> QED
  BY <1>1, <1>2, <1>4 DEF q, id

LEMMA IdsOf ==
  ASSUME NEW q, Listing(q)
  PROVE  /\ ElementIDs(q) = [i \in 1..Len(q) |-> AsString(At(q[i], "id"))]
         /\ Listing(ElementIDs(q)) /\ Len(ElementIDs(q)) = Len(q)
<1>1. Len(q) \in Nat /\ DOMAIN q = 1..Len(q)
  BY ListingDomain DEF Listing
<1> DEFINE id(i) == AsString(At(q[i], "id"))
           ids == [i \in 1..Len(q) |-> id(i)]
<1>2. ElementIDs(q) = ids
  BY <1>1 DEF ElementIDs
<1> HIDE DEF id
<1>3. DOMAIN ids = 1..Len(q) /\ ids = [i \in DOMAIN ids |-> ids[i]]
  OBVIOUS
<1> HIDE DEF ids
<1>4. Listing(ids) /\ Len(ids) = Len(q)
  BY <1>1, <1>3, ListingOf
<1> QED
  BY <1>2, <1>4 DEF ids, id

LEMMA OrderKinds ==
  ASSUME NEW s \in DOMAIN Codec
  PROVE  /\ Codec[s].order \in {"kept", "given", "sorted"}
         /\ Codec[s].order = "sorted" <=> s = "StaticRoutes"
         /\ Codec[s].order = "given" <=> s = "FirewallRules"
<1>1. s \in {"PortForwards", "FirewallRules", "VLANs", "StaticRoutes"}
  BY DEF Codec
<1>2. Codec[s].order = CASE s = "PortForwards" -> "kept" [] s = "FirewallRules" -> "given"
                         [] s = "VLANs" -> "kept" [] s = "StaticRoutes" -> "sorted"
  BY <1>1 DEF Codec, ListCodec
<1> QED
  BY <1>1, <1>2

LEMMA RouteRows ==
  LET row == Codec["StaticRoutes"].row
  IN \A f \in {"Metric", "Network"} : f \in DOMAIN row /\ row[f][3] = IF f = "Metric" THEN "int" ELSE "string"
<1>1. "StaticRoutes" \in DOMAIN Codec
  BY DEF Codec
<1>2. Codec["StaticRoutes"].fields = StaticRouteFields
  BY DEF Codec, ListCodec
<1>3. /\ 7 \in DOMAIN StaticRouteFields /\ StaticRouteFields[7] = <<"Metric", "metric", "int">>
      /\ 4 \in DOMAIN StaticRouteFields /\ StaticRouteFields[4] = <<"Network", "network", "string">>
  BY DEF StaticRouteFields
<1>4. "Metric" \in DOMAIN Codec["StaticRoutes"].row /\ Codec["StaticRoutes"].row["Metric"][3] = "int"
  BY <1>1, <1>2, <1>3, EveryRow
<1>5. "Network" \in DOMAIN Codec["StaticRoutes"].row /\ Codec["StaticRoutes"].row["Network"][3] = "string"
  BY <1>1, <1>2, <1>3, EveryRow
<1> QED
  BY <1>4, <1>5

LEMMA ListableRoutes ==
  ASSUME NEW items, Listable("StaticRoutes", items)
  PROVE  Routes(items)
<1>1. "Metric" \in DOMAIN Codec["StaticRoutes"].row /\ Codec["StaticRoutes"].row["Metric"][3] = "int"
  BY RouteRows
<1>2. ASSUME NEW i \in 1..Len(items) PROVE items[i]["Metric"] \in Int
  <2>1. PlainItem("StaticRoutes", items[i])
    BY DEF Listable
  <2>2. Plain(Codec["StaticRoutes"].row["Metric"][3], items[i]["Metric"])
    BY <1>1, <2>1 DEF PlainItem
  <2>3. items[i]["Metric"] \in Numbers \cup {NoInt}
    BY <1>1, <2>2 DEF Plain
  <2> QED
    BY <2>3, DecimalAssumption DEF Numbers, NoInt
<1> QED
  BY <1>2 DEF Routes, Listable

\* A list is written in the order of a list of the ids of its items.
LEMMA WriteOrderIs ==
  ASSUME NEW s \in DOMAIN Codec, NEW current, Listing(current), NEW items, Listable(s, items)
  PROVE  LET order == WriteOrder(s, current, items) IN
         /\ Listing(order)
         /\ Members(order) = Members(Identities(s, items))
         /\ s = "FirewallRules" => order = Identities(s, items)
         /\ \A again : Listing(again) /\ ElementIDs(again) = order => WriteOrder(s, again, items) = order
<1> DEFINE order == WriteOrder(s, current, items)
           ids == Identities(s, items)
<1>1. Listing(items)
  BY DEF Listable
<1>2. Len(items) \in Nat /\ Listing(ids)
  BY <1>1, IdentitiesOf
<1>3. CASE s = "FirewallRules"
  <2>1. \A again : WriteOrder(s, again, items) = ids
    BY <1>3, OrderKinds DEF WriteOrder
  <2> QED
    BY <1>2, <2>1
<1>4. CASE s = "StaticRoutes"
  <2> DEFINE sorted == SortedRoutes(items)
  <2>1. \A again : WriteOrder(s, again, items) = Identities(s, sorted)
    BY <1>4, OrderKinds DEF WriteOrder
  <2>2. PICK p : /\ p \in [1..Len(items) -> 1..Len(items)]
                 /\ \A i \in 1..Len(items) : \E j \in 1..Len(items) : p[j] = i
                 /\ sorted = [i \in 1..Len(items) |-> items[p[i]]]
    BY <1>4, ListableRoutes, SortedRoutesAre
  <2> HIDE DEF sorted
  <2>3. DOMAIN sorted = 1..Len(items) /\ sorted = [i \in DOMAIN sorted |-> sorted[i]]
    BY <2>2
  <2>4. Listing(sorted) /\ Len(sorted) = Len(items)
    BY <1>2, <2>3, ListingOf
  <2>5. /\ Listing(Identities(s, sorted)) /\ Len(Identities(s, sorted)) = Len(items)
        /\ \A i \in 1..Len(items) : Identities(s, sorted)[i] = Identity(s, sorted[i])
    BY <2>4, IdentitiesOf
  <2>6. Len(ids) = Len(items) /\ \A i \in 1..Len(items) : ids[i] = Identity(s, items[i])
    BY <1>1, IdentitiesOf
  <2>7. \A i \in 1..Len(items) : sorted[i] = items[p[i]] /\ p[i] \in 1..Len(items)
    BY <2>2
  <2> HIDE DEF ids
  <2>8. \A i \in 1..Len(items) : Identities(s, sorted)[i] = ids[p[i]] /\ p[i] \in 1..Len(items)
    BY <2>5, <2>6, <2>7
  <2> DEFINE u == Identities(s, sorted)
  <2>9. Members(u) = Members(ids)
    <3>1. Len(u) = Len(items) /\ \A i \in 1..Len(items) : u[i] = ids[p[i]] /\ p[i] \in 1..Len(items)
      BY <2>5, <2>8
    <3> HIDE DEF u
    <3>2. Members(u) \subseteq Members(ids)
      BY <2>6, <3>1 DEF Members
    <3>3. ASSUME NEW i \in 1..Len(items) PROVE ids[i] \in Members(u)
      <4>1. PICK j \in 1..Len(items) : p[j] = i
        BY <2>2
      <4> QED
        BY <3>1, <4>1 DEF Members
    <3>4. Members(ids) \subseteq Members(u)
      BY <2>6, <3>3 DEF Members
    <3> QED
      BY <3>2, <3>4
  <2> QED
    BY <1>4, <2>1, <2>5, <2>9 DEF ids
<1>5. CASE s \notin {"FirewallRules", "StaticRoutes"}
  <2>1. Codec[s].order = "kept"
    BY <1>5, OrderKinds
  <2>2. \A again : WriteOrder(s, again, items) = StableOrder(ElementIDs(again), ids)
    BY <2>1 DEF WriteOrder
  <2>3. Listing(ElementIDs(current))
    BY IdsOf
  <2> HIDE DEF ids, order
  <2>4. order = StableOrder(ElementIDs(current), ids)
    BY <2>2 DEF order
  <2>5. Listing(order) /\ Members(order) = Members(ids)
    BY <1>2, <2>3, <2>4, StableOrderIs
  <2>6. ASSUME NEW again, Listing(again), ElementIDs(again) = order PROVE WriteOrder(s, again, items) = order
    <3>1. StableOrder(order, ids) = order
      BY <1>2, <2>5, StableOrderIs
    <3> QED
      BY <2>2, <2>6, <3>1
  <2> QED
    BY <1>5, <2>5, <2>6 DEF ids, order
<1> QED
  BY <1>3, <1>4, <1>5

LEMMA DistinctItems ==
  ASSUME NEW s, NEW items, Listable(s, items)
  PROVE  \A i, j \in 1..Len(items) : Identity(s, items[i]) = Identity(s, items[j]) => i = j
<1>1. DOMAIN items = 1..Len(items)
  BY ListingDomain DEF Listable
<1>2. ~ListError(s, items)
  BY DEF Listable
<1>3. \A i, j \in DOMAIN items : ~(i # j /\ Identity(s, items[i]) = Identity(s, items[j]))
  BY <1>2, Zenon DEF ListError
<1> QED
  BY <1>1, <1>3

\* Routes are written by metric, and by network where the metrics are the same.
LEMMA RoutesInOrder ==
  ASSUME NEW current, NEW items, Listable("StaticRoutes", items)
  PROVE  LET order == WriteOrder("StaticRoutes", current, items) IN
         \A i, j \in 1..Len(order) : \A a, b \in 1..Len(items) :
           /\ i < j /\ order[i] = Identity("StaticRoutes", items[a]) /\ order[j] = Identity("StaticRoutes", items[b])
           => ~RouteBefore(items[b], items[a])
<1> DEFINE s == "StaticRoutes"
           order == WriteOrder(s, current, items)
           sorted == SortedRoutes(items)
<1>1. s \in DOMAIN Codec /\ Len(items) \in Nat
  BY DEF Codec, Listable, Listing
<1>2. order = Identities(s, sorted)
  BY <1>1, OrderKinds DEF WriteOrder
<1>3. PICK p : /\ p \in [1..Len(items) -> 1..Len(items)]
               /\ \A i, j \in 1..Len(items) : i < j => ~RouteBefore(items[p[j]], items[p[i]])
               /\ sorted = [i \in 1..Len(items) |-> items[p[i]]]
  <2>1. Routes(items)
    BY ListableRoutes
  <2> QED
    BY <2>1, SortedRoutesAre
<1> HIDE DEF sorted
<1>4. DOMAIN sorted = 1..Len(items) /\ sorted = [i \in DOMAIN sorted |-> sorted[i]]
  BY <1>3
<1>5. Listing(sorted) /\ Len(sorted) = Len(items)
  BY <1>1, <1>4, ListingOf
<1>6. Len(order) = Len(items) /\ \A i \in 1..Len(items) : order[i] = Identity(s, sorted[i])
  BY <1>2, <1>5, IdentitiesOf
<1>7. \A i \in 1..Len(items) : order[i] = Identity(s, items[p[i]]) /\ p[i] \in 1..Len(items)
  BY <1>3, <1>6
<1>8. SUFFICES ASSUME NEW i \in 1..Len(items), NEW j \in 1..Len(items), NEW a \in 1..Len(items), NEW b \in 1..Len(items),
                      i < j, order[i] = Identity(s, items[a]), order[j] = Identity(s, items[b])
               PROVE  ~RouteBefore(items[b], items[a])
  BY <1>6
<1> HIDE DEF order
<1>9. p[i] = a /\ p[j] = b
  BY <1>7, <1>8, DistinctItems
<1> QED
  BY <1>3, <1>8, <1>9

ElementsOf(q) == Listing(q) /\ \A i \in 1..Len(q) : IsElement(q[i])

LEMMA ExistingElement ==
  ASSUME NEW current, ElementsOf(current), NEW id
  PROVE  /\ IsElement(Existing(current, id))
         /\ At(Existing(current, id), "id") = Null \/ AsString(At(Existing(current, id), "id")) = id
<1>1. IsElement(EmptyObj) /\ At(EmptyObj, "id") = Null
  <2>1. DOMAIN Fields(EmptyObj) = {}
    BY DEF Fields, EmptyObj, Obj
  <2> QED
    BY <2>1, EmptyObject DEF IsElement, At
<1>2. CASE Existing(current, id) = EmptyObj
  BY <1>1, <1>2
<1>3. CASE Existing(current, id) # EmptyObj
  <2>1. PICK i \in 1..Len(current) :
          Existing(current, id) = current[i] /\ AsString(At(current[i], "id")) = id
    BY <1>3, ExistingIs DEF ElementsOf
  <2> QED
    BY <2>1 DEF ElementsOf
<1> QED
  BY <1>2, <1>3

LEMMA ObjTag == ASSUME NEW o, IsObj(o) PROVE o[1] = "obj"
<1> DEFINE f == [j \in DOMAIN Fields(o) |-> Fields(o)[j]]
<1>1. o = Obj(f)
  BY DEF IsObj
<1> HIDE DEF f
<1> QED
  BY <1>1 DEF Obj

\* Every element that is written is an item over the element that has its id, and has its id.
LEMMA NextIs ==
  ASSUME NEW s \in DOMAIN Codec, NEW current, ElementsOf(current), NEW items, Listable(s, items)
  PROVE  LET order == WriteOrder(s, current, items)
             next == NextElements(s, current, items)
         IN /\ Listing(next) /\ Len(next) = Len(order) /\ Len(order) \in Nat
            /\ \A i \in 1..Len(order) : \E j \in 1..Len(items) :
                 /\ order[i] = Identity(s, items[j])
                 /\ next[i] = Encode(Codec[s].fields, items[j], Existing(current, order[i]))
            /\ \A i \in 1..Len(order) : next[i][1] = "obj" /\ AsString(At(next[i], "id")) = order[i]
            /\ ElementIDs(next) = order
<1> DEFINE order == WriteOrder(s, current, items)
           ids == Identities(s, items)
           fields == Codec[s].fields
           item(id) == CHOOSE x \in ToSet(items) : Identity(s, x) = id
           at(i) == Encode(fields, item(order[i]), Existing(current, order[i]))
           next == [i \in DOMAIN order |-> at(i)]
<1>1. NextElements(s, current, items) = next
  BY DEF NextElements
<1>2. /\ Listing(order) /\ Members(order) = Members(ids)
      /\ Len(order) \in Nat /\ DOMAIN order = 1..Len(order)
  <2>1. Listing(order) /\ Members(order) = Members(ids)
    BY WriteOrderIs DEF ElementsOf
  <2> HIDE DEF order, ids
  <2> QED
    BY <2>1, ListingDomain DEF Listing
<1>3. /\ Len(ids) = Len(items) /\ Len(items) \in Nat /\ DOMAIN items = 1..Len(items)
      /\ \A j \in 1..Len(items) : ids[j] = Identity(s, items[j])
  BY IdentitiesOf, ListingDomain DEF Listable
<1>4. \A i, j \in 1..Len(items) : Identity(s, items[i]) = Identity(s, items[j]) => i = j
  BY DistinctItems
<1> HIDE DEF order, ids, fields
<1>5. ASSUME NEW i \in 1..Len(order)
      PROVE  \E j \in 1..Len(items) : order[i] = Identity(s, items[j]) /\ item(order[i]) = items[j]
  <2>1. order[i] \in Members(ids)
    BY <1>2 DEF Members
  <2>2. PICK j \in 1..Len(items) : order[i] = Identity(s, items[j])
    BY <1>3, <2>1 DEF Members
  <2>3. items[j] \in ToSet(items)
    BY <1>3 DEF ToSet
  <2>4. item(order[i]) \in ToSet(items) /\ Identity(s, item(order[i])) = order[i]
    BY <2>2, <2>3
  <2> HIDE DEF item
  <2>5. PICK k \in 1..Len(items) : item(order[i]) = items[k]
    BY <1>3, <2>4 DEF ToSet
  <2>6. k = j
    BY <1>4, <2>2, <2>4, <2>5
  <2> QED
    BY <2>2, <2>5, <2>6
<1>6. ASSUME NEW i \in 1..Len(order)
      PROVE  /\ \E j \in 1..Len(items) : /\ order[i] = Identity(s, items[j])
                                        /\ at(i) = Encode(fields, items[j], Existing(current, order[i]))
             /\ at(i)[1] = "obj" /\ AsString(At(at(i), "id")) = order[i]
  <2>1. PICK j \in 1..Len(items) : order[i] = Identity(s, items[j]) /\ item(order[i]) = items[j]
    BY <1>5
  <2> DEFINE e == Existing(current, order[i])
             q == Encode(fields, items[j], e)
  <2>2. at(i) = q
    BY <2>1
  <2>3. IsElement(e) /\ (At(e, "id") = Null \/ AsString(At(e, "id")) = order[i])
    BY ExistingElement
  <2>4. PlainItem(s, items[j])
    BY DEF Listable
  <2> HIDE DEF e
  <2>5. AsString(At(q, "id")) = order[i]
    BY <2>1, <2>3, <2>4, IdentityIsWritten DEF fields
  <2>6. q[1] = "obj"
    <3>1. IsObj(q)
      BY <2>3, Codecs, EncodedInObject DEF fields, IsElement
    <3> HIDE DEF q
    <3> QED
      BY <3>1, ObjTag
  <2> HIDE DEF q, at
  <2> QED
    BY <2>1, <2>2, <2>5, <2>6 DEF e, q
<1> HIDE DEF at
<1>7. DOMAIN next = 1..Len(order) /\ next = [i \in DOMAIN next |-> next[i]] /\ \A i \in 1..Len(order) : next[i] = at(i)
  BY <1>2
<1> HIDE DEF next
<1>8. Listing(next) /\ Len(next) = Len(order)
  BY <1>2, <1>7, ListingOf
<1>9. ElementIDs(next) = order
  <2>1. ElementIDs(next) = [i \in 1..Len(next) |-> AsString(At(next[i], "id"))]
    BY <1>8, IdsOf
  <2>2. \A i \in 1..Len(next) : AsString(At(next[i], "id")) = order[i]
    BY <1>6, <1>7, <1>8
  <2>3. ElementIDs(next) = [i \in 1..Len(next) |-> order[i]]
    BY <2>1, <2>2
  <2> QED
    BY <1>2, <1>8, <2>3 DEF Listing
<1> QED
  BY <1>1, <1>2, <1>6, <1>7, <1>8, <1>9 DEF order, fields

\* Over the elements it was written as, the list is written as the same elements.
LEMMA NextAgain ==
  ASSUME NEW s \in DOMAIN Codec, NEW current, ElementsOf(current), NEW items, Listable(s, items)
  PROVE  LET next == NextElements(s, current, items) IN NextElements(s, next, items) = next
<1> DEFINE order == WriteOrder(s, current, items)
           next == NextElements(s, current, items)
           fields == Codec[s].fields
           item(id) == CHOOSE x \in ToSet(items) : Identity(s, x) = id
<1>1. /\ Listing(next) /\ Len(next) = Len(order) /\ Len(order) \in Nat
      /\ \A i \in 1..Len(order) : \E j \in 1..Len(items) :
           /\ order[i] = Identity(s, items[j])
           /\ next[i] = Encode(fields, items[j], Existing(current, order[i]))
      /\ \A i \in 1..Len(order) : AsString(At(next[i], "id")) = order[i]
      /\ ElementIDs(next) = order
  BY NextIs
<1>2. /\ Listing(order)
      /\ \A again : Listing(again) /\ ElementIDs(again) = order => WriteOrder(s, again, items) = order
  BY WriteOrderIs DEF ElementsOf
<1>3. next = [i \in DOMAIN order |-> Encode(fields, item(order[i]), Existing(current, order[i]))]
  BY DEF NextElements
<1>4. NextElements(s, next, items) =
        LET o == WriteOrder(s, next, items)
        IN [i \in DOMAIN o |-> Encode(fields, item(o[i]), Existing(next, o[i]))]
  BY DEF NextElements
<1> HIDE DEF order, next, item, fields
<1>5. WriteOrder(s, next, items) = order /\ DOMAIN order = 1..Len(order)
  BY <1>1, <1>2, ListingDomain
<1>6. NextElements(s, next, items) = [i \in 1..Len(order) |-> Encode(fields, item(order[i]), Existing(next, order[i]))]
  BY <1>4, <1>5
<1>7. ASSUME NEW i \in 1..Len(order)
      PROVE  Encode(fields, item(order[i]), Existing(next, order[i])) = next[i]
  <2>1. next[i] = Encode(fields, item(order[i]), Existing(current, order[i]))
    BY <1>3, <1>5
  <2>2. PICK k \in 1..Len(next) : Existing(next, order[i]) = next[k] /\ AsString(At(next[k], "id")) = order[i]
    BY <1>1, ExistingIs
  <2>3. order[k] = order[i] /\ next[k] = Encode(fields, item(order[k]), Existing(current, order[k]))
    BY <1>1, <1>3, <1>5, <2>2
  <2>4. next[k] = next[i]
    BY <2>1, <2>3
  <2>5. PICK j \in 1..Len(items) :
          order[i] = Identity(s, items[j]) /\ next[i] = Encode(fields, items[j], Existing(current, order[i]))
    BY <1>1
  <2>6. item(order[i]) = items[j]
    <3>1. /\ Listing(items) /\ \A a, b \in 1..Len(items) : Identity(s, items[a]) = Identity(s, items[b]) => a = b
      BY DistinctItems DEF Listable
    <3>2. DOMAIN items = 1..Len(items)
      BY <3>1, ListingDomain
    <3>3. items[j] \in ToSet(items)
      BY <3>2 DEF ToSet
    <3>4. item(order[i]) \in ToSet(items) /\ Identity(s, item(order[i])) = order[i]
      BY <2>5, <3>3 DEF item
    <3>5. PICK b \in 1..Len(items) : item(order[i]) = items[b]
      BY <3>2, <3>4 DEF ToSet
    <3> QED
      BY <2>5, <3>1, <3>4, <3>5
  <2>7. PlainItem(s, items[j]) /\ IsElement(Existing(current, order[i]))
    BY ExistingElement DEF Listable
  <2>8. Encode(fields, items[j], next[i]) = next[i]
    BY <2>5, <2>7, SecondEncodeIsQuiet DEF fields
  <2> QED
    BY <2>2, <2>4, <2>6, <2>8
<1>8. NextElements(s, next, items) = [i \in 1..Len(order) |-> next[i]]
  BY <1>6, <1>7
<1> QED
  BY <1>1, <1>8 DEF Listing, next

-----------------------------------------------------------------------------
(* A list section, written and read back.                                    *)

LEMMA ElementsAre ==
  ASSUME NEW s \in DOMAIN Codec, NEW root, HoldsElements(s, root)
  PROVE  ElementsOf(Elements(Codec[s].path, root))
<1> DEFINE q == Entries(Node(root, Codec[s].path))
           S == {e \in ToSet(q) : e[1] = "obj"}
           k == Elements(Codec[s].path, root)
<1>1. Listing(q) /\ \A i \in 1..Len(q) : q[i][1] = "obj" => IsElement(q[i])
  BY DEF HoldsElements
<1>2. k = Kept(q, S)
  BY DEF Elements
<1> HIDE DEF q, k
<1>3. IsKept(q, S, k)
  BY <1>1, <1>2, KeptIs
<1>4. \A x \in Members(q) \cap S : IsElement(x)
  BY <1>1 DEF Members
<1> HIDE DEF S
<1>5. k \in Seq(Members(q) \cap S)
  BY <1>3 DEF IsKept
<1>6. Listing(k) /\ \A i \in 1..Len(k) : k[i] \in Members(q) \cap S
  BY <1>5, SeqListing
<1> QED
  BY <1>4, <1>6 DEF ElementsOf, k

LEMMA Paths ==
  ASSUME NEW s \in DOMAIN Codec
  PROVE  LET path == Codec[s].path IN
         Len(path) \in Nat /\ Len(path) # 0 /\ Front(path) = Prefix(path, Len(path) - 1) /\ Len(path) - 1 \in Nat
<1>1. Codec[s].path \in {<<"firewall", "nat", "rules">>, <<"firewall", "firewall", "rules">>, <<"vlans">>, <<"routes">>}
  BY DEF Codec, ListCodec
<1>2. Len(Codec[s].path) \in Nat /\ Len(Codec[s].path) # 0
  BY <1>1
<1> QED
  BY <1>2 DEF Front, Prefix

LEMMA NothingAtNull == Entries(Null) = <<>> /\ \A S : Kept(<<>>, S) = <<>>
<1>1. Entries(Null) = <<>>
  BY Tags DEF Entries
<1>2. ASSUME NEW S PROVE Kept(<<>>, S) = <<>>
  <2>1. Len(<<>>) \in Nat /\ Len(<<>>) = 0
    OBVIOUS
  <2> QED
    BY <2>1, KeptRuns
<1> QED
  BY <1>1, <1>2

\* What is read of a list after a write is what was written, also where an empty list is not.
LEMMA WrittenElements ==
  ASSUME NEW s \in DOMAIN Codec, NEW root, HoldsElements(s, root), NEW items, Listable(s, items)
  PROVE  LET path == Codec[s].path IN
         Elements(path, ListWrite(s, root, items)) = NextElements(s, Elements(path, root), items)
<1> DEFINE path == Codec[s].path
           front == Front(path)
           current == Elements(path, root)
           next == NextElements(s, current, items)
           grown == PutAt(root, front, Obj(Fields(Node(root, front))))
           written == ListWrite(s, root, items)
<1>1. Len(path) \in Nat /\ Len(path) # 0 /\ front = Prefix(path, Len(path) - 1) /\ Len(path) - 1 \in Nat
  BY Paths
<1>2. written = IF next = <<>> /\ Node(root, path) = Null THEN grown ELSE PutAt(root, path, List(next))
  BY DEF ListWrite
<1>3. ElementsOf(current)
  BY ElementsAre
<1>4. Listing(next) /\ \A i \in 1..Len(next) : next[i][1] = "obj"
  <2> HIDE DEF next, current, path
  <2> QED
    BY <1>3, NextIs DEF next
<1>4a. SUFFICES Elements(path, written) = next
  OBVIOUS
<1> HIDE DEF path, next, current, written
<1>5. Elements(path, written) = LET q == Entries(Node(written, path)) IN Kept(q, {e \in ToSet(q) : e[1] = "obj"})
  BY DEF Elements
<1>6. CASE next = <<>> /\ Node(root, path) = Null
  <2>1. written = grown /\ Len(front) \in Nat
    <3>1. Len(front) = Len(path) - 1
      BY <1>1, PrefixOf
    <3> QED
      BY <1>1, <1>2, <1>6, <3>1
  <2>2. Node(grown, front) = Obj(Fields(Node(root, front)))
    BY <2>1, PutIsThere
  <2>3. \A r : Node(r, path) = At(Node(r, front), path[Len(path)])
    BY <1>1, NodeAlong, NodeNext
  <2>4. Node(grown, path) = Node(root, path)
    BY <2>2, <2>3, FieldsObj DEF At
  <2> QED
    BY <1>5, <1>6, <2>1, <2>4, NothingAtNull
<1>7. CASE ~(next = <<>> /\ Node(root, path) = Null)
  <2>1. Node(written, path) = List(next)
    BY <1>1, <1>2, <1>7, PutIsThere
  <2>2. Entries(List(next)) = next
    BY Tags DEF Entries
  <2>3. Kept(next, {e \in ToSet(next) : e[1] = "obj"}) = next
    <3>1. \A i \in 1..Len(next) : next[i] \in {e \in ToSet(next) : e[1] = "obj"}
      BY <1>4, ListingDomain DEF ToSet
    <3> QED
      BY <1>4, <3>1, KeptIs DEF IsKept
  <2> QED
    BY <1>5, <2>1, <2>2, <2>3
<1> QED
  BY <1>6, <1>7

\* A list that was written reads as what was asked: every item is read back as the first
\* theorem says, nothing else is, in the order asked for when the order is the items', and
\* routes by metric and network (collection.go write and read).
THEOREM ListReadsBack ==
  ASSUME NEW s \in DOMAIN Codec, NEW root, HoldsElements(s, root), NEW items, Listable(s, items)
  PROVE  LET back == ListRead(s, ListWrite(s, root, items))
             same(i, j) == \A f \in DOMAIN Codec[s].row : ReadsAs(Codec[s].row[f][3], back[i][f], items[j][f])
         IN /\ Len(back) \in Nat /\ DOMAIN back = 1..Len(back)
            /\ \A j \in 1..Len(items) : \E i \in 1..Len(back) : same(i, j)
            /\ \A i \in 1..Len(back) : \E j \in 1..Len(items) : same(i, j)
            /\ s = "FirewallRules" => Len(back) = Len(items) /\ \A i \in 1..Len(items) : same(i, i)
            /\ s = "StaticRoutes" => \A i, j \in 1..Len(back) : i < j => ~RouteBefore(back[j], back[i])
<1> DEFINE path == Codec[s].path
           row == Codec[s].row
           fields == Codec[s].fields
           current == Elements(path, root)
           order == WriteOrder(s, current, items)
           next == NextElements(s, current, items)
           back == ListRead(s, ListWrite(s, root, items))
           same(i, j) == \A f \in DOMAIN row : ReadsAs(row[f][3], back[i][f], items[j][f])
<1>1. Elements(path, ListWrite(s, root, items)) = next
  BY WrittenElements
<1>2. back = [i \in DOMAIN next |-> Decode(row, next[i])]
  BY <1>1 DEF ListRead
<1>3. ElementsOf(current)
  BY ElementsAre
<1>4. /\ Listing(next) /\ Len(next) = Len(order) /\ Len(order) \in Nat
      /\ \A i \in 1..Len(order) : \E j \in 1..Len(items) :
           order[i] = Identity(s, items[j]) /\ next[i] = Encode(fields, items[j], Existing(current, order[i]))
  <2> HIDE DEF current
  <2> QED
    BY <1>3, NextIs
<1>5. /\ Members(order) = Members(Identities(s, items))
      /\ s = "FirewallRules" => order = Identities(s, items)
  <2> HIDE DEF current
  <2> QED
    BY <1>3, WriteOrderIs DEF ElementsOf
<1> HIDE DEF path, row, current, order, next, back, fields
<1>6. DOMAIN back = 1..Len(order) /\ \A i \in 1..Len(order) : back[i] = Decode(row, next[i])
  BY <1>2, <1>4, ListingDomain
<1>7. Len(back) = Len(order)
  <2>1. back = [i \in DOMAIN back |-> back[i]]
    <3> DEFINE g(i) == Decode(row, next[i])
    <3>1. back = [i \in DOMAIN next |-> g(i)]
      BY <1>2
    <3> HIDE DEF g
    <3> QED
      BY <3>1
  <2> QED
    BY <1>4, <1>6, <2>1, ListingOf
<1>8. ASSUME NEW i \in 1..Len(order), NEW j \in 1..Len(items), order[i] = Identity(s, items[j]) PROVE same(i, j)
  <2>1. PICK k \in 1..Len(items) :
          order[i] = Identity(s, items[k]) /\ next[i] = Encode(fields, items[k], Existing(current, order[i]))
    BY <1>4
  <2>2. k = j
    BY <1>8, <2>1, DistinctItems
  <2>3. PlainItem(s, items[j])
    BY DEF Listable
  <2>4. ASSUME NEW f \in DOMAIN row
        PROVE  ReadsAs(row[f][3], Decode(row, Encode(fields, items[j], Existing(current, order[i])))[f], items[j][f])
    BY <2>3, ElementReadsBack DEF row, fields
  <2> QED
    BY <1>6, <2>1, <2>2, <2>4
<1>9. /\ Len(Identities(s, items)) = Len(items)
      /\ \A j \in 1..Len(items) : Identities(s, items)[j] = Identity(s, items[j])
  BY IdentitiesOf DEF Listable
<1>10. ASSUME NEW j \in 1..Len(items) PROVE \E i \in 1..Len(order) : same(i, j)
  <2>1. Identity(s, items[j]) \in Members(order)
    BY <1>5, <1>9 DEF Members
  <2>2. PICK i \in 1..Len(order) : order[i] = Identity(s, items[j])
    BY <2>1 DEF Members
  <2> HIDE DEF same
  <2> QED
    BY <1>8, <2>2
<1>11. ASSUME NEW i \in 1..Len(order) PROVE \E j \in 1..Len(items) : same(i, j)
  <2>1. PICK j \in 1..Len(items) : order[i] = Identity(s, items[j])
    BY <1>4
  <2> HIDE DEF same
  <2> QED
    BY <1>8, <2>1
<1>12. s = "FirewallRules" => Len(order) = Len(items) /\ \A i \in 1..Len(items) : same(i, i)
  <2> HIDE DEF same
  <2> QED
    BY <1>5, <1>8, <1>9
<1>13. ASSUME s = "StaticRoutes", NEW i \in 1..Len(order), NEW j \in 1..Len(order), i < j
       PROVE  ~RouteBefore(back[j], back[i])
  <2>1. PICK a \in 1..Len(items) : order[i] = Identity(s, items[a])
    BY <1>4
  <2>2. PICK b \in 1..Len(items) : order[j] = Identity(s, items[b])
    BY <1>4
  <2>3. ~RouteBefore(items[b], items[a])
    BY <1>13, <2>1, <2>2, RoutesInOrder DEF order
  <2>4. \A f \in {"Metric", "Network"} : f \in DOMAIN row /\ row[f][3] \notin {"set", "csv", "endpoint"}
    BY <1>13, RouteRows DEF row
  <2>5. same(i, a) /\ same(j, b)
    BY <1>8, <2>1, <2>2
  <2>6. /\ back[i].Metric = items[a].Metric /\ back[i].Network = items[a].Network
        /\ back[j].Metric = items[b].Metric /\ back[j].Network = items[b].Network
    BY <2>4, <2>5 DEF ReadsAs, Stored
  <2> QED
    BY <2>3, <2>6 DEF RouteBefore, MetricOf
<1>14. /\ Len(back) \in Nat /\ DOMAIN back = 1..Len(back)
       /\ \A j \in 1..Len(items) : \E i \in 1..Len(back) : same(i, j)
       /\ \A i \in 1..Len(back) : \E j \in 1..Len(items) : same(i, j)
       /\ s = "FirewallRules" => Len(back) = Len(items) /\ \A i \in 1..Len(items) : same(i, i)
       /\ s = "StaticRoutes" => \A i, j \in 1..Len(back) : i < j => ~RouteBefore(back[j], back[i])
  <2> HIDE DEF same
  <2> QED
    BY <1>4, <1>6, <1>7, <1>10, <1>11, <1>12, <1>13
<1> QED
  BY <1>14 DEF row, back

-----------------------------------------------------------------------------
(* Paths that part.                                                          *)

\* Every object along a path is one, and has the next key.
Rooted(root, path) ==
  \A m \in 1..Len(path) :
    IsObj(Node(root, Prefix(path, m - 1))) /\ path[m] \in DOMAIN Fields(Node(root, Prefix(path, m - 1)))

LEMMA PutOnTheWay ==
  ASSUME NEW root, NEW path, NEW v, Len(path) \in Nat
  PROVE  \A m \in 1..Len(path) : \E w :
           Node(PutAt(root, path, v), Prefix(path, m - 1)) = With(Obj(Fields(Node(root, Prefix(path, m - 1)))), path[m], w)
<1> DEFINE n == Len(path)
           next == PutAt(root, path, v)
<1>1. PICK f : /\ f[0] = v /\ PutAt(root, path, v) = f[Len(path)]
               /\ \A i \in 1..Len(path) :
                    f[i] = With(Obj(Fields(Node(root, Prefix(path, Len(path) - i)))), path[Len(path) - i + 1], f[i - 1])
  BY PutAlongPath
<1>2. \A m \in 0..n : Node(next, Prefix(path, m)) = f[n - m]
  BY <1>1, NodePut
<1> HIDE DEF next
<1>3. ASSUME NEW m \in 1..n
      PROVE  \E w : Node(next, Prefix(path, m - 1)) = With(Obj(Fields(Node(root, Prefix(path, m - 1)))), path[m], w)
  <2> DEFINE i == n - (m - 1)
  <2>1. m - 1 \in 0..n /\ i \in 1..n /\ n - i = m - 1 /\ n - i + 1 = m
    OBVIOUS
  <2>2. Node(next, Prefix(path, m - 1)) = f[i]
    BY <1>2, <2>1
  <2> HIDE DEF i
  <2>3. f[i] = With(Obj(Fields(Node(root, Prefix(path, n - i)))), path[n - i + 1], f[i - 1])
    BY <1>1, <2>1
  <2> QED
    BY <2>1, <2>2, <2>3
<1> QED
  BY <1>3 DEF next

LEMMA PutRoots ==
  ASSUME NEW root, NEW path, NEW v, Len(path) \in Nat
  PROVE  Rooted(PutAt(root, path, v), path)
<1> DEFINE next == PutAt(root, path, v)
<1>1. ASSUME NEW m \in 1..Len(path)
      PROVE  IsObj(Node(next, Prefix(path, m - 1))) /\ path[m] \in DOMAIN Fields(Node(next, Prefix(path, m - 1)))
  <2>1. PICK w : Node(next, Prefix(path, m - 1)) = With(Obj(Fields(Node(root, Prefix(path, m - 1)))), path[m], w)
    BY PutOnTheWay
  <2> DEFINE o == Obj(Fields(Node(root, Prefix(path, m - 1))))
  <2>2. IsObj(With(o, path[m], w)) /\ DOMAIN Fields(With(o, path[m], w)) = {path[m]} \cup DOMAIN Fields(o)
    BY WithIsObj, FieldsWith
  <2> HIDE DEF next, o
  <2>3. Node(next, Prefix(path, m - 1)) = With(o, path[m], w)
    BY <2>1 DEF o
  <2> QED
    BY <2>2, <2>3
<1> HIDE DEF next
<1>2. Rooted(next, path)
  BY <1>1 DEF Rooted
<1> QED
  BY <1>2 DEF next

\* What is there already may be put there.
LEMMA PutPresent ==
  ASSUME NEW root, NEW path, Len(path) \in Nat, Rooted(root, path)
  PROVE  PutAt(root, path, Node(root, path)) = root
<1> DEFINE n == Len(path)
           v == Node(root, path)
<1>1. PICK f : /\ f[0] = v /\ PutAt(root, path, v) = f[Len(path)]
               /\ \A i \in 1..Len(path) :
                    f[i] = With(Obj(Fields(Node(root, Prefix(path, Len(path) - i)))), path[Len(path) - i + 1], f[i - 1])
  BY PutAlongPath
<1>0. Node(root, Prefix(path, 0)) = root /\ v = Node(root, Prefix(path, n))
  BY NodeAlong
<1> DEFINE S == {i \in Nat : i <= n => f[i] = Node(root, Prefix(path, n - i))}
<1>2. 0 \in S
  <2>1. n - 0 = n
    OBVIOUS
  <2> HIDE DEF n, v
  <2> QED
    BY <1>0, <1>1, <2>1
<1>3. ASSUME NEW i \in Nat, i \in S PROVE i + 1 \in S
  <2>1. SUFFICES ASSUME i + 1 <= n PROVE f[i + 1] = Node(root, Prefix(path, n - (i + 1)))
    OBVIOUS
  <2> DEFINE m == n - i
             o == Node(root, Prefix(path, m - 1))
  <2>2. m \in 1..n /\ i + 1 \in 1..n /\ n - (i + 1) = m - 1 /\ n - (i + 1) + 1 = m /\ (i + 1) - 1 = i /\ i <= n
    BY <2>1
  <2>3. f[i] = Node(root, Prefix(path, m))
    BY <1>3, <2>2
  <2>4. f[i + 1] = With(Obj(Fields(o)), path[m], f[i])
    BY <1>1, <2>2
  <2>5. Node(root, Prefix(path, m)) = At(o, path[m])
    BY <2>2, NodeNext
  <2>6. IsObj(o) /\ path[m] \in DOMAIN Fields(o)
    BY <2>2 DEF Rooted
  <2> HIDE DEF m, n, o
  <2>7. Obj(Fields(o)) = o
    BY <2>6, FieldsObj DEF IsObj
  <2>8. f[i + 1] = o
    BY <2>3, <2>4, <2>5, <2>6, <2>7, WithSame
  <2> QED
    BY <2>2, <2>8 DEF o
<1>4. n \in S
  <2> HIDE DEF S, v
  <2> QED
    BY <1>2, <1>3, NatInduct
<1>5. n - n = 0 /\ n <= n
  OBVIOUS
<1> HIDE DEF n, v
<1> QED
  BY <1>0, <1>1, <1>4, <1>5 DEF n, v

\* p and q are the same up to their m-th key, and there they part.
Part(p, q, m) ==
  /\ Len(p) \in Nat /\ Len(q) \in Nat /\ m \in 1..Len(p) /\ m \in 1..Len(q)
  /\ \A i \in 1..(m - 1) : p[i] = q[i]
  /\ p[m] # q[m]

LEMMA CommonNodes ==
  ASSUME NEW root, NEW p, NEW q, NEW m, Part(p, q, m)
  PROVE  \A i \in 0..(m - 1) : Node(root, Prefix(p, i)) = Node(root, Prefix(q, i))
<1> DEFINE S == {i \in Nat : i <= m - 1 => Node(root, Prefix(p, i)) = Node(root, Prefix(q, i))}
<1>0. Len(p) \in Nat /\ Len(q) \in Nat /\ m \in 1..Len(p) /\ m \in 1..Len(q) /\ m \in Nat
  BY DEF Part
<1>1. 0 \in S
  BY <1>0, NodeAlong
<1>2. ASSUME NEW i \in Nat, i \in S PROVE i + 1 \in S
  <2>1. SUFFICES ASSUME i + 1 <= m - 1 PROVE Node(root, Prefix(p, i + 1)) = Node(root, Prefix(q, i + 1))
    OBVIOUS
  <2>2. i + 1 \in 1..(m - 1) /\ i + 1 \in 1..Len(p) /\ i + 1 \in 1..Len(q) /\ (i + 1) - 1 = i /\ i <= m - 1
    BY <1>0, <2>1
  <2>3. Node(root, Prefix(p, i + 1)) = At(Node(root, Prefix(p, i)), p[i + 1])
    BY <1>0, <2>2, NodeNext
  <2>4. Node(root, Prefix(q, i + 1)) = At(Node(root, Prefix(q, i)), q[i + 1])
    BY <1>0, <2>2, NodeNext
  <2>5. p[i + 1] = q[i + 1]
    BY <2>2 DEF Part
  <2> QED
    BY <1>2, <2>2, <2>3, <2>4, <2>5
<1>3. \A i \in Nat : i \in S
  <2> HIDE DEF S
  <2> QED
    BY <1>1, <1>2, NatInduct
<1> QED
  BY <1>0, <1>3

LEMMA PutAside ==
  ASSUME NEW root, NEW p, NEW q, NEW m, Part(p, q, m), NEW v
  PROVE  \A i \in m..Len(q) : Node(PutAt(root, p, v), Prefix(q, i)) = Node(root, Prefix(q, i))
<1> DEFINE next == PutAt(root, p, v)
           S == {i \in Nat : i \in m..Len(q) => Node(next, Prefix(q, i)) = Node(root, Prefix(q, i))}
<1>0. Len(p) \in Nat /\ Len(q) \in Nat /\ m \in 1..Len(p) /\ m \in 1..Len(q) /\ m \in Nat /\ p[m] # q[m]
  BY DEF Part
<1>1. 0 \in S
  BY <1>0
<1>2. ASSUME NEW i \in Nat, i \in S PROVE i + 1 \in S
  <2>1. SUFFICES ASSUME i + 1 \in m..Len(q) PROVE Node(next, Prefix(q, i + 1)) = Node(root, Prefix(q, i + 1))
    OBVIOUS
  <2>2. i + 1 \in 1..Len(q) /\ (i + 1) - 1 = i
    BY <1>0, <2>1
  <2>3. \A r : Node(r, Prefix(q, i + 1)) = At(Node(r, Prefix(q, i)), q[i + 1])
    BY <1>0, <2>2, NodeNext
  <2>4. CASE i + 1 = m
    <3>1. i \in 0..(m - 1) /\ m - 1 = i
      BY <1>0, <2>4
    <3>2. PICK w : Node(next, Prefix(p, m - 1)) = With(Obj(Fields(Node(root, Prefix(p, m - 1)))), p[m], w)
      BY <1>0, PutOnTheWay
    <3>3. \A r : Node(r, Prefix(q, i)) = Node(r, Prefix(p, i))
      BY <3>1, CommonNodes
    <3> DEFINE o == Node(root, Prefix(p, i))
    <3>4. Node(next, Prefix(q, i)) = With(Obj(Fields(o)), p[m], w) /\ Node(root, Prefix(q, i)) = o
      BY <3>1, <3>2, <3>3
    <3> HIDE DEF o, next
    <3>5. At(With(Obj(Fields(o)), p[m], w), q[m]) = At(Obj(Fields(o)), q[m])
      BY <1>0, AtWith
    <3>6. At(Obj(Fields(o)), q[m]) = At(o, q[m])
      BY FieldsObj DEF At
    <3> QED
      BY <2>3, <2>4, <3>4, <3>5, <3>6
  <2>5. CASE i + 1 # m
    <3>1. i \in m..Len(q)
      BY <1>0, <2>1, <2>5
    <3> QED
      BY <1>2, <2>3, <3>1
  <2> QED
    BY <2>4, <2>5
<1>3. \A i \in Nat : i \in S
  <2> HIDE DEF S
  <2> QED
    BY <1>1, <1>2, NatInduct
<1>4. \A i \in m..Len(q) : i \in Nat
  BY <1>0
<1> QED
  BY <1>3, <1>4

LEMMA NodeAside ==
  ASSUME NEW root, NEW p, NEW q, NEW m, Part(p, q, m), NEW v
  PROVE  Node(PutAt(root, p, v), q) = Node(root, q)
<1>1. Len(q) \in Nat /\ Len(q) \in m..Len(q)
  BY DEF Part
<1>2. \A r : Node(r, q) = Node(r, Prefix(q, Len(q)))
  BY <1>1, NodeAlong
<1> QED
  BY <1>1, <1>2, PutAside

LEMMA RootedAside ==
  ASSUME NEW root, NEW p, NEW q, NEW m, Part(p, q, m), NEW v, Rooted(root, q)
  PROVE  Rooted(PutAt(root, p, v), q)
<1> DEFINE next == PutAt(root, p, v)
<1>0. Len(p) \in Nat /\ Len(q) \in Nat /\ m \in 1..Len(p) /\ m \in 1..Len(q) /\ m \in Nat
  BY DEF Part
<1>1. ASSUME NEW j \in 1..Len(q)
      PROVE  IsObj(Node(next, Prefix(q, j - 1))) /\ q[j] \in DOMAIN Fields(Node(next, Prefix(q, j - 1)))
  <2>1. IsObj(Node(root, Prefix(q, j - 1))) /\ q[j] \in DOMAIN Fields(Node(root, Prefix(q, j - 1)))
    BY DEF Rooted
  <2>2. CASE j - 1 >= m
    <3>1. j - 1 \in m..Len(q)
      BY <1>0, <2>2
    <3>2. Node(next, Prefix(q, j - 1)) = Node(root, Prefix(q, j - 1))
      BY <3>1, PutAside
    <3> QED
      BY <2>1, <3>2
  <2>3. CASE ~(j - 1 >= m)
    <3>1. j \in 1..Len(p) /\ j - 1 \in 0..(m - 1)
      BY <1>0, <2>3
    <3>2. PICK w : Node(next, Prefix(p, j - 1)) = With(Obj(Fields(Node(root, Prefix(p, j - 1)))), p[j], w)
      BY <1>0, <3>1, PutOnTheWay
    <3>3. \A r : Node(r, Prefix(q, j - 1)) = Node(r, Prefix(p, j - 1))
      BY <3>1, CommonNodes
    <3> DEFINE o == Node(root, Prefix(q, j - 1))
    <3>4. Node(next, Prefix(q, j - 1)) = With(Obj(Fields(o)), p[j], w)
      BY <3>2, <3>3
    <3> HIDE DEF o, next
    <3>5. DOMAIN Fields(With(Obj(Fields(o)), p[j], w)) = {p[j]} \cup DOMAIN Fields(Obj(Fields(o)))
      BY FieldsWith
    <3>6. q[j] \in DOMAIN Fields(Obj(Fields(o)))
      BY <2>1, FieldsObj DEF o
    <3> QED
      BY <3>4, <3>5, <3>6, WithIsObj
  <2> QED
    BY <2>2, <2>3
<1> HIDE DEF next
<1>2. Rooted(next, q)
  BY <1>1 DEF Rooted
<1> QED
  BY <1>2 DEF next

-----------------------------------------------------------------------------
(* A list that was written, and the lists next to it.                        *)

\* A list as it is once written: there, or empty and not there in an object that is.
Whole(o) == Obj(Fields(o)) = o
ListSettled(s, root, items) ==
  LET path == Codec[s].path
      front == Front(path)
      next == NextElements(s, Elements(path, root), items)
  IN \/ next = <<>> /\ Node(root, path) = Null /\ Rooted(root, front) /\ Whole(Node(root, front))
     \/ Rooted(root, path) /\ Node(root, path) = List(next)

LEMMA SettledIsQuiet ==
  ASSUME NEW s \in DOMAIN Codec, NEW root, NEW items, ListSettled(s, root, items)
  PROVE  ListWrite(s, root, items) = root
<1> DEFINE path == Codec[s].path
           front == Front(path)
           next == NextElements(s, Elements(path, root), items)
<1>1. Len(path) \in Nat /\ Len(front) \in Nat
  BY Paths, PrefixOf
<1>2. ListWrite(s, root, items) =
        IF next = <<>> /\ Node(root, path) = Null THEN PutAt(root, front, Obj(Fields(Node(root, front))))
        ELSE PutAt(root, path, List(next))
  BY DEF ListWrite
<1>3. \/ next = <<>> /\ Node(root, path) = Null /\ Rooted(root, front) /\ Whole(Node(root, front))
      \/ Rooted(root, path) /\ Node(root, path) = List(next)
  BY DEF ListSettled
<1> SUFFICES ListWrite(s, root, items) = root
  OBVIOUS
<1> HIDE DEF path, front, next
<1>4. CASE next = <<>> /\ Node(root, path) = Null /\ Rooted(root, front) /\ Whole(Node(root, front))
  BY <1>1, <1>2, <1>4, PutPresent DEF Whole
<1>5. CASE Rooted(root, path) /\ Node(root, path) = List(next)
  <2>1. List(next) # Null
    BY Tags
  <2> QED
    BY <1>1, <1>2, <1>5, <2>1, PutPresent
<1> QED
  BY <1>3, <1>4, <1>5

LEMMA WrittenSettles ==
  ASSUME NEW s \in DOMAIN Codec, NEW root, HoldsElements(s, root), NEW items, Listable(s, items)
  PROVE  ListSettled(s, ListWrite(s, root, items), items)
<1> DEFINE path == Codec[s].path
           front == Front(path)
           current == Elements(path, root)
           next == NextElements(s, current, items)
           written == ListWrite(s, root, items)
           v == Obj(Fields(Node(root, front)))
<1>1. Len(path) \in Nat /\ Len(path) # 0 /\ front = Prefix(path, Len(path) - 1) /\ Len(front) \in Nat
  BY Paths, PrefixOf
<1>2. written = IF next = <<>> /\ Node(root, path) = Null THEN PutAt(root, front, v) ELSE PutAt(root, path, List(next))
  BY DEF ListWrite
<1>3. NextElements(s, Elements(path, written), items) = next
  <2>1. Elements(path, written) = next
    BY WrittenElements
  <2>2. ElementsOf(current)
    BY ElementsAre
  <2> HIDE DEF current, written, path
  <2> QED
    BY <2>1, <2>2, NextAgain
<1>4. SUFFICES \/ next = <<>> /\ Node(written, path) = Null /\ Rooted(written, front) /\ Whole(Node(written, front))
               \/ Rooted(written, path) /\ Node(written, path) = List(next)
  BY <1>3 DEF ListSettled
<1> HIDE DEF path, next, current, written, front
<1>5. CASE next = <<>> /\ Node(root, path) = Null
  <2>1. written = PutAt(root, front, v)
    BY <1>2, <1>5
  <2>2. Node(written, front) = v /\ Rooted(written, front)
    BY <1>1, <2>1, PutIsThere, PutRoots
  <2>3. \A r : Node(r, path) = At(Node(r, front), path[Len(path)])
    BY <1>1, NodeAlong, NodeNext
  <2>4. Node(written, path) = Null
    BY <1>5, <2>2, <2>3, FieldsObj DEF At
  <2> QED
    BY <1>5, <2>2, <2>4, FieldsObj DEF Whole
<1>6. CASE ~(next = <<>> /\ Node(root, path) = Null)
  BY <1>1, <1>2, <1>6, PutIsThere, PutRoots
<1> QED
  BY <1>5, <1>6

\* Writing the same list once more changes nothing of the document ("an unchanged
\* configuration produces no writes", values.go).
THEOREM SecondWriteIsQuiet ==
  ASSUME NEW s \in DOMAIN Codec, NEW root, HoldsElements(s, root), NEW items, Listable(s, items)
  PROVE  ListWrite(s, ListWrite(s, root, items), items) = ListWrite(s, root, items)
BY WrittenSettles, SettledIsQuiet

\* What is of a list in the document is in the other one.
ListAside(s, root, other) ==
  LET path == Codec[s].path
      front == Front(path)
  IN /\ Node(other, path) = Node(root, path)
     /\ Rooted(root, path) => Rooted(other, path)
     /\ Rooted(root, front) /\ Whole(Node(root, front)) => Rooted(other, front) /\ Whole(Node(other, front))

LEMMA AsideOf ==
  ASSUME NEW s \in DOMAIN Codec, NEW root, NEW other, ListAside(s, root, other)
  PROVE  /\ Elements(Codec[s].path, other) = Elements(Codec[s].path, root)
         /\ ListRead(s, other) = ListRead(s, root)
         /\ HoldsElements(s, root) => HoldsElements(s, other)
         /\ \A items : ListSettled(s, root, items) => ListSettled(s, other, items)
<1>1. Node(other, Codec[s].path) = Node(root, Codec[s].path)
  BY DEF ListAside
<1>2. Elements(Codec[s].path, other) = Elements(Codec[s].path, root)
  BY <1>1 DEF Elements
<1>3. ListRead(s, other) = ListRead(s, root)
  BY <1>2 DEF ListRead
<1>4. HoldsElements(s, root) => HoldsElements(s, other)
  BY <1>1 DEF HoldsElements
<1>5. ASSUME NEW items, ListSettled(s, root, items) PROVE ListSettled(s, other, items)
  BY <1>1, <1>2, <1>5 DEF ListSettled, ListAside
<1> QED
  BY <1>2, <1>3, <1>4, <1>5

LEMMA AsideSame ==
  ASSUME NEW s, NEW root
  PROVE  ListAside(s, root, root)
BY DEF ListAside

LEMMA AsideAgain ==
  ASSUME NEW s, NEW root, NEW other, NEW third, ListAside(s, root, other), ListAside(s, other, third)
  PROVE  ListAside(s, root, third)
BY DEF ListAside

LEMMA PastOne == ASSUME NEW n \in Nat, n # 0, n # 1 PROVE 2 \in 1..n
OBVIOUS

LEMMA FrontOfThree ==
  ASSUME NEW s \in DOMAIN Codec, Len(Codec[s].path) = 3
  PROVE  LET path == Codec[s].path IN Len(Front(path)) = 2 /\ \A i \in 1..2 : Front(path)[i] = path[i]
<1> DEFINE path == Codec[s].path
<1>1. Front(path) = Prefix(path, Len(path) - 1)
  BY Paths
<1>2. Len(path) = 3
  OBVIOUS
<1> SUFFICES Len(Front(path)) = 2 /\ \A i \in 1..2 : Front(path)[i] = path[i]
  OBVIOUS
<1> HIDE DEF path
<1>3. Front(path) = Prefix(path, 2)
  BY <1>1, <1>2
<1>4. Len(path) \in Nat /\ 2 \in 0..Len(path)
  BY <1>2
<1>5. Len(Prefix(path, 2)) = 2 /\ \A i \in 1..2 : Prefix(path, 2)[i] = path[i]
  BY <1>4, PrefixOf
<1> QED
  BY <1>3, <1>5

\* The paths of two lists part before the end of either's parent.
LeadsTo(s, p) ==
  /\ Len(p) \in Nat /\ Len(p) # 0
  /\ p[1] = IF s = "VLANs" THEN "vlans" ELSE IF s = "StaticRoutes" THEN "routes" ELSE "firewall"
  /\ s \in {"PortForwards", "FirewallRules"} =>
       Len(p) # 1 /\ p[2] = IF s = "PortForwards" THEN "nat" ELSE "firewall"
LEMMA PathsLead ==
  ASSUME NEW s \in DOMAIN Codec
  PROVE  LET path == Codec[s].path  front == Front(path) IN
         /\ LeadsTo(s, path)
         /\ LeadsTo(s, front) \/ (front = <<>> /\ Len(front) = 0 /\ s \in {"VLANs", "StaticRoutes"})
<1>1. CASE s = "VLANs"
  <2>1. Codec[s].path = <<"vlans">>
    BY <1>1 DEF Codec, ListCodec
  <2>2. Front(<<"vlans">>) = <<>>
    BY DEF Front
  <2> QED
    BY <1>1, <2>1, <2>2 DEF LeadsTo
<1>2. CASE s = "StaticRoutes"
  <2>1. Codec[s].path = <<"routes">>
    BY <1>2 DEF Codec, ListCodec
  <2>2. Front(<<"routes">>) = <<>>
    BY DEF Front
  <2> QED
    BY <1>2, <2>1, <2>2 DEF LeadsTo
<1>3. CASE s = "PortForwards"
  <2>1. Codec[s].path = <<"firewall", "nat", "rules">>
    BY <1>3 DEF Codec, ListCodec
  <2>2. Len(Codec[s].path) = 3
    BY <2>1
  <2>3. Len(Front(Codec[s].path)) = 2 /\ \A i \in 1..2 : Front(Codec[s].path)[i] = Codec[s].path[i]
    BY <2>2, FrontOfThree
  <2> QED
    BY <1>3, <2>1, <2>2, <2>3 DEF LeadsTo
<1>4. CASE s = "FirewallRules"
  <2>1. Codec[s].path = <<"firewall", "firewall", "rules">>
    BY <1>4 DEF Codec, ListCodec
  <2>2. Len(Codec[s].path) = 3
    BY <2>1
  <2>3. Len(Front(Codec[s].path)) = 2 /\ \A i \in 1..2 : Front(Codec[s].path)[i] = Codec[s].path[i]
    BY <2>2, FrontOfThree
  <2> QED
    BY <1>4, <2>1, <2>2, <2>3 DEF LeadsTo
<1> QED
  BY <1>1, <1>2, <1>3, <1>4 DEF Codec

LEMMA PathsPart ==
  ASSUME NEW s \in DOMAIN Codec, NEW t \in DOMAIN Codec, s # t, NEW p, NEW q, LeadsTo(s, p), LeadsTo(t, q)
  PROVE  \E m : Part(p, q, m)
<1>1. s \in {"PortForwards", "FirewallRules", "VLANs", "StaticRoutes"} /\ t \in {"PortForwards", "FirewallRules", "VLANs", "StaticRoutes"}
  BY DEF Codec
<1>2. CASE s \in {"PortForwards", "FirewallRules"} /\ t \in {"PortForwards", "FirewallRules"}
  <2>1. p[1] = "firewall" /\ q[1] = "firewall" /\ p[2] # q[2]
    BY <1>2 DEF LeadsTo
  <2>2. Len(p) \in Nat /\ Len(q) \in Nat /\ 2 \in 1..Len(p) /\ 2 \in 1..Len(q)
    <3>1. Len(p) \in Nat /\ Len(q) \in Nat /\ Len(p) # 0 /\ Len(q) # 0 /\ Len(p) # 1 /\ Len(q) # 1
      BY <1>2, Zenon DEF LeadsTo
    <3> QED
      BY <3>1, PastOne
  <2>3. Part(p, q, 2)
    BY <2>1, <2>2 DEF Part
  <2> QED
    BY <2>3
<1>3. CASE ~(s \in {"PortForwards", "FirewallRules"} /\ t \in {"PortForwards", "FirewallRules"})
  <2>1. Part(p, q, 1)
    BY <1>1, <1>3 DEF Part, LeadsTo
  <2> QED
    BY <2>1
<1> QED
  BY <1>2, <1>3

\* What is put on the way to one list is aside from another.
LEMMA PutIsAside ==
  ASSUME NEW s \in DOMAIN Codec, NEW t \in DOMAIN Codec, s # t, NEW root, IsObj(root), NEW p, LeadsTo(t, p), NEW v
  PROVE  IsObj(PutAt(root, p, v)) /\ ListAside(s, root, PutAt(root, p, v))
<1> DEFINE path == Codec[s].path
           front == Front(path)
           other == PutAt(root, p, v)
<1>1. LeadsTo(s, path) /\ (LeadsTo(s, front) \/ (front = <<>> /\ Len(front) = 0))
  BY PathsLead
<1>2. Len(p) \in Nat /\ Len(p) # 0
  BY DEF LeadsTo
<1>3. IsObj(other)
  <2>1. PICK w : Node(other, Prefix(p, 0)) = With(Obj(Fields(Node(root, Prefix(p, 0)))), p[1], w)
    <3>1. 1 \in 1..Len(p) /\ 1 - 1 = 0
      BY <1>2
    <3> QED
      BY <1>2, <3>1, PutOnTheWay
  <2>2. Node(other, Prefix(p, 0)) = other
    BY <1>2, NodeAlong
  <2> QED
    BY <2>1, <2>2, WithIsObj
<1> SUFFICES IsObj(other) /\ ListAside(s, root, other)
  OBVIOUS
<1> HIDE DEF path, front
<1>4. \A q : LeadsTo(s, q) => Node(other, q) = Node(root, q) /\ (Rooted(root, q) => Rooted(other, q))
  BY PathsPart, NodeAside, RootedAside
<1>5. CASE LeadsTo(s, front)
  <2> HIDE DEF other
  <2> QED
    BY <1>1, <1>3, <1>4, <1>5 DEF ListAside, path, front
<1>6. CASE front = <<>> /\ Len(front) = 0
  <2>1. Rooted(other, front)
    BY <1>6 DEF Rooted
  <2>2. Node(other, front) = other
    <3>1. Len(front) \in Nat
      BY <1>6
    <3> QED
      BY <1>6, <3>1, NodeRuns
  <2>3. Whole(other)
    <3> HIDE DEF other
    <3> QED
      BY <1>3, FieldsObj DEF IsObj, Whole
  <2> HIDE DEF other
  <2> QED
    BY <1>1, <1>3, <1>4, <2>1, <2>2, <2>3 DEF ListAside, path, front
<1> QED
  BY <1>1, <1>5, <1>6

LEMMA ListsApart ==
  ASSUME NEW t \in DOMAIN Codec, NEW root, IsObj(root), NEW items
  PROVE  /\ IsObj(ListWrite(t, root, items))
         /\ \A s \in DOMAIN Codec : s # t => ListAside(s, root, ListWrite(t, root, items))
<1> DEFINE path == Codec[t].path
           front == Front(path)
           v == Obj(Fields(Node(root, front)))
           written == ListWrite(t, root, items)
<1>1. LeadsTo(t, path) /\ (LeadsTo(t, front) \/ (front = <<>> /\ Len(front) = 0))
  BY PathsLead
<1>2. written = PutAt(root, front, v) \/ \E x : written = PutAt(root, path, x)
  BY DEF ListWrite
<1>3. \E r \in DOMAIN Codec : r # t
  BY DEF Codec
<1> HIDE DEF path, front, written
<1>4. CASE LeadsTo(t, front) \/ \E x : written = PutAt(root, path, x)
  <2>1. PICK p, x : LeadsTo(t, p) /\ written = PutAt(root, p, x)
    BY <1>1, <1>2, <1>4
  <2> QED
    BY <1>3, <2>1, PutIsAside DEF written
<1>5. CASE front = <<>> /\ Len(front) = 0 /\ written = PutAt(root, front, v)
  <2>1. Node(root, front) = root /\ PutAt(root, front, v) = v
    <3>1. Len(front) \in Nat
      BY <1>5
    <3> QED
      BY <1>5, <3>1, NodeRuns, PutAtRuns
  <2>2. written = root
    BY <1>5, <2>1, FieldsObj DEF IsObj
  <2> QED
    BY <2>2, AsideSame DEF written
<1> QED
  BY <1>1, <1>2, <1>4, <1>5

-----------------------------------------------------------------------------
(* One switch port.                                                          *)


LEMMA IntSetReads ==
  ASSUME NEW o, NEW k, NEW want, IntList(want)
  PROVE  LET v == At(PutIntSet(o, k, want), k) IN
         AllInts(v) /\ (AsInts(v) = want \/ SameMembers(AsInts(v), want))
<1> DEFINE w == List([i \in DOMAIN want |-> Num(ToString(want[i]))])
<1>1. AllInts(Null) /\ AsInts(Null) = <<>>
  <2>1. Entries(Null) = <<>>
    BY Tags DEF Entries
  <2>2. \A q : q = <<>> => [i \in DOMAIN q |-> AsInt(q[i])] = <<>>
    OBVIOUS
  <2>3. AllInts(Null)
    BY <2>1 DEF AllInts
  <2> QED
    BY <2>1, <2>2, <2>3 DEF AsInts
<1>2. AllInts(w) /\ AsInts(w) = want
  <2>1. Entries(w) = [i \in DOMAIN want |-> Num(ToString(want[i]))]
    BY Tags DEF Entries
  <2>2. \A i \in DOMAIN want : AsInt(Num(ToString(want[i]))) = want[i] /\ want[i] # NoInt
    BY Tags, DecimalAssumption DEF AsInt, Numbers, NoInt, IntList
  <2> HIDE DEF w
  <2>3. AllInts(w)
    BY <2>1, <2>2 DEF AllInts
  <2>4. want = [i \in DOMAIN want |-> want[i]]
    BY DEF IntList, Listing
  <2> QED
    BY <2>1, <2>2, <2>3, <2>4 DEF AsInts
<1> HIDE DEF w
<1>3. CASE want = <<>>
  BY <1>1, <1>3, AtSame DEF PutIntSet
<1>4. CASE want # <<>> /\ AllInts(At(o, k)) /\ SameMembers(AsInts(At(o, k)), want)
  BY <1>4 DEF PutIntSet
<1>5. CASE want # <<>> /\ ~(AllInts(At(o, k)) /\ SameMembers(AsInts(At(o, k)), want))
  <2>1. PutIntSet(o, k, want) = With(o, k, w)
    BY <1>5 DEF PutIntSet, w
  <2>2. At(With(o, k, w), k) = w
    BY AtSame
  <2> QED
    BY <1>2, <2>1, <2>2
<1> QED
  BY <1>3, <1>4, <1>5

LEMMA IntSetAgain ==
  ASSUME NEW o, NEW k, NEW want, IntList(want), NEW q, Settled(q, PutIntSet(o, k, want), k)
  PROVE  PutIntSet(q, k, want) = q
<1>1. CASE want = <<>>
  <2>1. PutIntSet(o, k, want) = Omit(o, k) /\ PutIntSet(q, k, want) = Omit(q, k)
    BY <1>1 DEF PutIntSet
  <2> QED
    BY <2>1, SettledOmit
<1>2. CASE want # <<>>
  <2>1. SameMembers(want, want)
    BY DEF SameMembers
  <2>2. AllInts(At(q, k)) /\ (AsInts(At(q, k)) = want \/ SameMembers(AsInts(At(q, k)), want))
    BY IntSetReads DEF Settled, Agree
  <2> QED
    BY <1>2, <2>1, <2>2 DEF PutIntSet
<1> QED
  BY <1>1, <1>2

\* A port that is overlaid on what a device has, and what is read of one.
VLANsOver(o, sp) == PutIntSet(PutFlag(o, "all", sp.AllVLANs), "list", sp.TaggedVLANs)
PortOver(o, sp) ==
  LET port == PutInt(Obj(Fields(o)), "vlan", sp.NativeVLAN)
  IN PruneEmpty(With(port, "allowedVlans", VLANsOver(Child(port, "allowedVlans"), sp)), "allowedVlans")
PortPath(t) == Append(PortsPath, t)
PortAs(n, o) ==
  [Port |-> n, NativeVLAN |-> AsInt(At(o, "vlan")), AllVLANs |-> AsFlag(At(At(o, "allowedVlans"), "all")),
   TaggedVLANs |-> AsInts(At(At(o, "allowedVlans"), "list"))]
SamePort(x, y) ==
  /\ x.Port = y.Port /\ x.NativeVLAN = y.NativeVLAN /\ x.AllVLANs = y.AllVLANs
  /\ x.TaggedVLANs = y.TaggedVLANs \/ SameMembers(x.TaggedVLANs, y.TaggedVLANs)

LEMMA VLANsRead ==
  ASSUME NEW o, NEW sp, PlainPort(sp)
  PROVE  LET v == VLANsOver(o, sp)  q == AsInts(At(v, "list")) IN
         AsFlag(At(v, "all")) = sp.AllVLANs /\ (q = sp.TaggedVLANs \/ SameMembers(q, sp.TaggedVLANs))
<1> DEFINE flagged == PutFlag(o, "all", sp.AllVLANs)
           v == PutIntSet(flagged, "list", sp.TaggedVLANs)
<1>1. AsFlag(At(flagged, "all")) = sp.AllVLANs
  BY FlagReads DEF PlainPort
<1> HIDE DEF flagged
<1>2. At(v, "all") = At(flagged, "all")
  BY PutsOne, PutsLeavesOthers DEF Agree
<1>3. AsInts(At(v, "list")) = sp.TaggedVLANs \/ SameMembers(AsInts(At(v, "list")), sp.TaggedVLANs)
  BY IntSetReads DEF PlainPort
<1>4. VLANsOver(o, sp) = v
  BY DEF VLANsOver, flagged
<1> HIDE DEF v
<1> QED
  BY <1>1, <1>2, <1>3, <1>4

LEMMA PortOverReads ==
  ASSUME NEW o, NEW sp, PlainPort(sp)
  PROVE  SamePort(PortAs(sp.Port, PortOver(o, sp)), sp)
<1> DEFINE port == PutInt(Obj(Fields(o)), "vlan", sp.NativeVLAN)
           v == VLANsOver(Child(port, "allowedVlans"), sp)
           p == PortOver(o, sp)
<1>1. AsInt(At(port, "vlan")) = sp.NativeVLAN
  BY IntReads DEF PlainPort
<1>2. AsFlag(At(v, "all")) = sp.AllVLANs /\ (AsInts(At(v, "list")) = sp.TaggedVLANs \/ SameMembers(AsInts(At(v, "list")), sp.TaggedVLANs))
  BY VLANsRead
<1>3. p = PruneEmpty(With(port, "allowedVlans", v), "allowedVlans")
  BY DEF PortOver
<1> HIDE DEF port, v, p
<1>4. At(p, "vlan") = At(port, "vlan")
  BY <1>3, AtPruned, AtWith
<1>5. At(p, "allowedVlans") = IF v = EmptyObj THEN Null ELSE v
  BY <1>3, AtPruned, AtWith
<1>6. \A j : At(EmptyObj, j) = Null /\ At(Null, j) = Null
  BY DEF At, EmptyObj, Fields, Obj, Null
<1>7. At(At(p, "allowedVlans"), "all") = At(v, "all") /\ At(At(p, "allowedVlans"), "list") = At(v, "list")
  BY <1>5, <1>6
<1> QED
  BY <1>1, <1>2, <1>4, <1>7 DEF SamePort, PortAs, p

LEMMA VLANsAgain ==
  ASSUME NEW o, IsObj(o), NEW sp, PlainPort(sp)
  PROVE  IsObj(VLANsOver(o, sp)) /\ VLANsOver(VLANsOver(o, sp), sp) = VLANsOver(o, sp)
<1> DEFINE flagged == PutFlag(o, "all", sp.AllVLANs)
           v == PutIntSet(flagged, "list", sp.TaggedVLANs)
<1>1. Puts(o, "all", flagged) /\ Puts(flagged, "list", v)
  BY PutsOne
<1>2. IsObj(flagged)
  <2> HIDE DEF flagged
  <2> QED
    BY <1>1, PutsInObject
<1>3. IsObj(v)
  <2> HIDE DEF flagged, v
  <2> QED
    BY <1>1, <1>2, PutsInObject
<1>4. PutFlag(v, "all", sp.AllVLANs) = v
  <2>1. Agree(v, flagged, "all")
    <3> HIDE DEF flagged, v
    <3> QED
      BY <1>1, PutsLeavesOthers
  <2> HIDE DEF v
  <2> QED
    BY <1>3, <2>1, FlagAgain DEF Settled
<1>5. PutIntSet(v, "list", sp.TaggedVLANs) = v
  <2>1. Agree(v, v, "list")
    BY DEF Agree
  <2> HIDE DEF flagged
  <2> QED
    BY <1>3, <2>1, IntSetAgain DEF Settled, PlainPort
<1> QED
  BY <1>3, <1>4, <1>5 DEF VLANsOver

LEMMA PortOverAgain ==
  ASSUME NEW o, IsPort(o), NEW sp, PlainPort(sp)
  PROVE  PortOver(PortOver(o, sp), sp) = PortOver(o, sp)
<1> DEFINE k == "allowedVlans"
           port == PutInt(Obj(Fields(o)), "vlan", sp.NativeVLAN)
           v == VLANsOver(Child(port, k), sp)
           w == With(port, k, v)
           p == PruneEmpty(w, k)
<1>1. PortOver(o, sp) = p
  BY DEF PortOver
<1>2. IsObj(port)
  <2>1. Puts(Obj(Fields(o)), "vlan", port)
    BY PutsOne
  <2> HIDE DEF port
  <2> QED
    BY <2>1, PutsInObject DEF IsPort
<1>3. IsObj(v) /\ VLANsOver(v, sp) = v
  <2>1. Agree(port, Obj(Fields(o)), k)
    BY PutsOne, PutsLeavesOthers
  <2>2. At(Obj(Fields(o)), k) = At(o, k)
    BY FieldsObj DEF At
  <2>3. Child(port, k) = Child(o, k)
    BY <2>1, <2>2 DEF Child, Agree
  <2>4. IsObj(Child(port, k))
    BY <2>3 DEF IsPort, Child
  <2> HIDE DEF port
  <2> QED
    BY <2>4, VLANsAgain
<1>4. IsObj(p) /\ Agree(p, port, "vlan")
  <2>1. IsObj(w) /\ Agree(w, port, "vlan")
    <3>1. Puts(port, k, w)
      BY DEF Puts
    <3> HIDE DEF port, w
    <3> QED
      BY <3>1, WithIsObj, PutsLeavesOthers DEF w
  <2>2. Puts(w, k, p)
    BY DEF Puts, PruneEmpty
  <2> HIDE DEF w, p, port
  <2> QED
    BY <2>1, <2>2, PutsInObject, PutsLeavesOthers DEF Agree
<1>5. Obj(Fields(p)) = p
  <2> HIDE DEF p
  <2> QED
    BY <1>4, FieldsObj DEF IsObj
<1>6. PutInt(p, "vlan", sp.NativeVLAN) = p
  <2> HIDE DEF p
  <2> QED
    BY <1>4, IntAgain DEF Settled
<1>7. PortOver(p, sp) = PruneEmpty(With(p, k, VLANsOver(Child(p, k), sp)), k)
  <2> HIDE DEF p
  <2> QED
    BY <1>5, <1>6 DEF PortOver
<1> HIDE DEF port, v
<1>8. CASE v = EmptyObj
  <2>1. p = Omit(w, k)
    BY <1>8, AtSame DEF PruneEmpty
  <2>2. k \notin DOMAIN Fields(p) /\ At(p, k) = Null
    <3>1. DOMAIN Fields(Omit(w, k)) = DOMAIN Fields(w) \ {k}
      BY FieldsOmit
    <3> HIDE DEF w, p
    <3> QED
      BY <2>1, <3>1 DEF At
  <2> HIDE DEF w, p
  <2>3. Child(p, k) = v
    BY <1>8, <2>2, EmptyObject DEF Child
  <2>4. PortOver(p, sp) = Omit(With(p, k, v), k)
    <3>1. At(With(p, k, v), k) = v
      BY AtSame
    <3> QED
      BY <1>3, <1>7, <1>8, <2>3, <3>1 DEF PruneEmpty
  <2> QED
    BY <1>1, <1>4, <2>2, <2>4, OmitWith
<1>9. CASE v # EmptyObj
  <2>1. p = w /\ At(w, k) = v
    BY <1>9, AtSame DEF PruneEmpty
  <2>2. With(p, k, v) = p
    <3>1. Agree(p, With(port, k, v), k)
      BY <2>1 DEF Agree
    <3> HIDE DEF p, w
    <3> QED
      BY <1>4, <3>1, SettledWith DEF Settled
  <2> HIDE DEF p, w
  <2>3. Child(p, k) = v
    <3>1. v = Obj(Fields(v))
      BY <1>3, FieldsObj DEF IsObj
    <3> QED
      BY <2>1, <3>1 DEF Child
  <2> QED
    BY <1>1, <1>3, <1>7, <1>9, <2>1, <2>2, <2>3 DEF PruneEmpty
<1> QED
  BY <1>8, <1>9

-----------------------------------------------------------------------------
(* The switch ports of a device.                                             *)

LEMMA PortsNode ==
  ASSUME NEW x
  PROVE  Node(x, PortsPath) = At(At(x, "portsCfg"), "ports")
<1>1. Len(PortsPath) = 2 /\ PortsPath[1] = "portsCfg" /\ PortsPath[2] = "ports"
  BY DEF PortsPath
<1>0. Len(PortsPath) \in Nat
  BY <1>1
<1>2. PICK g : /\ g[0] = x /\ Node(x, PortsPath) = g[Len(PortsPath)]
               /\ \A i \in 1..Len(PortsPath) : g[i] = At(g[i - 1], PortsPath[i])
  BY <1>0, NodeRuns
<1>3. 1 \in 1..Len(PortsPath) /\ 2 \in 1..Len(PortsPath) /\ 1 - 1 = 0 /\ 2 - 1 = 1
  BY <1>1
<1>4. g[1] = At(g[1 - 1], PortsPath[1]) /\ g[2] = At(g[2 - 1], PortsPath[2])
  BY <1>2, <1>3
<1> QED
  BY <1>1, <1>2, <1>3, <1>4

LEMMA PortPathIs ==
  ASSUME NEW t
  PROVE  /\ Len(PortPath(t)) = 3
         /\ PortPath(t)[1] = "portsCfg" /\ PortPath(t)[2] = "ports" /\ PortPath(t)[3] = t
         /\ Prefix(PortPath(t), 2) = PortsPath
<1> DEFINE path == PortPath(t)
           S == {"portsCfg", "ports", t}
<1>1. Len(path) = 3 /\ path[1] = "portsCfg" /\ path[2] = "ports" /\ path[3] = t
  BY DEF PortsPath, PortPath
<1>2. PortsPath \in Seq(S) /\ Len(PortsPath) = 2 /\ path[1] = PortsPath[1] /\ path[2] = PortsPath[2]
  BY DEF PortsPath, PortPath
<1>3. /\ SubSeq(path, 1, 2) \in Seq(S) /\ Len(SubSeq(path, 1, 2)) = 2
      /\ \A i \in 1..2 : SubSeq(path, 1, 2)[i] = path[i]
  <2> HIDE DEF path, S
  <2>1. \A i \in 1..2 : path[i] \in S
    BY <1>1 DEF S
  <2>2. 2 - 1 + 1 = 2 /\ \A i \in 1..2 : 1 + i - 1 = i
    OBVIOUS
  <2> QED
    BY <2>1, <2>2, SubSeqProperties
<1>4. SubSeq(path, 1, 2) = PortsPath
  <2> HIDE DEF path, S
  <2>1. \A i \in 1..2 : SubSeq(path, 1, 2)[i] = PortsPath[i]
    BY <1>2, <1>3
  <2> QED
    BY <1>2, <1>3, <2>1, SeqEqual
<1> QED
  BY <1>1, <1>4 DEF Prefix

LEMMA PortNode ==
  ASSUME NEW x, NEW t
  PROVE  Node(x, PortPath(t)) = At(Node(x, PortsPath), t)
<1> DEFINE path == PortPath(t)
<1>1. Len(path) = 3 /\ path[3] = t /\ Prefix(path, 2) = PortsPath
  BY PortPathIs
<1> HIDE DEF path
<1>2. Len(path) \in Nat /\ 3 \in 1..Len(path) /\ 3 - 1 = 2
  BY <1>1
<1>3. Node(x, Prefix(path, 3)) = At(Node(x, Prefix(path, 3 - 1)), path[3])
  BY <1>2, NodeNext
<1>4. Node(x, path) = Node(x, Prefix(path, Len(path)))
  BY <1>2, NodeAlong
<1> QED
  BY <1>1, <1>2, <1>3, <1>4 DEF path

LEMMA PortPut ==
  ASSUME NEW x, NEW t, NEW v
  PROVE  Node(PutAt(x, PortPath(t), v), PortsPath) = With(Obj(Fields(Node(x, PortsPath))), t, v)
<1> DEFINE path == PortPath(t)
           next == PutAt(x, path, v)
<1>1. Len(path) \in Nat /\ 3 \in 1..Len(path) /\ 3 - 1 = 2 /\ path[3] = t /\ Prefix(path, 2) = PortsPath
  BY PortPathIs
<1>2. Node(next, path) = v
  <2> HIDE DEF path
  <2> QED
    BY <1>1, PutIsThere
<1>3. PICK w : Node(next, Prefix(path, 3 - 1)) = With(Obj(Fields(Node(x, Prefix(path, 3 - 1)))), path[3], w)
  <2> HIDE DEF path
  <2> QED
    BY <1>1, PutOnTheWay
<1>4. Node(next, path) = At(Node(next, PortsPath), t)
  <2> HIDE DEF next
  <2> QED
    BY PortNode
<1> HIDE DEF path, next
<1>5. Node(next, PortsPath) = With(Obj(Fields(Node(x, PortsPath))), t, w)
  BY <1>1, <1>3
<1>6. At(With(Obj(Fields(Node(x, PortsPath))), t, w), t) = w
  BY AtSame
<1>7. w = v
  BY <1>2, <1>4, <1>5, <1>6
<1> QED
  BY <1>5, <1>7 DEF path, next

\* The key of a port there.
Key(sp) == ToString(sp.Port)

LEMMA WritePort ==
  ASSUME NEW x, NEW sp
  PROVE  WriteSwitchPort(x, sp) = PutAt(x, PortPath(Key(sp)), PortOver(At(PortsOf(x), Key(sp)), sp))
<1>1. Node(x, PortPath(Key(sp))) = At(PortsOf(x), Key(sp))
  BY PortNode DEF PortsOf
<1> QED
  BY <1>1 DEF WriteSwitchPort, PortOver, VLANsOver, PortPath, Key

\* Items that a device's ports can take: each of a port of its own, with fields that read back.
Plugged(items) ==
  /\ Listing(items) /\ \A i \in 1..Len(items) : PlainPort(items[i])
  /\ \A i, j \in 1..Len(items) : i # j => items[i].Port # items[j].Port

LEMMA KeysApart ==
  ASSUME NEW a, NEW b, a.Port \in Numbers, b.Port \in Numbers, Key(a) = Key(b)
  PROVE  a.Port = b.Port
BY DecimalAssumption DEF Numbers, Key

LEMMA PortsWritten ==
  ASSUME NEW device, NEW items, Plugged(items)
  PROVE  LET e == WriteSwitchPorts(device, items) IN
         /\ \A j \in 1..Len(items) :
              /\ At(PortsOf(e), Key(items[j])) = PortOver(At(PortsOf(device), Key(items[j])), items[j])
              /\ Rooted(e, PortPath(Key(items[j])))
         /\ \A k : (\A j \in 1..Len(items) : k # Key(items[j])) => At(PortsOf(e), k) = At(PortsOf(device), k)
         /\ DOMAIN Fields(PortsOf(e)) = DOMAIN Fields(PortsOf(device)) \cup {Key(items[j]) : j \in 1..Len(items)}
<1> DEFINE n == Len(items)
           key(j) == Key(items[j])
           was(k) == At(PortsOf(device), k)
<1>0. n \in Nat /\ \A i, j \in 1..n : key(i) = key(j) => i = j
  BY KeysApart DEF Plugged, Listing, PlainPort
<1>1. PICK f : /\ f[0] = device /\ WriteSwitchPorts(device, items) = f[n]
               /\ \A i \in 1..n : f[i] = WriteSwitchPort(f[i - 1], items[i])
  <2>1. Len(items) \in Nat
    BY <1>0
  <2> HIDE DEF key, was, n
  <2>2. \E f : /\ f[0] = device /\ WriteSwitchPorts(device, items) = f[Len(items)]
               /\ \A i \in 1..Len(items) : f[i] = WriteSwitchPort(f[i - 1], items[i])
    BY <2>1, PortsRuns
  <2> QED
    BY <2>2 DEF n
<1> DEFINE Done(i) ==
             /\ \A j \in 1..i : At(PortsOf(f[i]), key(j)) = PortOver(was(key(j)), items[j]) /\ Rooted(f[i], PortPath(key(j)))
             /\ \A k : (\A j \in 1..i : k # key(j)) => At(PortsOf(f[i]), k) = was(k)
             /\ DOMAIN Fields(PortsOf(f[i])) = DOMAIN Fields(PortsOf(device)) \cup {key(j) : j \in 1..i}
           S == {i \in Nat : i <= n => Done(i)}
<1>2. 0 \in S
  <2>1. \A j : j \notin 1..0
    OBVIOUS
  <2>2. {key(j) : j \in 1..0} = {}
    BY <2>1
  <2>3. Done(0)
    <3> HIDE DEF key, was
    <3>1. DOMAIN Fields(PortsOf(f[0])) = DOMAIN Fields(PortsOf(device)) \cup {key(j) : j \in 1..0}
      BY <1>1, <2>2
    <3>2. \A k : At(PortsOf(f[0]), k) = was(k)
      BY <1>1 DEF was
    <3> QED
      BY <2>1, <3>1, <3>2
  <2> QED
    BY <2>3
<1>3. ASSUME NEW i \in Nat, i \in S PROVE i + 1 \in S
  <2>1. SUFFICES ASSUME i + 1 <= n PROVE Done(i + 1)
    OBVIOUS
  <2> DEFINE m == i + 1
             over == PortOver(was(key(m)), items[m])
             path == PortPath(key(m))
  <2>2. m \in 1..n /\ m - 1 = i /\ i <= n /\ 1..m = (1..i) \cup {m} /\ m \notin 1..i /\ \A j \in 1..i : j \in 1..n
    BY <2>1
  <2>3. Done(i)
    BY <1>3, <2>2
  <2>4. \A j \in 1..i : key(m) # key(j)
    BY <1>0, <2>2
  <2>5. f[m] = PutAt(f[i], path, over)
    <3>1. f[m] = WriteSwitchPort(f[i], items[m])
      BY <1>1, <2>2
    <3>2. At(PortsOf(f[i]), key(m)) = was(key(m))
      BY <2>3, <2>4
    <3> QED
      BY <3>1, <3>2, WritePort
  <2>6. PortsOf(f[m]) = With(Obj(Fields(PortsOf(f[i]))), key(m), over)
    BY <2>5, PortPut DEF PortsOf
  <2>7. Rooted(f[m], path)
    <3>1. Len(path) \in Nat
      BY PortPathIs
    <3> HIDE DEF path, over, m
    <3> QED
      BY <2>5, <3>1, PutRoots
  <2>8. ASSUME NEW j \in 1..i PROVE Rooted(f[m], PortPath(key(j)))
    <3> DEFINE q == PortPath(key(j))
    <3>1. Part(path, q, 3)
      <4>1. Len(path) = 3 /\ Len(q) = 3 /\ path[1] = q[1] /\ path[2] = q[2] /\ path[3] # q[3]
        BY <2>4, PortPathIs
      <4> HIDE DEF path, q, m
      <4> QED
        BY <4>1 DEF Part
    <3>2. Rooted(f[i], q)
      BY <2>3
    <3> HIDE DEF path, q, over, m
    <3>3. Rooted(PutAt(f[i], path, over), q)
      BY <3>1, <3>2, RootedAside
    <3> QED
      BY <2>5, <3>3 DEF q
  <2> HIDE DEF over
  <2>9. \A k : At(PortsOf(f[m]), k) = IF k = key(m) THEN over ELSE At(PortsOf(f[i]), k)
    <3>1. \A o, k : At(Obj(Fields(o)), k) = At(o, k)
      BY FieldsObj DEF At
    <3> QED
      BY <2>6, <3>1, AtWith
  <2>10. DOMAIN Fields(PortsOf(f[m])) = DOMAIN Fields(PortsOf(f[i])) \cup {key(m)}
    <3> DEFINE o == Obj(Fields(PortsOf(f[i])))
    <3>1. DOMAIN Fields(With(o, key(m), over)) = {key(m)} \cup DOMAIN Fields(o)
      BY FieldsWith
    <3>2. Fields(o) = Fields(PortsOf(f[i]))
      BY FieldsObj
    <3> HIDE DEF key, m
    <3> QED
      BY <2>6, <3>1, <3>2
  <2> HIDE DEF path
  <2>11. \A j \in 1..m : At(PortsOf(f[m]), key(j)) = PortOver(was(key(j)), items[j]) /\ Rooted(f[m], PortPath(key(j)))
    <3>1. ASSUME NEW j \in 1..i
          PROVE  At(PortsOf(f[m]), key(j)) = PortOver(was(key(j)), items[j]) /\ Rooted(f[m], PortPath(key(j)))
      BY <2>3, <2>4, <2>8, <2>9
    <3>2. At(PortsOf(f[m]), key(m)) = PortOver(was(key(m)), items[m]) /\ Rooted(f[m], PortPath(key(m)))
      BY <2>7, <2>9 DEF over, path
    <3> HIDE DEF key, was, m
    <3> QED
      BY <2>2, <3>1, <3>2
  <2>12. ASSUME NEW k, \A j \in 1..m : k # key(j) PROVE At(PortsOf(f[m]), k) = was(k)
    <3>1. k # key(m) /\ \A j \in 1..i : k # key(j)
      BY <2>2, <2>12
    <3>2. At(PortsOf(f[i]), k) = was(k)
      BY <2>3, <3>1
    <3> QED
      BY <2>9, <3>1, <3>2
  <2>13. DOMAIN Fields(PortsOf(f[m])) = DOMAIN Fields(PortsOf(device)) \cup {key(j) : j \in 1..m}
    <3>1. {key(j) : j \in 1..m} = {key(j) : j \in 1..i} \cup {key(m)}
      <4> HIDE DEF key, m
      <4> QED
        BY <2>2
    <3> QED
      BY <2>3, <2>10, <3>1
  <2> QED
    BY <2>11, <2>12, <2>13
<1>4. n \in S
  <2> HIDE DEF S
  <2> QED
    BY <1>0, <1>2, <1>3, NatInduct
<1>5. n <= n
  BY <1>0
<1>6. Done(n)
  BY <1>4, <1>5
<1> QED
  BY <1>1, <1>6

LEMMA FiniteImage ==
  ASSUME NEW f, IsFiniteSet(DOMAIN f)
  PROVE  IsFiniteSet({f[x] : x \in DOMAIN f})
<1> DEFINE T == {f[x] : x \in DOMAIN f}
<1>1. [x \in DOMAIN f |-> f[x]] \in Surjection(DOMAIN f, T)
  BY DEF Surjection
<1> HIDE DEF T
<1>2. IsFiniteSet(T)
  BY <1>1, FS_Surjection
<1> QED
  BY <1>2 DEF T

LEMMA LenOf ==
  ASSUME NEW n \in Nat, NEW f, DOMAIN f = 1..n, f = [i \in DOMAIN f |-> f[i]]
  PROVE  Len(f) = n
<1>1. f \in [1..n -> {f[i] : i \in 1..n}]
  OBVIOUS
<1>2. f \in Seq({f[i] : i \in 1..n})
  BY <1>1
<1> QED
  BY <1>2, LenProperties


\* The ports of which a device has anything, by number.
PortNumbers(x) == {Decimal[k] : k \in DOMAIN Fields(PortsOf(x)) \cap DOMAIN Decimal}

LEMMA PortsRead ==
  ASSUME NEW x, IsFiniteSet(DOMAIN Fields(PortsOf(x)))
  PROVE  \E n \in Nat : \E p :
           /\ ReadSwitchPorts(x) = [i \in 1..n |-> PortAs(p[i], At(PortsOf(x), ToString(p[i])))]
           /\ p \in [1..n -> PortNumbers(x)]
           /\ \A m \in PortNumbers(x) : \E i \in 1..n : p[i] = m
           /\ \A i, j \in 1..n : i < j => p[i] < p[j]
<1> DEFINE S == PortNumbers(x)
           R == {w \in S \X S : w[1] < w[2]}
           n == Cardinality(S)
           p == [i \in 1..n |-> CHOOSE m \in S : Cardinality({y \in S : y < m}) = i - 1]
<1>1. IsFiniteSet(S) /\ S \subseteq Nat
  <2> DEFINE K == DOMAIN Fields(PortsOf(x)) \cap DOMAIN Decimal
             g == [k \in K |-> Decimal[k]]
  <2>1. IsFiniteSet(K)
    BY FS_Subset
  <2>2. IsFiniteSet({g[k] : k \in DOMAIN g})
    <3>1. DOMAIN g = K
      OBVIOUS
    <3> HIDE DEF g, K
    <3> QED
      BY <2>1, <3>1, FiniteImage
  <2>3. S = {g[k] : k \in DOMAIN g}
    BY DEF PortNumbers
  <2> QED
    BY <2>2, <2>3, DecimalAssumption DEF PortNumbers
<1>2. n \in Nat
  BY <1>1, FS_CardinalityType
<1>3. IsOrder(S, R)
  <2> HIDE DEF S
  <2> QED
    BY <1>1 DEF IsOrder
<1>4. ASSUME NEW m \in S PROVE Rank(S, R, m) = Cardinality({y \in S : y < m})
  <2>1. {y \in S : <<y, m>> \in R} = {y \in S : y < m}
    OBVIOUS
  <2> QED
    BY <2>1 DEF Rank
<1>5. p = [i \in 1..n |-> CHOOSE m \in S : Cardinality({y \in S : y < m}) = i - 1]
  OBVIOUS
<1>6. p = [i \in 1..n |-> p[i]] /\ DOMAIN p = 1..n
  BY <1>5
<1>7. ASSUME NEW i \in 1..n, \E m \in S : Rank(S, R, m) = i - 1
      PROVE  p[i] \in S /\ Rank(S, R, p[i]) = i - 1
  <2> DEFINE P(m) == Cardinality({y \in S : y < m}) = i - 1
  <2>1. p[i] = CHOOSE m \in S : P(m)
    BY <1>5
  <2>2. \A m \in S : P(m) <=> Rank(S, R, m) = i - 1
    BY <1>4
  <2> HIDE DEF P, S, R, p
  <2>3. p[i] \in S /\ P(p[i])
    BY <1>7, <2>1, <2>2
  <2> QED
    BY <2>2, <2>3
<1>8. Lists(S, R, p)
  <2> HIDE DEF S, R, p
  <2> QED
    BY <1>1, <1>3, <1>6, <1>7, SortedLists DEF n
<1>9. p \in [1..n -> S] /\ \A m \in S : \E i \in 1..n : p[i] = m
  BY <1>8 DEF Lists
<1>10. \A i, j \in 1..n : i < j => p[i] < p[j]
  <2>1. \A i, j \in 1..n : i < j => <<p[i], p[j]>> \in R
    BY <1>8 DEF Lists
  <2>2. \A a, b : <<a, b>> \in R => a < b
    OBVIOUS
  <2> HIDE DEF p, R, n
  <2> QED
    BY <2>1, <2>2
<1>11. ReadSwitchPorts(x) = [i \in DOMAIN p |-> PortAs(p[i], At(PortsOf(x), ToString(p[i])))]
  BY DEF ReadSwitchPorts, Sorted, PortAs, PortsOf, PortNumbers
<1> HIDE DEF p, S, R, n
<1>12. ReadSwitchPorts(x) = [i \in 1..n |-> PortAs(p[i], At(PortsOf(x), ToString(p[i])))]
  BY <1>6, <1>11
<1> QED
  BY <1>2, <1>9, <1>10, <1>12 DEF S

LEMMA KeyOfPort ==
  ASSUME NEW m \in Numbers
  PROVE  ToString(m) \in DOMAIN Decimal /\ Decimal[ToString(m)] = m
BY DecimalAssumption DEF Numbers

\* Ports that are written are read back as they were asked for, in order, and of the others
\* the device says what it said (switchports.go: Apply, then Read).
THEOREM PortsReadBack ==
  ASSUME NEW device, IsFiniteSet(DOMAIN Fields(PortsOf(device))), NEW items, Plugged(items)
  PROVE  LET was == ReadSwitchPorts(device)
             back == ReadSwitchPorts(WriteSwitchPorts(device, items))
         IN /\ Len(back) \in Nat /\ DOMAIN back = 1..Len(back)
            /\ \A i, j \in 1..Len(back) : i < j => back[i].Port < back[j].Port
            /\ \A j \in 1..Len(items) : \E i \in 1..Len(back) : SamePort(back[i], items[j])
            /\ \A i \in 1..Len(back) :
                 \/ \E j \in 1..Len(items) : SamePort(back[i], items[j])
                 \/ (\A j \in 1..Len(items) : items[j].Port # back[i].Port) /\ \E j \in DOMAIN was : back[i] = was[j]
            /\ \A j \in DOMAIN was :
                 (\A k \in 1..Len(items) : items[k].Port # was[j].Port) => \E i \in 1..Len(back) : back[i] = was[j]
<1> DEFINE e == WriteSwitchPorts(device, items)
           was == ReadSwitchPorts(device)
           back == ReadSwitchPorts(e)
<1>1. /\ \A j \in 1..Len(items) : At(PortsOf(e), Key(items[j])) = PortOver(At(PortsOf(device), Key(items[j])), items[j])
      /\ \A k : (\A j \in 1..Len(items) : k # Key(items[j])) => At(PortsOf(e), k) = At(PortsOf(device), k)
      /\ DOMAIN Fields(PortsOf(e)) = DOMAIN Fields(PortsOf(device)) \cup {Key(items[j]) : j \in 1..Len(items)}
  BY PortsWritten
<1>2. Len(items) \in Nat /\ \A j \in 1..Len(items) : PlainPort(items[j]) /\ items[j].Port \in Numbers
  BY DEF Plugged, Listing, PlainPort
<1> HIDE DEF e
<1>3. IsFiniteSet(DOMAIN Fields(PortsOf(e)))
  <2> DEFINE g == [j \in 1..Len(items) |-> Key(items[j])]
  <2>1. IsFiniteSet(DOMAIN g)
    <3>1. DOMAIN g = 1..Len(items) /\ 1 \in Int /\ Len(items) \in Int
      BY <1>2
    <3> QED
      BY <3>1, FS_Interval
  <2>2. IsFiniteSet({g[j] : j \in DOMAIN g})
    <3> HIDE DEF g
    <3> QED
      BY <2>1, FiniteImage
  <2>3. {g[j] : j \in DOMAIN g} = {Key(items[j]) : j \in 1..Len(items)}
    OBVIOUS
  <2> DEFINE K == {Key(items[j]) : j \in 1..Len(items)}
             D == DOMAIN Fields(PortsOf(device))
  <2>4. IsFiniteSet(K) /\ IsFiniteSet(D) /\ DOMAIN Fields(PortsOf(e)) = D \cup K
    BY <1>1, <2>2, <2>3
  <2> HIDE DEF K, D
  <2> QED
    BY <2>4, FS_Union
<1>4. PICK n, p :
           /\ n \in Nat
           /\ back = [i \in 1..n |-> PortAs(p[i], At(PortsOf(e), ToString(p[i])))]
           /\ p \in [1..n -> PortNumbers(e)]
           /\ \A m \in PortNumbers(e) : \E i \in 1..n : p[i] = m
           /\ \A i, j \in 1..n : i < j => p[i] < p[j]
  BY <1>3, PortsRead
<1>5. PICK n0, p0 :
           /\ n0 \in Nat
           /\ was = [i \in 1..n0 |-> PortAs(p0[i], At(PortsOf(device), ToString(p0[i])))]
           /\ p0 \in [1..n0 -> PortNumbers(device)]
           /\ \A m \in PortNumbers(device) : \E i \in 1..n0 : p0[i] = m
           /\ \A i, j \in 1..n0 : i < j => p0[i] < p0[j]
  BY PortsRead
<1> HIDE DEF back, was
<1>6. DOMAIN back = 1..n /\ Len(back) = n
  BY <1>4, LenOf
<1>7. \A i \in 1..n : back[i] = PortAs(p[i], At(PortsOf(e), ToString(p[i]))) /\ back[i].Port = p[i] /\ p[i] \in PortNumbers(e)
  BY <1>4 DEF PortAs
<1>8. \A i \in 1..n0 : was[i] = PortAs(p0[i], At(PortsOf(device), ToString(p0[i]))) /\ was[i].Port = p0[i] /\ p0[i] \in PortNumbers(device)
  BY <1>5 DEF PortAs
<1>9. DOMAIN was = 1..n0
  BY <1>5
\* A port that is not asked for.
<1>10. ASSUME NEW m \in Numbers, \A j \in 1..Len(items) : items[j].Port # m
       PROVE  /\ At(PortsOf(e), ToString(m)) = At(PortsOf(device), ToString(m))
              /\ m \in PortNumbers(e) <=> m \in PortNumbers(device)
  <2>1. \A j \in 1..Len(items) : ToString(m) # Key(items[j]) /\ \A k \in DOMAIN Decimal : Decimal[k] = m => k # Key(items[j])
    BY <1>2, <1>10, KeyOfPort DEF Key
  <2> QED
    BY <1>1, <2>1 DEF PortNumbers
\* A port that is.
<1>11. ASSUME NEW j \in 1..Len(items)
       PROVE  \E i \in 1..n : SamePort(back[i], items[j])
  <2> DEFINE m == items[j].Port
  <2>1. m \in Numbers /\ Key(items[j]) \in DOMAIN Decimal /\ Decimal[Key(items[j])] = m
    BY <1>2, KeyOfPort DEF Key
  <2>2. m \in PortNumbers(e)
    BY <1>1, <2>1 DEF PortNumbers
  <2>3. PICK i \in 1..n : p[i] = m
    BY <1>4, <2>2
  <2>4. back[i] = PortAs(items[j].Port, PortOver(At(PortsOf(device), Key(items[j])), items[j]))
    BY <1>1, <1>7, <2>3 DEF Key
  <2> QED
    BY <1>2, <2>4, PortOverReads
<1>12. ASSUME NEW i \in 1..n, NEW j \in 1..Len(items), items[j].Port = back[i].Port
       PROVE  SamePort(back[i], items[j])
  <2>1. back[i] = PortAs(items[j].Port, PortOver(At(PortsOf(device), Key(items[j])), items[j]))
    BY <1>1, <1>7, <1>12 DEF Key
  <2> QED
    BY <1>2, <2>1, PortOverReads
<1>13. PortNumbers(e) \subseteq Numbers /\ PortNumbers(device) \subseteq Numbers
  BY DEF PortNumbers, Numbers
<1>14. ASSUME NEW i \in 1..n, \A j \in 1..Len(items) : items[j].Port # back[i].Port
       PROVE  \E j \in 1..n0 : back[i] = was[j]
  <2>1. p[i] \in Numbers /\ p[i] \in PortNumbers(e) /\ \A j \in 1..Len(items) : items[j].Port # p[i]
    BY <1>7, <1>13, <1>14
  <2>2. p[i] \in PortNumbers(device) /\ At(PortsOf(e), ToString(p[i])) = At(PortsOf(device), ToString(p[i]))
    BY <1>10, <2>1
  <2>3. PICK j \in 1..n0 : p0[j] = p[i]
    BY <1>5, <2>2
  <2> QED
    BY <1>7, <1>8, <2>2, <2>3
<1>15. ASSUME NEW j \in 1..n0, \A k \in 1..Len(items) : items[k].Port # was[j].Port
       PROVE  \E i \in 1..n : back[i] = was[j]
  <2>1. p0[j] \in Numbers /\ p0[j] \in PortNumbers(device) /\ \A k \in 1..Len(items) : items[k].Port # p0[j]
    BY <1>8, <1>13, <1>15
  <2>2. p0[j] \in PortNumbers(e) /\ At(PortsOf(e), ToString(p0[j])) = At(PortsOf(device), ToString(p0[j]))
    BY <1>10, <2>1
  <2>3. PICK i \in 1..n : p[i] = p0[j]
    BY <1>4, <2>2
  <2> QED
    BY <1>7, <1>8, <2>2, <2>3
<1>16. \A i, j \in 1..n : i < j => back[i].Port < back[j].Port
  BY <1>4, <1>7
<1>17. \A i \in 1..n :
         \/ \E j \in 1..Len(items) : SamePort(back[i], items[j])
         \/ (\A j \in 1..Len(items) : items[j].Port # back[i].Port) /\ \E j \in 1..n0 : back[i] = was[j]
  BY <1>12, <1>14
<1>18. /\ Len(back) \in Nat /\ DOMAIN back = 1..Len(back)
       /\ \A i, j \in 1..Len(back) : i < j => back[i].Port < back[j].Port
       /\ \A j \in 1..Len(items) : \E i \in 1..Len(back) : SamePort(back[i], items[j])
       /\ \A i \in 1..Len(back) :
            \/ \E j \in 1..Len(items) : SamePort(back[i], items[j])
            \/ (\A j \in 1..Len(items) : items[j].Port # back[i].Port) /\ \E j \in DOMAIN was : back[i] = was[j]
       /\ \A j \in DOMAIN was :
            (\A k \in 1..Len(items) : items[k].Port # was[j].Port) => \E i \in 1..Len(back) : back[i] = was[j]
  <2>1. \A j \in 1..Len(items) : \E i \in 1..n : SamePort(back[i], items[j])
    BY <1>11
  <2>2. \A j \in 1..n0 :
          (\A k \in 1..Len(items) : items[k].Port # was[j].Port) => \E i \in 1..n : back[i] = was[j]
    BY <1>15
  <2>3. n = Len(back) /\ n \in Nat /\ DOMAIN back = 1..n /\ DOMAIN was = 1..n0
    BY <1>4, <1>6, <1>9
  <2> QED
    BY <1>16, <1>17, <2>1, <2>2, <2>3, Zenon
<1> QED
  BY <1>18 DEF back, was, e

-----------------------------------------------------------------------------
(* The reservations of a site's clients.                                     *)

WantedClients(items) == {ClientOf[r.MAC] : r \in ToSet(items)}
RecordOf(clients, c) == IF c \in DOMAIN clients THEN clients[c] ELSE Obj([id |-> Str(c)])
IPWanted(items, c) == (CHOOSE r \in ToSet(items) : ClientOf[r.MAC] = c).IP
Held(o, ip) == With(o, "config", PutString(Child(o, "config"), "ip", ip))
Released(o) == IF At(o, "config")[1] = "obj" THEN With(o, "config", Omit(At(o, "config"), "ip")) ELSE o
IPRead(o) == AsString(At(At(o, "config"), "ip"))

LEMMA ReservationsWritten ==
  ASSUME NEW clients, NEW items
  PROVE  WriteReservations(clients, items) =
           [c \in DOMAIN clients \cup WantedClients(items) |->
              IF c \in WantedClients(items) THEN Held(RecordOf(clients, c), IPWanted(items, c)) ELSE Released(RecordOf(clients, c))]
BY DEF WriteReservations, WantedClients, RecordOf, IPWanted, Held, Released

LEMMA WantedIP ==
  ASSUME NEW items, ~ReservationsError(items), NEW r \in ToSet(items)
  PROVE  IPWanted(items, ClientOf[r.MAC]) = r.IP /\ r.MAC \in DOMAIN ClientOf
<1>1. \A a, b \in ToSet(items) : ClientOf[a.MAC] = ClientOf[b.MAC] => a = b
  BY DEF ToSet, ReservationsError
<1>2. (CHOOSE a \in ToSet(items) : ClientOf[a.MAC] = ClientOf[r.MAC]) = r
  BY <1>1
<1> QED
  BY <1>2 DEF IPWanted, ToSet, ReservationsError

LEMMA HeldReads == ASSUME NEW o, NEW ip PROVE IPRead(Held(o, ip)) = ip
<1> DEFINE v == PutString(Child(o, "config"), "ip", ip)
<1>1. AsString(At(v, "ip")) = ip
  BY StringReads
<1> HIDE DEF v
<1>2. At(With(o, "config", v), "config") = v
  BY AtSame
<1> QED
  BY <1>1, <1>2 DEF Held, IPRead, v

LEMMA ReleasedReads == ASSUME NEW o PROVE IPRead(Released(o)) = ""
<1>1. AsString(Null) = ""
  BY Tags DEF AsString
<1>2. CASE At(o, "config")[1] = "obj"
  <2>1. At(With(o, "config", Omit(At(o, "config"), "ip")), "config") = Omit(At(o, "config"), "ip")
    BY AtSame
  <2>2. At(Omit(At(o, "config"), "ip"), "ip") = Null
    BY AtSame
  <2> QED
    BY <1>1, <1>2, <2>1, <2>2 DEF Released, IPRead
<1>3. CASE At(o, "config")[1] # "obj"
  <2>1. At(At(o, "config"), "ip") = Null
    BY <1>3 DEF At, Fields
  <2> QED
    BY <1>1, <1>3, <2>1 DEF Released, IPRead
<1> QED
  BY <1>2, <1>3

LEMMA PlacesApart ==
  ASSUME NEW s \in ToSet(Lexical), NEW t \in ToSet(Lexical), s # t
  PROVE  Place(s) # Place(t)
<1>1. Lexical[Place(s)] = s /\ Lexical[Place(t)] = t
  BY DEF Place, ToSet
<1> QED
  BY <1>1

ByMAC(S) == {w \in S \X S : Before(w[1].MAC, w[2].MAC)}

LEMMA MACsOrder ==
  ASSUME NEW S, \A x \in S : x.MAC \in ToSet(Lexical), \A x, y \in S : x.MAC = y.MAC => x = y
  PROVE  IsOrder(S, ByMAC(S))
<1> DEFINE R == ByMAC(S)
<1>1. \A x, y \in S : <<x, y>> \in R <=> Place(x.MAC) < Place(y.MAC)
  BY PlaceOf DEF ByMAC
<1>2. \A x \in S : Place(x.MAC) \in Nat
  BY PlaceOf
<1>3. \A x, y \in S : x # y => Place(x.MAC) # Place(y.MAC)
  BY PlacesApart
<1> HIDE DEF R
<1>4. ASSUME NEW x \in S PROVE <<x, x>> \notin R
  BY <1>1, <1>2
<1>5. ASSUME NEW x \in S, NEW y \in S, x # y PROVE <<x, y>> \in R \/ <<y, x>> \in R
  BY <1>1, <1>2, <1>3, <1>5
<1>6. ASSUME NEW x \in S, NEW y \in S, NEW z \in S, <<x, y>> \in R, <<y, z>> \in R PROVE <<x, z>> \in R
  BY <1>1, <1>2, <1>6
<1> QED
  BY <1>4, <1>5, <1>6 DEF IsOrder, R

\* The reservations that clients have, one for each that has an address.
Reserved(clients) ==
  {[MAC |-> MACOf[c], IP |-> IPRead(clients[c])] : c \in {k \in DOMAIN clients : IPRead(clients[k]) # ""}}

LEMMA ReservationsRead ==
  ASSUME NEW clients, IsFiniteSet(Reserved(clients)),
         \A c \in DOMAIN clients : IPRead(clients[c]) # "" => c \in DOMAIN MACOf /\ MACOf[c] \in ToSet(Lexical)
  PROVE  LET back == ReadReservations(clients) IN
         \E n \in Nat :
           /\ back \in [1..n -> Reserved(clients)]
           /\ \A x \in Reserved(clients) : \E i \in 1..n : back[i] = x
           /\ \A i, j \in 1..n : i < j => Before(back[i].MAC, back[j].MAC)
<1> DEFINE S == Reserved(clients)
           R == ByMAC(S)
           n == Cardinality(S)
           p == [i \in 1..n |-> CHOOSE x \in S : Cardinality({y \in S : Before(y.MAC, x.MAC)}) = i - 1]
<1>1. n \in Nat
  BY FS_CardinalityType
<1>0. \A x \in S : \E c \in DOMAIN clients : IPRead(clients[c]) # "" /\ x = [MAC |-> MACOf[c], IP |-> IPRead(clients[c])]
  BY DEF Reserved
<1>2. \A x \in S : x.MAC \in ToSet(Lexical)
  <2> HIDE DEF S
  <2>1. ASSUME NEW x \in S PROVE x.MAC \in ToSet(Lexical)
    <3>1. PICK c \in DOMAIN clients : IPRead(clients[c]) # "" /\ x = [MAC |-> MACOf[c], IP |-> IPRead(clients[c])]
      BY <1>0
    <3> QED
      BY <3>1
  <2> QED
    BY <2>1
<1>3. \A x, y \in S : x.MAC = y.MAC => x = y
  <2>1. ASSUME NEW c \in DOMAIN clients, NEW d \in DOMAIN clients, IPRead(clients[c]) # "", IPRead(clients[d]) # "",
               MACOf[c] = MACOf[d]
        PROVE  c = d
    BY <2>1, MACAssumption
  <2> HIDE DEF S
  <2>2. ASSUME NEW x \in S, NEW y \in S, x.MAC = y.MAC PROVE x = y
    <3>1. PICK c \in DOMAIN clients : IPRead(clients[c]) # "" /\ x = [MAC |-> MACOf[c], IP |-> IPRead(clients[c])]
      BY <1>0
    <3>2. PICK d \in DOMAIN clients : IPRead(clients[d]) # "" /\ y = [MAC |-> MACOf[d], IP |-> IPRead(clients[d])]
      BY <1>0
    <3> QED
      BY <2>1, <2>2, <3>1, <3>2
  <2> QED
    BY <2>2
<1>4. IsOrder(S, R)
  <2> HIDE DEF S
  <2> QED
    BY <1>2, <1>3, MACsOrder DEF ByMAC
<1>5. ASSUME NEW x \in S PROVE Rank(S, R, x) = Cardinality({y \in S : Before(y.MAC, x.MAC)})
  <2> HIDE DEF S
  <2>1. {y \in S : <<y, x>> \in R} = {y \in S : Before(y.MAC, x.MAC)}
    BY DEF ByMAC
  <2> QED
    BY <2>1 DEF Rank
<1>6. p = [i \in 1..n |-> p[i]] /\ DOMAIN p = 1..n
  <2> DEFINE at(i) == CHOOSE x \in S : Cardinality({y \in S : Before(y.MAC, x.MAC)}) = i - 1
  <2>1. p = [i \in 1..n |-> at(i)]
    OBVIOUS
  <2> HIDE DEF at, p, S, n
  <2> QED
    BY <2>1
<1>7. ASSUME NEW i \in 1..n, \E x \in S : Rank(S, R, x) = i - 1
      PROVE  p[i] \in S /\ Rank(S, R, p[i]) = i - 1
  <2> DEFINE P(x) == Cardinality({y \in S : Before(y.MAC, x.MAC)}) = i - 1
  <2>1. p[i] = CHOOSE x \in S : P(x)
    OBVIOUS
  <2>2. \A x \in S : P(x) <=> Rank(S, R, x) = i - 1
    BY <1>5
  <2> HIDE DEF P, S, R, p
  <2>3. p[i] \in S /\ P(p[i])
    BY <1>7, <2>1, <2>2
  <2> QED
    BY <2>2, <2>3
<1>8. Lists(S, R, p)
  <2> HIDE DEF R, p
  <2> QED
    BY <1>4, <1>6, <1>7, SortedLists DEF n
<1>9. ReadReservations(clients) = p
  BY DEF ReadReservations, Sorted, Reserved, IPRead
<1>10. \A w \in R : Before(w[1].MAC, w[2].MAC)
  BY DEF ByMAC
<1>11. \A i, j \in 1..n : i < j => Before(p[i].MAC, p[j].MAC)
  <2> HIDE DEF p, R, S
  <2>1. \A i, j \in 1..n : i < j => <<p[i], p[j]>> \in R
    BY <1>8 DEF Lists
  <2>2. \A a, b : <<a, b>>[1] = a /\ <<a, b>>[2] = b
    OBVIOUS
  <2> QED
    BY <1>10, <2>1, <2>2
<1>12. p \in [1..n -> S] /\ \A x \in S : \E i \in 1..n : p[i] = x
  <2> HIDE DEF p, R
  <2> QED
    BY <1>8 DEF Lists
<1> HIDE DEF p, n
<1> QED
  BY <1>1, <1>9, <1>11, <1>12 DEF S

\* Reservations that clients can be given: of clients with a MAC address that has a place.
Reservable(items) ==
  /\ ~ReservationsError(items)
  /\ \A r \in ToSet(items) : ClientOf[r.MAC] \in DOMAIN MACOf /\ MACOf[ClientOf[r.MAC]] \in ToSet(Lexical)

LEMMA WrittenReserved ==
  ASSUME NEW clients, NEW items, ~ReservationsError(items)
  PROVE  LET next == WriteReservations(clients, items) IN
         /\ \A c \in DOMAIN next : IPRead(next[c]) = IF c \in WantedClients(items) THEN IPWanted(items, c) ELSE ""
         /\ Reserved(next) = {[MAC |-> MACOf[ClientOf[r.MAC]], IP |-> r.IP] : r \in {r \in ToSet(items) : r.IP # ""}}
<1> DEFINE next == WriteReservations(clients, items)
           W == WantedClients(items)
           own(r) == [MAC |-> MACOf[ClientOf[r.MAC]], IP |-> r.IP]
<1>1. DOMAIN next = DOMAIN clients \cup W
  BY ReservationsWritten
<1>2. ASSUME NEW c \in DOMAIN next PROVE IPRead(next[c]) = IF c \in W THEN IPWanted(items, c) ELSE ""
  <2>1. next[c] = IF c \in W THEN Held(RecordOf(clients, c), IPWanted(items, c)) ELSE Released(RecordOf(clients, c))
    BY <1>1, ReservationsWritten
  <2> HIDE DEF next, W
  <2> QED
    BY <2>1, HeldReads, ReleasedReads
<1> HIDE DEF next
<1>3. ASSUME NEW x \in Reserved(next) PROVE x \in {own(r) : r \in {r \in ToSet(items) : r.IP # ""}}
  <2>1. PICK c \in DOMAIN next : IPRead(next[c]) # "" /\ x = [MAC |-> MACOf[c], IP |-> IPRead(next[c])]
    BY DEF Reserved
  <2>2. c \in W /\ IPRead(next[c]) = IPWanted(items, c)
    BY <1>2, <2>1
  <2>3. PICK r \in ToSet(items) : c = ClientOf[r.MAC]
    BY <2>2 DEF WantedClients
  <2>4. IPWanted(items, c) = r.IP
    BY <2>3, WantedIP
  <2>5. r.IP # "" /\ x = own(r)
    BY <2>1, <2>2, <2>3, <2>4
  <2> QED
    BY <2>5
<1>4. ASSUME NEW r \in ToSet(items), r.IP # "" PROVE own(r) \in Reserved(next)
  <2> DEFINE c == ClientOf[r.MAC]
  <2>1. c \in W /\ IPWanted(items, c) = r.IP
    BY WantedIP DEF WantedClients
  <2>2. c \in DOMAIN next /\ IPRead(next[c]) = r.IP
    BY <1>1, <1>2, <2>1
  <2>3. own(r) = [MAC |-> MACOf[c], IP |-> IPRead(next[c])]
    BY <2>2
  <2> QED
    BY <1>4, <2>2, <2>3 DEF Reserved
<1>5. Reserved(next) = {own(r) : r \in {r \in ToSet(items) : r.IP # ""}}
  <2> HIDE DEF own
  <2> QED
    BY <1>3, <1>4
<1> QED
  BY <1>2, <1>5 DEF next

\* Reservations that are written are read back, those and no other, in the order of their MAC
\* addresses; one without an address is none (reservations.go: Apply, then Read).
THEOREM ReservationsReadBack ==
  ASSUME NEW clients, NEW items, Reservable(items)
  PROVE  LET back == ReadReservations(WriteReservations(clients, items))
             own(r) == [MAC |-> MACOf[ClientOf[r.MAC]], IP |-> r.IP]
         IN /\ Len(back) \in Nat /\ DOMAIN back = 1..Len(back)
            /\ {back[i] : i \in 1..Len(back)} = {own(r) : r \in {r \in ToSet(items) : r.IP # ""}}
            /\ \A i, j \in 1..Len(back) : i < j => Before(back[i].MAC, back[j].MAC)
<1> DEFINE next == WriteReservations(clients, items)
           back == ReadReservations(next)
           own(r) == [MAC |-> MACOf[ClientOf[r.MAC]], IP |-> r.IP]
           all == {own(r) : r \in {r \in ToSet(items) : r.IP # ""}}
<1>0. ~ReservationsError(items)
  BY DEF Reservable
<1>1. /\ \A c \in DOMAIN next : IPRead(next[c]) = IF c \in WantedClients(items) THEN IPWanted(items, c) ELSE ""
      /\ Reserved(next) = all
  BY <1>0, WrittenReserved
<1>2. IsFiniteSet(all)
  <2> DEFINE C == {c \in WantedClients(items) : IPWanted(items, c) # ""}
             g == [c \in C |-> [MAC |-> MACOf[c], IP |-> IPWanted(items, c)]]
  <2>1. IsFiniteSet(C)
    <3> DEFINE K == {ClientOf[t] : t \in DOMAIN ClientOf}
    <3>1. IsFiniteSet(K)
      BY FiniteImage, ClientOfAssumption
    <3>2. C \subseteq K
      BY <1>0, WantedIP DEF WantedClients
    <3> HIDE DEF K, C
    <3> QED
      BY <3>1, <3>2, FS_Subset
  <2>2. IsFiniteSet({g[c] : c \in DOMAIN g})
    <3>1. DOMAIN g = C
      OBVIOUS
    <3> HIDE DEF g, C
    <3> QED
      BY <2>1, <3>1, FiniteImage
  <2>3. all \subseteq {g[c] : c \in DOMAIN g}
    <3>1. ASSUME NEW r \in ToSet(items), r.IP # "" PROVE own(r) = g[ClientOf[r.MAC]] /\ ClientOf[r.MAC] \in C
      BY <1>0, <3>1, WantedIP DEF WantedClients
    <3> HIDE DEF own, g
    <3>2. \A c \in C : c \in DOMAIN g
      BY DEF g
    <3> QED
      BY <3>1, <3>2
  <2> HIDE DEF all, g
  <2> QED
    BY <2>2, <2>3, FS_Subset
<1>3. ASSUME NEW c \in DOMAIN next, IPRead(next[c]) # "" PROVE c \in DOMAIN MACOf /\ MACOf[c] \in ToSet(Lexical)
  <2>1. c \in WantedClients(items)
    BY <1>1, <1>3
  <2> QED
    BY <2>1 DEF WantedClients, Reservable
<1> HIDE DEF next, all
<1>4. PICK n \in Nat :
           /\ back \in [1..n -> Reserved(next)]
           /\ \A x \in Reserved(next) : \E i \in 1..n : back[i] = x
           /\ \A i, j \in 1..n : i < j => Before(back[i].MAC, back[j].MAC)
  BY <1>1, <1>2, <1>3, ReservationsRead
<1> HIDE DEF back
<1>5. DOMAIN back = 1..n /\ Len(back) = n
  BY <1>4, LenOf
<1>6. {back[i] : i \in 1..n} = all
  BY <1>1, <1>4
<1> QED
  BY <1>4, <1>5, <1>6 DEF back, next, all

LEMMA HeldAgain ==
  ASSUME NEW o, IsClient(o), NEW ip
  PROVE  Held(Held(o, ip), ip) = Held(o, ip)
<1> DEFINE k == "config"
           v == PutString(Child(o, k), "ip", ip)
           p == With(o, k, v)
<1>1. IsObj(v)
  <2>1. Puts(Child(o, k), "ip", v)
    BY PutsOne
  <2> HIDE DEF v
  <2> QED
    BY <2>1, PutsInObject DEF IsClient
<1>2. PutString(v, "ip", ip) = v
  <2>1. Agree(v, v, "ip")
    BY DEF Agree
  <2> QED
    BY <1>1, <2>1, StringAgain DEF Settled
<1> HIDE DEF v
<1>3. At(p, k) = v /\ IsObj(p) /\ k \in DOMAIN Fields(p)
  <2>1. DOMAIN Fields(p) = {k} \cup DOMAIN Fields(o)
    BY FieldsWith
  <2>2. At(p, k) = v
    BY AtSame
  <2>3. IsObj(p)
    BY WithIsObj
  <2> QED
    BY <2>1, <2>2, <2>3
<1>4. Held(o, ip) = p
  BY DEF Held, v
<1> HIDE DEF p
<1>5. Child(p, k) = v
  BY <1>1, <1>3, FieldsObj DEF Child, IsObj
<1>6. Held(p, ip) = With(p, k, At(p, k))
  BY <1>2, <1>3, <1>5 DEF Held
<1> QED
  BY <1>3, <1>4, <1>6, WithSame

LEMMA ReleasedAgain == ASSUME NEW o PROVE Released(Released(o)) = Released(o)
<1> DEFINE k == "config"
           v == Omit(At(o, k), "ip")
           p == With(o, k, v)
<1>1. CASE At(o, k)[1] # "obj"
  BY <1>1 DEF Released
<1>2. CASE At(o, k)[1] = "obj"
  <2>1. Released(o) = p
    BY <1>2 DEF Released
  <2>2. IsObj(v) /\ v[1] = "obj" /\ "ip" \notin DOMAIN Fields(v)
    <3>1. IsObj(v)
      BY OmitIsObj
    <3>2. DOMAIN Fields(v) = DOMAIN Fields(At(o, k)) \ {"ip"}
      BY FieldsOmit
    <3> HIDE DEF v
    <3> QED
      BY <3>1, <3>2, ObjTag
  <2> HIDE DEF v
  <2>3. At(p, k) = v /\ IsObj(p) /\ k \in DOMAIN Fields(p)
    <3>1. DOMAIN Fields(p) = {k} \cup DOMAIN Fields(o)
      BY FieldsWith
    <3>2. At(p, k) = v
      BY AtSame
    <3>3. IsObj(p)
      BY WithIsObj
    <3> QED
      BY <3>1, <3>2, <3>3
  <2> HIDE DEF p
  <2>4. Omit(v, "ip") = v
    BY <2>2, OmitAbsent
  <2>5. Released(p) = With(p, k, At(p, k))
    BY <2>2, <2>3, <2>4 DEF Released
  <2> QED
    BY <2>1, <2>3, <2>5, WithSame
<1> QED
  BY <1>1, <1>2

\* Writing the same reservations once more changes nothing (reservations.go: Apply).
THEOREM SecondReservationsWriteIsQuiet ==
  ASSUME NEW clients, NEW items, \A c \in DOMAIN clients : IsClient(clients[c])
  PROVE  WriteReservations(WriteReservations(clients, items), items) = WriteReservations(clients, items)
<1> DEFINE next == WriteReservations(clients, items)
           W == WantedClients(items)
           over(c) == IF c \in W THEN Held(RecordOf(clients, c), IPWanted(items, c)) ELSE Released(RecordOf(clients, c))
           again(c) == IF c \in W THEN Held(RecordOf(next, c), IPWanted(items, c)) ELSE Released(RecordOf(next, c))
<1>1. next = [c \in DOMAIN clients \cup W |-> over(c)]
  BY ReservationsWritten
<1>2. WriteReservations(next, items) = [c \in DOMAIN next \cup W |-> again(c)]
  <2> HIDE DEF next
  <2> QED
    BY ReservationsWritten
<1>3. ASSUME NEW c PROVE IsClient(RecordOf(clients, c))
  <2>1. CASE c \in DOMAIN clients
    BY <2>1 DEF RecordOf
  <2>2. CASE c \notin DOMAIN clients
    <3> DEFINE o == Obj([id |-> Str(c)])
    <3>1. At(o, "config") = Null
      BY DEF At, Fields, Obj
    <3>2. Child(o, "config") = EmptyObj
      BY <3>1, EmptyObject DEF Child
    <3> QED
      BY <2>2, <3>2, EmptyObject DEF RecordOf, IsClient
  <2> QED
    BY <2>1, <2>2
<1>4. ASSUME NEW c \in DOMAIN clients \cup W PROVE again(c) = over(c)
  <2>1. RecordOf(next, c) = over(c)
    <3>1. c \in DOMAIN next /\ next[c] = over(c)
      BY <1>1
    <3> HIDE DEF next, over
    <3> QED
      BY <3>1 DEF RecordOf
  <2> HIDE DEF next
  <2>2. CASE c \in W
    BY <1>3, <2>1, <2>2, HeldAgain
  <2>3. CASE c \notin W
    BY <2>1, <2>3, ReleasedAgain
  <2> QED
    BY <2>2, <2>3
<1> HIDE DEF W, over, again
<1>5. DOMAIN next \cup W = DOMAIN clients \cup W
  BY <1>1
<1> QED
  BY <1>1, <1>2, <1>4, <1>5

-----------------------------------------------------------------------------
(* What is written has the form of what was there.                           *)

LEMMA NoFieldsIsObj == ASSUME NEW v, Fields(v) = <<>> PROVE IsObj(Obj(Fields(v)))
BY EmptyObject DEF EmptyObj

LEMMA PutsALeaf ==
  ASSUME NEW o, NEW k, NEW want, IsObj(Child(o, k))
  PROVE  /\ IsObj(Child(PutString(o, k, want), k)) /\ IsObj(Child(PutInt(o, k, want), k))
         /\ IsObj(Child(PutFlag(o, k, want), k)) /\ IsObj(Child(PutTri(o, k, want), k))
         /\ IsObj(Child(PutCSV(o, k, want), k)) /\ IsObj(Child(PutStringSet(o, k, want), k))
<1>1. \A p : p = o \/ p = Omit(o, k) \/ (\E v : v[1] # "obj" /\ p = With(o, k, v)) => IsObj(Child(p, k))
  <2>1. IsObj(Child(Omit(o, k), k))
    BY AtSame, EmptyObject DEF Child
  <2>2. ASSUME NEW v, v[1] # "obj" PROVE IsObj(Child(With(o, k, v), k))
    <3>1. Fields(v) = <<>>
      BY <2>2 DEF Fields
    <3> QED
      BY <3>1, AtSame, NoFieldsIsObj DEF Child
  <2> QED
    BY <2>1, <2>2
<1>2. \A x : Str(x)[1] # "obj" /\ Num(x)[1] # "obj" /\ Bool(x)[1] # "obj" /\ List(x)[1] # "obj" /\ Joined(x, FALSE)[1] # "obj"
  BY Tags
<1>3. IsObj(Child(PutString(o, k, want), k))
  BY <1>1, <1>2 DEF PutString
<1>4. IsObj(Child(PutInt(o, k, want), k))
  BY <1>1, <1>2 DEF PutInt
<1>5. IsObj(Child(PutFlag(o, k, want), k))
  BY <1>1, <1>2 DEF PutFlag
<1>6. IsObj(Child(PutTri(o, k, want), k))
  BY <1>1, <1>2 DEF PutTri
<1>7. IsObj(Child(PutCSV(o, k, want), k))
  BY <1>1, <1>2 DEF PutCSV
<1>8. IsObj(Child(PutStringSet(o, k, want), k))
  <2>1. \E v : PutStrings(o, k, want) \in {o, Omit(o, k), With(o, k, List(v))}
    BY DEF PutStrings
  <2>2. \E v : PutStringSet(o, k, want) \in {o, Omit(o, k), With(o, k, List(v))}
    BY <2>1 DEF PutStringSet
  <2> QED
    BY <1>1, <1>2, <2>2
<1> QED
  BY <1>3, <1>4, <1>5, <1>6, <1>7, <1>8

LEMMA EndpointIsObj ==
  ASSUME NEW o, NEW k, NEW x, IsObj(Child(o, k))
  PROVE  IsObj(Child(EncodeEndpoint(o, k, x), k))
<1> DEFINE named == PutString(Child(o, k), "address", x.Address)
           v == PutPort(named, "port", x.Port)
           p == With(o, k, v)
<1>1. Puts(Child(o, k), "address", named) /\ Puts(named, "port", v)
  BY PutsOne
<1>2. IsObj(v)
  <2> HIDE DEF named, v
  <2>1. IsObj(named)
    BY <1>1, PutsInObject
  <2> QED
    BY <1>1, <2>1, PutsInObject
<1>3. EncodeEndpoint(o, k, x) = PruneEmpty(p, k)
  BY DEF EncodeEndpoint
<1> HIDE DEF v
<1>4. Child(p, k) = v
  <2>1. At(p, k) = v
    BY AtSame
  <2> QED
    BY <1>2, <2>1, FieldsObj DEF Child, IsObj
<1> HIDE DEF p
<1>5. Child(Omit(p, k), k) = EmptyObj
  BY AtSame, EmptyObject DEF Child
<1> QED
  BY <1>2, <1>3, <1>4, <1>5, EmptyObject DEF PruneEmpty

LEMMA FieldIsObj ==
  ASSUME NEW item, NEW o, NEW row, row[3] \in FieldKinds \cup {"destination"}, IsObj(Child(o, row[2]))
  PROVE  IsObj(Child(EncodeField(item, o, row), row[2]))
<1> DEFINE p == EncodeField(item, o, row)
<1>1. CASE row[3] \in {"destination", "string"}
  <2>1. \E want : p = PutString(o, row[2], want)
    BY <1>1 DEF EncodeField
  <2> QED
    BY <2>1, PutsALeaf
<1>2. CASE row[3] \in {"int", "number"}
  <2>1. \E want : p = PutInt(o, row[2], want)
    BY <1>2 DEF EncodeField
  <2> QED
    BY <2>1, PutsALeaf
<1>3. CASE row[3] \in {"flag", "noflag"}
  <2>1. \E want : p = PutFlag(o, row[2], want)
    BY <1>3 DEF EncodeField
  <2> QED
    BY <2>1, PutsALeaf
<1>4. CASE row[3] = "tri"
  <2>1. \E want : p = PutTri(o, row[2], want)
    BY <1>4 DEF EncodeField
  <2> QED
    BY <2>1, PutsALeaf
<1>5. CASE row[3] = "csv"
  <2>1. \E want : p = PutCSV(o, row[2], want)
    BY <1>5 DEF EncodeField
  <2> QED
    BY <2>1, PutsALeaf
<1>6. CASE row[3] = "set"
  <2>1. \E want : p = PutStringSet(o, row[2], want)
    BY <1>6 DEF EncodeField
  <2> QED
    BY <2>1, PutsALeaf
<1>7. CASE row[3] = "endpoint"
  <2>1. p = EncodeEndpoint(o, row[2], item[row[1]])
    BY <1>7 DEF EncodeField
  <2> QED
    BY <2>1, EndpointIsObj
<1> QED
  BY <1>1, <1>2, <1>3, <1>4, <1>5, <1>6, <1>7 DEF FieldKinds

LEMMA PutsAList ==
  ASSUME NEW o, NEW k, NEW p, NEW want, Listing(want), Listing(Entries(At(o, k))),
         \/ p = o \/ p = Omit(o, k)
         \/ \E v : v[1] # "list" /\ p = With(o, k, v)
         \/ \E f : p = With(o, k, List([i \in DOMAIN want |-> f[i]]))
  PROVE  Listing(Entries(At(p, k)))
<1>1. Listing(<<>>)
  BY DEF Listing
<1>2. CASE p = o
  BY <1>2
<1>3. CASE p = Omit(o, k)
  BY <1>1, <1>3, AtSame, NothingAtNull
<1>4. ASSUME NEW v, v[1] # "list", p = With(o, k, v) PROVE Listing(Entries(At(p, k)))
  <2>1. Entries(v) = <<>>
    BY <1>4 DEF Entries
  <2>2. At(With(o, k, v), k) = v
    BY AtSame
  <2> QED
    BY <1>1, <1>4, <2>1, <2>2
<1>5. ASSUME NEW f, p = With(o, k, List([i \in DOMAIN want |-> f[i]])) PROVE Listing(Entries(At(p, k)))
  <2> DEFINE q == [i \in DOMAIN want |-> f[i]]
  <2>1. At(p, k) = List(q)
    BY <1>5, AtSame
  <2>2. Len(want) \in Nat /\ DOMAIN want = 1..Len(want)
    BY ListingDomain DEF Listing
  <2>3. DOMAIN q = 1..Len(want) /\ q = [i \in DOMAIN q |-> q[i]]
    BY <2>2
  <2> HIDE DEF q
  <2>4. Listing(q)
    BY <2>2, <2>3, ListingOf
  <2> QED
    BY <2>1, <2>4, Tags DEF Entries
<1> QED
  BY <1>2, <1>3, <1>4, <1>5

LEMMA FieldIsListed ==
  ASSUME NEW item, NEW o, NEW row, row[3] \in FieldKinds \cup {"destination"}, Listing(Entries(At(o, row[2]))),
         row[3] = "set" => Listing(item[row[1]])
  PROVE  Listing(Entries(At(EncodeField(item, o, row), row[2])))
<1> DEFINE p == EncodeField(item, o, row)
           k == row[2]
           x == item[row[1]]
<1>1. \A y : Str(y)[1] # "list" /\ Num(y)[1] # "list" /\ Bool(y)[1] # "list" /\ Joined(y, FALSE)[1] # "list"
  BY Tags
<1>2. CASE row[3] \in {"destination", "string"}
  <2>1. \E want : p = PutString(o, k, want)
    BY <1>2 DEF EncodeField
  <2>2. p = o \/ p = Omit(o, k) \/ \E v : v[1] # "list" /\ p = With(o, k, v)
    BY <1>1, <2>1 DEF PutString
  <2> HIDE DEF p, k
  <2>3. Listing(<<>>)
    BY DEF Listing
  <2> QED
    BY <2>2, <2>3, PutsAList DEF p, k
<1>3. CASE row[3] \in {"int", "number", "flag", "noflag", "tri", "csv"}
  <2>1. \E want : p = PutInt(o, k, want) \/ p = PutFlag(o, k, want) \/ p = PutTri(o, k, want) \/ p = PutCSV(o, k, want)
    BY <1>3 DEF EncodeField
  <2>2. p = o \/ p = Omit(o, k) \/ \E v : v[1] # "list" /\ p = With(o, k, v)
    BY <1>1, <2>1 DEF PutInt, PutFlag, PutTri, PutCSV
  <2> HIDE DEF p, k
  <2>3. Listing(<<>>)
    BY DEF Listing
  <2> QED
    BY <2>2, <2>3, PutsAList DEF p, k
<1>4. CASE row[3] = "set"
  <2>1. p = PutStringSet(o, k, x)
    BY <1>4 DEF EncodeField
  <2>2. \A j : PutStrings(o, k, x) \in {o, Omit(o, k), With(o, k, List([i \in DOMAIN x |-> Str(x[i])]))}
    BY DEF PutStrings
  <2>3. p \in {o, Omit(o, k), With(o, k, List([i \in DOMAIN x |-> Str(x[i])]))}
    BY <2>1, <2>2 DEF PutStringSet
  <2> DEFINE f == [i \in DOMAIN x |-> Str(x[i])]
  <2>4. [i \in DOMAIN x |-> f[i]] = f
    OBVIOUS
  <2> HIDE DEF p, k, x
  <2>5. p = o \/ p = Omit(o, k) \/ p = With(o, k, List([i \in DOMAIN x |-> f[i]]))
    BY <2>3, <2>4
  <2>6. Listing(x)
    BY <1>4 DEF x
  <2> HIDE DEF f
  <2> QED
    BY <2>5, <2>6, PutsAList DEF p, k
<1>5. CASE row[3] = "endpoint"
  <2>1. \E v : p = PruneEmpty(With(o, k, Obj(v)), k)
    <3>1. p = EncodeEndpoint(o, k, x)
      BY <1>5 DEF EncodeField
    <3> DEFINE v == PutPort(PutString(Child(o, k), "address", x.Address), "port", x.Port)
    <3>2. \E w : v = Obj(w)
      BY DEF PutPort, PutString, With, Omit, Child
    <3>3. p = PruneEmpty(With(o, k, v), k)
      BY <3>1 DEF EncodeEndpoint
    <3> HIDE DEF v, p
    <3> QED
      BY <3>2, <3>3
  <2>2. PICK v : p = PruneEmpty(With(o, k, Obj(v)), k)
    BY <2>1
  <2> HIDE DEF p, k
  <2>1a. At(With(o, k, Obj(v)), k) = Obj(v)
    BY AtSame
  <2> DEFINE w == With(o, k, Obj(v))
  <2>5. At(w, k) = Obj(v)
    BY <2>1a
  <2>8. p = PruneEmpty(w, k)
    BY <2>2
  <2> HIDE DEF w
  <2>6. p = w \/ p = Omit(w, k)
    BY <2>8 DEF PruneEmpty
  <2>7. At(Omit(w, k), k) = Null
    BY AtSame
  <2>3. At(p, k) = Null \/ At(p, k) = Obj(v)
    BY <2>5, <2>6, <2>7
  <2>4. Entries(At(p, k)) = <<>>
    BY <2>3, NothingAtNull DEF Entries, Obj
  <2>9. Listing(<<>>)
    BY DEF Listing
  <2> QED
    BY <2>4, <2>9 DEF p, k
<1> QED
  BY <1>2, <1>3, <1>4, <1>5 DEF FieldKinds

\* An element written is an element again.
LEMMA EncodedIsElement ==
  ASSUME NEW s \in DOMAIN Codec, NEW item, PlainItem(s, item), NEW e, IsElement(e)
  PROVE  IsElement(Encode(Codec[s].fields, item, e))
<1> DEFINE fields == Codec[s].fields
           q == Encode(fields, item, e)
<1>1. Table(fields)
  BY Codecs
<1> HIDE DEF fields
<1>2. IsObj(q)
  BY <1>1, EncodedInObject DEF IsElement
<1>3. \A k : IsObj(Child(e, k))
  <2>1. \A k : k \notin DOMAIN Fields(e) => Child(e, k) = EmptyObj
    BY EmptyObject DEF Child, At
  <2> QED
    BY <2>1, EmptyObject DEF IsElement, IsValue, Child
<1>4. ASSUME NEW k PROVE IsObj(Child(q, k))
  <2>1. CASE \A i \in DOMAIN fields : fields[i][2] # k
    <3>1. Agree(q, e, k)
      BY <1>1, <2>1, RowsSettle
    <3> HIDE DEF q
    <3> QED
      BY <1>3, <3>1 DEF Agree, Child
  <2>2. CASE \E i \in DOMAIN fields : fields[i][2] = k
    <3>1. PICK i \in DOMAIN fields : fields[i][2] = k
      BY <2>2
    <3>2. PICK o : Agree(o, e, k) /\ Agree(q, EncodeField(item, o, fields[i]), k)
      BY <1>1, <3>1, RowsSettle
    <3> HIDE DEF q
    <3>3. IsObj(Child(o, k))
      BY <1>3, <3>2 DEF Agree, Child
    <3>4. fields[i][3] \in FieldKinds \cup {"destination"}
      BY <1>1 DEF Table
    <3>5. IsObj(Child(EncodeField(item, o, fields[i]), k))
      BY <3>1, <3>3, <3>4, FieldIsObj
    <3> QED
      BY <3>2, <3>5 DEF Agree, Child
  <2> QED
    BY <2>1, <2>2
<1>5. \A k : Listing(Entries(At(e, k)))
  <2>1. \A k : k \notin DOMAIN Fields(e) => At(e, k) = Null
    BY DEF At
  <2>2. Listing(Entries(Null))
    BY NothingAtNull DEF Listing
  <2> QED
    BY <2>1, <2>2 DEF IsElement, IsValue
<1>6. ASSUME NEW k PROVE Listing(Entries(At(q, k)))
  <2>1. CASE \A i \in DOMAIN fields : fields[i][2] # k
    <3>1. Agree(q, e, k)
      BY <1>1, <2>1, RowsSettle
    <3> HIDE DEF q
    <3> QED
      BY <1>5, <3>1 DEF Agree
  <2>2. CASE \E i \in DOMAIN fields : fields[i][2] = k
    <3>1. PICK i \in DOMAIN fields : fields[i][2] = k
      BY <2>2
    <3>2. PICK o : Agree(o, e, k) /\ Agree(q, EncodeField(item, o, fields[i]), k)
      BY <1>1, <3>1, RowsSettle
    <3> HIDE DEF q
    <3>3. Listing(Entries(At(o, k)))
      BY <1>5, <3>2 DEF Agree
    <3>4. fields[i][3] \in FieldKinds \cup {"destination"}
      BY <1>1 DEF Table
    <3>5. fields[i][3] = "set" => Listing(item[fields[i][1]])
      <4>1. fields[i][3] # "destination" =>
              fields[i][1] \in DOMAIN Codec[s].row /\ Codec[s].row[fields[i][1]] = fields[i]
        BY EveryRow DEF fields
      <4>2. fields[i][3] = "set" => Plain(fields[i][3], item[fields[i][1]])
        BY <4>1 DEF PlainItem
      <4> QED
        BY <4>2 DEF Plain
    <3>6. Listing(Entries(At(EncodeField(item, o, fields[i]), k)))
      BY <3>1, <3>3, <3>4, <3>5, FieldIsListed
    <3> QED
      BY <3>2, <3>6 DEF Agree
  <2> QED
    BY <2>1, <2>2
<1> HIDE DEF q
<1>7. IsElement(q)
  BY <1>2, <1>4, <1>6 DEF IsElement, IsValue, Child
<1> QED
  BY <1>7 DEF q, fields

LEMMA WrittenHolds ==
  ASSUME NEW s \in DOMAIN Codec, NEW root, HoldsElements(s, root), NEW items, Listable(s, items)
  PROVE  HoldsElements(s, ListWrite(s, root, items))
<1> DEFINE path == Codec[s].path
           current == Elements(path, root)
           next == NextElements(s, current, items)
           order == WriteOrder(s, current, items)
           written == ListWrite(s, root, items)
<1>1. ElementsOf(current)
  BY ElementsAre
<1>2. /\ Listing(next) /\ Len(next) = Len(order)
      /\ \A i \in 1..Len(order) : \E j \in 1..Len(items) :
           next[i] = Encode(Codec[s].fields, items[j], Existing(current, order[i]))
  <2> HIDE DEF current
  <2> QED
    BY <1>1, NextIs
<1>3. \A i \in 1..Len(next) : IsElement(next[i])
  <2>1. \A id : IsElement(Existing(current, id))
    BY <1>1, ExistingElement
  <2>2. \A j \in 1..Len(items) : PlainItem(s, items[j])
    BY DEF Listable
  <2> HIDE DEF next, current, order
  <2> QED
    BY <1>2, <2>1, <2>2, EncodedIsElement
<1>4. ListSettled(s, written, items) /\ Elements(path, written) = next
  BY WrittenSettles, WrittenElements
<1> HIDE DEF next, current, written, order
<1>5. NextElements(s, next, items) = next
  BY <1>1, NextAgain DEF next
<1>6. Node(written, path) = Null \/ Node(written, path) = List(next)
  BY <1>4, <1>5 DEF ListSettled
<1>7. Entries(Null) = <<>> /\ Entries(List(next)) = next /\ Listing(<<>>) /\ Len(<<>>) = 0
  <2>1. Listing(<<>>)
    BY DEF Listing
  <2> QED
    BY <2>1, NothingAtNull, Tags DEF Entries
<1>8. HoldsElements(s, written)
  BY <1>2, <1>3, <1>6, <1>7 DEF HoldsElements
<1> QED
  BY <1>8 DEF written

LEMMA PortOverIsPort ==
  ASSUME NEW o, IsPort(o), NEW sp, PlainPort(sp)
  PROVE  IsPort(PortOver(o, sp))
<1> DEFINE k == "allowedVlans"
           port == PutInt(Obj(Fields(o)), "vlan", sp.NativeVLAN)
           v == VLANsOver(Child(port, k), sp)
           w == With(port, k, v)
           p == PruneEmpty(w, k)
<1>1. PortOver(o, sp) = p
  BY DEF PortOver
<1>2. IsObj(v)
  <2>1. Agree(port, Obj(Fields(o)), k)
    BY PutsOne, PutsLeavesOthers
  <2>2. At(Obj(Fields(o)), k) = At(o, k)
    BY FieldsObj DEF At
  <2>3. IsObj(Child(port, k))
    BY <2>1, <2>2 DEF Child, Agree, IsPort
  <2> HIDE DEF port
  <2> QED
    BY <2>3, VLANsAgain
<1>8. Listing(Entries(At(v, "list")))
  <2> DEFINE vlans == Child(port, k)
             flagged == PutFlag(vlans, "all", sp.AllVLANs)
             q == PutIntSet(flagged, "list", sp.TaggedVLANs)
             want == sp.TaggedVLANs
             f == [i \in DOMAIN want |-> Num(ToString(want[i]))]
  <2>1. At(vlans, "list") = At(At(o, k), "list")
    <3>1. Agree(port, Obj(Fields(o)), k)
      BY PutsOne, PutsLeavesOthers
    <3>2. At(Obj(Fields(o)), k) = At(o, k)
      BY FieldsObj DEF At
    <3> QED
      BY <3>1, <3>2, FieldsObj DEF Child, Agree, At
  <2>2. At(flagged, "list") = At(vlans, "list")
    <3> HIDE DEF vlans
    <3>1. Puts(vlans, "all", flagged)
      BY PutsOne
    <3> HIDE DEF flagged
    <3>2. Agree(flagged, vlans, "list")
      BY <3>1, PutsLeavesOthers
    <3> QED
      BY <3>2 DEF Agree
  <2>3. Listing(Entries(At(flagged, "list"))) /\ Listing(want)
    BY <2>1, <2>2 DEF IsPort, PlainPort, IntList
  <2>4. [i \in DOMAIN want |-> f[i]] = f
    OBVIOUS
  <2>5. q = flagged \/ q = Omit(flagged, "list") \/ q = With(flagged, "list", List([i \in DOMAIN want |-> f[i]]))
    <3> HIDE DEF flagged
    <3> QED
      BY <2>4 DEF PutIntSet
  <2>6. v = q
    BY DEF VLANsOver
  <2> HIDE DEF flagged, q, want, f, vlans, v
  <2>7. Listing(Entries(At(q, "list")))
    BY <2>3, <2>5, PutsAList
  <2> QED
    BY <2>6, <2>7
<1> HIDE DEF v, port
<1>3. IsObj(w) /\ At(w, k) = v
  BY WithIsObj, AtSame
<1> HIDE DEF w
<1>4. IsObj(p) /\ Obj(Fields(p)) = p
  <2>1. IsObj(p)
    BY <1>3, OmitIsObj DEF PruneEmpty
  <2> HIDE DEF p
  <2> QED
    BY <2>1, FieldsObj DEF IsObj
<1>5. Obj(Fields(v)) = v
  BY <1>2, FieldsObj DEF IsObj
<1>6. At(p, k) = v \/ At(p, k) = Null
  BY <1>3, AtSame DEF PruneEmpty
<1>7. IsObj(Child(p, k))
  BY <1>2, <1>5, <1>6, EmptyObject DEF Child
<1>9. Listing(Entries(At(Null, "list")))
  <2>1. At(Null, "list") = Null
    BY DEF At, Fields, Null
  <2>2. Listing(<<>>)
    BY DEF Listing
  <2>3. Entries(At(Null, "list")) = <<>>
    BY <2>1, NothingAtNull
  <2> QED
    BY <2>2, <2>3
<1>10. Listing(Entries(At(At(p, k), "list")))
  BY <1>6, <1>8, <1>9
<1> QED
  BY <1>1, <1>4, <1>7, <1>10 DEF IsPort, Child

\* Ports as they are once written.
PortsSettled(device, items) ==
  \A j \in 1..Len(items) :
    LET port == At(PortsOf(device), Key(items[j]))
    IN PortOver(port, items[j]) = port /\ Rooted(device, PortPath(Key(items[j])))

LEMMA SettledPortsAreQuiet ==
  ASSUME NEW e, NEW items, Len(items) \in Nat, PortsSettled(e, items)
  PROVE  WriteSwitchPorts(e, items) = e
<1> DEFINE n == Len(items)
<1>3. ASSUME NEW j \in 1..n PROVE WriteSwitchPort(e, items[j]) = e
  <2> DEFINE t == Key(items[j])
             path == PortPath(t)
  <2>1. WriteSwitchPort(e, items[j]) = PutAt(e, path, PortOver(At(PortsOf(e), t), items[j]))
    BY WritePort
  <2>2. PortOver(At(PortsOf(e), t), items[j]) = At(PortsOf(e), t)
    BY DEF PortsSettled
  <2>3. At(PortsOf(e), t) = Node(e, path)
    BY PortNode DEF PortsOf
  <2>4. Len(path) \in Nat /\ Rooted(e, path)
    BY PortPathIs DEF PortsSettled
  <2> HIDE DEF path, t
  <2> QED
    BY <2>1, <2>2, <2>3, <2>4, PutPresent
<1>4. PICK f : /\ f[0] = e /\ WriteSwitchPorts(e, items) = f[n]
               /\ \A i \in 1..n : f[i] = WriteSwitchPort(f[i - 1], items[i])
  BY PortsRuns
<1> DEFINE S == {i \in Nat : i <= n => f[i] = e}
<1>5. 0 \in S
  BY <1>4
<1>6. ASSUME NEW i \in Nat, i \in S PROVE i + 1 \in S
  <2>1. i + 1 <= n => i <= n /\ i + 1 \in 1..n /\ i + 1 - 1 = i
    OBVIOUS
  <2> HIDE DEF n
  <2> QED
    BY <1>3, <1>4, <1>6, <2>1
<1>7. n \in S
  <2> HIDE DEF S
  <2> QED
    BY <1>5, <1>6, NatInduct
<1> QED
  BY <1>4, <1>7

LEMMA DevicePorts ==
  ASSUME NEW device
  PROVE  IsDevice(device) <=> \A k : IsPort(At(PortsOf(device), k))
<1>1. IsPort(Null)
  <2>1. Fields(Null) = <<>> /\ \A k : At(Null, k) = Null
    BY DEF Fields, Null, At
  <2>2. Listing(Entries(Null))
    BY NothingAtNull DEF Listing
  <2> QED
    BY <2>1, <2>2, NoFieldsIsObj DEF IsPort
<1>2. \A k : k \notin DOMAIN Fields(PortsOf(device)) => At(PortsOf(device), k) = Null
  BY DEF At
<1> QED
  BY <1>1, <1>2 DEF IsDevice

LEMMA WrittenPortsSettle ==
  ASSUME NEW device, NEW items, Plugged(items),
         \A j \in 1..Len(items) : IsPort(At(PortsOf(device), Key(items[j])))
  PROVE  /\ PortsSettled(WriteSwitchPorts(device, items), items)
         /\ IsDevice(device) => IsDevice(WriteSwitchPorts(device, items))
<1> DEFINE e == WriteSwitchPorts(device, items)
           n == Len(items)
<1>1. /\ \A j \in 1..n : /\ At(PortsOf(e), Key(items[j])) = PortOver(At(PortsOf(device), Key(items[j])), items[j])
                         /\ Rooted(e, PortPath(Key(items[j])))
      /\ \A k : (\A j \in 1..n : k # Key(items[j])) => At(PortsOf(e), k) = At(PortsOf(device), k)
  BY PortsWritten
<1>2. \A j \in 1..n : PlainPort(items[j])
  BY DEF Plugged
<1> HIDE DEF e
<1>3. PortsSettled(e, items)
  BY <1>1, <1>2, PortOverAgain DEF PortsSettled
<1>4. ASSUME IsDevice(device), NEW k PROVE IsPort(At(PortsOf(e), k))
  <2>1. CASE \A j \in 1..n : k # Key(items[j])
    BY <1>1, <1>4, <2>1, DevicePorts
  <2>2. CASE \E j \in 1..n : k = Key(items[j])
    BY <1>1, <1>2, <2>2, PortOverIsPort
  <2> QED
    BY <2>1, <2>2
<1> QED
  BY <1>3, <1>4, DevicePorts DEF e

\* Writing the same ports once more changes nothing (switchports.go: Apply; "an unchanged
\* configuration produces no writes", values.go).
THEOREM SecondPortsWriteIsQuiet ==
  ASSUME NEW device, NEW items, Plugged(items),
         \A j \in 1..Len(items) : IsPort(At(PortsOf(device), Key(items[j])))
  PROVE  WriteSwitchPorts(WriteSwitchPorts(device, items), items) = WriteSwitchPorts(device, items)
BY WrittenPortsSettle, SettledPortsAreQuiet DEF Plugged, Listing

LEMMA WrittenClients ==
  ASSUME NEW clients, NEW items, \A c \in DOMAIN clients : IsClient(clients[c])
  PROVE  LET next == WriteReservations(clients, items) IN \A c \in DOMAIN next : IsClient(next[c])
<1>1. \A c : IsClient(RecordOf(clients, c))
  <2>1. \A c : At(Obj([id |-> Str(c)]), "config") = Null
    BY FieldsObj DEF At
  <2>2. \A c : IsClient(Obj([id |-> Str(c)]))
    BY <2>1, EmptyObject DEF IsClient, Child
  <2> QED
    BY <2>2 DEF RecordOf
<1>2. \A o, v : IsObj(v) => IsClient(With(o, "config", v))
  <2> TAKE o, v
  <2>1. SUFFICES ASSUME IsObj(v) PROVE IsClient(With(o, "config", v))
    OBVIOUS
  <2>2. At(With(o, "config", v), "config") = v
    BY AtSame
  <2>3. Obj(Fields(v)) = v
    BY <2>1, FieldsObj DEF IsObj
  <2> QED
    BY <2>1, <2>2, <2>3 DEF IsClient, Child
<1>3. ASSUME NEW o, IsClient(o), NEW ip PROVE IsClient(Held(o, ip))
  <2>1. IsObj(PutString(Child(o, "config"), "ip", ip))
    BY <1>3, PutsOne, PutsInObject DEF IsClient
  <2> QED
    BY <1>2, <2>1 DEF Held
<1>4. ASSUME NEW o, IsClient(o) PROVE IsClient(Released(o))
  <2>1. IsObj(Omit(At(o, "config"), "ip"))
    BY OmitIsObj
  <2> QED
    BY <1>2, <1>4, <2>1 DEF Released
<1> QED
  BY <1>1, <1>3, <1>4, ReservationsWritten
=============================================================================
