------------------------------- MODULE Values -------------------------------
(***************************************************************************)
(* internal/routerconfig/values.go: what overlaying one desired field on a *)
(* JSON object does to it, and what reading one back gives.  A JSON value  *)
(* is a tag with its content; a field that is not there reads as Null.  A  *)
(* text that parses as an integer is in the domain of Decimal.             *)
(***************************************************************************)
EXTENDS Integers, FiniteSets, TLC, SequencesExt

CONSTANTS
  Decimal,   \* the texts strconv.ParseInt reads, with their integers: "443" and "0443" are 443
  Rejoined,  \* the lists of names with a comma in one, with the names their joined text is split into
  Lexical    \* the texts whose order matters, in that order

ASSUME DecimalAssumption ==
  \A t \in DOMAIN Decimal :
    Decimal[t] \in Nat /\ ToString(Decimal[t]) \in DOMAIN Decimal /\ Decimal[ToString(Decimal[t])] = Decimal[t]
ASSUME RejoinedAssumption ==
  \A q \in DOMAIN Rejoined : {q, Rejoined[q]} \cap {<<>>, <<"">>} = {} /\ Rejoined[q] \notin DOMAIN Rejoined
ASSUME LexicalAssumption ==
  /\ DOMAIN Lexical = 1..Len(Lexical) /\ Len(Lexical) \in Nat
  /\ \A i, j \in DOMAIN Lexical : Lexical[i] = Lexical[j] => i = j
ASSUME EmptyIsNoNumber == "" \notin DOMAIN Decimal
ASSUME ZeroIsANumber == ToString(0) \in DOMAIN Decimal /\ Decimal[ToString(0)] = 0
ASSUME NumbersAreOrdered == \A t \in DOMAIN Decimal : ToString(Decimal[t]) \in ToSet(Lexical)

\* FoldLeft by index: TLC evaluates it in one pass over q.
Fold(op(_, _), base, q) ==
  LET upTo[i \in 0..Len(q)] == IF i = 0 THEN base ELSE op(upTo[i - 1], q[i]) IN upTo[Len(q)]
\* The members of q that are in S, in their order.
Kept(q, S) == Fold(LAMBDA r, x : IF x \in S THEN Append(r, x) ELSE r, <<>>, q)

NoInt == -1        \* a nil *int64
Null == <<"null">>
Str(s) == <<"str", s>>
Num(s) == <<"num", s>>
Bool(b) == <<"bool", b>>
Joined(q, blanks) == <<"csv", q, blanks>>  \* a comma-joined text, with or without blanks after the commas
List(q) == <<"list", q>>
Obj(f) == <<"obj", f>>
EmptyObj == Obj(<<>>)

Fields(v) == IF v[1] = "obj" THEN v[2] ELSE <<>>
At(o, k) == IF k \in DOMAIN Fields(o) THEN Fields(o)[k] ELSE Null
\* f, and g where f has no value: @@, written out.
Over(f, g) == [x \in DOMAIN f \cup DOMAIN g |-> IF x \in DOMAIN f THEN f[x] ELSE g[x]]
With(o, k, v) == Obj(Over([j \in {k} |-> v], Fields(o)))
Omit(o, k) == Obj([j \in DOMAIN Fields(o) \ {k} |-> Fields(o)[j]])
Entries(v) == IF v[1] = "list" THEN v[2] ELSE <<>>
Child(o, k) == Obj(Fields(At(o, k)))
PruneEmpty(o, k) == IF At(o, k) = EmptyObj THEN Omit(o, k) ELSE o

AsString(v) ==
  CASE v[1] = "null" -> ""
    [] v[1] \in {"str", "num"} -> v[2]
    [] v[1] = "bool" -> ToString(v[2])
    [] OTHER -> "<composite>"
AsInt(v) == IF v[1] \in {"str", "num"} /\ v[2] \in DOMAIN Decimal THEN Decimal[v[2]] ELSE NoInt
AsFlag(v) == v = Bool(TRUE)
AsStrings(v) == [i \in DOMAIN Entries(v) |-> AsString(Entries(v)[i])]
AllInts(v) == \A i \in DOMAIN Entries(v) : AsInt(Entries(v)[i]) # NoInt
AsInts(v) == IF AllInts(v) THEN [i \in DOMAIN Entries(v) |-> AsInt(Entries(v)[i])] ELSE <<>>
SplitCSV(v) == IF v[1] = "csv" THEN v[2] ELSE IF AsString(v) = "" THEN <<>> ELSE <<AsString(v)>>

\* The names that the comma-joined text of a list holds.
NamesIn(q) == IF q \in DOMAIN Rejoined THEN Rejoined[q] ELSE q

SameMembers(a, b) ==
  LET times(q, x) == Cardinality({i \in DOMAIN q : q[i] = x})
  IN Len(a) = Len(b) /\ \A x \in ToSet(a) : times(a, x) = times(b, x)

PutString(o, k, want) ==
  IF want = "" THEN Omit(o, k) ELSE IF AsString(At(o, k)) = want THEN o ELSE With(o, k, Str(want))
\* A single port is stored as a number, a range as a text.
PutPort(o, k, want) ==
  IF want \in DOMAIN Decimal /\ AsString(At(o, k)) # want
    THEN With(o, k, Num(ToString(Decimal[want]))) ELSE PutString(o, k, want)
PutInt(o, k, want) ==
  IF want = NoInt THEN Omit(o, k) ELSE IF AsInt(At(o, k)) = want THEN o ELSE With(o, k, Num(ToString(want)))
\* Mutant: the flag is only ever set.
PutFlagOnce(o, k, want) == IF want THEN With(o, k, Bool(TRUE)) ELSE o
PutFlag(o, k, want) == IF want THEN With(o, k, Bool(TRUE)) ELSE Omit(o, k)
PutTri(o, k, want) == IF want = <<>> THEN Omit(o, k) ELSE With(o, k, Bool(want[1]))
PutCSV(o, k, want) == IF want \in {<<>>, <<"">>} THEN Omit(o, k) ELSE With(o, k, Joined(NamesIn(want), FALSE))
PutStrings(o, k, want) ==
  IF want = <<>> THEN Omit(o, k)
  ELSE IF AsStrings(At(o, k)) = want THEN o
  ELSE With(o, k, List([i \in DOMAIN want |-> Str(want[i])]))
\* Mutant: a set is kept in the order it was given in.
PutStringSetInOrder(o, k, want) == PutStrings(o, k, want)
PutStringSet(o, k, want) == IF SameMembers(AsStrings(At(o, k)), want) THEN o ELSE PutStrings(o, k, want)
PutIntSet(o, k, want) ==
  IF want = <<>> THEN Omit(o, k)
  ELSE IF AllInts(At(o, k)) /\ SameMembers(AsInts(At(o, k)), want) THEN o
  ELSE With(o, k, List([i \in DOMAIN want |-> Num(ToString(want[i]))]))

\* The members of a finite set in the order of before, which is total on it.
Sorted(S, before(_, _)) == [i \in 1..Cardinality(S) |-> CHOOSE x \in S : Cardinality({y \in S : before(y, x)}) = i - 1]
Before(a, b) == \E i, j \in DOMAIN Lexical : i < j /\ Lexical[i] = a /\ Lexical[j] = b
=============================================================================
