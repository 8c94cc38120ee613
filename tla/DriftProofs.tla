--------------------------------- MODULE DriftProofs ---------------------------------
(***************************************************************************)
(* Nothing drifts that nobody changed, for any clouds, configurations and  *)
(* order of the steps: what an element resource applied reads as it was    *)
(* planned and writes nothing when it is applied once more, and what       *)
(* alta_router_config recorded of a cloud in the portal's own form does    *)
(* not refuse the update that follows.                                     *)
(***************************************************************************)
EXTENDS ResourcesProofs

-----------------------------------------------------------------------------
(* What an element resource applied is what it reads.                        *)

\* A value, or an item, as the cloud may give back what was written.
Shows(kind, x, y) == x = y \/ x = Stored(kind, y) \/ (kind = "set" /\ ToSet(x) = ToSet(y))
ShowsItem(s, x, y) ==
  /\ s \in DOMAIN Codec => \A f \in DOMAIN Codec[s].row : Shows(Codec[s].row[f][3], x[f], y[f])
  /\ s = "SwitchPorts" =>
       /\ x.Port = y.Port /\ x.NativeVLAN = y.NativeVLAN /\ x.AllVLANs = y.AllVLANs
       /\ ToSet(x.TaggedVLANs) = ToSet(y.TaggedVLANs)
  /\ s = "DHCPReservations" => x = [MAC |-> MACOf[ClientOf[y.MAC]], IP |-> y.IP]
Given(s, item) == s = "DHCPReservations" => item.IP # ""
ShownIn(s, items, item) == Given(s, item) => \E x \in ToSet(items) : ShowsItem(s, x, item)
\* No two items of a section have one identity.
Unique(s, d) == \A x, y \in ToSet(ReadSection(s, d)) : Identity(s, x) = Identity(s, y) => x = y

LEMMA ShowsAgain ==
  ASSUME NEW kind, NEW x, NEW y, NEW z, Plain(kind, z), Shows(kind, x, y), Shows(kind, y, z)
  PROVE  Shows(kind, x, z)
<1>1. CASE kind = "set"
  <2>1. Stored(kind, y) = y /\ Stored(kind, z) = z
    BY <1>1 DEF Stored
  <2> QED
    BY <1>1, <2>1 DEF Shows
<1>2. CASE kind # "set"
  BY <1>2, StoredOnce DEF Shows
<1> QED
  BY <1>1, <1>2

LEMMA ShowsItemAgain ==
  ASSUME NEW s, NEW x, NEW y, NEW z, IsItem(s, z), s = "DHCPReservations" => z.MAC \in DOMAIN ClientOf,
         ShowsItem(s, x, y), ShowsItem(s, y, z)
  PROVE  ShowsItem(s, x, z)
<1>1. ASSUME s \in DOMAIN Codec, NEW f \in DOMAIN Codec[s].row PROVE Shows(Codec[s].row[f][3], x[f], z[f])
  <2>1. Plain(Codec[s].row[f][3], z[f])
    BY <1>1 DEF IsItem, PlainItem
  <2>2. Shows(Codec[s].row[f][3], x[f], y[f]) /\ Shows(Codec[s].row[f][3], y[f], z[f])
    BY <1>1 DEF ShowsItem
  <2> QED
    BY <2>1, <2>2, ShowsAgain
<1>2. ASSUME s = "DHCPReservations" PROVE x = [MAC |-> MACOf[ClientOf[z.MAC]], IP |-> z.IP]
  <2>1. x = [MAC |-> MACOf[ClientOf[y.MAC]], IP |-> y.IP] /\ y = [MAC |-> MACOf[ClientOf[z.MAC]], IP |-> z.IP]
    BY <1>2 DEF ShowsItem
  <2>2. ClientOf[MACOf[ClientOf[z.MAC]]] = ClientOf[z.MAC]
    BY <1>2, MACAssumption
  <2> QED
    BY <2>1, <2>2
<1>3. ASSUME s = "SwitchPorts"
      PROVE  /\ x.Port = z.Port /\ x.NativeVLAN = z.NativeVLAN /\ x.AllVLANs = z.AllVLANs
             /\ ToSet(x.TaggedVLANs) = ToSet(z.TaggedVLANs)
  BY <1>3 DEF ShowsItem
<1> QED
  BY <1>1, <1>2, <1>3 DEF ShowsItem

LEMMA ReadsShow ==
  ASSUME NEW kind, NEW x, NEW y, Plain(kind, x), Plain(kind, y), ReadsAs(kind, x, y)
  PROVE  Shows(kind, x, y)
BY SameSets DEF ReadsAs, Shows, Plain

LEMMA SamePortShows ==
  ASSUME NEW x, NEW y, PlainPort(x), PlainPort(y), SamePort(x, y)
  PROVE  ShowsItem("SwitchPorts", x, y)
<1>1. ToSet(x.TaggedVLANs) = ToSet(y.TaggedVLANs)
  BY SameSets DEF SamePort, PlainPort, IntList
<1>2. "SwitchPorts" \notin DOMAIN Codec
  BY DEF Codec
<1> QED
  BY <1>1, <1>2 DEF ShowsItem, SamePort

\* What a sound configuration asks of a section is shown in it once it is applied.
LEMMA AppliedShows ==
  ASSUME Orderly, NEW c, Sound(c), NEW s \in ToSet(Sections), c[s] # <<>>, NEW y \in ToSet(c[s][1])
  PROVE  ShownIn(s, ReadSection(s, Post(cloud, Plan(c, cloud))), y)
<1> DEFINE u == Post(cloud, Plan(c, cloud))
           items == c[s][1]
           was == ReadSection(s, cloud)
           is == ReadSection(s, u)
<1>1. Fits(c) /\ Regular(u) /\ Regular(cloud)
  BY SoundFits DEF Orderly
<1>2. ReadsBack(s, items, was, is)
  BY <1>1, AppliedReadsBack DEF Regular, Sound
<1>3. IsSection(s, items) /\ IsSection(s, is)
  BY <1>1, ReadIsSection DEF Sound, IsConfig
<1>4. DOMAIN items = 1..Len(items) /\ DOMAIN is = 1..Len(is)
      /\ (\A i \in 1..Len(items) : IsItem(s, items[i])) /\ \A i \in 1..Len(is) : IsItem(s, is[i])
  BY <1>3, ListingDomain DEF IsSection
<1>11. y \in ToSet(items)
  OBVIOUS
<1> SUFFICES ShownIn(s, is, y)
  OBVIOUS
<1> HIDE DEF items, was, is
<1>5. PICK j \in 1..Len(items) : y = items[j]
  BY <1>4, <1>11 DEF ToSet
<1>6. ASSUME NEW i \in 1..Len(is), ShowsItem(s, is[i], y) PROVE ShownIn(s, is, y)
  BY <1>4, <1>6 DEF ShownIn, ToSet
<1>7. CASE s \in DOMAIN Codec
  <2>1. PICK i \in 1..Len(is) : \A f \in DOMAIN Codec[s].row : ReadsAs(Codec[s].row[f][3], is[i][f], y[f])
    BY <1>2, <1>5, <1>7 DEF ReadsBack, ListAsAsked
  <2>2. \A f \in DOMAIN Codec[s].row : Shows(Codec[s].row[f][3], is[i][f], y[f])
    BY <1>4, <1>5, <1>7, <2>1, ReadsShow DEF IsItem, PlainItem
  <2>3. s # "SwitchPorts" /\ s # "DHCPReservations"
    BY <1>7 DEF Codec
  <2>4. ShowsItem(s, is[i], y)
    BY <2>2, <2>3 DEF ShowsItem
  <2> QED
    BY <1>6, <2>4
<1>8. CASE s = "SwitchPorts"
  <2>1. PICK i \in 1..Len(is) : SamePort(is[i], y)
    BY <1>2, <1>5, <1>8 DEF ReadsBack, PortsAsAsked
  <2>2. PlainPort(is[i]) /\ PlainPort(y)
    BY <1>4, <1>5, <1>8 DEF IsItem
  <2>3. ShowsItem(s, is[i], y)
    BY <1>8, <2>1, <2>2, SamePortShows
  <2> QED
    BY <1>6, <2>3
<1>9. CASE s = "DHCPReservations"
  <2>1. SUFFICES ASSUME y.IP # "" PROVE ShownIn(s, is, y)
    BY <1>9 DEF ShownIn, Given
  <2> DEFINE own(r) == [MAC |-> MACOf[ClientOf[r.MAC]], IP |-> r.IP]
             given == {x \in ToSet(items) : x.IP # ""}
  <2>3. {is[i] : i \in 1..Len(is)} = {own(r) : r \in given}
    BY <1>2, <1>9 DEF ReadsBack, ReservationsAsAsked
  <2>4. y \in given
    BY <2>1, <1>11
  <2> HIDE DEF own, given
  <2>5. PICK i \in 1..Len(is) : is[i] = own(y)
    BY <2>3, <2>4
  <2>6. s \notin DOMAIN Codec
    BY <1>9 DEF Codec
  <2>7. ShowsItem(s, is[i], y)
    BY <1>9, <2>5, <2>6 DEF ShowsItem, own
  <2> QED
    BY <1>6, <2>7
<1>10. s \in DOMAIN Codec \/ s = "SwitchPorts" \/ s = "DHCPReservations"
  BY DEF Sections, ToSet, Codec
<1> QED
  BY <1>7, <1>8, <1>9, <1>10

LEMMA NotBeforeItself == ASSUME NEW a PROVE ~Before(a, a)
<1> SUFFICES ASSUME Before(a, a) PROVE FALSE
  OBVIOUS
<1>1. PICK i, j \in DOMAIN Lexical : i < j /\ Lexical[i] = a /\ Lexical[j] = a
  BY DEF Before
<1> QED
  BY <1>1, LexicalAssumption

LEMMA AppliedIsUnique ==
  ASSUME Orderly, NEW c, Sound(c), NEW s \in ToSet(Sections), c[s] # <<>>
  PROVE  Unique(s, Post(cloud, Plan(c, cloud)))
<1> DEFINE u == Post(cloud, Plan(c, cloud))
           items == c[s][1]
           was == ReadSection(s, cloud)
           is == ReadSection(s, u)
<1>1. Fits(c) /\ (c["SwitchPorts"] # <<>> => cloud.device # Null) /\ Regular(u) /\ Regular(cloud)
  BY SoundFits DEF Orderly
<1>2. ReadsBack(s, items, was, is)
  BY <1>1, AppliedReadsBack DEF Regular, Sound
<1>3. DOMAIN is = 1..Len(is) /\ Len(is) \in Nat /\ \A i \in 1..Len(is) : IsItem(s, is[i])
  BY <1>1, ReadIsSection, ListingDomain DEF IsSection, Listing
<1>4. SUFFICES \A i, j \in 1..Len(is) : Identity(s, is[i]) = Identity(s, is[j]) => i = j
  BY <1>3 DEF Unique, ToSet
<1>5. CASE s \in DOMAIN Codec
  <2>1. EachAsAsked(s, items, ListRead(s, u.site))
    BY <1>1, <1>5, PlanRegular
  <2>2. is = ListRead(s, u.site)
    BY <1>5 DEF ReadSection, Codec
  <2> HIDE DEF is
  <2>3. Distinct(Identities(s, is))
    BY <2>1, <2>2 DEF EachAsAsked
  <2>4. Len(Identities(s, is)) = Len(is) /\ \A i \in 1..Len(is) : Identities(s, is)[i] = Identity(s, is[i])
    BY <1>3 DEF Identities
  <2> QED
    BY <2>3, <2>4 DEF Distinct
<1>6. CASE s = "SwitchPorts"
  <2> HIDE DEF is
  <2>1. \A i, j \in 1..Len(is) : i < j => is[i].Port < is[j].Port
    BY <1>2, <1>6 DEF ReadsBack, PortsAsAsked
  <2>2. \A i \in 1..Len(is) : is[i].Port \in Nat /\ Decimal[Identity(s, is[i])] = is[i].Port
    <3> TAKE i \in 1..Len(is)
    <3>1. is[i].Port \in Numbers
      BY <1>3, <1>6 DEF IsItem, PlainPort
    <3>2. is[i].Port \in Nat /\ Decimal[ToString(is[i].Port)] = is[i].Port
      BY <3>1, DecimalAssumption DEF Numbers
    <3>3. is[i].Port \in Int
      BY <3>2
    <3>4. Identity(s, is[i]) = ToString(is[i].Port)
      BY <1>6, <3>3 DEF Identity, Text
    <3> QED
      BY <3>2, <3>4
  <2>3. ASSUME NEW i \in 1..Len(is), NEW j \in 1..Len(is), Identity(s, is[i]) = Identity(s, is[j]) PROVE i = j
    <3>1. is[i].Port = is[j].Port /\ is[i].Port \in Nat
      BY <2>2, <2>3
    <3>2. ~(i < j) /\ ~(j < i)
      BY <2>1, <3>1
    <3> QED
      BY <1>3, <3>2
  <2> QED
    BY <2>3
<1>7. CASE s = "DHCPReservations"
  <2> HIDE DEF is
  <2>1. \A i, j \in 1..Len(is) : i < j => Before(is[i].MAC, is[j].MAC)
    BY <1>2, <1>7 DEF ReadsBack, ReservationsAsAsked
  <2>2. ASSUME NEW i \in 1..Len(is), NEW j \in 1..Len(is), Identity(s, is[i]) = Identity(s, is[j]) PROVE i = j
    <3>1. is[i].MAC = is[j].MAC
      BY <1>7, <2>2 DEF Identity
    <3>2. ~(i < j) /\ ~(j < i)
      BY <2>1, <3>1, NotBeforeItself
    <3> QED
      BY <1>3, <3>2
  <2> QED
    BY <2>2
<1>8. s \in DOMAIN Codec \/ s = "SwitchPorts" \/ s = "DHCPReservations"
  BY DEF Sections, ToSet, Codec
<1> QED
  BY <1>5, <1>6, <1>7, <1>8

-----------------------------------------------------------------------------
(* Reading an item back.                                                     *)

\* The value of an attribute, made from what the cloud stores, says what the cloud stores.
LEMMA ValueReturns ==
  ASSUME NEW kind, NEW mk, <<kind, mk>> \in Attributes, kind # "set", NEW x, Plain(kind, x)
  PROVE  DomainValue(mk, ModelValue(mk, x)) = x
<1>1. CASE mk \in {"string", "int", "bool"}
  BY <1>1 DEF DomainValue, ModelValue, Value, Optional
<1>2. CASE mk = "somelist"
  BY <1>2 DEF DomainValue, ModelValue, Value, NonEmpty
<1>3. CASE mk = "endpoint"
  <2>1. kind = "endpoint" /\ x = [Address |-> x.Address, Port |-> x.Port]
    BY <1>3 DEF Attributes, Plain
  <2>2. DomainValue(mk, ModelValue(mk, x)) = ToDomain(EndpointFrom(x))
    BY <1>3 DEF DomainValue, ModelValue
  <2>3. CASE x = NoEndpoint
    BY <2>2, <2>3 DEF EndpointFrom, ToDomain
  <2>4. CASE x # NoEndpoint
    <3>1. EndpointFrom(x) = <<[Address |-> Optional(x.Address), Port |-> Optional(x.Port)]>>
      BY <2>4 DEF EndpointFrom
    <3>2. \A p : Value(Optional(p), "") = p
      BY DEF Value, Optional
    <3> DEFINE r == [Address |-> Optional(x.Address), Port |-> Optional(x.Port)]
    <3>3. ToDomain(<<r>>) = [Address |-> Value(r.Address, ""), Port |-> Value(r.Port, "")]
      BY DEF ToDomain
    <3>4. Value(r.Address, "") = x.Address /\ Value(r.Port, "") = x.Port
      BY <3>2
    <3> QED
      BY <2>1, <2>2, <3>1, <3>3, <3>4
  <2> QED
    BY <2>3, <2>4
<1> QED
  BY <1>1, <1>2, <1>3 DEF Attributes

LEMMA StoredIsPlain ==
  ASSUME NEW kind, NEW x, Plain(kind, x), kind \in FieldKinds
  PROVE  Plain(kind, Stored(kind, x))
BY DEF Plain, Stored, FieldKinds

\* An item shown under an identity has it.
LEMMA ShownIsNamed ==
  ASSUME NEW s \in ToSet(Sections), NEW id, Names(s, id), NEW m, NEW x, ShowsItem(s, x, DomainItem(s, id, m))
  PROVE  Identity(s, x) = id
<1> DEFINE item == DomainItem(s, id, m)
<1>1. Identity(s, item) = id
  BY ItemNamed
<1>2. CASE s \in DOMAIN Codec
  <2>1. "ID" \in DOMAIN Codec[s].row /\ Codec[s].row["ID"][3] \in {"number", "string"}
    BY <1>2, RowKinds
  <2>2. Shows(Codec[s].row["ID"][3], x["ID"], item["ID"])
    BY <1>2, <2>1 DEF ShowsItem
  <2> HIDE DEF item
  <2>3. \A kind \in {"number", "string"} : \A a, b : Shows(kind, a, b) => a = b
    BY DEF Shows, Stored
  <2>4. x["ID"] = item["ID"]
    BY <2>1, <2>2, <2>3
  <2>5. Identity(s, x) = Identity(s, item)
    BY <1>2, <2>4, IdentityRow
  <2> QED
    BY <1>1, <2>5
<1>3. CASE s = "SwitchPorts"
  <2>1. x.Port = item.Port
    BY <1>3 DEF ShowsItem
  <2> HIDE DEF item
  <2> QED
    BY <1>1, <1>3, <2>1 DEF Identity
<1>4. CASE s = "DHCPReservations"
  <2>1. x = [MAC |-> MACOf[ClientOf[item.MAC]], IP |-> item.IP]
    BY <1>4 DEF ShowsItem
  <2> HIDE DEF item
  <2>2. item.MAC = id /\ Identity(s, x) = x.MAC
    BY <1>1, <1>4 DEF Identity
  <2> QED
    BY <1>4, <2>1, <2>2 DEF Names
<1> QED
  BY <1>2, <1>3, <1>4 DEF Sections, ToSet, Codec

\* What a read finds is an item of the section with the identity asked for.
LEMMA FoundIs ==
  ASSUME NEW d, Regular(d), NEW s \in ToSet(Sections), NEW id
  PROVE  LET found == Find(d, s, id)  is == ReadSection(s, d) IN
         /\ found # <<>> => found[1] \in ToSet(is) /\ Identity(s, found[1]) = id
         /\ \A x \in ToSet(is) : Identity(s, x) = id => found # <<>>
<1> DEFINE is == ReadSection(s, d)
           S == {x \in ToSet(is) : Identity(s, x) = id}
           found == Kept(is, S)
<1>1. Find(d, s, id) = found
  BY DEF Find
<1>2. Listing(is) /\ DOMAIN is = 1..Len(is)
  BY ReadIsSection, ListingDomain DEF IsSection
<1> HIDE DEF is
<1>3. IsKept(is, S, found)
  <2> HIDE DEF S
  <2> QED
    BY <1>2, KeptIs
<1>4. Members(is) = ToSet(is)
  BY <1>2 DEF Members, ToSet
<1>5. found # <<>> => found[1] \in S
  <2> HIDE DEF S, found
  <2>1. found \in Seq(Members(is) \cap S)
    BY <1>3 DEF IsKept
  <2> QED
    BY <2>1
<1>6. ASSUME NEW x \in S PROVE found # <<>>
  <2>1. x \in Members(is) \cap S
    BY <1>4, <1>6
  <2> HIDE DEF S, found
  <2>2. \E j \in 1..Len(found) : found[j] = x
    BY <1>3, <2>1 DEF IsKept
  <2> QED
    BY <2>2
<1> HIDE DEF found
<1> QED
  BY <1>1, <1>5, <1>6 DEF is, found

\* An item of a section, recorded and made into an item again, is shown by itself.
LEMMA ReadItemShows ==
  ASSUME NEW d, Regular(d), NEW s \in ToSet(Sections), NEW x \in ToSet(ReadSection(s, d)), Names(s, Identity(s, x))
  PROVE  LET y == DomainItem(s, Identity(s, x), Model(s, x)) IN
         /\ IsItem(s, y) /\ ShowsItem(s, x, y)
         /\ s = "VLANs" => y.ID = x.ID /\ y.RouterIP = x.RouterIP
<1> DEFINE is == ReadSection(s, d)
           id == Identity(s, x)
           m == Model(s, x)
           y == DomainItem(s, id, m)
           k == ModelOf(s)
           row == Codec[s].row
<1>1. Listing(is) /\ DOMAIN is = 1..Len(is) /\ \A i \in 1..Len(is) : IsItem(s, is[i])
  BY ReadIsSection, ListingDomain DEF IsSection
<1>2. IsItem(s, x)
  BY <1>1 DEF ToSet
<1>3. \A f \in DOMAIN k : m[f] = ModelValue(k[f], x[f])
  BY DEF Model
<1>4. s \in {"VLANs", "SwitchPorts"} => KeyOf(s, id) \in Numbers
  BY DEF Names, KeyOf, Numbers
<1>5. IsItem(s, y)
  <2> HIDE DEF m, id
  <2> QED
    BY <1>2, <1>3, <1>4, ItemBack DEF DomainItem
<1>6. \A f \in DOMAIN k : f # IdentityField(s) => y[f] = DomainValue(k[f], ModelValue(k[f], x[f]))
  BY <1>3, ItemFields DEF DomainItem
<1>7. y[IdentityField(s)] = KeyOf(s, id)
  BY ItemIdentity DEF DomainItem
<1>8. \A n \in Numbers : Decimal[Text(n)] = n
  BY DecimalAssumption DEF Numbers, Text
<1>9. CASE s \in DOMAIN Codec
  <2>1. s # "SwitchPorts" /\ s # "DHCPReservations" /\ IdentityField(s) = "ID"
    BY <1>9, RowKinds DEF Codec
  <2>2. y["ID"] = x["ID"]
    <3>1. CASE s = "VLANs"
      <4>1. x["ID"] \in Numbers
        <5>1. "ID" \in DOMAIN row /\ row["ID"][3] = "number"
          BY <1>9, <3>1, RowKinds
        <5> QED
          BY <1>2, <1>9, <5>1 DEF IsItem, PlainItem, Plain
      <4>2. id = Text(x["ID"])
        BY <1>9, <3>1, IdentityRow
      <4> QED
        BY <1>7, <1>8, <2>1, <3>1, <4>1, <4>2 DEF KeyOf
    <3>2. CASE s # "VLANs"
      BY <1>7, <1>9, <2>1, <3>2, IdentityRow DEF KeyOf
    <3> QED
      BY <3>1, <3>2
  <2>3. ASSUME NEW f \in DOMAIN row PROVE Shows(row[f][3], x[f], y[f])
    <3>1. CASE f = "ID"
      <4>1. x[f] = y[f]
        BY <2>2, <3>1
      <4> QED
        BY <4>1 DEF Shows
    <3>2. CASE f # "ID"
      <4>1. f \in DOMAIN k /\ <<row[f][3], k[f]>> \in Attributes
        BY <1>9, <2>3, <3>2, RowKinds
      <4>2. Plain(row[f][3], x[f])
        BY <1>2, <1>9, <2>3 DEF IsItem, PlainItem
      <4>3. y[f] = DomainValue(k[f], ModelValue(k[f], x[f]))
        BY <1>6, <2>1, <3>2, <4>1
      <4> HIDE DEF k, y, row
      <4>4. CASE row[f][3] = "set"
        <5>1. k[f] \in {"set", "someset"} /\ Listing(x[f])
          BY <4>1, <4>2, <4>4 DEF Attributes, Plain
        <5>2. ToSet(y[f]) = ToSet(x[f])
          BY <4>3, <5>1, SetBack
        <5> QED
          BY <4>4, <5>2 DEF Shows
      <4>5. CASE row[f][3] # "set"
        BY <4>1, <4>2, <4>3, <4>5, ValueReturns DEF Shows
      <4> QED
        BY <4>4, <4>5
    <3> QED
      BY <3>1, <3>2
  <2>4. ASSUME s = "VLANs" PROVE y.RouterIP = x.RouterIP
    <3>1. "RouterIP" \in DOMAIN k /\ k["RouterIP"] = "string"
      <4>1. k = VLANModel
        BY <2>4 DEF ModelOf
      <4> QED
        BY <4>1 DEF VLANModel
    <3>2. y["RouterIP"] = DomainValue("string", ModelValue("string", x["RouterIP"]))
      BY <1>6, <2>1, <3>1
    <3> HIDE DEF y
    <3> QED
      BY <3>2 DEF DomainValue, ModelValue, Value, Optional
  <2>5. ShowsItem(s, x, y)
    <3> HIDE DEF y
    <3> QED
      BY <2>1, <2>3 DEF ShowsItem
  <2> QED
    BY <1>5, <2>2, <2>4, <2>5
<1>10. CASE s = "SwitchPorts"
  <2>1. k = SwitchPortModel /\ IdentityField(s) = "Port" /\ s \notin DOMAIN Codec
    BY <1>10 DEF ModelOf, IdentityField, Codec
  <2>2. /\ y.NativeVLAN = DomainValue("int", ModelValue("int", x.NativeVLAN))
        /\ y.AllVLANs = DomainValue("bool", ModelValue("bool", x.AllVLANs))
        /\ y.TaggedVLANs = DomainValue("someset", ModelValue("someset", x.TaggedVLANs))
    BY <1>6, <2>1 DEF SwitchPortModel
  <2>3. PlainPort(x)
    BY <1>2, <1>10 DEF IsItem
  <2>4. y.Port = x.Port
    <3>1. x.Port \in Numbers /\ id = Text(x.Port)
      BY <1>10, <2>3 DEF PlainPort, Identity
    <3> QED
      BY <1>7, <1>8, <1>10, <2>1, <3>1 DEF KeyOf
  <2> HIDE DEF y
  <2>5. y.NativeVLAN = x.NativeVLAN /\ y.AllVLANs = x.AllVLANs
    BY <2>2 DEF DomainValue, ModelValue, Value
  <2>6. ToSet(y.TaggedVLANs) = ToSet(x.TaggedVLANs)
    BY <2>2, <2>3, SetBack DEF PlainPort, IntList
  <2>7. ShowsItem(s, x, y)
    BY <1>10, <2>1, <2>4, <2>5, <2>6 DEF ShowsItem
  <2> QED
    BY <1>5, <1>10, <2>7 DEF y
<1>11. CASE s = "DHCPReservations"
  <2>1. k = ReservationModel /\ IdentityField(s) = "MAC" /\ s \notin DOMAIN Codec
    BY <1>11 DEF ModelOf, IdentityField, Codec
  <2>2. y.IP = DomainValue("always", ModelValue("always", x.IP)) /\ y.MAC = id
    BY <1>6, <1>7, <1>11, <2>1 DEF ReservationModel, KeyOf
  <2>3. y.IP = x.IP /\ y.MAC = x.MAC
    <3>1. id = x.MAC
      BY <1>11 DEF Identity
    <3> HIDE DEF y, id
    <3> QED
      BY <2>2, <3>1 DEF DomainValue, ModelValue
  <2>4. PICK c \in DOMAIN d.clients : x = [MAC |-> MACOf[c], IP |-> IPRead(d.clients[c])]
    <3>1. is = ReadReservations(d.clients)
      BY <1>11 DEF ReadSection
    <3>2. x \in Reserved(d.clients)
      BY <1>1, <3>1, ReservationsOf DEF ToSet
    <3> QED
      BY <3>2 DEF Reserved
  <2> HIDE DEF y
  <2>5. MACOf[ClientOf[x.MAC]] = x.MAC
    BY <2>4, MACAssumption DEF Regular
  <2>6. x = [MAC |-> x.MAC, IP |-> x.IP]
    BY <2>4
  <2>7. ShowsItem(s, x, y)
    BY <1>11, <2>1, <2>3, <2>5, <2>6 DEF ShowsItem
  <2> QED
    BY <1>5, <1>11, <2>7 DEF y
<1> QED
  BY <1>9, <1>10, <1>11 DEF Sections, ToSet, Codec

-----------------------------------------------------------------------------
(* No difference that nobody caused.                                         *)

\* The item of a state is shown in the section, and its derived names are its own.
RecallsIn(s, d, state) ==
  LET item == DomainItem(s, state.id, state.m)
  IN /\ IsItem(s, item)
     /\ state.derived = IF s = "VLANs" THEN Derived(item) ELSE <<>>
     /\ ShownIn(s, ReadSection(s, d), item)
\* Every slot applied since the portal or alta_router_config wrote recalls what the cloud holds.
HeldShown ==
  /\ held \subseteq Slots
  /\ held # {} => Unique(focus, cloud)
  /\ \A r \in held : tf[r] # <<>> /\ RecallsIn(focus, cloud, tf[r][1])

LEMMA SameRecalled ==
  ASSUME HeldShown, focus' = focus, ReadSection(focus, cloud') = ReadSection(focus, cloud),
         held' \subseteq held, \A r \in held' : tf'[r] = tf[r]
  PROVE  HeldShown'
BY DEF HeldShown, RecallsIn, Unique

\* An item a slot holds is shown still when its section is written again with it in.
LEMMA StillRecalled ==
  ASSUME Orderly, NEW c, Sound(c), c[focus] # <<>>, NEW state, Names(focus, state.id),
         RecallsIn(focus, cloud, state),
         \A x \in ToSet(ReadSection(focus, cloud)) : Identity(focus, x) = state.id => x \in ToSet(c[focus][1])
  PROVE  RecallsIn(focus, Post(cloud, Plan(c, cloud)), state)
<1> DEFINE item == DomainItem(focus, state.id, state.m)
           u == Post(cloud, Plan(c, cloud))
           was == ReadSection(focus, cloud)
           is == ReadSection(focus, u)
<1>0. focus \in ToSet(Sections)
  BY DEF Orderly, Documented
<1>1. IsItem(focus, item) /\ (state.derived = IF focus = "VLANs" THEN Derived(item) ELSE <<>>) /\ ShownIn(focus, was, item)
  BY DEF RecallsIn
<1>2. ShownIn(focus, is, item)
  <2>1. SUFFICES ASSUME Given(focus, item) PROVE \E x \in ToSet(is) : ShowsItem(focus, x, item)
    BY DEF ShownIn
  <2>2. PICK x \in ToSet(was) : ShowsItem(focus, x, item)
    BY <1>1, <2>1 DEF ShownIn
  <2>3. Identity(focus, x) = state.id
    BY <1>0, <2>2, ShownIsNamed
  <2>4. x \in ToSet(c[focus][1])
    BY <2>2, <2>3
  <2>5. Given(focus, x)
    <3> HIDE DEF item
    <3>1. CASE focus = "DHCPReservations"
      <4>1. x = [MAC |-> MACOf[ClientOf[item.MAC]], IP |-> item.IP] /\ item.IP # ""
        BY <2>1, <2>2, <3>1 DEF Given, ShowsItem
      <4>2. x.IP = item.IP
        BY <4>1
      <4> QED
        BY <4>1, <4>2 DEF Given
    <3> QED
      BY <3>1 DEF Given
  <2>6. ShownIn(focus, is, x)
    BY <1>0, <2>4, AppliedShows
  <2>7. PICK y \in ToSet(is) : ShowsItem(focus, y, x)
    BY <2>5, <2>6 DEF ShownIn
  <2>8. focus = "DHCPReservations" => item.MAC \in DOMAIN ClientOf
    <3>1. Identity(focus, item) = state.id
      BY <1>0, ItemNamed
    <3> HIDE DEF item
    <3> QED
      BY <3>1 DEF Identity, Names
  <2> HIDE DEF item, is
  <2>9. ShowsItem(focus, y, item)
    BY <1>1, <2>2, <2>7, <2>8, ShowsItemAgain
  <2> QED
    BY <2>7, <2>9
<1> QED
  BY <1>1, <1>2 DEF RecallsIn

\* A rollback takes back what was written.
LEMMA RolledBackShown ==
  ASSUME Orderly, HeldShown, NEW c, Sound(c), RolledBack(Plan(c, cloud))
  PROVE  HeldShown'
<1> DEFINE v == Post(Post(cloud, Plan(c, cloud)), PreImages(cloud, Plan(c, cloud)))
<1>1. Fits(c) /\ (c["SwitchPorts"] # <<>> => cloud.device # Null) /\ Regular(cloud) /\ focus \in ToSet(Sections)
  BY SoundFits DEF Orderly, Documented
<1>2. \A kind \in Kinds : \A key : Says(cloud, kind, key) = Says(v, kind, key)
  BY <1>1, UndoneIsRegular
<1>3. cloud' = v /\ focus' = focus /\ held' = held /\ tf' = tf
  BY DEF RolledBack
<1> HIDE DEF v
<1>4. Read(v) = Read(cloud)
  BY <1>2, ReadSame
<1>5. Read(v)[focus] = ReadSection(focus, v) /\ Read(cloud)[focus] = ReadSection(focus, cloud)
  BY <1>1 DEF Read
<1> QED
  BY <1>3, <1>4, <1>5, SameRecalled

LEMMA PutShown ==
  ASSUME Orderly, HeldShown, NEW r \in Slots, NEW id, NEW m, PutStep(r, id, m)
  PROVE  HeldShown'
<1> DEFINE c == PutConfig(id, m)
           u == Post(cloud, Plan(c, cloud))
           item == DomainItem(focus, id, m)
           was == ReadSection(focus, cloud)
           items == PutItem(focus, was, item)
           state == [StateOf(focus, id, item) EXCEPT !.m = m]
<1>1. Sound(c) /\ focus \in ToSet(Sections) /\ IsSection(focus, was)
  BY PutIsSound, ReadIsSection DEF Orderly, Documented
<1>2. IsItem(focus, item) /\ Names(focus, id) /\ \A q \in Slots \ {r} : tf[q] # <<>> => tf[q][1].id # id
  BY TakenIsOwned DEF PutStep, Orderly
<1>3. Identity(focus, item) = id
  BY <1>1, <1>2, ItemNamed
<1>4. IsSection(focus, items)
  BY <1>1, <1>2, PutItemIs
<1>5. c[focus] = <<items>> /\ c[focus] # <<>> /\ c[focus][1] = items
  <2>1. c = Desired(focus, items)
    BY DEF PutConfig
  <2> HIDE DEF items, c
  <2> QED
    BY <1>1, <1>4, <2>1, DesiredIsConfig
<1>6. DOMAIN was = 1..Len(was) /\ DOMAIN items = 1..Len(items) /\ Len(was) \in Nat
  BY <1>1, <1>4, ListingDomain DEF IsSection, Listing
<1>7. item \in ToSet(items) /\ \A x \in ToSet(was) : Identity(focus, x) # id => x \in ToSet(items)
  <2>1. items = PutItem(focus, was, item)
    OBVIOUS
  <2> HIDE DEF items, was, item
  <2>2. \/ Len(items) = Len(was) + 1 /\ items[Len(was) + 1] = item /\ \A i \in 1..Len(was) : items[i] = was[i]
        \/ /\ Len(items) = Len(was)
           /\ \E k \in 1..Len(was) : /\ Identity(focus, was[k]) = Identity(focus, item)
                                     /\ items[k] = item /\ \A i \in 1..Len(was) : i # k => items[i] = was[i]
    BY <1>1, <1>2, <2>1, PutItemIs
  <2>3. CASE Len(items) = Len(was) + 1 /\ items[Len(was) + 1] = item /\ \A i \in 1..Len(was) : items[i] = was[i]
    <3>1. Len(was) + 1 \in 1..Len(items) /\ \A i \in 1..Len(was) : i \in 1..Len(items)
      BY <1>6, <2>3
    <3> QED
      BY <1>6, <2>3, <3>1 DEF ToSet
  <2>4. CASE /\ Len(items) = Len(was)
             /\ \E k \in 1..Len(was) : /\ Identity(focus, was[k]) = Identity(focus, item)
                                       /\ items[k] = item /\ \A i \in 1..Len(was) : i # k => items[i] = was[i]
    BY <1>3, <1>6, <2>4 DEF ToSet
  <2> QED
    BY <2>2, <2>3, <2>4
<1>8. state.id = id /\ state.m = m /\ state.derived = IF focus = "VLANs" THEN Derived(item) ELSE <<>>
  BY DEF StateOf
<1>9. Transact(c, r, <<state>>, Plan(c, cloud))
  BY DEF PutStep, Put, ElementApply, PutConfig
<1>10. CASE RolledBack(Plan(c, cloud))
  BY <1>1, <1>10, RolledBackShown
<1>11. CASE /\ cloud' = u /\ tf' = [tf EXCEPT ![r] = <<state>>] /\ held' = held \cup {r} /\ focus' = focus
  <2> HIDE DEF c, item, was, items, state
  <2>1. Unique(focus, u)
    BY <1>1, <1>5, AppliedIsUnique
  <2>2. RecallsIn(focus, u, state)
    <3>1. ShownIn(focus, ReadSection(focus, u), item)
      BY <1>1, <1>5, <1>7, AppliedShows
    <3> QED
      BY <1>2, <1>8, <3>1 DEF RecallsIn, item
  <2>3. ASSUME NEW q \in held, q # r PROVE tf[q] # <<>> /\ RecallsIn(focus, u, tf[q][1])
    <3>1. q \in Slots /\ tf[q] # <<>> /\ RecallsIn(focus, cloud, tf[q][1])
      BY <2>3 DEF HeldShown
    <3>2. Names(focus, tf[q][1].id) /\ tf[q][1].id # id
      BY <1>2, <2>3, <3>1 DEF Orderly, Stated
    <3>3. \A x \in ToSet(was) : Identity(focus, x) = tf[q][1].id => x \in ToSet(c[focus][1])
      BY <1>5, <1>7, <3>2
    <3> QED
      BY <1>1, <1>5, <3>1, <3>2, <3>3, StillRecalled DEF was
  <2>4. tf'[r] = <<state>> /\ tf'[r][1] = state /\ \A q \in Slots \ {r} : tf'[q] = tf[q]
    BY <1>11 DEF Orderly, Documented
  <2>5. \A q \in held' : tf'[q] # <<>> /\ RecallsIn(focus, u, tf'[q][1])
    BY <1>11, <2>2, <2>3, <2>4 DEF HeldShown
  <2>6. held' \subseteq Slots
    BY <1>11 DEF HeldShown
  <2> QED
    BY <1>11, <2>1, <2>5, <2>6 DEF HeldShown
<1> QED
  <2>1. <<state>> # <<>>
    OBVIOUS
  <2> HIDE DEF c, state
  <2> QED
    BY <1>9, <1>10, <1>11, <2>1 DEF Transact, Applied

LEMMA DropShown ==
  ASSUME Orderly, HeldShown, NEW r \in Slots, tf[r] # <<>>, Drop(focus, r)
  PROVE  HeldShown'
<1> DEFINE id == tf[r][1].id
           c == DropConfig(id)
           u == Post(cloud, Plan(c, cloud))
           was == ReadSection(focus, cloud)
           items == DropItem(focus, was, id)
<1>1. Sound(c) /\ focus \in ToSet(Sections) /\ IsSection(focus, was)
  BY DropIsSound, ReadIsSection DEF Orderly, Documented
<1>2. IsSection(focus, items)
  BY <1>1, DropItemIs
<1>3. c[focus] = <<items>> /\ c[focus] # <<>> /\ c[focus][1] = items
  <2>1. c = Desired(focus, items)
    BY DEF DropConfig
  <2> HIDE DEF items, c
  <2> QED
    BY <1>1, <1>2, <2>1, DesiredIsConfig
<1>4. DOMAIN was = 1..Len(was) /\ DOMAIN items = 1..Len(items)
  BY <1>1, <1>2, ListingDomain DEF IsSection
<1>5. \A x \in ToSet(was) : Identity(focus, x) # id => x \in ToSet(items)
  <2>1. items = DropItem(focus, was, id)
    OBVIOUS
  <2> HIDE DEF items, was
  <2>2. \A j \in 1..Len(was) : Identity(focus, was[j]) # id => \E i \in 1..Len(items) : items[i] = was[j]
    BY <1>1, <2>1, DropItemIs
  <2> QED
    BY <1>4, <2>2 DEF ToSet
<1>6. Transact(c, r, <<>>, Plan(c, cloud))
  BY DEF Drop, ElementApply, DropConfig
<1>7. CASE RolledBack(Plan(c, cloud))
  BY <1>1, <1>7, RolledBackShown
<1>8. CASE /\ cloud' = u /\ tf' = [tf EXCEPT ![r] = <<>>] /\ held' = held \ {r} /\ focus' = focus
  <2> HIDE DEF c, was, items
  <2>1. Unique(focus, u)
    BY <1>1, <1>3, AppliedIsUnique
  <2>2. ASSUME NEW q \in held, q # r PROVE tf[q] # <<>> /\ RecallsIn(focus, u, tf[q][1])
    <3>1. q \in Slots /\ tf[q] # <<>> /\ RecallsIn(focus, cloud, tf[q][1])
      BY <2>2 DEF HeldShown
    <3>2. Names(focus, tf[q][1].id) /\ tf[q][1].id # id
      BY <2>2, <3>1 DEF Orderly, Stated
    <3>3. \A x \in ToSet(was) : Identity(focus, x) = tf[q][1].id => x \in ToSet(c[focus][1])
      BY <1>3, <1>5, <3>2
    <3> QED
      BY <1>1, <1>3, <3>1, <3>2, <3>3, StillRecalled DEF was
  <2>3. \A q \in Slots \ {r} : tf'[q] = tf[q]
    BY <1>8 DEF Orderly, Documented
  <2>4. \A q \in held' : tf'[q] # <<>> /\ RecallsIn(focus, u, tf'[q][1])
    BY <1>8, <2>2, <2>3 DEF HeldShown
  <2>5. held' \subseteq Slots
    BY <1>8 DEF HeldShown
  <2> QED
    BY <1>8, <2>1, <2>4, <2>5 DEF HeldShown
<1> HIDE DEF c
<1> QED
  BY <1>6, <1>7, <1>8 DEF Transact, Applied

LEMMA ReadShown ==
  ASSUME Orderly, HeldShown, NEW r \in Slots, ReadState(focus, r)
  PROVE  HeldShown'
<1> DEFINE id == tf[r][1].id
           found == Find(cloud, focus, id)
           was == ReadSection(focus, cloud)
<1>1. /\ focus \in ToSet(Sections) /\ Regular(cloud) /\ Names(focus, id)
      /\ tf[r] # <<>> /\ focus' = focus /\ cloud' = cloud
      /\ tf' = [tf EXCEPT ![r] = Refreshed(focus, tf[r][1])]
      /\ held' = IF tf'[r] = <<>> THEN held \ {r} ELSE held
  BY DEF Orderly, Documented, Stated, ReadState
<1>2. tf'[r] = Refreshed(focus, tf[r][1]) /\ \A q \in Slots \ {r} : tf'[q] = tf[q]
  BY <1>1 DEF Orderly, Documented
<1>3. CASE r \notin held \/ tf'[r] = <<>>
  <2>1. held' \subseteq held /\ r \notin held'
    BY <1>1, <1>3
  <2>2. held \subseteq Slots
    BY DEF HeldShown
  <2> QED
    BY <1>1, <1>2, <2>1, <2>2, SameRecalled
<1>4. CASE r \in held /\ tf'[r] # <<>>
  <2> DEFINE x == found[1]
             state == StateOf(focus, id, x)
             y == DomainItem(focus, id, Model(focus, x))
  <2>1. found # <<>> /\ tf'[r] = <<state>>
    BY <1>2, <1>4 DEF Refreshed
  <2>2. x \in ToSet(was) /\ Identity(focus, x) = id
    BY <1>1, <2>1, FoundIs
  <2> HIDE DEF found
  <2>3. IsItem(focus, y) /\ ShowsItem(focus, x, y) /\ (focus = "VLANs" => y.ID = x.ID /\ y.RouterIP = x.RouterIP)
    BY <1>1, <2>2, ReadItemShows
  <2>4. state.id = id /\ state.m = Model(focus, x) /\ state.derived = IF focus = "VLANs" THEN Derived(x) ELSE <<>>
    BY DEF StateOf
  <2> HIDE DEF x, y, state
  <2>5. focus = "VLANs" => Derived(x) = Derived(y)
    BY <2>3 DEF Derived, NetworkName, Interface, Gateway, Subnet
  <2>6. ShownIn(focus, was, y)
    BY <2>2, <2>3 DEF ShownIn
  <2>7. RecallsIn(focus, cloud, state)
    BY <2>3, <2>4, <2>5, <2>6 DEF RecallsIn, y
  <2>8. tf'[r][1] = state
    BY <2>1
  <2>9. held' = held
    BY <1>1, <1>4
  <2>10. \A q \in held : tf'[q] # <<>> /\ RecallsIn(focus, cloud, tf'[q][1])
    BY <1>2, <1>4, <2>7, <2>8 DEF HeldShown
  <2> QED
    BY <1>1, <2>9, <2>10 DEF HeldShown
<1> QED
  BY <1>3, <1>4

LEMMA HeldShownStep ==
  ASSUME Orderly, HeldShown, [Next]_vars
  PROVE  HeldShown'
<1>0. held \subseteq Slots /\ \A r \in held : tf[r] # <<>>
  BY DEF HeldShown
<1>1. CASE UNCHANGED vars
  BY <1>1, SameRecalled DEF vars
<1>2. ASSUME NEW r \in Slots, ElementStep(r) PROVE HeldShown'
  <2>1. CASE ImportItem(focus, r)
    <3>1. r \notin held
      BY <1>0, <2>1 DEF ImportItem
    <3>2. focus' = focus /\ cloud' = cloud /\ held' = held /\ \A q \in held : tf'[q] = tf[q]
      BY <1>0, <2>1, <3>1 DEF ImportItem, Orderly, Documented
    <3> QED
      BY <3>2, SameRecalled
  <2>2. CASE SwitchPortDelete(r)
    <3>1. focus' = focus /\ cloud' = cloud /\ held' \subseteq held /\ \A q \in held' : tf'[q] = tf[q]
      BY <1>0, <2>2 DEF SwitchPortDelete, Orderly, Documented
    <3> QED
      BY <3>1, SameRecalled
  <2> QED
    BY <1>2, <2>1, <2>2, PutShown, DropShown, ReadShown DEF ElementStep
<1>3. ASSUME NEW m \in ConfWanted[focus], ConfApply(conf, m) PROVE HeldShown'
  <2> DEFINE c == ToConfig(m)
  <2>1. Sound(c)
    BY <1>3, AskedIsSound
  <2>2. CASE RolledBack(Plan(c, cloud))
    BY <2>1, <2>2, RolledBackShown
  <2>3. CASE cloud' = Post(cloud, Plan(c, cloud)) /\ focus' = focus /\ tf' = tf
             /\ held' = IF Plan(c, cloud) = {} THEN held ELSE {}
    <3>1. CASE Plan(c, cloud) = {}
      <4>1. cloud' = cloud
        BY <2>3, <3>1, NothingPosted
      <4> QED
        BY <2>3, <3>1, <4>1, SameRecalled
    <3>2. CASE Plan(c, cloud) # {}
      <4>1. held' = {}
        BY <2>3, <3>2
      <4> QED
        BY <4>1 DEF HeldShown
    <3> QED
      BY <3>1, <3>2
  <2> QED
    BY <1>3, <2>2, <2>3 DEF ConfApply, Applied
<1>4. CASE ConfRead \/ ConfDelete \/ ConfImport
  BY <1>4, SameRecalled DEF ConfRead, ConfDelete, ConfImport
<1>5. CASE PortalEdit
  <2>1. held' = {}
    BY <1>5 DEF PortalEdit
  <2> QED
    BY <2>1 DEF HeldShown
<1> QED
  BY <1>1, <1>2, <1>3, <1>4, <1>5, StepKinds DEF Orderly

LEMMA AlwaysHeldShown == Spec => [](Orderly /\ HeldShown)
<1>1. Init => HeldShown
  BY DEF Init, HeldShown
<1>2. Orderly /\ HeldShown /\ [Next]_vars => HeldShown'
  BY HeldShownStep
<1> QED
  BY <1>1, <1>2, AlwaysOrderly, PTL DEF Spec

-----------------------------------------------------------------------------

LEMMA NoMembers ==
  ASSUME NEW q, Listing(q)
  PROVE  q = <<>> <=> ToSet(q) = {}
<1>1. DOMAIN q = 1..Len(q) /\ Len(q) \in Nat
  BY ListingDomain DEF Listing
<1>2. ASSUME ToSet(q) = {} PROVE q = <<>>
  <2>1. Len(q) = 0
    <3>1. ASSUME Len(q) # 0 PROVE FALSE
      <4>1. 1 \in 1..Len(q)
        BY <1>1, <3>1
      <4>2. q[1] \in ToSet(q)
        BY <1>1, <4>1 DEF ToSet
      <4> QED
        BY <1>2, <4>2
    <3> QED
      BY <3>1
  <2>2. q = [i \in 1..0 |-> q[i]]
    BY <2>1 DEF Listing
  <2> QED
    BY <2>2
<1>3. ASSUME q = <<>> PROVE ToSet(q) = {}
  BY <1>3 DEF ToSet
<1> QED
  BY <1>2, <1>3

\* A value planned in the form the cloud keeps reads back as it was planned.
LEMMA PlannedReads ==
  ASSUME NEW kind \in FieldKinds, NEW mk, <<kind, mk>> \in Attributes, NEW v, Plain(kind, v), NEW x, Plain(kind, x),
         Shows(kind, x, v), v = DomainValue(mk, ModelValue(mk, Stored(kind, v))) \/ kind = "set"
  PROVE  ModelValue(mk, x) = ModelValue(mk, Stored(kind, v))
<1>1. CASE kind = "set"
  <2>1. Stored(kind, v) = v /\ Listing(x) /\ Listing(v) /\ ToSet(x) = ToSet(v)
    BY <1>1 DEF Stored, Shows, Plain
  <2>2. x = <<>> <=> v = <<>>
    BY <2>1, NoMembers
  <2> QED
    BY <1>1, <2>1, <2>2 DEF Attributes, ModelValue
<1>2. CASE kind # "set"
  <2>1. DomainValue(mk, ModelValue(mk, Stored(kind, v))) = Stored(kind, v)
    BY <1>2, StoredIsPlain, ValueReturns
  <2>2. v = Stored(kind, v)
    BY <1>2, <2>1
  <2>3. x = v \/ x = Stored(kind, v)
    BY <1>2 DEF Shows
  <2> QED
    BY <2>2, <2>3
<1> QED
  BY <1>1, <1>2

LEMMA ShownModel ==
  ASSUME NEW s \in ToSet(Sections), NEW id, NEW m, IsItem(s, DomainItem(s, id, m)),
         m = Model(s, AsStored(s, DomainItem(s, id, m))),
         NEW x, IsItem(s, x), ShowsItem(s, x, DomainItem(s, id, m))
  PROVE  /\ Model(s, x) = m
         /\ s = "VLANs" => Derived(x) = Derived(DomainItem(s, id, m))
<1> DEFINE item == DomainItem(s, id, m)
           k == ModelOf(s)
           row == Codec[s].row
           a == AsStored(s, item)
<1>1. Model(s, a) = [f \in DOMAIN k |-> ModelValue(k[f], a[f])] /\ Model(s, x) = [f \in DOMAIN k |-> ModelValue(k[f], x[f])]
  BY DEF Model
<1>2. \A f \in DOMAIN k : f # IdentityField(s) => item[f] = DomainValue(k[f], m[f])
  BY ItemFields DEF DomainItem
<1>3. CASE s \in DOMAIN Codec
  <2>0. s # "SwitchPorts" /\ s # "DHCPReservations" /\ IdentityField(s) = "ID"
    BY <1>3, RowKinds DEF Codec
  <2>1. a = [f \in DOMAIN row |-> Stored(row[f][3], item[f])]
    BY <2>0 DEF AsStored
  <2>2. \A f \in DOMAIN k : f \in DOMAIN row /\ f # "ID" /\ <<row[f][3], k[f]>> \in Attributes
    BY <1>3, RowKinds
  <2>3. \A f \in DOMAIN k : m[f] = ModelValue(k[f], a[f])
    <3>1. m = Model(s, a)
      OBVIOUS
    <3> HIDE DEF a, k
    <3> QED
      BY <1>1, <3>1
  <2>4. \A f \in DOMAIN row : Plain(row[f][3], item[f]) /\ Plain(row[f][3], x[f]) /\ Shows(row[f][3], x[f], item[f])
    BY <1>3 DEF IsItem, PlainItem, ShowsItem
  <2> HIDE DEF a, k, row, item
  <2>5. ASSUME NEW f \in DOMAIN k PROVE ModelValue(k[f], x[f]) = ModelValue(k[f], a[f])
    <3>1. a[f] = Stored(row[f][3], item[f]) /\ item[f] = DomainValue(k[f], ModelValue(k[f], a[f]))
      BY <1>2, <2>0, <2>1, <2>2, <2>3
    <3>2. row[f][3] \in FieldKinds
      BY <2>2 DEF Attributes, FieldKinds
    <3>3. /\ <<row[f][3], k[f]>> \in Attributes
          /\ Plain(row[f][3], item[f]) /\ Plain(row[f][3], x[f]) /\ Shows(row[f][3], x[f], item[f])
      BY <2>2, <2>4
    <3>4. item[f] = DomainValue(k[f], ModelValue(k[f], Stored(row[f][3], item[f])))
      BY <3>1
    <3>5. ModelValue(k[f], x[f]) = ModelValue(k[f], Stored(row[f][3], item[f]))
      BY <3>2, <3>3, <3>4, PlannedReads
    <3> QED
      BY <3>1, <3>5
  <2>6. Model(s, x) = m
    <3>1. [f \in DOMAIN k |-> ModelValue(k[f], x[f])] = [f \in DOMAIN k |-> ModelValue(k[f], a[f])]
      BY <2>5
    <3> QED
      BY <1>1, <3>1 DEF a, item
  <2>7. ASSUME s = "VLANs" PROVE Derived(x) = Derived(item)
    <3>1. "RouterIP" \in DOMAIN k /\ k["RouterIP"] = "string"
      <4>1. k = VLANModel
        BY <2>7 DEF ModelOf, k
      <4> QED
        BY <4>1 DEF VLANModel
    <3>2. row["RouterIP"][3] = "string" /\ "RouterIP" \in DOMAIN row
      BY <2>2, <3>1 DEF Attributes
    <3>3. "ID" \in DOMAIN row /\ row["ID"][3] = "number"
      BY <1>3, <2>7, RowKinds DEF row
    <3>4. \A kind \in {"number", "string"} : \A u, v : Shows(kind, u, v) => u = v
      BY DEF Shows, Stored
    <3>5. x["ID"] = item["ID"] /\ x["RouterIP"] = item["RouterIP"]
      BY <2>4, <3>2, <3>3, <3>4
    <3> QED
      BY <3>5 DEF Derived, NetworkName, Interface, Gateway, Subnet
  <2> QED
    BY <2>6, <2>7 DEF item
<1>4. CASE s = "SwitchPorts"
  <2>1. a = item
    BY <1>4 DEF AsStored
  <2>2. /\ x.Port = item.Port /\ x.NativeVLAN = item.NativeVLAN /\ x.AllVLANs = item.AllVLANs
        /\ ToSet(x.TaggedVLANs) = ToSet(item.TaggedVLANs)
    BY <1>4 DEF ShowsItem
  <2>3. PlainPort(x) /\ PlainPort(item)
    BY <1>4 DEF IsItem
  <2>4. k = SwitchPortModel
    BY <1>4 DEF ModelOf
  <2> HIDE DEF item
  <2>5. x.TaggedVLANs = <<>> <=> item.TaggedVLANs = <<>>
    BY <2>2, <2>3, NoMembers DEF PlainPort, IntList
  <2>6. ModelValue("someset", x.TaggedVLANs) = ModelValue("someset", item.TaggedVLANs)
    BY <2>2, <2>5 DEF ModelValue
  <2>7. DOMAIN k = {"NativeVLAN", "AllVLANs", "TaggedVLANs"} /\ k["NativeVLAN"] = "int" /\ k["AllVLANs"] = "bool" /\ k["TaggedVLANs"] = "someset"
    BY <2>4 DEF SwitchPortModel
  <2> HIDE DEF k
  <2>8. \A f \in DOMAIN k : ModelValue(k[f], x[f]) = ModelValue(k[f], item[f])
    BY <2>2, <2>6, <2>7
  <2>9. [f \in DOMAIN k |-> ModelValue(k[f], x[f])] = [f \in DOMAIN k |-> ModelValue(k[f], item[f])]
    BY <2>8
  <2>10. Model(s, x) = Model(s, a)
    <3> HIDE DEF a
    <3> QED
      BY <1>1, <2>1, <2>9
  <2> QED
    BY <1>4, <2>10 DEF item
<1>5. CASE s = "DHCPReservations"
  <2>1. a = [MAC |-> MACOf[ClientOf[item.MAC]], IP |-> item.IP]
    BY <1>5 DEF AsStored
  <2>2. x = [MAC |-> MACOf[ClientOf[item.MAC]], IP |-> item.IP]
    BY <1>5 DEF ShowsItem
  <2> HIDE DEF a
  <2>3. Model(s, x) = Model(s, a)
    BY <2>1, <2>2
  <2> QED
    BY <1>5, <2>3 DEF a
<1> QED
  BY <1>3, <1>4, <1>5 DEF Sections, ToSet, Codec

\* What an element resource applied reads back as planned, whatever the other resources applied
\* since and whatever a rollback took back (element.go: read; routerconfig/values.go).
THEOREM AppliedReadsAsPlanned == Spec => []NoPhantomDrift
<1>1. ASSUME Orderly, HeldShown, NEW r \in held, Canonical(tf[r][1]) PROVE Refreshed(focus, tf[r][1]) = tf[r]
  <2> DEFINE state == tf[r][1]
             id == state.id
             item == DomainItem(focus, id, state.m)
             was == ReadSection(focus, cloud)
             found == Find(cloud, focus, id)
  <2>1. focus \in ToSet(Sections) /\ Regular(cloud)
    BY <1>1 DEF Orderly, Documented
  <2>2. r \in Slots /\ tf[r] # <<>> /\ RecallsIn(focus, cloud, state) /\ Unique(focus, cloud)
    BY <1>1 DEF HeldShown
  <2>3. tf[r] = <<state>> /\ state = [id |-> id, m |-> state.m, derived |-> state.derived] /\ Names(focus, id)
    BY <1>1, <2>2 DEF Orderly, Stated, IsState
  <2>4. /\ state.m = Model(focus, AsStored(focus, item))
        /\ focus = "DHCPReservations" => AsStored(focus, item).IP # ""
    BY <1>1 DEF Canonical
  <2>5. Given(focus, item)
    <3> HIDE DEF item
    <3>1. CASE focus = "DHCPReservations"
      <4>1. AsStored(focus, item) = [MAC |-> MACOf[ClientOf[item.MAC]], IP |-> item.IP]
        BY <3>1 DEF AsStored
      <4>2. AsStored(focus, item).IP = item.IP
        BY <4>1
      <4> QED
        BY <2>4, <3>1, <4>2 DEF Given
    <3> QED
      BY <3>1 DEF Given
  <2>6. IsItem(focus, item) /\ ShownIn(focus, was, item) /\ state.derived = IF focus = "VLANs" THEN Derived(item) ELSE <<>>
    BY <2>2 DEF RecallsIn
  <2>7. PICK x \in ToSet(was) : ShowsItem(focus, x, item)
    BY <2>5, <2>6 DEF ShownIn
  <2>8. Identity(focus, x) = id
    BY <2>1, <2>3, <2>7, ShownIsNamed
  <2>9. found # <<>> /\ found[1] = x
    <3>1. found # <<>> /\ found[1] \in ToSet(was) /\ Identity(focus, found[1]) = id
      BY <2>1, <2>7, <2>8, FoundIs
    <3> QED
      BY <2>2, <2>7, <2>8, <3>1 DEF Unique
  <2>10. IsItem(focus, x)
    <3>1. IsSection(focus, was) /\ DOMAIN was = 1..Len(was)
      BY <2>1, ReadIsSection, ListingDomain DEF IsSection
    <3> QED
      BY <2>7, <3>1 DEF IsSection, ToSet
  <2>11. Model(focus, x) = state.m /\ (focus = "VLANs" => Derived(x) = Derived(item))
    <3> DEFINE m == state.m
    <3>1. m = Model(focus, AsStored(focus, DomainItem(focus, id, m))) /\ IsItem(focus, DomainItem(focus, id, m))
          /\ ShowsItem(focus, x, DomainItem(focus, id, m))
      BY <2>4, <2>6, <2>7
    <3> HIDE DEF id, m
    <3>2. Model(focus, x) = m /\ (focus = "VLANs" => Derived(x) = Derived(DomainItem(focus, id, m)))
      BY <2>1, <2>10, <3>1, ShownModel
    <3> QED
      BY <3>2 DEF id, m
  <2> HIDE DEF found, item
  <2>12. Refreshed(focus, state) = <<StateOf(focus, id, x)>>
    BY <2>9 DEF Refreshed, found
  <2>13. StateOf(focus, id, x) = [id |-> id, m |-> state.m, derived |-> state.derived]
    BY <2>6, <2>11 DEF StateOf
  <2> QED
    BY <2>3, <2>12, <2>13
<1>2. Orderly /\ HeldShown => NoPhantomDrift
  BY <1>1 DEF NoPhantomDrift
<1> QED
  BY <1>2, AlwaysHeldShown, PTL

-----------------------------------------------------------------------------
(* An element a write of its own item leaves as it is.                       *)

LEMMA OmitKeeps ==
  ASSUME NEW o, NEW k, Omit(o, k) = o
  PROVE  At(o, k) = Null
BY AtSame

\* What is read of an object an endpoint is written over without a change is written without one.
LEMMA EndpointItself ==
  ASSUME NEW e, NEW k, NEW x, IsObj(e), IsObj(Child(e, k)), EncodeEndpoint(e, k, x) = e
  PROVE  EncodeEndpoint(e, k, DecodeEndpoint(e, k)) = e
<1> DEFINE Aimed(c, a) == PutString(c, "address", a)
           inner(c, y) == PutPort(Aimed(c, y.Address), "port", y.Port)
           c == Child(e, k)
           p == inner(c, x)
           y == DecodeEndpoint(e, k)
<1>1. Puts(c, "address", Aimed(c, x.Address)) /\ Puts(Aimed(c, x.Address), "port", p)
  BY PutsOne
<1>2. IsObj(p)
  <2>1. IsObj(c)
    OBVIOUS
  <2>2. IsObj(Aimed(c, x.Address))
    BY <1>1, <2>1, PutsInObject
  <2> QED
    BY <1>1, <2>2, PutsInObject
<1>3. \A z : EncodeEndpoint(e, k, z) = PruneEmpty(With(e, k, inner(c, z)), k)
  BY DEF EncodeEndpoint
<1>4. y = [Address |-> AsString(At(At(e, k), "address")), Port |-> AsString(At(At(e, k), "port"))]
  BY DEF DecodeEndpoint
<1>5. CASE p = EmptyObj
  <2>1. e = Omit(With(e, k, p), k)
    <3> HIDE DEF p, inner
    <3> QED
      BY <1>3, <1>5, AtSame DEF PruneEmpty, p
  <2>2. k \notin DOMAIN Fields(e) /\ At(e, k) = Null
    <3>1. DOMAIN Fields(Omit(With(e, k, p), k)) = DOMAIN Fields(With(e, k, p)) \ {k}
      BY FieldsOmit
    <3> QED
      BY <2>1, <3>1 DEF At
  <2>3. c = EmptyObj
    BY <2>2, EmptyObject DEF Child
  <2>4. \A j : At(Null, j) = Null /\ At(EmptyObj, j) = Null
    BY DEF At, EmptyObj, Fields, Obj, Null
  <2>5. AsString(Null) = ""
    BY DEF AsString, Null
  <2>6. y.Address = "" /\ y.Port = ""
    <3>1. y.Address = AsString(At(At(e, k), "address")) /\ y.Port = AsString(At(At(e, k), "port"))
      BY <1>4
    <3> HIDE DEF y
    <3> QED
      BY <2>2, <2>4, <2>5, <3>1
  <2>7. inner(c, y) = EmptyObj
    <3>1. Aimed(c, "") = EmptyObj
      BY <2>3, EmptyObject DEF PutString
    <3>2. PutPort(EmptyObj, "port", "") = Omit(EmptyObj, "port")
      BY EmptyIsNoNumber DEF PutPort, PutString
    <3>3. Omit(EmptyObj, "port") = EmptyObj
      <4>1. "port" \notin DOMAIN Fields(EmptyObj)
        BY DEF EmptyObj, Fields, Obj
      <4> QED
        BY <4>1, EmptyObject, OmitAbsent
    <3> QED
      BY <2>6, <3>1, <3>2, <3>3
  <2> HIDE DEF inner, y, c
  <2>8. EncodeEndpoint(e, k, y) = Omit(With(e, k, EmptyObj), k)
    <3>1. At(With(e, k, EmptyObj), k) = EmptyObj
      BY AtSame
    <3> QED
      BY <1>3, <2>7, <3>1 DEF PruneEmpty
  <2> QED
    BY <2>2, <2>8, OmitWith DEF y
<1>6. CASE p # EmptyObj
  <2>1. e = With(e, k, p) /\ At(e, k) = p
    <3>1. e = PruneEmpty(With(e, k, p), k)
      BY <1>3
    <3> HIDE DEF p, inner
    <3>2. At(With(e, k, p), k) = p
      BY AtSame
    <3>3. e = With(e, k, p)
      BY <1>6, <3>1, <3>2 DEF PruneEmpty
    <3> QED
      BY <3>2, <3>3
  <2>2. c = p
    <3> HIDE DEF p
    <3>1. Fields(p) = p[2] /\ p = Obj(Fields(p))
      BY <1>2 DEF IsObj, Fields, Obj
    <3> QED
      BY <2>1, <3>1 DEF Child
  <2>3. Aimed(c, x.Address) = c
    <3>1. Agree(p, Aimed(c, x.Address), "address")
      BY <1>1, PutsLeavesOthers
    <3> QED
      BY <1>2, <2>2, <3>1, StringAgain DEF Settled
  <2>4. PutPort(c, "port", x.Port) = c
    BY <2>2, <2>3
  <2>5. AsString(At(c, "address")) = x.Address
    BY <2>3, StringReads
  <2>6. y.Address = x.Address /\ y.Port = AsString(At(c, "port"))
    BY <1>4, <2>1, <2>2, <2>5
  <2>7. PutPort(c, "port", y.Port) = c
    <3> HIDE DEF p, c, y
    <3>1. PutPort(c, "port", y.Port) = PutString(c, "port", y.Port)
      BY <2>6 DEF PutPort
    <3>2. CASE y.Port # ""
      BY <2>6, <3>1, <3>2 DEF PutString
    <3>3. CASE y.Port = ""
      <4>1. x.Port = "" \/ x.Port = y.Port
        <5>1. y.Port = x.Port \/ y.Port = Unpadded(x.Port)
          BY <2>4, <2>6, PortReads
        <5>2. x.Port \in DOMAIN Decimal => Unpadded(x.Port) \in DOMAIN Decimal
          BY DecimalAssumption DEF Unpadded
        <5> QED
          BY <3>3, <5>1, <5>2, EmptyIsNoNumber DEF Unpadded
      <4> QED
        BY <2>4, <3>3, <4>1
    <3> QED
      BY <3>2, <3>3
  <2>8. inner(c, y) = p
    BY <2>2, <2>3, <2>6, <2>7
  <2> HIDE DEF inner, p
  <2>9. EncodeEndpoint(e, k, y) = PruneEmpty(With(e, k, p), k)
    BY <1>3, <2>8
  <2> QED
    BY <1>6, <2>1, <2>9 DEF PruneEmpty
<1> QED
  BY <1>5, <1>6

\* A field that is written without a change is, too, as it is read, or as a set of its members.
LEMMA FieldItself ==
  ASSUME NEW item, NEW e, NEW row, row[3] \in FieldKinds, Plain(row[3], item[row[1]]),
         IsObj(e), row[3] = "endpoint" => IsObj(Child(e, row[2])),
         row[3] = "set" => Listing(Entries(At(e, row[2]))),
         EncodeField(item, e, row) = e,
         NEW y, y[row[1]] = DecodeField(e, row[2], row[3])
                \/ (row[3] = "set" /\ SameMembers(DecodeField(e, row[2], row[3]), y[row[1]]))
  PROVE  EncodeField(y, e, row) = e
<1> DEFINE v == DecodeField(e, row[2], row[3])
<1>1. ReadsAs(row[3], v, item[row[1]])
  BY FieldReads
<1>2. CASE row[3] = "set"
  <2>1. v = AsStrings(At(e, row[2])) /\ EncodeField(y, e, row) = PutStringSet(e, row[2], y[row[1]])
    BY <1>2 DEF DecodeField, EncodeField
  <2>2. Listing(v)
    <3>1. DOMAIN Entries(At(e, row[2])) = 1..Len(Entries(At(e, row[2])))
      BY <1>2, ListingDomain
    <3> DEFINE n == Len(Entries(At(e, row[2])))
    <3>2. v = [i \in 1..n |-> AsString(Entries(At(e, row[2]))[i])]
      BY <2>1, <3>1 DEF AsStrings
    <3>3. n \in Nat
      BY <1>2 DEF Listing
    <3> HIDE DEF n, v
    <3>4. Len(v) = n
      BY <3>2, <3>3
    <3> QED
      BY <3>2, <3>3, <3>4 DEF Listing
  <2>3. SameMembers(v, v)
    BY DEF SameMembers
  <2>4. SameMembers(v, y[row[1]])
    BY <1>2, <2>3
  <2> HIDE DEF v
  <2> QED
    BY <2>1, <2>4 DEF PutStringSet
<1>3. CASE row[3] = "endpoint"
  <2>1. EncodeEndpoint(e, row[2], item[row[1]]) = e
    BY <1>3 DEF EncodeField
  <2>2. y[row[1]] = DecodeEndpoint(e, row[2])
    BY <1>3 DEF DecodeField
  <2>3. EncodeEndpoint(e, row[2], y[row[1]]) = e
    BY <1>3, <2>1, <2>2, EndpointItself
  <2> QED
    BY <1>3, <2>3 DEF EncodeField
<1>4. CASE row[3] = "csv"
  <2>1. \/ y[row[1]] = item[row[1]]
        \/ y[row[1]] = <<>> /\ item[row[1]] = <<"">>
        \/ y[row[1]] = NamesIn(item[row[1]]) /\ item[row[1]] # <<"">>
    BY <1>1, <1>4 DEF ReadsAs, Stored
  <2>2. \A z : EncodeField(z, e, row) = PutCSV(e, row[2], z[row[1]])
    BY <1>4 DEF EncodeField
  <2>3. PutCSV(e, row[2], <<>>) = PutCSV(e, row[2], <<"">>)
    BY DEF PutCSV
  <2>4. \A q : q # <<"">> => PutCSV(e, row[2], NamesIn(q)) = PutCSV(e, row[2], q)
    BY RejoinedAssumption DEF PutCSV, NamesIn
  <2> QED
    BY <2>1, <2>2, <2>3, <2>4
<1>5. CASE row[3] \notin {"set", "endpoint", "csv"}
  <2>1. y[row[1]] = item[row[1]]
    BY <1>1, <1>5 DEF ReadsAs, Stored
  <2>2. EncodeField(y, e, row) = EncodeField(item, e, row)
    BY <1>5, <2>1 DEF EncodeField, FieldKinds
  <2> QED
    BY <2>2
<1> QED
  BY <1>2, <1>3, <1>4, <1>5

\* Writing an element is no change exactly when writing each of its fields is none.
LEMMA RowsStay ==
  ASSUME NEW s \in DOMAIN Codec, NEW e, IsElement(e), NEW item, PlainItem(s, item),
         Encode(Codec[s].fields, item, e) = e
  PROVE  \A i \in DOMAIN Codec[s].fields : EncodeField(item, e, Codec[s].fields[i]) = e
<1> DEFINE fields == Codec[s].fields
<1>1. Table(fields)
  BY Codecs
<1> SUFFICES ASSUME NEW i \in DOMAIN fields PROVE EncodeField(item, e, fields[i]) = e
  OBVIOUS
<1>2. PICK o : Agree(o, e, fields[i][2]) /\ Agree(Encode(fields, item, e), EncodeField(item, o, fields[i]), fields[i][2])
  BY <1>1, RowsSettle
<1>3. fields[i][3] \in FieldKinds \cup {"destination"}
  BY <1>1 DEF Table
<1>4. fields[i][3] = "set" => item[fields[i][1]] = [j \in DOMAIN item[fields[i][1]] |-> item[fields[i][1]][j]]
  <2>1. SUFFICES ASSUME fields[i][3] = "set"
                 PROVE  item[fields[i][1]] = [j \in DOMAIN item[fields[i][1]] |-> item[fields[i][1]][j]]
    OBVIOUS
  <2>2. fields[i][3] # "destination"
    BY <2>1
  <2>3. fields[i][1] \in DOMAIN Codec[s].row /\ Codec[s].row[fields[i][1]] = fields[i]
    BY <2>2, EveryRow
  <2> HIDE DEF fields
  <2>4. Plain(fields[i][3], item[fields[i][1]])
    BY <2>3 DEF PlainItem
  <2>5. Listing(item[fields[i][1]])
    BY <2>1, <2>4 DEF Plain
  <2> QED
    BY <2>5 DEF Listing
<1>5. IsObj(Child(o, fields[i][2]))
  <2>1. Child(o, fields[i][2]) = Child(e, fields[i][2])
    BY <1>2 DEF Agree, Child
  <2>2. fields[i][2] \notin DOMAIN Fields(e) => Child(e, fields[i][2]) = EmptyObj
    BY EmptyObject DEF Child, At
  <2> QED
    BY <2>1, <2>2, EmptyObject DEF IsElement, IsValue, Child
<1> HIDE DEF fields
<1>6. Encode(fields, item, e) = e
  BY DEF fields
<1>7. Settled(e, EncodeField(item, o, fields[i]), fields[i][2])
  BY <1>2, <1>6 DEF Settled, IsElement
<1> QED
  BY <1>3, <1>4, <1>5, <1>7, FieldAgain

LEMMA StayedRows ==
  ASSUME NEW s \in DOMAIN Codec, NEW e, NEW item,
         \A i \in DOMAIN Codec[s].fields : EncodeField(item, e, Codec[s].fields[i]) = e
  PROVE  Encode(Codec[s].fields, item, e) = e
<1> DEFINE fields == Codec[s].fields
           n == Len(fields)
<1>1. Table(fields)
  BY Codecs
<1>2. n \in Nat /\ DOMAIN fields = 1..n
  BY <1>1 DEF Table
<1>3. \A i \in DOMAIN fields : EncodeField(item, e, fields[i]) = e
  OBVIOUS
<1> HIDE DEF n, fields
<1>4. PICK f : /\ f[0] = e /\ Encode(fields, item, e) = f[n]
               /\ \A i \in 1..n : f[i] = EncodeField(item, f[i - 1], fields[i])
  BY <1>2, EncodeRuns DEF n
<1> DEFINE S == {m \in Nat : m <= n => f[m] = e}
<1>5. 0 \in S
  BY <1>4
<1>6. ASSUME NEW m \in Nat, m \in S PROVE m + 1 \in S
  <2>1. SUFFICES ASSUME m + 1 <= n PROVE f[m + 1] = e
    OBVIOUS
  <2>2. m + 1 \in 1..n /\ (m + 1) - 1 = m /\ m <= n
    BY <1>2, <2>1
  <2>3. f[m] = e
    BY <1>6, <2>2
  <2> QED
    BY <1>2, <1>3, <1>4, <2>2, <2>3
<1>7. \A m \in Nat : m \in S
  <2> HIDE DEF S
  <2> QED
    BY <1>5, <1>6, NatInduct
<1>8. f[n] = e
  BY <1>2, <1>7
<1> QED
  BY <1>4, <1>8 DEF fields

\* An item with the fields of what an element reads as, its sets up to their order.
Reads(s, e, y) ==
  \A f \in DOMAIN Codec[s].row :
    LET v == DecodeField(e, Codec[s].row[f][2], Codec[s].row[f][3])
    IN y[f] = v \/ (Codec[s].row[f][3] = "set" /\ SameMembers(v, y[f]))

LEMMA DecodedReads ==
  ASSUME NEW s \in DOMAIN Codec, NEW e
  PROVE  Reads(s, e, Decode(Codec[s].row, e))
BY DEF Reads, Decode

\* An element that writing its item leaves as it is, is left so by what it reads as.
LEMMA ElementItself ==
  ASSUME NEW s \in DOMAIN Codec, NEW e, IsElement(e), NEW item, PlainItem(s, item),
         Encode(Codec[s].fields, item, e) = e, NEW y, Reads(s, e, y)
  PROVE  Encode(Codec[s].fields, y, e) = e
<1> DEFINE fields == Codec[s].fields
<1>1. Table(fields) /\ \A i \in DOMAIN fields : EncodeField(item, e, fields[i]) = e
  BY Codecs, RowsStay
<1>2. ASSUME NEW i \in DOMAIN fields PROVE EncodeField(y, e, fields[i]) = e
  <2> DEFINE row == fields[i]
  <2>1. EncodeField(item, e, row) = e /\ row[3] \in FieldKinds \cup {"destination"}
    BY <1>1 DEF Table
  <2>2. CASE row[3] = "destination"
    <3> HIDE DEF row
    <3>1. EncodeField(y, e, row) = EncodeField(item, e, row)
      BY <2>2 DEF EncodeField
    <3> QED
      BY <2>1, <3>1 DEF row
  <2>3. CASE row[3] # "destination"
    <3>1. row[1] \in DOMAIN Codec[s].row /\ Codec[s].row[row[1]] = row
      BY <2>3, EveryRow
    <3>2. IsObj(e) /\ IsValue(At(e, row[2]))
      BY ElementValues DEF IsElement
    <3> HIDE DEF row, fields
    <3>3. Plain(row[3], item[row[1]])
      BY <3>1 DEF PlainItem
    <3>4. IsObj(Child(e, row[2])) /\ Listing(Entries(At(e, row[2])))
      BY <3>2 DEF IsValue, Child
    <3>5. y[row[1]] = DecodeField(e, row[2], row[3])
          \/ (row[3] = "set" /\ SameMembers(DecodeField(e, row[2], row[3]), y[row[1]]))
      BY <3>1 DEF Reads
    <3>6. row[3] \in FieldKinds
      BY <2>1, <2>3
    <3>7. EncodeField(y, e, row) = e
      BY <2>1, <3>2, <3>3, <3>4, <3>5, <3>6, FieldItself
    <3> QED
      BY <3>7 DEF row
  <2> QED
    BY <2>2, <2>3
<1> QED
  BY <1>2, StayedRows

\* What such an element reads as is named as its item is.
LEMMA ReadsByName ==
  ASSUME NEW s \in DOMAIN Codec, NEW e, NEW item, PlainItem(s, item), Encode(Codec[s].fields, item, e) = e
  PROVE  LET back == Decode(Codec[s].row, e) IN
         /\ \A f \in DOMAIN Codec[s].row : ReadsAs(Codec[s].row[f][3], back[f], item[f])
         /\ Identity(s, back) = Identity(s, item)
<1> DEFINE back == Decode(Codec[s].row, e)
<1>1. \A f \in DOMAIN Codec[s].row : ReadsAs(Codec[s].row[f][3], back[f], item[f])
  BY ElementReadsBack
<1> HIDE DEF back
<1>2. "ID" \in DOMAIN Codec[s].row /\ Codec[s].row["ID"][3] \in {"number", "string"}
  BY RowKinds
<1>3. back["ID"] = item["ID"]
  BY <1>1, <1>2 DEF ReadsAs, Stored
<1>4. Identity(s, back) = Identity(s, item)
  BY <1>3, IdentityRow
<1> QED
  BY <1>1, <1>4 DEF back

-----------------------------------------------------------------------------
(* A list that writing it leaves as it is.                                   *)

\* q has an element of x's identity that writing x leaves as it is.
HoldsAs(s, q, x) ==
  \E i \in 1..Len(q) : AsString(At(q[i], "id")) = Identity(s, x) /\ Encode(Codec[s].fields, x, q[i]) = q[i]
\* Each element of q is what it reads as.
SelfRead(s, q) ==
  \A i \in 1..Len(q) :
    LET x == Decode(Codec[s].row, q[i])
    IN AsString(At(q[i], "id")) = Identity(s, x) /\ Encode(Codec[s].fields, x, q[i]) = q[i]
\* The section's list is there, all of it elements; or it is empty, and nothing is there.
Standing(s, root) ==
  LET path == Codec[s].path
      front == Front(path)
      q == Elements(path, root)
  IN \/ q = <<>> /\ Node(root, path) = Null /\ Rooted(root, front) /\ Whole(Node(root, front))
     \/ Rooted(root, path) /\ Node(root, path) = List(q)

LEMMA ListStands ==
  ASSUME NEW s \in DOMAIN Codec, NEW root, HoldsElements(s, root), NEW items, Listable(s, items),
         ListSettled(s, root, items)
  PROVE  LET q == Elements(Codec[s].path, root) IN Standing(s, root) /\ NextElements(s, q, items) = q
<1> DEFINE path == Codec[s].path
           front == Front(path)
           q == Elements(path, root)
           next == NextElements(s, q, items)
<1>1. ElementsOf(q)
  BY ElementsAre
<1>2. Listing(next) /\ \A i \in 1..Len(next) : next[i][1] = "obj"
  <2> HIDE DEF q, next
  <2> QED
    BY <1>1, NextIs DEF next
<1>3. \/ next = <<>> /\ Node(root, path) = Null /\ Rooted(root, front) /\ Whole(Node(root, front))
      \/ Rooted(root, path) /\ Node(root, path) = List(next)
  BY DEF ListSettled
<1>4. q = LET l == Entries(Node(root, path)) IN Kept(l, {e \in ToSet(l) : e[1] = "obj"})
  BY DEF Elements
<1> HIDE DEF next, q, path, front
<1>5. next = q
  <2>1. CASE next = <<>> /\ Node(root, path) = Null
    BY <1>4, <2>1, NothingAtNull
  <2>2. CASE Node(root, path) = List(next)
    <3>1. Entries(List(next)) = next
      BY Tags DEF Entries
    <3>2. \A i \in 1..Len(next) : next[i] \in {e \in ToSet(next) : e[1] = "obj"}
      BY <1>2, ListingDomain DEF ToSet
    <3>3. Kept(next, {e \in ToSet(next) : e[1] = "obj"}) = next
      BY <1>2, <3>2, KeptIs DEF IsKept
    <3> QED
      BY <1>4, <2>2, <3>1, <3>3
  <2> QED
    BY <1>3, <2>1, <2>2
<1> QED
  BY <1>3, <1>5 DEF next, q, path, front, Standing

LEMMA StandingSettles ==
  ASSUME NEW s \in DOMAIN Codec, NEW root, Standing(s, root), NEW items,
         NextElements(s, Elements(Codec[s].path, root), items) = Elements(Codec[s].path, root)
  PROVE  ListSettled(s, root, items)
BY DEF Standing, ListSettled

\* The element of an identity, where identities are apart.
LEMMA ExistingOne ==
  ASSUME NEW q, Listing(q), Distinct(ElementIDs(q)), NEW i \in 1..Len(q)
  PROVE  Existing(q, AsString(At(q[i], "id"))) = q[i]
<1> DEFINE id == AsString(At(q[i], "id"))
<1>1. ElementIDs(q) = [j \in 1..Len(q) |-> AsString(At(q[j], "id"))] /\ Len(ElementIDs(q)) = Len(q)
  BY IdsOf
<1> HIDE DEF id
<1>2. PICK j \in 1..Len(q) : Existing(q, id) = q[j] /\ AsString(At(q[j], "id")) = id
  BY ExistingIs DEF id
<1>3. ElementIDs(q)[i] = ElementIDs(q)[j]
  BY <1>1, <1>2 DEF id
<1>4. i = j
  BY <1>1, <1>3 DEF Distinct
<1> QED
  BY <1>2, <1>4 DEF id

\* After a list is written each element is what it reads as, and holds its item.
LEMMA ListHolds ==
  ASSUME NEW s \in DOMAIN Codec, NEW q, ElementsOf(q), Distinct(ElementIDs(q)), NEW items, Listable(s, items),
         NextElements(s, q, items) = q
  PROVE  /\ SelfRead(s, q)
         /\ \A j \in 1..Len(items) : HoldsAs(s, q, items[j])
         /\ s = "StaticRoutes" =>
              \A i, j \in 1..Len(q) : i < j =>
                ~RouteBefore(Decode(Codec[s].row, q[j]), Decode(Codec[s].row, q[i]))
<1> DEFINE order == WriteOrder(s, q, items)
           fields == Codec[s].fields
           read(i) == Decode(Codec[s].row, q[i])
<1>1. /\ Len(q) = Len(order) /\ Len(order) \in Nat
      /\ \A i \in 1..Len(order) : \E j \in 1..Len(items) :
           order[i] = Identity(s, items[j]) /\ q[i] = Encode(fields, items[j], Existing(q, order[i]))
      /\ \A i \in 1..Len(order) : AsString(At(q[i], "id")) = order[i]
  BY NextIs
<1>2. Listing(q) /\ Listing(items) /\ \A j \in 1..Len(items) : PlainItem(s, items[j])
  BY DEF ElementsOf, Listable
<1>3. Members(order) = Members(Identities(s, items))
  BY <1>2, WriteOrderIs
<1> HIDE DEF order, fields
<1>4. ASSUME NEW i \in 1..Len(q)
      PROVE  \E j \in 1..Len(items) :
               /\ AsString(At(q[i], "id")) = Identity(s, items[j]) /\ order[i] = Identity(s, items[j])
               /\ Encode(fields, items[j], q[i]) = q[i]
  <2>1. PICK j \in 1..Len(items) : order[i] = Identity(s, items[j]) /\ q[i] = Encode(fields, items[j], Existing(q, order[i]))
    BY <1>1
  <2>2. Existing(q, order[i]) = q[i]
    <3>1. AsString(At(q[i], "id")) = order[i]
      BY <1>1
    <3>2. Existing(q, AsString(At(q[i], "id"))) = q[i]
      BY <1>2, ExistingOne
    <3> QED
      BY <3>1, <3>2
  <2> QED
    BY <1>1, <2>1, <2>2
<1>5. SelfRead(s, q)
  <2> SUFFICES ASSUME NEW i \in 1..Len(q)
               PROVE  AsString(At(q[i], "id")) = Identity(s, read(i)) /\ Encode(fields, read(i), q[i]) = q[i]
    BY DEF SelfRead, fields
  <2>1. PICK j \in 1..Len(items) : AsString(At(q[i], "id")) = Identity(s, items[j]) /\ Encode(fields, items[j], q[i]) = q[i]
    BY <1>4
  <2>2. PlainItem(s, items[j]) /\ IsElement(q[i])
    BY <1>2 DEF ElementsOf
  <2>3. Identity(s, read(i)) = Identity(s, items[j])
    BY <2>1, <2>2, ReadsByName DEF fields
  <2>4. Reads(s, q[i], read(i))
    BY DecodedReads
  <2> HIDE DEF read
  <2>5. Encode(fields, read(i), q[i]) = q[i]
    BY <2>1, <2>2, <2>4, ElementItself DEF fields
  <2> QED
    BY <2>1, <2>3, <2>5
<1>6. ASSUME NEW j \in 1..Len(items) PROVE HoldsAs(s, q, items[j])
  <2>1. Identities(s, items) = [k \in 1..Len(items) |-> Identity(s, items[k])] /\ Len(Identities(s, items)) = Len(items)
    BY <1>2, IdentitiesOf
  <2>2. Identity(s, items[j]) \in Members(order)
    BY <1>3, <2>1 DEF Members
  <2>3. PICK i \in 1..Len(q) : order[i] = Identity(s, items[j])
    BY <1>1, <2>2 DEF Members
  <2>4. PICK k \in 1..Len(items) : /\ AsString(At(q[i], "id")) = Identity(s, items[k]) /\ order[i] = Identity(s, items[k])
                                   /\ Encode(fields, items[k], q[i]) = q[i]
    BY <1>4
  <2>5. k = j
    BY <2>3, <2>4, DistinctItems
  <2> QED
    BY <2>4, <2>5 DEF HoldsAs, fields
<1>7. ASSUME s = "StaticRoutes", NEW i \in 1..Len(q), NEW j \in 1..Len(q), i < j
      PROVE  ~RouteBefore(read(j), read(i))
  <2>1. PICK a \in 1..Len(items) : order[i] = Identity(s, items[a]) /\ Encode(fields, items[a], q[i]) = q[i]
    BY <1>4
  <2>2. PICK b \in 1..Len(items) : order[j] = Identity(s, items[b]) /\ Encode(fields, items[b], q[j]) = q[j]
    BY <1>4
  <2>3. ~RouteBefore(items[b], items[a])
    BY <1>1, <1>7, <2>1, <2>2, RoutesInOrder DEF order
  <2>4. \A k \in 1..Len(q) : \A x : PlainItem(s, x) /\ Encode(fields, x, q[k]) = q[k] =>
          \A f \in DOMAIN Codec[s].row : ReadsAs(Codec[s].row[f][3], read(k)[f], x[f])
    BY ReadsByName DEF fields
  <2> HIDE DEF read
  <2>5. \A f \in DOMAIN Codec[s].row : /\ ReadsAs(Codec[s].row[f][3], read(i)[f], items[a][f])
                                       /\ ReadsAs(Codec[s].row[f][3], read(j)[f], items[b][f])
    BY <1>2, <2>1, <2>2, <2>4
  <2>6. \A f \in {"Metric", "Network"} : read(i)[f] = items[a][f] /\ read(j)[f] = items[b][f]
    BY <1>7, <2>5, RouteRows DEF ReadsAs, Stored
  <2>7. /\ read(i).Metric = items[a].Metric /\ read(i).Network = items[a].Network
        /\ read(j).Metric = items[b].Metric /\ read(j).Network = items[b].Network
    BY <2>6
  <2> QED
    BY <2>3, <2>7 DEF RouteBefore, MetricOf
<1> QED
  BY <1>5, <1>6, <1>7

LEMMA Increasing ==
  ASSUME NEW n \in Nat, NEW p \in [1..n -> 1..n], \A i, j \in 1..n : i < j => p[i] < p[j]
  PROVE  \A i \in 1..n : p[i] = i
<1> DEFINE Up == {i \in Nat : i \in 1..n => p[i] >= i}
           Down == {k \in Nat : k < n => p[n - k] <= n - k}
<1>1. \A i \in Nat : i \in Up
  <2>1. 0 \in Up
    OBVIOUS
  <2>2. ASSUME NEW i \in Nat, i \in Up PROVE i + 1 \in Up
    <3>1. SUFFICES ASSUME i + 1 \in 1..n PROVE p[i + 1] >= i + 1
      OBVIOUS
    <3>2. CASE i = 0
      BY <3>1, <3>2
    <3>3. CASE i # 0
      <4>1. i \in 1..n /\ i < i + 1
        BY <3>1, <3>3
      <4>2. p[i] >= i /\ p[i] < p[i + 1] /\ p[i] \in Nat /\ p[i + 1] \in Nat
        BY <2>2, <3>1, <4>1
      <4> QED
        BY <4>2
    <3> QED
      BY <3>2, <3>3
  <2> HIDE DEF Up
  <2> QED
    BY <2>1, <2>2, NatInduct
<1>2. \A k \in Nat : k \in Down
  <2>1. 0 \in Down
    OBVIOUS
  <2>2. ASSUME NEW k \in Nat, k \in Down PROVE k + 1 \in Down
    <3>1. SUFFICES ASSUME k + 1 < n PROVE p[n - (k + 1)] <= n - (k + 1)
      OBVIOUS
    <3>2. n - k \in 1..n /\ n - (k + 1) \in 1..n /\ n - (k + 1) < n - k /\ k < n
      BY <3>1
    <3>3. p[n - k] <= n - k
      BY <2>2, <3>2
    <3>4. p[n - (k + 1)] < p[n - k] /\ p[n - k] \in Nat /\ p[n - (k + 1)] \in Nat
      BY <3>2
    <3> QED
      BY <3>2, <3>3, <3>4
  <2> HIDE DEF Down
  <2> QED
    BY <2>1, <2>2, NatInduct
<1>3. ASSUME NEW i \in 1..n PROVE p[i] = i
  <2>1. p[i] >= i
    BY <1>1
  <2>2. n - i \in Nat /\ n - i < n /\ n - (n - i) = i
    OBVIOUS
  <2>3. p[n - (n - i)] <= n - (n - i)
    BY <1>2, <2>2
  <2>4. p[i] \in Nat
    OBVIOUS
  <2> QED
    BY <2>1, <2>2, <2>3, <2>4
<1> QED
  BY <1>3

\* Routes that are in order stay as they are.
LEMMA SortedAlready ==
  ASSUME NEW items, Routes(items), \A i, j \in 1..Len(items) : i < j => ~RouteBefore(items[j], items[i])
  PROVE  SortedRoutes(items) = items
<1>2. PICK p : /\ p \in [1..Len(items) -> 1..Len(items)]
               /\ SortedRoutes(items) = [i \in 1..Len(items) |-> items[p[i]]]
               /\ \A i, j \in 1..Len(items) : i < j => First(items, p[i], p[j])
  BY SortedRoutesAre
<1> DEFINE n == Len(items)
<1>1. n \in Nat /\ items = [i \in 1..n |-> items[i]]
  BY DEF Routes, Listing
<1>3. \A i \in 1..n : ~RouteBefore(items[i], items[i])
  <2>1. \A i \in 1..n : MetricOf(items[i]) \in Int /\ Place(items[i].Network) \in Int /\ items[i].Network \in ToSet(Lexical)
    BY PlaceOf DEF Routes, MetricOf
  <2> QED
    BY <2>1, PlaceOf DEF RouteBefore
<1>4. \A i, j \in 1..n : First(items, i, j) => i < j
  <2>1. SUFFICES ASSUME NEW i \in 1..n, NEW j \in 1..n, RouteBefore(items[i], items[j]), ~(i < j) PROVE FALSE
    BY DEF First
  <2>2. j < i \/ j = i
    BY <1>1, <2>1
  <2> QED
    BY <1>3, <2>1, <2>2
<1>5. p \in [1..n -> 1..n] /\ \A i, j \in 1..n : i < j => p[i] < p[j]
  BY <1>2, <1>4
<1>8. SortedRoutes(items) = [i \in 1..n |-> items[p[i]]]
  BY <1>2
<1> HIDE DEF n
<1>6. \A i \in 1..n : p[i] = i
  BY <1>1, <1>5, Increasing
<1>7. [i \in 1..n |-> items[p[i]]] = [i \in 1..n |-> items[i]]
  BY <1>6
<1> QED
  BY <1>1, <1>7, <1>8

\* Items in the order of the elements, with their identities, are written in that order.
LEMMA SameOrder ==
  ASSUME NEW s \in DOMAIN Codec, NEW q, Listing(q), NEW items, Listable(s, items), Len(items) = Len(q),
         \A i \in 1..Len(q) : AsString(At(q[i], "id")) = Identity(s, items[i]),
         s = "StaticRoutes" => \A i, j \in 1..Len(q) : i < j => ~RouteBefore(items[j], items[i])
  PROVE  WriteOrder(s, q, items) = ElementIDs(q)
<1> DEFINE n == Len(q)
<1>1. n \in Nat /\ Listing(items)
  BY DEF Listing, Listable
<1>2. /\ ElementIDs(q) = [i \in 1..n |-> AsString(At(q[i], "id"))]
      /\ Listing(ElementIDs(q))
  BY IdsOf
<1>3. /\ Identities(s, items) = [i \in 1..n |-> Identity(s, items[i])] /\ Listing(Identities(s, items))
  BY <1>1, IdentitiesOf
<1>4. Identities(s, items) = ElementIDs(q)
  BY <1>2, <1>3
<1>5. CASE s = "StaticRoutes"
  <2>1. SortedRoutes(items) = items
    <3>1. Routes(items)
      BY <1>5, ListableRoutes
    <3> QED
      BY <1>5, <3>1, SortedAlready
  <2> QED
    BY <1>4, <1>5, <2>1, OrderKinds DEF WriteOrder
<1>6. CASE s = "FirewallRules"
  BY <1>4, <1>6, OrderKinds DEF WriteOrder
<1>7. CASE s # "StaticRoutes" /\ s # "FirewallRules"
  <2>1. Codec[s].order = "kept"
    BY <1>7, OrderKinds
  <2>2. WriteOrder(s, q, items) = StableOrder(ElementIDs(q), Identities(s, items))
    BY <2>1 DEF WriteOrder
  <2> QED
    BY <1>2, <1>3, <1>4, <2>2, StableOrderIs
<1> QED
  BY <1>5, <1>6, <1>7

\* A list each of whose elements its item leaves as it is, in the items' order, is not changed.
LEMMA ListStays ==
  ASSUME NEW s \in DOMAIN Codec, NEW q, ElementsOf(q), Distinct(ElementIDs(q)), NEW items, Listable(s, items),
         WriteOrder(s, q, items) = ElementIDs(q), \A j \in 1..Len(items) : HoldsAs(s, q, items[j])
  PROVE  NextElements(s, q, items) = q
<1> DEFINE order == WriteOrder(s, q, items)
           next == NextElements(s, q, items)
           fields == Codec[s].fields
<1>1. Listing(q) /\ Listing(items) /\ Len(q) \in Nat
  BY DEF ElementsOf, Listable, Listing
<1>2. order = [i \in 1..Len(q) |-> AsString(At(q[i], "id"))] /\ Len(order) = Len(q)
  BY <1>1, IdsOf
<1>3. /\ Listing(next) /\ Len(next) = Len(order)
      /\ \A i \in 1..Len(order) : \E j \in 1..Len(items) :
           order[i] = Identity(s, items[j]) /\ next[i] = Encode(fields, items[j], Existing(q, order[i]))
  BY NextIs
<1> HIDE DEF next, order, fields
<1>4. ASSUME NEW i \in 1..Len(q) PROVE next[i] = q[i]
  <2>1. PICK j \in 1..Len(items) : order[i] = Identity(s, items[j]) /\ next[i] = Encode(fields, items[j], Existing(q, order[i]))
    BY <1>2, <1>3
  <2>2. order[i] = AsString(At(q[i], "id"))
    BY <1>2
  <2>3. Existing(q, order[i]) = q[i]
    BY <1>1, <2>2, ExistingOne
  <2>4. PICK k \in 1..Len(q) : AsString(At(q[k], "id")) = Identity(s, items[j]) /\ Encode(fields, items[j], q[k]) = q[k]
    BY DEF HoldsAs, fields
  <2>5. k = i
    <3>1. Existing(q, AsString(At(q[k], "id"))) = q[k] /\ AsString(At(q[k], "id")) = order[i]
      BY <1>1, <2>1, <2>4, ExistingOne
    <3>2. order[k] = order[i] /\ Len(order) = Len(q)
      BY <1>2, <2>2, <3>1
    <3>3. Distinct(order)
      BY DEF order
    <3> QED
      BY <3>2, <3>3 DEF Distinct
  <2> QED
    BY <2>1, <2>3, <2>4, <2>5
<1>5. next = [i \in 1..Len(q) |-> next[i]] /\ q = [i \in 1..Len(q) |-> q[i]]
  BY <1>1, <1>2, <1>3 DEF Listing
<1>6. [i \in 1..Len(q) |-> next[i]] = [i \in 1..Len(q) |-> q[i]]
  BY <1>4
<1> QED
  BY <1>5, <1>6 DEF next

\* An element that is what it reads as is left as it is where that is written.
LEMMA HoldsStill ==
  ASSUME NEW s \in DOMAIN Codec, NEW q, ElementsOf(q), Distinct(ElementIDs(q)), SelfRead(s, q),
         NEW items, Listable(s, items), NEW x, HoldsAs(s, q, x),
         \A i \in 1..Len(q) : AsString(At(q[i], "id")) = Identity(s, x) =>
           \E j \in 1..Len(items) : items[j] = Decode(Codec[s].row, q[i])
  PROVE  HoldsAs(s, NextElements(s, q, items), x)
<1> DEFINE order == WriteOrder(s, q, items)
           next == NextElements(s, q, items)
           fields == Codec[s].fields
<1>1. Listing(q) /\ Listing(items)
  BY DEF ElementsOf, Listable
<1>2. PICK i \in 1..Len(q) : AsString(At(q[i], "id")) = Identity(s, x) /\ Encode(fields, x, q[i]) = q[i]
  BY DEF HoldsAs
<1>3. PICK j \in 1..Len(items) : items[j] = Decode(Codec[s].row, q[i])
  BY <1>2
<1>4. /\ Listing(next) /\ Len(next) = Len(order)
      /\ \A k \in 1..Len(order) : \E a \in 1..Len(items) :
           order[k] = Identity(s, items[a]) /\ next[k] = Encode(fields, items[a], Existing(q, order[k]))
      /\ \A k \in 1..Len(order) : AsString(At(next[k], "id")) = order[k]
  BY NextIs
<1>5. Members(order) = Members(Identities(s, items))
  BY <1>1, WriteOrderIs
<1>6. Identities(s, items) = [k \in 1..Len(items) |-> Identity(s, items[k])] /\ Len(Identities(s, items)) = Len(items)
  BY <1>1, IdentitiesOf
<1> HIDE DEF next, order
<1>7. AsString(At(q[i], "id")) = Identity(s, items[j]) /\ Encode(fields, items[j], q[i]) = q[i]
  BY <1>3 DEF SelfRead
<1> HIDE DEF fields
<1>8. PICK k \in 1..Len(order) : order[k] = Identity(s, items[j])
  <2>1. Identity(s, items[j]) \in Members(order)
    BY <1>5, <1>6 DEF Members
  <2> QED
    BY <2>1 DEF Members
<1>9. PICK a \in 1..Len(items) : order[k] = Identity(s, items[a]) /\ next[k] = Encode(fields, items[a], Existing(q, order[k]))
  BY <1>4
<1>10. a = j
  BY <1>8, <1>9, DistinctItems
<1>11. Existing(q, order[k]) = q[i]
  <2>1. Existing(q, AsString(At(q[i], "id"))) = q[i]
    BY <1>1, ExistingOne
  <2> QED
    BY <1>7, <1>8, <2>1
<1>12. next[k] = q[i] /\ k \in 1..Len(next) /\ AsString(At(next[k], "id")) = Identity(s, x)
  BY <1>2, <1>4, <1>7, <1>8, <1>9, <1>10, <1>11
<1>13. Encode(fields, x, next[k]) = next[k]
  BY <1>2, <1>12
<1> QED
  BY <1>12, <1>13 DEF HoldsAs, next, fields

-----------------------------------------------------------------------------
(* Lists without repetitions, and the sets they come from.                   *)

Once(q) == \A x \in ToSet(q) : Cardinality({i \in DOMAIN q : q[i] = x}) = 1

LEMMA OnceIsDistinct ==
  ASSUME NEW q, Listing(q)
  PROVE  Distinct(q) <=> Once(q)
<1>1. DOMAIN q = 1..Len(q) /\ Len(q) \in Nat
  BY ListingDomain DEF Listing
<1> DEFINE at(x) == {i \in DOMAIN q : q[i] = x}
<1>2. \A x : IsFiniteSet(at(x))
  <2> TAKE x
  <2>1. at(x) \subseteq 1..Len(q)
    BY <1>1
  <2>2. IsFiniteSet(1..Len(q))
    BY <1>1, FS_Interval
  <2> HIDE DEF at
  <2> QED
    BY <2>1, <2>2, FS_Subset
<1>3. \A i \in 1..Len(q) : q[i] \in ToSet(q) /\ i \in at(q[i])
  BY <1>1 DEF ToSet
<1>4. \A x \in ToSet(q) : \E i \in 1..Len(q) : q[i] = x
  BY <1>1 DEF ToSet
<1>5. ASSUME Distinct(q), NEW x \in ToSet(q) PROVE Cardinality(at(x)) = 1
  <2>1. PICK i \in 1..Len(q) : q[i] = x
    BY <1>4, <1>5
  <2>2. at(x) = {i}
    BY <1>1, <1>5, <2>1 DEF Distinct
  <2> HIDE DEF at
  <2> QED
    BY <2>2, FS_Singleton
<1>6. ASSUME \A x \in ToSet(q) : Cardinality(at(x)) = 1, NEW i \in 1..Len(q), NEW j \in 1..Len(q), q[i] = q[j] PROVE i = j
  <2>1. i \in at(q[i]) /\ j \in at(q[i]) /\ q[i] \in ToSet(q)
    BY <1>3, <1>6
  <2> HIDE DEF at
  <2>2. PICK x : at(q[i]) = {x}
    BY <1>2, <1>6, <2>1, FS_Singleton
  <2> QED
    BY <2>1, <2>2
<1>7. Once(q) <=> \A x \in ToSet(q) : Cardinality(at(x)) = 1
  BY DEF Once
<1> HIDE DEF at
<1>8. Distinct(q) => Once(q)
  BY <1>5, <1>7
<1>9. Once(q) => Distinct(q)
  BY <1>6, <1>7 DEF Distinct
<1> QED
  BY <1>8, <1>9

LEMMA DistinctBySame ==
  ASSUME NEW a, NEW b, Listing(a), Listing(b), SameMembers(a, b) \/ SameMembers(b, a), Distinct(b)
  PROVE  Distinct(a)
<1>1. ToSet(a) = ToSet(b)
  BY SameSets
<1>2. Once(b)
  BY OnceIsDistinct
<1>3. Once(a)
  BY <1>1, <1>2 DEF Once, SameMembers
<1> QED
  BY <1>3, OnceIsDistinct

LEMMA SameByMembers ==
  ASSUME NEW a, NEW b, Listing(a), Listing(b), Distinct(a), Distinct(b), ToSet(a) = ToSet(b)
  PROVE  SameMembers(a, b)
<1>1. Once(a) /\ Once(b)
  BY OnceIsDistinct
<1>2. Len(a) = Len(b)
  <2>1. Members(a) = ToSet(a) /\ Members(b) = ToSet(b)
    BY ListingDomain DEF Members, ToSet
  <2> QED
    BY <2>1, SameMembersSameLength
<1>3. \A x \in ToSet(a) : Cardinality({i \in DOMAIN a : a[i] = x}) = 1
  BY <1>1 DEF Once
<1>4. \A x \in ToSet(b) : Cardinality({i \in DOMAIN b : b[i] = x}) = 1
  BY <1>1 DEF Once
<1> QED
  BY <1>2, <1>3, <1>4 DEF SameMembers

\* A set as a list has each member once.
LEMMA SetListed ==
  ASSUME NEW S, IsFiniteSet(S)
  PROVE  Listing(SetToSeq(S)) /\ Distinct(SetToSeq(S)) /\ ToSet(SetToSeq(S)) = S
<1> DEFINE q == SetToSeq(S)
           n == Cardinality(S)
<1>1. n \in Nat /\ q \in [1..n -> S] /\ Len(q) = n
      /\ (\A i, j \in 1..n : q[i] = q[j] => i = j) /\ \A y \in S : \E i \in 1..n : q[i] = y
  BY SetToSeqLists
<1>2. DOMAIN q = 1..n /\ q = [i \in DOMAIN q |-> q[i]]
  BY <1>1
<1> HIDE DEF q, n
<1>3. Listing(q)
  BY <1>1, <1>2, ListingOf
<1>4. Distinct(q)
  BY <1>1 DEF Distinct
<1>5. ToSet(q) = S
  BY <1>1, <1>2 DEF ToSet
<1> QED
  BY <1>3, <1>4, <1>5 DEF q

LEMMA MembersFinite ==
  ASSUME NEW x, Listing(x)
  PROVE  IsFiniteSet(ToSet(x))
<1>1. DOMAIN x = 1..Len(x) /\ Len(x) \in Nat
  BY ListingDomain DEF Listing
<1>2. ToSet(x) = {x[i] : i \in DOMAIN x}
  BY DEF ToSet
<1>3. IsFiniteSet(DOMAIN x)
  BY <1>1, FS_Interval
<1> QED
  BY <1>2, <1>3, FiniteImage

\* What is stored of a set, recorded and made a list again, is the same set.
LEMMA SetReturns ==
  ASSUME NEW x, Listing(x), Distinct(x), NEW mk \in {"set", "someset"}
  PROVE  LET q == DomainValue(mk, ModelValue(mk, x)) IN Listing(q) /\ Distinct(q) /\ SameMembers(x, q)
<1> DEFINE q == DomainValue(mk, ModelValue(mk, x))
<1>1. q = SetToSeq(ToSet(x))
  <2>1. CASE mk = "set"
    BY <2>1 DEF DomainValue, ModelValue
  <2>2. CASE mk = "someset" /\ x # <<>>
    BY <2>2 DEF DomainValue, ModelValue, Value
  <2>3. CASE mk = "someset" /\ x = <<>>
    <3>1. ToSet(x) = {}
      BY <2>3 DEF ToSet
    <3> QED
      BY <2>3, <3>1 DEF DomainValue, ModelValue, Value
  <2> QED
    BY <2>1, <2>2, <2>3
<1>2. Listing(q) /\ Distinct(q) /\ ToSet(q) = ToSet(x)
  <2>1. IsFiniteSet(ToSet(x))
    BY MembersFinite
  <2> QED
    BY <1>1, <2>1, SetListed
<1> HIDE DEF q
<1> QED
  BY <1>2, SameByMembers DEF q

-----------------------------------------------------------------------------
(* What a section holds as it was written, whoever writes it again.          *)

\* The address a client's record shows.
IPShown(d, c) == ClientEdit(Record(d, c))["ip"]
\* The sets of an item have each member once.
Unrepeated(s, x) ==
  /\ s \in DOMAIN Codec => \A f \in DOMAIN Codec[s].row : Codec[s].row[f][3] = "set" => Distinct(x[f])
  /\ s = "SwitchPorts" => Distinct(x.TaggedVLANs)
\* Writing x leaves what the cloud holds of it as it is.
PortFixed(device, x) ==
  LET port == At(PortsOf(device), Key(x)) IN PortOver(port, x) = port /\ Rooted(device, PortPath(Key(x)))
Fixed(s, d, x) ==
  /\ s \in DOMAIN Codec => HoldsAs(s, Elements(Codec[s].path, d.site), x)
  /\ s = "SwitchPorts" => PortFixed(d.device, x)
  /\ s = "DHCPReservations" => LET v == IPShown(d, ClientOf[x.MAC]) IN IPOver(v, x.IP) = v
\* Writing what the section reads leaves it as it is.
InOrder(q) ==
  LET row == Codec["StaticRoutes"].row
  IN \A i, j \in 1..Len(q) : i < j => ~RouteBefore(Decode(row, q[j]), Decode(row, q[i]))
Settles(s, d) ==
  /\ s \in DOMAIN Codec => Standing(s, d.site) /\ SelfRead(s, Elements(Codec[s].path, d.site))
  /\ s = "StaticRoutes" => InOrder(Elements(Codec[s].path, d.site))
  /\ s = "SwitchPorts" => \A x \in ToSet(ReadSwitchPorts(d.device)) : PortFixed(d.device, x)
  /\ s = "DHCPReservations" => \A c \in DOMAIN MACOf : AsString(IPShown(d, c)) = "" => IPShown(d, c) = Null

LEMMA WantedUnrepeated ==
  ASSUME NEW s \in ToSet(Sections), NEW m, FiniteSets(s, m), NEW id
  PROVE  Unrepeated(s, DomainItem(s, id, m))
<1> DEFINE k == ModelOf(s)
           x == DomainItem(s, id, m)
<1>1. ASSUME NEW f \in DOMAIN k, f # IdentityField(s), k[f] \in {"set", "someset"} PROVE Distinct(x[f])
  <2>1. x[f] = DomainValue(k[f], m[f])
    BY <1>1, ItemFields DEF DomainItem
  <2> HIDE DEF x, k
  <2>2. CASE k[f] = "set"
    <3>1. IsFiniteSet(m[f])
      BY <1>1, <2>2 DEF FiniteSets, k
    <3> QED
      BY <2>1, <2>2, <3>1, SetListed DEF DomainValue
  <2>3. CASE k[f] = "someset"
    <3>1. IsFiniteSet(Value(m[f], {}))
      BY <1>1, <2>3 DEF FiniteSets, k
    <3> QED
      BY <2>1, <2>3, <3>1, SetListed DEF DomainValue
  <2> QED
    BY <1>1, <2>2, <2>3
<1>2. ASSUME s \in DOMAIN Codec, NEW f \in DOMAIN Codec[s].row, Codec[s].row[f][3] = "set" PROVE Distinct(x[f])
  <2>1. f # "ID" /\ IdentityField(s) = "ID"
    <3>1. "ID" \in DOMAIN Codec[s].row /\ Codec[s].row["ID"][3] # "set"
      BY <1>2, RowKinds
    <3> QED
      BY <1>2, <3>1, RowKinds
  <2>2. f \in DOMAIN k /\ <<Codec[s].row[f][3], k[f]>> \in Attributes
    BY <1>2, <2>1, RowKinds
  <2>3. k[f] \in {"set", "someset"}
    BY <1>2, <2>2 DEF Attributes
  <2> HIDE DEF x, k
  <2> QED
    BY <1>1, <2>1, <2>2, <2>3
<1>3. ASSUME s = "SwitchPorts" PROVE Distinct(x.TaggedVLANs)
  <2>1. "TaggedVLANs" \in DOMAIN k /\ k["TaggedVLANs"] = "someset" /\ IdentityField(s) = "Port"
    BY <1>3 DEF ModelOf, SwitchPortModel, IdentityField
  <2> HIDE DEF k, x
  <2> QED
    BY <1>1, <2>1
<1> HIDE DEF x
<1> QED
  BY <1>2, <1>3 DEF Unrepeated, x

\* An element that an item without repetitions leaves as it is, is left so by what its state
\* records of it.
LEMMA RecordedElement ==
  ASSUME NEW s \in DOMAIN Codec, NEW e, IsElement(e), NEW y, PlainItem(s, y), Unrepeated(s, y),
         Encode(Codec[s].fields, y, e) = e, NEW x, x = Decode(Codec[s].row, e),
         NEW z, z["ID"] = x["ID"],
         \A f \in DOMAIN ModelOf(s) : f # "ID" => z[f] = DomainValue(ModelOf(s)[f], ModelValue(ModelOf(s)[f], x[f]))
  PROVE  Encode(Codec[s].fields, z, e) = e /\ Unrepeated(s, z)
<1> DEFINE row == Codec[s].row
           k == ModelOf(s)
<1>0. PlainItem(s, x)
  BY DecodedItem
<1>1. ASSUME NEW f \in DOMAIN row, row[f][3] = "set"
      PROVE  Distinct(z[f]) /\ SameMembers(x[f], z[f])
  <2>1. f # "ID"
    <3>1. "ID" \in DOMAIN row /\ row["ID"][3] # "set"
      BY RowKinds
    <3> QED
      BY <1>1, <3>1
  <2>2. f \in DOMAIN k /\ <<row[f][3], k[f]>> \in Attributes
    BY <1>1, <2>1, RowKinds
  <2>3. k[f] \in {"set", "someset"}
    BY <1>1, <2>2 DEF Attributes
  <2>4. Listing(x[f]) /\ Listing(y[f])
    BY <1>0, <1>1 DEF PlainItem, Plain
  <2>5. Distinct(y[f])
    BY <1>1 DEF Unrepeated
  <2>6. ReadsAs(row[f][3], x[f], y[f])
    BY <1>1, ReadsByName
  <2>7. x[f] = y[f] \/ SameMembers(x[f], y[f])
    BY <1>1, <2>6 DEF ReadsAs, Stored
  <2>8. Distinct(x[f])
    BY <2>4, <2>5, <2>7, DistinctBySame
  <2>9. z[f] = DomainValue(k[f], ModelValue(k[f], x[f]))
    BY <2>1, <2>2
  <2> QED
    BY <2>3, <2>4, <2>8, <2>9, SetReturns
<1>2. ASSUME NEW f \in DOMAIN row, row[f][3] # "set"
      PROVE  z[f] = x[f]
  <2>1. CASE f = "ID"
    BY <2>1
  <2>2. CASE f # "ID"
    <3>1. f \in DOMAIN k /\ <<row[f][3], k[f]>> \in Attributes
      BY <1>2, <2>2, RowKinds
    <3>2. Plain(row[f][3], x[f])
      BY <1>0, <1>2 DEF PlainItem
    <3>3. z[f] = DomainValue(k[f], ModelValue(k[f], x[f]))
      BY <2>2, <3>1
    <3> HIDE DEF row, k
    <3> QED
      BY <1>2, <3>1, <3>2, <3>3, ValueReturns
  <2> QED
    BY <2>1, <2>2
<1>3. \A f \in DOMAIN row : x[f] = DecodeField(e, row[f][2], row[f][3])
  BY DEF Decode
<1>4. Reads(s, e, z)
  <2> HIDE DEF row, k
  <2> QED
    BY <1>1, <1>2, <1>3 DEF Reads, row
<1>5. Encode(Codec[s].fields, z, e) = e
  BY <1>4, ElementItself
<1>6. s # "SwitchPorts"
  BY DEF Codec
<1> QED
  BY <1>1, <1>5, <1>6 DEF Unrepeated

-----------------------------------------------------------------------------
(* A port that writing it leaves as it is.                                   *)

\* A port that some item leaves as it is, is left so by what it reads as.
LEMMA PortItself ==
  ASSUME NEW o, IsPort(o), NEW sp, PlainPort(sp), PortOver(o, sp) = o,
         NEW z, z.NativeVLAN = AsInt(At(o, "vlan")), z.AllVLANs = AsFlag(At(At(o, "allowedVlans"), "all")),
         Listing(z.TaggedVLANs),
         LET q == AsInts(At(At(o, "allowedVlans"), "list")) IN q = z.TaggedVLANs \/ SameMembers(q, z.TaggedVLANs)
  PROVE  PortOver(o, z) = o
<1> DEFINE k == "allowedVlans"
           L == At(At(o, k), "list")
           q == AsInts(L)
           port == PutInt(Obj(Fields(o)), "vlan", sp.NativeVLAN)
           child == Child(port, k)
           flagged == PutFlag(child, "all", sp.AllVLANs)
           S == sp.TaggedVLANs
           T == z.TaggedVLANs
           v == PutIntSet(flagged, "list", S)
<1>1. SamePort(PortAs(sp.Port, o), sp)
  BY PortOverReads
<1>2. /\ z.NativeVLAN = sp.NativeVLAN /\ z.AllVLANs = sp.AllVLANs
      /\ q = S \/ SameMembers(q, S)
  BY <1>1 DEF SamePort, PortAs
<1>3. o = PruneEmpty(With(port, k, v), k)
  BY DEF PortOver, VLANsOver
<1>4. PortOver(o, z) = PruneEmpty(With(port, k, PutIntSet(flagged, "list", T)), k)
  BY <1>2 DEF PortOver, VLANsOver
<1>5. At(flagged, "list") = L
  <2>1. At(port, k) = At(Obj(Fields(o)), k)
    BY PutsOne, PutsLeavesOthers DEF Agree
  <2>2. At(port, k) = At(o, k)
    BY <2>1, FieldsObj DEF At
  <2>3. At(child, "list") = L
    <3> HIDE DEF port
    <3> QED
      BY <2>2, FieldsObj DEF Child, At
  <2> HIDE DEF child
  <2>4. At(flagged, "list") = At(child, "list")
    BY PutsOne, PutsLeavesOthers DEF Agree
  <2> QED
    BY <2>3, <2>4
<1>6. At(v, "list") = L
  <2> HIDE DEF v, port
  <2>1. At(o, k) = IF v = EmptyObj THEN Null ELSE v
    BY <1>3, AtPruned, AtWith
  <2>2. \A j : At(EmptyObj, j) = Null /\ At(Null, j) = Null
    BY DEF At, EmptyObj, Fields, Obj, Null
  <2> QED
    BY <2>1, <2>2
<1>7. Listing(S) /\ IntList(S) /\ Listing(T) /\ (q = T \/ SameMembers(q, T))
  BY DEF PlainPort, IntList
<1>8. PutIntSet(flagged, "list", T) = v
  <2> HIDE DEF q, L, flagged, S, T
  <2>1. CASE S = <<>>
    <3>1. q = <<>> \/ Len(q) = 0
      BY <1>2, <2>1 DEF SameMembers
    <3>2. Len(T) = 0
      BY <1>7, <3>1 DEF SameMembers
    <3>3. T = <<>>
      BY <1>7, <3>2 DEF Listing
    <3> QED
      BY <2>1, <3>3 DEF v
  <2>2. CASE S # <<>>
    <3>0. Len(S) # 0
      BY <1>7, <2>2 DEF Listing
    <3>1. AllInts(L) /\ (AsInts(L) = S \/ SameMembers(AsInts(L), S))
      BY <1>6, <1>7, IntSetReads DEF v
    <3>2. SameMembers(AsInts(L), S)
      BY <3>1 DEF SameMembers
    <3>3. v = flagged
      BY <1>5, <2>2, <3>1, <3>2 DEF v, PutIntSet
    <3>4. SameMembers(AsInts(L), T)
      BY <1>7 DEF q, SameMembers
    <3>5. T # <<>>
      <4>1. Len(S) = Len(T)
        BY <3>2, <3>4 DEF SameMembers
      <4>2. Len(<<>>) = 0
        OBVIOUS
      <4> QED
        BY <3>0, <4>1, <4>2
    <3> QED
      BY <1>5, <3>1, <3>3, <3>4, <3>5 DEF PutIntSet
  <2> QED
    BY <2>1, <2>2
<1> QED
  BY <1>3, <1>4, <1>8

\* A port that is as it was written is one that is read.
LEMMA RootedIsRead ==
  ASSUME NEW device, IsFiniteSet(DOMAIN Fields(PortsOf(device))), NEW n \in Numbers, Rooted(device, PortPath(ToString(n)))
  PROVE  PortAs(n, At(PortsOf(device), ToString(n))) \in ToSet(ReadSwitchPorts(device))
<1> DEFINE t == ToString(n)
           path == PortPath(t)
<1>1. Len(path) = 3 /\ path[3] = t /\ Prefix(path, 2) = PortsPath
  BY PortPathIs
<1>2. t \in DOMAIN Fields(PortsOf(device))
  <2>1. 3 \in 1..Len(path) /\ 3 - 1 = 2
    <3> HIDE DEF path
    <3> QED
      BY <1>1
  <2>2. path[3] \in DOMAIN Fields(Node(device, Prefix(path, 3 - 1)))
    BY <2>1 DEF Rooted
  <2> HIDE DEF path, t
  <2> QED
    BY <1>1, <2>1, <2>2 DEF PortsOf
<1>3. t \in DOMAIN Decimal /\ Decimal[t] = n
  BY KeyOfPort
<1>4. n \in PortNumbers(device)
  <2> HIDE DEF t
  <2> QED
    BY <1>2, <1>3 DEF PortNumbers
<1>5. PICK m, p :
        /\ m \in Nat
        /\ ReadSwitchPorts(device) = [i \in 1..m |-> PortAs(p[i], At(PortsOf(device), ToString(p[i])))]
        /\ \A j \in PortNumbers(device) : \E i \in 1..m : p[i] = j
  <2>1. \E m \in Nat : \E p :
           /\ ReadSwitchPorts(device) = [i \in 1..m |-> PortAs(p[i], At(PortsOf(device), ToString(p[i])))]
           /\ p \in [1..m -> PortNumbers(device)]
           /\ \A j \in PortNumbers(device) : \E i \in 1..m : p[i] = j
           /\ \A i, j \in 1..m : i < j => p[i] < p[j]
    BY PortsRead
  <2> QED
    BY <2>1
<1>6. PICK i \in 1..m : p[i] = n
  BY <1>4, <1>5
<1>7. DOMAIN ReadSwitchPorts(device) = 1..m /\ ReadSwitchPorts(device)[i] = PortAs(n, At(PortsOf(device), ToString(n)))
  BY <1>5, <1>6
<1> QED
  BY <1>6, <1>7 DEF ToSet

\* Of each port that is read, its key and its object.
LEMMA ReadPortIs ==
  ASSUME NEW device, IsFiniteSet(DOMAIN Fields(PortsOf(device))), NEW x \in ToSet(ReadSwitchPorts(device))
  PROVE  x.Port \in Numbers /\ x = PortAs(x.Port, At(PortsOf(device), Key(x)))
<1>5. PICK m, p :
        /\ m \in Nat
        /\ ReadSwitchPorts(device) = [i \in 1..m |-> PortAs(p[i], At(PortsOf(device), ToString(p[i])))]
        /\ p \in [1..m -> PortNumbers(device)]
  BY PortsRead
<1>6. PICK i \in 1..m : x = PortAs(p[i], At(PortsOf(device), ToString(p[i])))
  BY <1>5 DEF ToSet
<1>7. x.Port = p[i]
  BY <1>6 DEF PortAs
<1>8. p[i] \in Numbers
  BY <1>5, <1>6 DEF PortNumbers, Numbers
<1> QED
  BY <1>6, <1>7, <1>8 DEF Key

\* A device that says the same holds its ports as they are.
LEMMA PortFixedSame ==
  ASSUME NEW device, NEW other, \A k : At(device, k) = At(other, k), IsObj(other) \/ other = Null,
         NEW x, PlainPort(x), PortFixed(device, x)
  PROVE  PortFixed(other, x)
<1> DEFINE items == <<x>>
<1>1. Len(items) = 1 /\ items[1] = x /\ Listing(items) /\ 1 \in 1..Len(items)
  BY DEF Listing
<1> HIDE DEF items
<1>2. \A j \in 1..Len(items) : j = 1
  BY <1>1
<1>3. Plugged(items)
  BY <1>1, <1>2 DEF Plugged
<1>4. PortsSettled(device, items)
  BY <1>1, <1>2 DEF PortsSettled, PortFixed
<1>5. PortsSettled(other, items)
  BY <1>3, <1>4, PortsSettledSame
<1>6. LET port == At(PortsOf(other), Key(items[1])) IN PortOver(port, items[1]) = port /\ Rooted(other, PortPath(Key(items[1])))
  BY <1>1, <1>5 DEF PortsSettled
<1> QED
  BY <1>1, <1>6 DEF PortFixed

-----------------------------------------------------------------------------
(* A document that says the same of every key.                               *)

LEMMA StandingSame ==
  ASSUME NEW s \in DOMAIN Codec, NEW root, NEW other, IsObj(other), \A k : At(root, k) = At(other, k),
         Standing(s, root)
  PROVE  Standing(s, other) /\ Elements(Codec[s].path, other) = Elements(Codec[s].path, root)
<1> DEFINE path == Codec[s].path
           front == Front(path)
           q == Elements(path, root)
<1>1. Len(path) \in Nat /\ Len(path) # 0 /\ front = Prefix(path, Len(path) - 1) /\ Len(front) \in Nat
  BY Paths, PrefixOf
<1>2. Node(other, path) = Node(root, path)
  <2>1. Len(path) \in Nat \ {0}
    BY <1>1
  <2> HIDE DEF path
  <2> QED
    BY <2>1, NodeSame
<1>3. Elements(path, other) = q
  BY <1>2 DEF Elements
<1>4. ASSUME q = <<>>, Node(root, path) = Null, Rooted(root, front), Whole(Node(root, front))
      PROVE  Standing(s, other)
  <2>1. Node(root, front)[1] = "obj"
    BY <1>4 DEF Whole, Obj
  <2>2. Node(root, front) # Null
    BY <2>1, NullIsNoObj
  <2>3. Rooted(other, front)
    <3> HIDE DEF front
    <3> QED
      BY <1>1, <1>4, <2>2, RootedSame
  <2>4. Whole(Node(other, front))
    <3>1. CASE Len(front) = 0
      <4>1. Node(other, front) = other
        <5> HIDE DEF front
        <5> QED
          BY <1>1, <3>1, NodeRuns
      <4>2. Whole(other)
        BY FieldsObj DEF IsObj, Whole
      <4> QED
        BY <4>1, <4>2
    <3>2. CASE Len(front) # 0
      <4>1. Node(other, front) = Node(root, front)
        <5> HIDE DEF front
        <5> QED
          BY <1>1, <3>2, NodeSame
      <4> QED
        BY <1>4, <4>1
    <3> QED
      BY <3>1, <3>2
  <2> HIDE DEF q
  <2> QED
    BY <1>2, <1>3, <1>4, <2>3, <2>4 DEF Standing
<1>5. ASSUME Rooted(root, path), Node(root, path) = List(q)
      PROVE  Standing(s, other)
  <2>1. List(q) # Null
    BY Tags
  <2>2. Rooted(other, path)
    <3> HIDE DEF path, q
    <3> QED
      BY <1>1, <1>5, <2>1, RootedSame
  <2> HIDE DEF q
  <2> QED
    BY <1>2, <1>3, <1>5, <2>2 DEF Standing
<1>6. \/ q = <<>> /\ Node(root, path) = Null /\ Rooted(root, front) /\ Whole(Node(root, front))
      \/ Rooted(root, path) /\ Node(root, path) = List(q)
  BY DEF Standing
<1> QED
  <2> HIDE DEF path, front
  <2>1. Standing(s, other)
    BY <1>4, <1>5, <1>6
  <2> QED
    BY <1>3, <2>1 DEF path

\* The parts of a regular document.
LEMMA RegularIs ==
  ASSUME NEW d, Regular(d)
  PROVE  /\ IsObj(d.site) /\ (IsObj(d.device) \/ d.device = Null)
         /\ IsFiniteSet(DOMAIN Fields(PortsOf(d.device)))
         /\ \A k : IsPort(At(PortsOf(d.device), k))
         /\ \A s \in DOMAIN Codec : HoldsElements(s, d.site) /\ Numbered(s, d.site)
         /\ DOMAIN d.clients \subseteq DOMAIN MACOf
<1>1. Ready(d)
  BY DEF Regular
<1>2. \A k : IsPort(At(PortsOf(d.device), k))
  BY <1>1, DevicePorts DEF Ready
<1> QED
  BY <1>1, <1>2 DEF Regular, Ready, IsDocument, PortsOf

LEMMA SettlesSame ==
  ASSUME NEW d, Regular(d), NEW e, Regular(e), \A kind \in Kinds : \A key : Says(d, kind, key) = Says(e, kind, key),
         NEW s \in ToSet(Sections), Settles(s, d)
  PROVE  Settles(s, e)
<1>1. /\ \A k : At(d.site, k) = At(e.site, k)
      /\ \A k : At(d.device, k) = At(e.device, k)
      /\ \A c : ClientEdit(Record(d, c)) = ClientEdit(Record(e, c))
  BY SaysSame
<1>2. IsObj(e.site) /\ (IsObj(e.device) \/ e.device = Null)
  BY RegularIs
<1>3. s \in DOMAIN Codec => /\ Standing(s, e.site) /\ Elements(Codec[s].path, e.site) = Elements(Codec[s].path, d.site)
                            /\ SelfRead(s, Elements(Codec[s].path, d.site))
  BY <1>1, <1>2, StandingSame DEF Settles
<1>4. ASSUME s = "SwitchPorts" PROVE \A x \in ToSet(ReadSwitchPorts(e.device)) : PortFixed(e.device, x)
  <2>1. ReadSwitchPorts(e.device) = ReadSwitchPorts(d.device)
    BY <1>1, PortsReadSame
  <2>2. \A x \in ToSet(ReadSwitchPorts(d.device)) : PortFixed(d.device, x) /\ PlainPort(x)
    <3>1. IsFiniteSet(DOMAIN Fields(PortsOf(d.device))) /\ \A k : IsPort(At(PortsOf(d.device), k))
      BY RegularIs
    <3>2. \A x \in ToSet(ReadSwitchPorts(d.device)) : PlainPort(x)
      BY <3>1, ReadPortIs, PortIsPlain
    <3> QED
      BY <1>4, <3>2 DEF Settles
  <2> QED
    BY <1>1, <1>2, <2>1, <2>2, PortFixedSame
<1>5. ASSUME s = "DHCPReservations"
      PROVE  \A c \in DOMAIN MACOf : AsString(IPShown(e, c)) = "" => IPShown(e, c) = Null
  BY <1>1, <1>5 DEF Settles, IPShown
<1>6. s = "StaticRoutes" => s \in DOMAIN Codec
  BY DEF Codec
<1>7. s = "StaticRoutes" => InOrder(Elements(Codec[s].path, e.site))
  BY <1>3, <1>6 DEF Settles
<1> QED
  BY <1>3, <1>4, <1>5, <1>7 DEF Settles

LEMMA FixedSame ==
  ASSUME NEW d, Regular(d), NEW e, Regular(e), \A kind \in Kinds : \A key : Says(d, kind, key) = Says(e, kind, key),
         NEW s \in ToSet(Sections), Settles(s, d), NEW x, IsItem(s, x), Fixed(s, d, x)
  PROVE  Fixed(s, e, x)
<1>1. /\ \A k : At(d.site, k) = At(e.site, k)
      /\ \A k : At(d.device, k) = At(e.device, k)
      /\ \A c : ClientEdit(Record(d, c)) = ClientEdit(Record(e, c))
  BY SaysSame
<1>2. IsObj(e.site) /\ (IsObj(e.device) \/ e.device = Null)
  BY RegularIs
<1>3. s \in DOMAIN Codec => HoldsAs(s, Elements(Codec[s].path, e.site), x)
  BY <1>1, <1>2, StandingSame DEF Settles, Fixed
<1>4. s = "SwitchPorts" => PortFixed(e.device, x)
  BY <1>1, <1>2, PortFixedSame DEF Fixed, IsItem
<1>5. IPShown(e, ClientOf[x.MAC]) = IPShown(d, ClientOf[x.MAC])
  BY <1>1 DEF IPShown
<1> QED
  BY <1>3, <1>4, <1>5 DEF Fixed

-----------------------------------------------------------------------------
(* What is written of a section: it settles, and stays where it was settled. *)

LEMMA AppliedFrom ==
  ASSUME Orderly, NEW c, Sound(c)
  PROVE  LET e == Apply(c, cloud)  u == Post(cloud, Plan(c, cloud)) IN
         /\ Fits(c) /\ Ready(e) /\ Regular(cloud) /\ Regular(u)
         /\ \A k : At(e.site, k) = At(u.site, k)
         /\ \A k : At(e.device, k) = At(u.device, k)
         /\ \A k : ClientEdit(Record(e, k)) = ClientEdit(Record(u, k))
         /\ \A s \in ToSet(Sections) : c[s] # <<>> => WrittenOver(c, s, cloud, e)
<1> DEFINE e == Apply(c, cloud)
           u == Post(cloud, Plan(c, cloud))
<1>1. Fits(c) /\ (c["SwitchPorts"] # <<>> => cloud.device # Null) /\ Regular(u)
  BY SoundFits
<1>2. Regular(cloud) /\ Ready(cloud)
  BY DEF Orderly, Regular
<1>3. \A kind \in Kinds : \A key : Says(u, kind, key) = Says(e, kind, key)
  BY <1>1, <1>2, PlanReadies
<1>4. Ready(e) /\ \A s \in ToSet(Sections) : c[s] # <<>> => WrittenOver(c, s, cloud, e)
  BY <1>1, <1>2, AppliedSections
<1> HIDE DEF u, e
<1>5. /\ \A k : At(e.site, k) = At(u.site, k)
      /\ \A k : At(e.device, k) = At(u.device, k)
      /\ \A k : ClientEdit(Record(e, k)) = ClientEdit(Record(u, k))
  BY <1>3, SaysSame
<1> QED
  BY <1>1, <1>2, <1>4, <1>5 DEF e, u

LEMMA AppliedList ==
  ASSUME Orderly, NEW c, Sound(c), NEW s \in DOMAIN Codec, c[s] # <<>>
  PROVE  LET u == Post(cloud, Plan(c, cloud))
             q == Elements(Codec[s].path, cloud.site)
             next == Elements(Codec[s].path, u.site)
             items == c[s][1]
         IN /\ ElementsOf(q) /\ Distinct(ElementIDs(q)) /\ ElementsOf(next) /\ Distinct(ElementIDs(next))
            /\ Listable(s, items) /\ next = NextElements(s, q, items)
            /\ Standing(s, u.site) /\ NextElements(s, next, items) = next
<1> DEFINE u == Post(cloud, Plan(c, cloud))
           e == Apply(c, cloud)
           path == Codec[s].path
           q == Elements(path, cloud.site)
           next == Elements(path, u.site)
           items == c[s][1]
<1>1. /\ Fits(c) /\ Regular(cloud) /\ Regular(u)
      /\ \A k : At(e.site, k) = At(u.site, k)
      /\ \A t \in ToSet(Sections) : c[t] # <<>> => WrittenOver(c, t, cloud, e)
  BY AppliedFrom
<1> HIDE DEF e, u
<1>2. s \in ToSet(Sections) /\ s # "SwitchPorts" /\ s # "DHCPReservations"
  BY DEF Codec, Sections, ToSet
<1>3. Listable(s, items)
  BY <1>1 DEF Fits
<1>4. PICK x : Ready(x) /\ Aside(s, cloud, x) /\ Aside(s, Overlay(c, x, s), e)
  BY <1>1, <1>2 DEF WrittenOver
<1>5. Overlay(c, x, s).site = ListWrite(s, x.site, items)
  BY <1>2, <1>4 DEF Overlay, WriteSection, Ready, IsDocument, FiniteKeys
<1>6. ListAside(s, cloud.site, x.site) /\ ListAside(s, ListWrite(s, x.site, items), e.site)
  BY <1>4, <1>5 DEF Aside
<1>7. HoldsElements(s, x.site)
  BY <1>4 DEF Ready
<1>8. /\ IsObj(u.site) /\ HoldsElements(s, cloud.site) /\ Numbered(s, cloud.site)
      /\ HoldsElements(s, u.site) /\ Numbered(s, u.site)
  BY <1>1, RegularIs
<1> HIDE DEF items
<1>9. Elements(path, x.site) = q
  BY <1>6, AsideOf
<1>10. Elements(path, ListWrite(s, x.site, items)) = NextElements(s, q, items)
  BY <1>3, <1>7, <1>9, WrittenElements
<1>11. Elements(path, e.site) = NextElements(s, q, items)
  BY <1>6, <1>10, AsideOf
<1>12. ListSettled(s, e.site, items)
  BY <1>3, <1>6, <1>7, WrittenSettles, AsideOf
<1>13. ListSettled(s, u.site, items)
  BY <1>1, <1>8, <1>12, ListSettledSame
<1>14. next = NextElements(s, q, items)
  <2>1. Len(path) \in Nat \ {0}
    BY Paths
  <2>2. Node(e.site, path) = Node(u.site, path)
    <3> HIDE DEF path
    <3> QED
      BY <1>1, <2>1, NodeSame
  <2> QED
    BY <1>11, <2>2 DEF Elements
<1>15. Standing(s, u.site) /\ NextElements(s, next, items) = next
  BY <1>3, <1>8, <1>13, ListStands
<1>16. ElementsOf(q) /\ ElementsOf(next)
  BY <1>8, ElementsAre
<1>17. Distinct(ElementIDs(q)) /\ Distinct(ElementIDs(next))
  BY <1>8 DEF Numbered
<1> QED
  BY <1>3, <1>14, <1>15, <1>16, <1>17 DEF u, items

LEMMA ListSettles ==
  ASSUME Orderly, NEW c, Sound(c), NEW s \in DOMAIN Codec, c[s] # <<>>
  PROVE  LET u == Post(cloud, Plan(c, cloud)) IN Settles(s, u) /\ \A y \in ToSet(c[s][1]) : Fixed(s, u, y)
<1> DEFINE u == Post(cloud, Plan(c, cloud))
           next == Elements(Codec[s].path, u.site)
           items == c[s][1]
<1>1. /\ ElementsOf(next) /\ Distinct(ElementIDs(next)) /\ Listable(s, items)
      /\ Standing(s, u.site) /\ NextElements(s, next, items) = next
  BY AppliedList
<1> HIDE DEF u, items
<1>2. /\ SelfRead(s, next) /\ \A j \in 1..Len(items) : HoldsAs(s, next, items[j])
      /\ s = "StaticRoutes" =>
           \A i, j \in 1..Len(next) : i < j =>
             ~RouteBefore(Decode(Codec[s].row, next[j]), Decode(Codec[s].row, next[i]))
  <2> HIDE DEF next
  <2> QED
    BY <1>1, ListHolds
<1>3. s # "SwitchPorts" /\ s # "DHCPReservations"
  BY DEF Codec
<1>4. s = "StaticRoutes" => InOrder(next)
  BY <1>2 DEF InOrder
<1>5. Settles(s, u)
  BY <1>1, <1>2, <1>3, <1>4 DEF Settles
<1>6. \A y \in ToSet(items) : \E j \in 1..Len(items) : y = items[j]
  BY <1>1, ListingDomain DEF Listable, ToSet
<1>7. \A y \in ToSet(items) : Fixed(s, u, y)
  <2> HIDE DEF next
  <2>1. \A y \in ToSet(items) : HoldsAs(s, next, y)
    BY <1>2, <1>6
  <2> QED
    BY <1>3, <2>1 DEF Fixed, next
<1> QED
  BY <1>5, <1>7 DEF u, items

\* The items a list reads as are those its elements do.
LEMMA ReadElements ==
  ASSUME NEW d, Regular(d), NEW s \in DOMAIN Codec
  PROVE  LET q == Elements(Codec[s].path, d.site) IN
         /\ s \in ToSet(Sections) /\ ElementsOf(q) /\ Listing(q) /\ Distinct(ElementIDs(q)) /\ DOMAIN q = 1..Len(q)
         /\ ReadSection(s, d) = [i \in 1..Len(q) |-> Decode(Codec[s].row, q[i])]
         /\ ToSet(ReadSection(s, d)) = {Decode(Codec[s].row, q[i]) : i \in 1..Len(q)}
<1> DEFINE q == Elements(Codec[s].path, d.site)
<1>1. s \in ToSet(Sections) /\ s # "SwitchPorts" /\ s # "DHCPReservations"
  BY DEF Codec, Sections, ToSet
<1>2. ElementsOf(q) /\ Distinct(ElementIDs(q))
  BY RegularIs, ElementsAre DEF Numbered
<1>3. DOMAIN q = 1..Len(q)
  BY <1>2, ListingDomain DEF ElementsOf
<1>4. ReadSection(s, d) = [i \in 1..Len(q) |-> Decode(Codec[s].row, q[i])]
  BY <1>1, <1>3 DEF ReadSection, ListRead
<1>5. ToSet(ReadSection(s, d)) = {Decode(Codec[s].row, q[i]) : i \in 1..Len(q)}
  <2> HIDE DEF q
  <2> QED
    BY <1>4 DEF ToSet
<1> QED
  BY <1>1, <1>2, <1>3, <1>4, <1>5 DEF ElementsOf

LEMMA ListStillFixed ==
  ASSUME Orderly, NEW c, Sound(c), NEW s \in DOMAIN Codec, c[s] # <<>>, Settles(s, cloud),
         NEW x, Fixed(s, cloud, x),
         \A y \in ToSet(ReadSection(s, cloud)) : Identity(s, y) = Identity(s, x) => y \in ToSet(c[s][1])
  PROVE  Fixed(s, Post(cloud, Plan(c, cloud)), x)
<1> DEFINE u == Post(cloud, Plan(c, cloud))
           q == Elements(Codec[s].path, cloud.site)
           next == Elements(Codec[s].path, u.site)
           items == c[s][1]
<1>1. /\ ElementsOf(q) /\ Distinct(ElementIDs(q)) /\ Listable(s, items) /\ next = NextElements(s, q, items)
  BY AppliedList
<1>2. Regular(cloud)
  BY DEF Orderly
<1>3. SelfRead(s, q) /\ HoldsAs(s, q, x)
  BY DEF Settles, Fixed
<1>4. ToSet(ReadSection(s, cloud)) = {Decode(Codec[s].row, q[i]) : i \in 1..Len(q)}
  BY <1>2, ReadElements
<1> HIDE DEF u, items, q
<1>5. \A y \in ToSet(items) : \E j \in 1..Len(items) : y = items[j]
  BY <1>1, ListingDomain DEF Listable, ToSet
<1>6. ASSUME NEW i \in 1..Len(q), AsString(At(q[i], "id")) = Identity(s, x)
      PROVE  \E j \in 1..Len(items) : items[j] = Decode(Codec[s].row, q[i])
  <2>1. Decode(Codec[s].row, q[i]) \in ToSet(ReadSection(s, cloud))
    BY <1>4
  <2>2. Identity(s, Decode(Codec[s].row, q[i])) = Identity(s, x)
    BY <1>3, <1>6 DEF SelfRead
  <2>3. Decode(Codec[s].row, q[i]) \in ToSet(items)
    BY <2>1, <2>2 DEF items
  <2> QED
    BY <1>5, <2>3
<1>7. HoldsAs(s, next, x)
  BY <1>1, <1>3, <1>6, HoldsStill
<1>8. s # "SwitchPorts" /\ s # "DHCPReservations"
  BY DEF Codec
<1> QED
  BY <1>7, <1>8 DEF Fixed, u

LEMMA AppliedPorts ==
  ASSUME Orderly, NEW c, Sound(c), c["SwitchPorts"] # <<>>
  PROVE  LET u == Post(cloud, Plan(c, cloud))
             items == c["SwitchPorts"][1]
             was == PortsOf(cloud.device)
             is == PortsOf(u.device)
         IN /\ Plugged(items) /\ ToSet(items) = {items[j] : j \in 1..Len(items)}
            /\ \A j \in 1..Len(items) : /\ At(is, Key(items[j])) = PortOver(At(was, Key(items[j])), items[j])
                                        /\ PortFixed(u.device, items[j])
<1> DEFINE s == "SwitchPorts"
           u == Post(cloud, Plan(c, cloud))
           e == Apply(c, cloud)
           items == c[s][1]
<1>1. /\ Fits(c) /\ Ready(e) /\ Regular(cloud) /\ Regular(u)
      /\ \A k : At(e.device, k) = At(u.device, k)
      /\ \A t \in ToSet(Sections) : c[t] # <<>> => WrittenOver(c, t, cloud, e)
  BY AppliedFrom
<1> HIDE DEF e, u
<1>2. s \in ToSet(Sections)
  BY DEF Sections, ToSet
<1>3. Plugged(items) /\ Listing(items)
  BY <1>1 DEF Fits, Plugged
<1>4. PICK x : Ready(x) /\ Aside(s, cloud, x) /\ Aside(s, Overlay(c, x, s), e)
  BY <1>1, <1>2 DEF WrittenOver
<1>5. Overlay(c, x, s).device = WriteSwitchPorts(x.device, items)
  BY <1>4 DEF Overlay, WriteSection, Ready, IsDocument, FiniteKeys
<1>6. x.device = cloud.device /\ e.device = WriteSwitchPorts(x.device, items)
  BY <1>4, <1>5 DEF Aside
<1>7. \A k : IsPort(At(PortsOf(cloud.device), k))
  BY <1>1, RegularIs
<1>8. IsObj(u.device) \/ u.device = Null
  BY <1>1, RegularIs
<1> HIDE DEF items
<1>9. PortsSettled(e.device, items)
  BY <1>3, <1>6, <1>7, WrittenPortsSettle
<1>10. PortsSettled(u.device, items)
  BY <1>1, <1>3, <1>8, <1>9, PortsSettledSame
<1>11. PortsOf(u.device) = PortsOf(e.device)
  <2>1. Len(PortsPath) \in Nat \ {0}
    BY DEF PortsPath
  <2> QED
    BY <1>1, <2>1, NodeSame DEF PortsOf
<1>12. \A j \in 1..Len(items) : At(PortsOf(e.device), Key(items[j])) = PortOver(At(PortsOf(cloud.device), Key(items[j])), items[j])
  <2>1. \A j \in 1..Len(items) :
          At(PortsOf(WriteSwitchPorts(cloud.device, items)), Key(items[j])) = PortOver(At(PortsOf(cloud.device), Key(items[j])), items[j])
    BY <1>3, PortsWritten
  <2>2. e.device = WriteSwitchPorts(cloud.device, items)
    BY <1>6
  <2> QED
    BY <2>1, <2>2
<1>13. \A j \in 1..Len(items) : PortFixed(u.device, items[j])
  BY <1>10 DEF PortsSettled, PortFixed
<1>14. ToSet(items) = {items[j] : j \in 1..Len(items)}
  BY <1>3, ListingDomain DEF ToSet
<1> QED
  BY <1>3, <1>11, <1>12, <1>13, <1>14 DEF u, items

\* Where every port that is read is written, each port is left as it is by what it reads as.
LEMMA PortsSettle ==
  ASSUME Orderly, NEW c, Sound(c), c["SwitchPorts"] # <<>>,
         \A y \in ToSet(ReadSwitchPorts(cloud.device)) : \E x \in ToSet(c["SwitchPorts"][1]) : x.Port = y.Port
  PROVE  LET u == Post(cloud, Plan(c, cloud)) IN
         /\ Settles("SwitchPorts", u)
         /\ \A x \in ToSet(c["SwitchPorts"][1]) : Fixed("SwitchPorts", u, x)
<1> DEFINE s == "SwitchPorts"
           u == Post(cloud, Plan(c, cloud))
           items == c[s][1]
           was == ReadSwitchPorts(cloud.device)
           back == ReadSwitchPorts(u.device)
<1>1. /\ Plugged(items) /\ ToSet(items) = {items[j] : j \in 1..Len(items)}
      /\ \A j \in 1..Len(items) : PortFixed(u.device, items[j])
  BY AppliedPorts
<1>2. Regular(u) /\ s \in ToSet(Sections)
  BY AppliedFrom DEF Sections, ToSet
<1>3. ReadsBack(s, items, was, back)
  <2>1. Fits(c) /\ Ready(cloud) /\ ~ConfigError(c, cloud)
    BY SoundFits DEF Sound, Orderly, Regular
  <2>2. \A t \in ToSet(Sections) : IF c[t] = <<>> THEN ReadSection(t, u) = ReadSection(t, cloud)
              ELSE ReadsBack(t, c[t][1], ReadSection(t, cloud), ReadSection(t, u))
    BY <2>1, AppliedReadsBack
  <2> HIDE DEF u
  <2>3. ReadSection(s, cloud) = was /\ ReadSection(s, u) = back
    BY DEF ReadSection
  <2> HIDE DEF was, back
  <2> QED
    BY <1>2, <2>2, <2>3
<1> HIDE DEF u
<1>4. IsFiniteSet(DOMAIN Fields(PortsOf(u.device))) /\ \A k : IsPort(At(PortsOf(u.device), k))
  BY <1>2, RegularIs
<1>5. PortsAsAsked(items, was, back)
  BY <1>3 DEF ReadsBack
<1>6. ASSUME NEW y \in ToSet(back) PROVE PortFixed(u.device, y)
  <2>1. y.Port \in Numbers /\ y = PortAs(y.Port, At(PortsOf(u.device), Key(y)))
    BY <1>4, ReadPortIs
  <2> DEFINE o == At(PortsOf(u.device), Key(y))
  <2>2. PICK j \in 1..Len(items) : items[j].Port = y.Port
    <3>1. PICK i \in DOMAIN back : y = back[i]
      BY DEF ToSet
    <3>2. DOMAIN back = 1..Len(back)
      BY <1>3 DEF ReadsBack
    <3>3. \/ \E j \in 1..Len(items) : SamePort(y, items[j])
          \/ (\A j \in 1..Len(items) : items[j].Port # y.Port) /\ \E j \in DOMAIN was : y = was[j]
      BY <1>5, <3>1, <3>2 DEF PortsAsAsked
    <3>4. CASE \E j \in 1..Len(items) : SamePort(y, items[j])
      BY <3>4 DEF SamePort
    <3>5. CASE (\A j \in 1..Len(items) : items[j].Port # y.Port) /\ \E j \in DOMAIN was : y = was[j]
      <4>1. y \in ToSet(was)
        BY <3>5 DEF ToSet
      <4>2. PICK x \in ToSet(items) : x.Port = y.Port
        BY <4>1
      <4> QED
        BY <1>1, <3>5, <4>2
    <3> QED
      BY <3>3, <3>4, <3>5
  <2>3. Key(items[j]) = Key(y)
    BY <2>2 DEF Key
  <2>4. PortOver(o, items[j]) = o /\ Rooted(u.device, PortPath(Key(y)))
    BY <1>1, <2>3 DEF PortFixed
  <2>5. PlainPort(items[j])
    BY <1>1 DEF Plugged
  <2>6. IsPort(o)
    BY <1>4
  <2> HIDE DEF o
  <2>7. /\ y.NativeVLAN = AsInt(At(o, "vlan")) /\ y.AllVLANs = AsFlag(At(At(o, "allowedVlans"), "all"))
        /\ y.TaggedVLANs = AsInts(At(At(o, "allowedVlans"), "list"))
    <3>1. y = PortAs(y.Port, o)
      BY <2>1 DEF o
    <3> DEFINE n == y.Port
    <3> HIDE DEF n
    <3>2. y = PortAs(n, o)
      BY <3>1 DEF n
    <3> QED
      BY <3>2 DEF PortAs
  <2>8. Listing(y.TaggedVLANs)
    <3>1. PlainPort(PortAs(y.Port, o))
      BY <2>1, <2>6, PortIsPlain
    <3>2. PlainPort(y)
      BY <2>1, <3>1 DEF o
    <3> QED
      BY <3>2 DEF PlainPort, IntList
  <2>9. PortOver(o, y) = o
    BY <2>4, <2>5, <2>6, <2>7, <2>8, PortItself
  <2> QED
    BY <2>4, <2>9 DEF PortFixed, o
<1>7. s \notin DOMAIN Codec
  BY DEF Codec
<1>8. Settles(s, u)
  BY <1>6, <1>7 DEF Settles
<1>9. \A x \in ToSet(items) : Fixed(s, u, x)
  BY <1>1, <1>7 DEF Fixed
<1> QED
  BY <1>8, <1>9 DEF u

\* A port that is as it was written stays so where what it reads as is written.
LEMMA PortStillFixed ==
  ASSUME Orderly, NEW c, Sound(c), c["SwitchPorts"] # <<>>, Settles("SwitchPorts", cloud),
         NEW x, PlainPort(x), Fixed("SwitchPorts", cloud, x),
         \A y \in ToSet(ReadSwitchPorts(cloud.device)) : y.Port = x.Port => y \in ToSet(c["SwitchPorts"][1])
  PROVE  Fixed("SwitchPorts", Post(cloud, Plan(c, cloud)), x)
<1> DEFINE s == "SwitchPorts"
           u == Post(cloud, Plan(c, cloud))
           items == c[s][1]
           port == At(PortsOf(cloud.device), Key(x))
           y == PortAs(x.Port, port)
<1>1. /\ Plugged(items) /\ ToSet(items) = {items[j] : j \in 1..Len(items)}
      /\ \A j \in 1..Len(items) : /\ At(PortsOf(u.device), Key(items[j])) = PortOver(At(PortsOf(cloud.device), Key(items[j])), items[j])
                                  /\ PortFixed(u.device, items[j])
  BY AppliedPorts
<1> HIDE DEF u, items
<1>2. PortFixed(cloud.device, x) /\ PortOver(port, x) = port /\ Rooted(cloud.device, PortPath(Key(x)))
  BY DEF Fixed, PortFixed
<1>3. y \in ToSet(ReadSwitchPorts(cloud.device))
  <2>1. IsFiniteSet(DOMAIN Fields(PortsOf(cloud.device)))
    BY RegularIs DEF Orderly
  <2>2. x.Port \in Numbers
    BY DEF PlainPort
  <2> QED
    BY <1>2, <2>1, <2>2, RootedIsRead DEF Key
<1>4. y.Port = x.Port /\ Key(y) = Key(x)
  BY DEF PortAs, Key
<1> HIDE DEF y, port
<1>5. y \in ToSet(items)
  BY <1>3, <1>4 DEF items
<1>6. PICK j \in 1..Len(items) : y = items[j]
  BY <1>1, <1>5
<1>7. PortOver(port, y) = port
  BY <1>3, <1>4 DEF Settles, PortFixed, port
<1>8. At(PortsOf(u.device), Key(x)) = port
  BY <1>1, <1>4, <1>6, <1>7 DEF port
<1>9. Rooted(u.device, PortPath(Key(x)))
  BY <1>1, <1>4, <1>6 DEF PortFixed
<1>10. PortFixed(u.device, x)
  BY <1>2, <1>8, <1>9 DEF PortFixed
<1>11. s \notin DOMAIN Codec
  BY DEF Codec
<1> QED
  BY <1>10, <1>11 DEF Fixed, u

LEMMA AppliedClients ==
  ASSUME Orderly, NEW c, Sound(c), c["DHCPReservations"] # <<>>
  PROVE  LET u == Post(cloud, Plan(c, cloud))
             items == c["DHCPReservations"][1]
         IN /\ Reservable(items)
            /\ \A k : IPShown(u, k) =
                 IF k \in WantedClients(items) THEN IPOver(IPShown(cloud, k), IPWanted(items, k)) ELSE Null
<1> DEFINE s == "DHCPReservations"
           u == Post(cloud, Plan(c, cloud))
           e == Apply(c, cloud)
           items == c[s][1]
           W == WantedClients(items)
           next == WriteReservations(cloud.clients, items)
<1>1. /\ Fits(c)
      /\ \A k : ClientEdit(Record(e, k)) = ClientEdit(Record(u, k))
      /\ \A t \in ToSet(Sections) : c[t] # <<>> => WrittenOver(c, t, cloud, e)
  BY AppliedFrom
<1> HIDE DEF e, u
<1>2. s \in ToSet(Sections)
  BY DEF Sections, ToSet
<1>3. Reservable(items)
  BY <1>1 DEF Fits
<1>4. PICK x : Ready(x) /\ Aside(s, cloud, x) /\ Aside(s, Overlay(c, x, s), e)
  BY <1>1, <1>2 DEF WrittenOver
<1>5. Overlay(c, x, s).clients = WriteReservations(x.clients, items)
  BY <1>4 DEF Overlay, WriteSection, Ready, IsDocument, FiniteKeys
<1>6. e.clients = next
  BY <1>4, <1>5 DEF Aside
<1> HIDE DEF items
<1>7. next = [k \in DOMAIN cloud.clients \cup W |->
                IF k \in W THEN Held(RecordOf(cloud.clients, k), IPWanted(items, k)) ELSE Released(RecordOf(cloud.clients, k))]
  BY ReservationsWritten
<1>8. "ip" \in EditKeys /\ "ip" # "wired"
  BY DEF EditKeys, ClientConfigFields
<1>9. ASSUME NEW k
      PROVE  IPShown(u, k) = IF k \in W THEN IPOver(IPShown(cloud, k), IPWanted(items, k)) ELSE Null
  <2>1. ClientEdit(RecordOf(cloud.clients, k))["ip"] = IPShown(cloud, k)
    BY RecordEdit DEF Shown, IPShown, Record
  <2>2. IPShown(u, k) = ClientEdit(Record(e, k))["ip"]
    BY <1>1 DEF IPShown
  <2> DEFINE o == RecordOf(cloud.clients, k)
             ip == IPWanted(items, k)
  <2> HIDE DEF W, next
  <2>3. CASE k \in W
    <3>1. Record(e, k) = Held(o, ip)
      BY <1>6, <1>7, <2>3 DEF Record
    <3> HIDE DEF o, ip
    <3>2. ClientEdit(Held(o, ip))["ip"] = IPOver(ClientEdit(o)["ip"], ip)
      BY <1>8, HeldEdit
    <3> QED
      BY <2>1, <2>2, <2>3, <3>1, <3>2 DEF o, ip
  <2>4. CASE k \notin W /\ k \in DOMAIN cloud.clients
    <3>1. Record(e, k) = Released(o)
      BY <1>6, <1>7, <2>4 DEF Record
    <3> HIDE DEF o
    <3>2. ClientEdit(Released(o))["ip"] = Null
      BY <1>8, ReleasedEdit
    <3> QED
      BY <2>2, <2>4, <3>1, <3>2
  <2>5. CASE k \notin W /\ k \notin DOMAIN cloud.clients
    <3>1. Record(e, k) = EmptyObj
      BY <1>6, <1>7, <2>5 DEF Record
    <3>2. ClientEdit(EmptyObj)["ip"] = Null
      BY <1>8, EditOfEmpty
    <3> QED
      BY <2>2, <2>5, <3>1, <3>2
  <2> QED
    BY <2>3, <2>4, <2>5
<1> QED
  BY <1>3, <1>9 DEF u, items

\* A client's address that is read is the one it shows.
LEMMA ShownIsRead ==
  ASSUME NEW d, Regular(d), NEW k \in DOMAIN MACOf
  PROVE  LET ip == AsString(IPShown(d, k)) IN
         /\ ip # "" => [MAC |-> MACOf[k], IP |-> ip] \in ToSet(ReadReservations(d.clients))
         /\ \A y \in ToSet(ReadReservations(d.clients)) : y.MAC = MACOf[k] => ip # "" /\ y.IP = ip
<1> DEFINE back == ReadReservations(d.clients)
           v == IPShown(d, k)
<1>1. Listing(back) /\ (\A i \in 1..Len(back) : back[i] \in Reserved(d.clients))
      /\ \A x \in Reserved(d.clients) : \E i \in 1..Len(back) : back[i] = x
  BY ReservationsOf
<1> HIDE DEF back
<1>2. ToSet(back) = Reserved(d.clients)
  BY <1>1, ListingDomain DEF ToSet
<1>3. \A c \in DOMAIN d.clients : AsString(IPShown(d, c)) = IPRead(d.clients[c])
  <2> TAKE c \in DOMAIN d.clients
  <2>1. Record(d, c) = d.clients[c]
    BY DEF Record
  <2>2. "ip" \in ClientConfigFields
    BY DEF ClientConfigFields
  <2>3. ClientEdit(d.clients[c])["ip"] = At(At(d.clients[c], "config"), "ip")
    BY <2>2, EditIs
  <2> QED
    BY <2>1, <2>3 DEF IPShown, IPRead
<1>4. k \notin DOMAIN d.clients => AsString(v) = ""
  <2>1. "ip" \in EditKeys /\ "ip" # "wired"
    BY DEF EditKeys, ClientConfigFields
  <2>2. ClientEdit(EmptyObj)["ip"] = Null
    BY <2>1, EditOfEmpty
  <2>3. AsString(Null) = ""
    BY DEF AsString, Null
  <2> QED
    BY <2>2, <2>3 DEF IPShown, Record
<1>5. DOMAIN d.clients \subseteq DOMAIN MACOf
  BY RegularIs
<1>6. ASSUME AsString(v) # "" PROVE [MAC |-> MACOf[k], IP |-> AsString(v)] \in Reserved(d.clients)
  <2>1. k \in DOMAIN d.clients /\ AsString(v) = IPRead(d.clients[k])
    BY <1>3, <1>4, <1>6
  <2> HIDE DEF v
  <2> QED
    BY <1>6, <2>1 DEF Reserved
<1>7. ASSUME NEW y \in Reserved(d.clients), y.MAC = MACOf[k] PROVE AsString(v) # "" /\ y.IP = AsString(v)
  <2>1. PICK c \in DOMAIN d.clients : IPRead(d.clients[c]) # "" /\ y = [MAC |-> MACOf[c], IP |-> IPRead(d.clients[c])]
    BY DEF Reserved
  <2>2. y.MAC = MACOf[c] /\ y.IP = IPRead(d.clients[c])
    BY <2>1
  <2>3. c = k
    BY <1>5, <1>7, <2>2, MACAssumption
  <2> QED
    BY <1>3, <2>1, <2>2, <2>3
<1> QED
  BY <1>2, <1>6, <1>7 DEF back

LEMMA ClientsSettle ==
  ASSUME Orderly, NEW c, Sound(c), c["DHCPReservations"] # <<>>
  PROVE  LET u == Post(cloud, Plan(c, cloud)) IN
         /\ Settles("DHCPReservations", u)
         /\ \A x \in ToSet(c["DHCPReservations"][1]) : Fixed("DHCPReservations", u, x)
<1> DEFINE s == "DHCPReservations"
           u == Post(cloud, Plan(c, cloud))
           items == c[s][1]
           W == WantedClients(items)
<1>1. /\ Reservable(items)
      /\ \A k : IPShown(u, k) = IF k \in W THEN IPOver(IPShown(cloud, k), IPWanted(items, k)) ELSE Null
  BY AppliedClients
<1> HIDE DEF u, items
<1>2. s \notin DOMAIN Codec
  BY DEF Codec
<1>3. \A t : t # "" => AsString(Str(t)) # ""
  BY Tags DEF AsString
<1>4. ASSUME NEW k, AsString(IPShown(u, k)) = "" PROVE IPShown(u, k) = Null
  <2> HIDE DEF W
  <2>1. CASE k \notin W
    BY <1>1, <2>1
  <2>2. CASE k \in W
    <3>1. IPShown(u, k) = IPOver(IPShown(cloud, k), IPWanted(items, k))
      BY <1>1, <2>2
    <3> QED
      BY <1>3, <1>4, <3>1 DEF IPOver
  <2> QED
    BY <2>1, <2>2
<1>5. ASSUME NEW x \in ToSet(items) PROVE IPOver(IPShown(u, ClientOf[x.MAC]), x.IP) = IPShown(u, ClientOf[x.MAC])
  <2>1. IPWanted(items, ClientOf[x.MAC]) = x.IP
    BY <1>1, WantedIP DEF Reservable
  <2>2. ClientOf[x.MAC] \in W
    BY DEF WantedClients
  <2> HIDE DEF W
  <2>3. IPShown(u, ClientOf[x.MAC]) = IPOver(IPShown(cloud, ClientOf[x.MAC]), x.IP)
    BY <1>1, <2>1, <2>2
  <2> QED
    BY <2>3, IPAgain
<1>6. Settles(s, u)
  BY <1>2, <1>4 DEF Settles
<1>7. \A x \in ToSet(items) : Fixed(s, u, x)
  BY <1>2, <1>5 DEF Fixed
<1> QED
  BY <1>6, <1>7 DEF u, items

\* A client keeps what it shows where its section is written again with what was read of it.
LEMMA ClientStillFixed ==
  ASSUME Orderly, NEW c, Sound(c), c["DHCPReservations"] # <<>>,
         NEW x, x.MAC \in DOMAIN ClientOf, MACOf[ClientOf[x.MAC]] = x.MAC, Fixed("DHCPReservations", cloud, x),
         \A y \in ToSet(c["DHCPReservations"][1]) : MACOf[ClientOf[y.MAC]] = y.MAC,
         \A y : y.MAC = x.MAC => (y \in ToSet(ReadReservations(cloud.clients)) <=> y \in ToSet(c["DHCPReservations"][1]))
  PROVE  Fixed("DHCPReservations", Post(cloud, Plan(c, cloud)), x)
<1> DEFINE s == "DHCPReservations"
           u == Post(cloud, Plan(c, cloud))
           items == c[s][1]
           W == WantedClients(items)
           k == ClientOf[x.MAC]
           v == IPShown(cloud, k)
           ip == AsString(v)
           was == ToSet(ReadReservations(cloud.clients))
<1>1. /\ Reservable(items)
      /\ \A j : IPShown(u, j) = IF j \in W THEN IPOver(IPShown(cloud, j), IPWanted(items, j)) ELSE Null
  BY AppliedClients
<1>2. IPOver(v, x.IP) = v
  BY DEF Fixed
<1>3. k \in DOMAIN MACOf /\ MACOf[k] = x.MAC
  BY MACAssumption
<1>4. /\ ip # "" => [MAC |-> x.MAC, IP |-> ip] \in was
      /\ \A y \in was : y.MAC = x.MAC => ip # "" /\ y.IP = ip
  <2>1. Regular(cloud)
    BY DEF Orderly
  <2> HIDE DEF k
  <2> QED
    BY <1>3, <2>1, ShownIsRead
<1>5. /\ \A y \in ToSet(items) : MACOf[ClientOf[y.MAC]] = y.MAC
      /\ \A y : y.MAC = x.MAC => (y \in was <=> y \in ToSet(items))
  OBVIOUS
<1> HIDE DEF u, items, v, was
<1>6. AsString(Null) = "" /\ \A t : AsString(Str(t)) = t
  BY Tags DEF AsString, Null
<1>7. ASSUME ip = "" PROVE IPOver(IPShown(u, k), x.IP) = IPShown(u, k)
  <2>1. k \notin W
    <3>1. SUFFICES ASSUME k \in W PROVE FALSE
      OBVIOUS
    <3>2. PICK y \in ToSet(items) : ClientOf[y.MAC] = k
      BY <3>1 DEF WantedClients
    <3>3. y.MAC = x.MAC
      BY <1>3, <1>5, <3>2
    <3> QED
      BY <1>4, <1>5, <1>7, <3>3
  <2>2. IPShown(u, k) = Null
    <3> HIDE DEF W, k
    <3> QED
      BY <1>1, <2>1
  <2>3. x.IP = ""
    BY <1>2, <1>6, <1>7 DEF IPOver
  <2> QED
    BY <2>2, <2>3 DEF IPOver
<1>8. ASSUME ip # "" PROVE IPOver(IPShown(u, k), x.IP) = IPShown(u, k)
  <2> DEFINE y == [MAC |-> x.MAC, IP |-> ip]
  <2>1. y.MAC = x.MAC /\ y.IP = ip
    OBVIOUS
  <2>2. y \in ToSet(items)
    BY <1>4, <1>5, <1>8, <2>1
  <2> HIDE DEF y
  <2>3. k \in W
    BY <2>1, <2>2 DEF WantedClients
  <2>4. IPWanted(items, k) = ip
    <3>1. IPWanted(items, ClientOf[y.MAC]) = y.IP
      BY <1>1, <2>2, WantedIP DEF Reservable
    <3> QED
      BY <2>1, <3>1
  <2>5. x.IP = ip
    BY <1>2, <1>6, <1>8 DEF IPOver
  <2>6. IPShown(u, k) = IPOver(v, ip)
    <3> HIDE DEF W, k, ip
    <3>1. IPShown(u, k) = IPOver(IPShown(cloud, k), IPWanted(items, k))
      BY <1>1, <2>3
    <3> QED
      BY <2>4, <3>1 DEF v
  <2>7. IPShown(u, k) = v
    BY <1>2, <2>5, <2>6
  <2> QED
    BY <1>2, <2>7
<1>9. IPOver(IPShown(u, k), x.IP) = IPShown(u, k)
  BY <1>7, <1>8
<1>10. s \notin DOMAIN Codec
  BY DEF Codec
<1> QED
  BY <1>9, <1>10 DEF Fixed, u

-----------------------------------------------------------------------------
\* No element of a list is without an id.
Identified(s, d) == s \in DOMAIN Codec => \A y \in ToSet(ReadSection(s, d)) : Identity(s, y) # ""

LEMMA AppliedIdentified ==
  ASSUME Orderly, NEW c, Sound(c), NEW s \in DOMAIN Codec, c[s] # <<>>
  PROVE  Identified(s, Post(cloud, Plan(c, cloud)))
<1> DEFINE u == Post(cloud, Plan(c, cloud))
           q == Elements(Codec[s].path, u.site)
           items == c[s][1]
<1>1. ElementsOf(q) /\ Listable(s, items) /\ NextElements(s, q, items) = q
  BY AppliedList
<1>2. Settles(s, u) /\ Regular(u)
  BY ListSettles, AppliedFrom
<1> HIDE DEF u, items
<1>3. SelfRead(s, q) /\ ToSet(ReadSection(s, u)) = {Decode(Codec[s].row, q[i]) : i \in 1..Len(q)}
  BY <1>2, ReadElements DEF Settles
<1> HIDE DEF q
<1>4. \A i \in 1..Len(q) : \E j \in 1..Len(items) : AsString(At(q[i], "id")) = Identity(s, items[j])
  BY <1>1, NextIs
<1>5. \A j \in 1..Len(items) : Identity(s, items[j]) # ""
  BY <1>1, ListingDomain DEF Listable, ListError
<1>6. ASSUME NEW i \in 1..Len(q) PROVE Identity(s, Decode(Codec[s].row, q[i])) # ""
  <2>1. AsString(At(q[i], "id")) = Identity(s, Decode(Codec[s].row, q[i]))
    BY <1>3 DEF SelfRead
  <2> QED
    BY <1>4, <1>5, <2>1
<1>7. \A y \in ToSet(ReadSection(s, u)) : Identity(s, y) # ""
  BY <1>3, <1>6
<1> QED
  BY <1>7 DEF Identified, u

LEMMA ThreeKinds ==
  ASSUME NEW s \in ToSet(Sections)
  PROVE  \/ s \in DOMAIN Codec
         \/ s = "SwitchPorts" /\ \A d : ReadSection(s, d) = ReadSwitchPorts(d.device)
         \/ s = "DHCPReservations" /\ \A d : ReadSection(s, d) = ReadReservations(d.clients)
BY DEF Sections, Codec, ToSet, ReadSection

\* A section written whole settles, and its items with it.
LEMMA SectionSettles ==
  ASSUME Orderly, NEW c, Sound(c), NEW s \in ToSet(Sections), c[s] # <<>>,
         s = "SwitchPorts" =>
           \A y \in ToSet(ReadSwitchPorts(cloud.device)) : \E x \in ToSet(c[s][1]) : x.Port = y.Port
  PROVE  LET u == Post(cloud, Plan(c, cloud)) IN
         Settles(s, u) /\ Identified(s, u) /\ \A x \in ToSet(c[s][1]) : Fixed(s, u, x)
<1> DEFINE u == Post(cloud, Plan(c, cloud))
<1>1. "SwitchPorts" \notin DOMAIN Codec /\ "DHCPReservations" \notin DOMAIN Codec
  BY DEF Codec
<1>2. CASE s \in DOMAIN Codec
  <2>1. Settles(s, u) /\ \A x \in ToSet(c[s][1]) : Fixed(s, u, x)
    BY <1>2, ListSettles
  <2>2. Identified(s, u)
    BY <1>2, AppliedIdentified
  <2> QED
    BY <2>1, <2>2
<1>3. CASE s = "SwitchPorts"
  <2>1. Settles("SwitchPorts", u) /\ \A x \in ToSet(c["SwitchPorts"][1]) : Fixed("SwitchPorts", u, x)
    BY <1>3, PortsSettle
  <2> QED
    BY <1>1, <1>3, <2>1 DEF Identified
<1>4. CASE s = "DHCPReservations"
  <2>1. Settles("DHCPReservations", u) /\ \A x \in ToSet(c["DHCPReservations"][1]) : Fixed("DHCPReservations", u, x)
    BY <1>4, ClientsSettle
  <2> QED
    BY <1>1, <1>4, <2>1 DEF Identified
<1> QED
  BY <1>2, <1>3, <1>4, ThreeKinds

\* The item a slot holds stays fixed where its section is written again with the same in its place.
LEMMA StillFixed ==
  ASSUME Orderly, NEW c, Sound(c), NEW s \in ToSet(Sections), c[s] # <<>>, Settles(s, cloud),
         NEW id, Names(s, id), NEW m, IsItem(s, DomainItem(s, id, m)), Fixed(s, cloud, DomainItem(s, id, m)),
         \A y : Identity(s, y) = id => (y \in ToSet(ReadSection(s, cloud)) <=> y \in ToSet(c[s][1])),
         s = "DHCPReservations" => \A y \in ToSet(c[s][1]) : Names(s, y.MAC)
  PROVE  Fixed(s, Post(cloud, Plan(c, cloud)), DomainItem(s, id, m))
<1> DEFINE x == DomainItem(s, id, m)
<1>1. Identity(s, x) = id
  BY ItemNamed
<1> HIDE DEF x
<1>2. CASE s \in DOMAIN Codec
  <2>1. \A y \in ToSet(ReadSection(s, cloud)) : Identity(s, y) = Identity(s, x) => y \in ToSet(c[s][1])
    BY <1>1
  <2>2. Fixed(s, cloud, x)
    BY DEF x
  <2>3. Fixed(s, Post(cloud, Plan(c, cloud)), x)
    BY <1>2, <2>1, <2>2, ListStillFixed
  <2> QED
    BY <2>3 DEF x
<1>3. CASE s = "SwitchPorts" /\ \A d : ReadSection(s, d) = ReadSwitchPorts(d.device)
  <2>1. \A y : y.Port = x.Port => Identity(s, y) = id
    BY <1>1, <1>3 DEF Identity
  <2>2. \A y \in ToSet(ReadSwitchPorts(cloud.device)) : y.Port = x.Port => y \in ToSet(c["SwitchPorts"][1])
    BY <1>3, <2>1
  <2>3. Fixed("SwitchPorts", cloud, x) /\ PlainPort(x)
    BY <1>3 DEF x, IsItem
  <2>4. Fixed("SwitchPorts", Post(cloud, Plan(c, cloud)), x)
    BY <1>3, <2>2, <2>3, PortStillFixed
  <2> QED
    BY <1>3, <2>4 DEF x
<1>4. CASE s = "DHCPReservations" /\ \A d : ReadSection(s, d) = ReadReservations(d.clients)
  <2>1. \A y : Identity(s, y) = y.MAC
    BY <1>4 DEF Identity
  <2>2. x.MAC \in DOMAIN ClientOf /\ MACOf[ClientOf[x.MAC]] = x.MAC
    BY <1>1, <1>4, <2>1 DEF Names
  <2>3. \A y : y.MAC = x.MAC => (y \in ToSet(ReadReservations(cloud.clients)) <=> y \in ToSet(c["DHCPReservations"][1]))
    BY <1>1, <1>4, <2>1
  <2>4. \A y \in ToSet(c["DHCPReservations"][1]) : MACOf[ClientOf[y.MAC]] = y.MAC
    BY <1>4 DEF Names
  <2>5. Fixed("DHCPReservations", cloud, x)
    BY <1>4 DEF x
  <2>6. Fixed("DHCPReservations", Post(cloud, Plan(c, cloud)), x)
    BY <1>4, <2>2, <2>3, <2>4, <2>5, ClientStillFixed
  <2> QED
    BY <1>4, <2>6 DEF x
<1> QED
  BY <1>2, <1>3, <1>4, ThreeKinds

-----------------------------------------------------------------------------
(* What a refresh records of an item is as fixed as the item.                *)

LEMMA ReturnedItem ==
  ASSUME NEW s \in ToSet(Sections), NEW x, IsItem(s, x), Names(s, Identity(s, x))
  PROVE  LET z == DomainItem(s, Identity(s, x), Model(s, x)) IN
         /\ z[IdentityField(s)] = x[IdentityField(s)]
         /\ \A f \in DOMAIN ModelOf(s) : f # IdentityField(s) =>
              z[f] = DomainValue(ModelOf(s)[f], ModelValue(ModelOf(s)[f], x[f]))
<1> DEFINE id == Identity(s, x)
           z == DomainItem(s, id, Model(s, x))
<1>1. \A f \in DOMAIN ModelOf(s) : f # IdentityField(s) =>
        z[f] = DomainValue(ModelOf(s)[f], ModelValue(ModelOf(s)[f], x[f]))
  BY ItemFields DEF DomainItem, Model
<1>2. z[IdentityField(s)] = KeyOf(s, id)
  BY ItemIdentity DEF DomainItem
<1>3. \A n \in Numbers : Decimal[Text(n)] = n
  BY DecimalAssumption DEF Numbers, Text
<1> HIDE DEF z
<1>4. CASE s \in DOMAIN Codec
  <2>1. IdentityField(s) = "ID" /\ s # "SwitchPorts"
    BY <1>4, RowKinds DEF Codec
  <2>2. CASE s = "VLANs"
    <3>1. "ID" \in DOMAIN Codec[s].row /\ Codec[s].row["ID"][3] = "number"
      BY <1>4, <2>2, RowKinds
    <3>2. x["ID"] \in Numbers
      BY <1>4, <3>1 DEF IsItem, PlainItem, Plain
    <3>3. id = Text(x["ID"])
      BY <1>4, <2>2, IdentityRow
    <3> QED
      BY <1>1, <1>2, <1>3, <2>1, <2>2, <3>2, <3>3 DEF KeyOf, z
  <2>3. CASE s # "VLANs"
    <3>1. z["ID"] = x["ID"]
      BY <1>2, <1>4, <2>1, <2>3, IdentityRow DEF KeyOf
    <3> QED
      BY <1>1, <2>1, <3>1 DEF z
  <2> QED
    BY <2>2, <2>3
<1>5. CASE s = "SwitchPorts"
  <2>1. IdentityField(s) = "Port" /\ x.Port \in Numbers /\ id = Text(x.Port)
    BY <1>5 DEF IdentityField, IsItem, PlainPort, Identity
  <2> QED
    BY <1>1, <1>2, <1>3, <1>5, <2>1 DEF KeyOf, z
<1>6. CASE s = "DHCPReservations"
  <2>1. IdentityField(s) = "MAC" /\ id = x.MAC
    BY <1>6 DEF IdentityField, Identity
  <2> QED
    BY <1>1, <1>2, <1>6, <2>1 DEF KeyOf, z
<1> QED
  BY <1>4, <1>5, <1>6, ThreeKinds

LEMMA RefreshedInList ==
  ASSUME NEW d, Regular(d), NEW s \in DOMAIN Codec, Settles(s, d),
         NEW y, IsItem(s, y), Fixed(s, d, y), Unrepeated(s, y),
         NEW x \in ToSet(ReadSection(s, d)), Identity(s, x) = Identity(s, y), Names(s, Identity(s, x))
  PROVE  LET z == DomainItem(s, Identity(s, x), Model(s, x)) IN Fixed(s, d, z) /\ Unrepeated(s, z)
<1> DEFINE q == Elements(Codec[s].path, d.site)
           z == DomainItem(s, Identity(s, x), Model(s, x))
<1>1. /\ s \in ToSet(Sections) /\ ElementsOf(q) /\ Listing(q) /\ Distinct(ElementIDs(q)) /\ DOMAIN q = 1..Len(q)
      /\ ToSet(ReadSection(s, d)) = {Decode(Codec[s].row, q[i]) : i \in 1..Len(q)}
  BY ReadElements
<1>2. SelfRead(s, q) /\ HoldsAs(s, q, y)
  BY DEF Settles, Fixed
<1>3. s # "SwitchPorts" /\ s # "DHCPReservations" /\ IdentityField(s) = "ID"
  BY RowKinds DEF Codec
<1>4. IsItem(s, x)
  <2>1. IsSection(s, ReadSection(s, d))
    BY <1>1, ReadIsSection
  <2> HIDE DEF q
  <2> QED
    BY <2>1, ListingDomain DEF IsSection, ToSet
<1>5. /\ z["ID"] = x["ID"]
      /\ \A f \in DOMAIN ModelOf(s) : f # "ID" => z[f] = DomainValue(ModelOf(s)[f], ModelValue(ModelOf(s)[f], x[f]))
  BY <1>1, <1>3, <1>4, ReturnedItem
<1>6. Identity(s, z) = Identity(s, x)
  BY <1>1, ItemNamed
<1> HIDE DEF q, z
<1>7. PICK i \in 1..Len(q) : AsString(At(q[i], "id")) = Identity(s, y) /\ Encode(Codec[s].fields, y, q[i]) = q[i]
  BY <1>2 DEF HoldsAs
<1>8. PICK j \in 1..Len(q) : x = Decode(Codec[s].row, q[j])
  BY <1>1
<1>9. AsString(At(q[j], "id")) = Identity(s, x)
  BY <1>2, <1>8 DEF SelfRead
<1>10. i = j
  <2>1. ElementIDs(q)[i] = ElementIDs(q)[j] /\ Len(ElementIDs(q)) = Len(q)
    BY <1>1, <1>7, <1>9 DEF ElementIDs, Listing
  <2> QED
    BY <1>1, <2>1 DEF Distinct
<1>11. Encode(Codec[s].fields, z, q[i]) = q[i] /\ Unrepeated(s, z)
  <2>1. IsElement(q[i]) /\ PlainItem(s, y) /\ x = Decode(Codec[s].row, q[i])
    BY <1>1, <1>8, <1>10 DEF ElementsOf, IsItem
  <2> QED
    BY <1>5, <1>7, <2>1, RecordedElement
<1>12. HoldsAs(s, q, z)
  BY <1>6, <1>7, <1>11 DEF HoldsAs
<1> QED
  BY <1>3, <1>11, <1>12 DEF Fixed, q, z

LEMMA RefreshedPort ==
  ASSUME NEW d, Regular(d), NEW y, PlainPort(y), PortFixed(d.device, y), Distinct(y.TaggedVLANs),
         NEW x \in ToSet(ReadSwitchPorts(d.device)), x.Port = y.Port, NEW z, PlainPort(z),
         z.Port = x.Port, z.NativeVLAN = x.NativeVLAN, z.AllVLANs = x.AllVLANs,
         z.TaggedVLANs = DomainValue("someset", ModelValue("someset", x.TaggedVLANs))
  PROVE  PortFixed(d.device, z) /\ Distinct(z.TaggedVLANs)
<1> DEFINE o == At(PortsOf(d.device), Key(x))
           T == x.TaggedVLANs
<1>1. IsFiniteSet(DOMAIN Fields(PortsOf(d.device))) /\ IsPort(o)
  BY RegularIs
<1>2. x = PortAs(x.Port, o)
  BY <1>1, ReadPortIs
<1>3. Key(y) = Key(x) /\ Key(z) = Key(x)
  BY DEF Key
<1>4. PortOver(o, y) = o /\ Rooted(d.device, PortPath(Key(x)))
  BY <1>3 DEF PortFixed
<1>5. SamePort(PortAs(y.Port, o), y)
  BY <1>4, PortOverReads
<1>6. T = AsInts(At(At(o, "allowedVlans"), "list")) /\ x.NativeVLAN = AsInt(At(o, "vlan"))
      /\ x.AllVLANs = AsFlag(At(At(o, "allowedVlans"), "all"))
  <2> HIDE DEF o
  <2> QED
    BY <1>2 DEF PortAs
<1>7. T = y.TaggedVLANs \/ SameMembers(T, y.TaggedVLANs)
  <2>1. PortAs(y.Port, o).TaggedVLANs = T
    BY <1>6 DEF PortAs
  <2> QED
    BY <1>5, <2>1 DEF SamePort
<1>8. Listing(T)
  <2>1. IsSection("SwitchPorts", ReadSection("SwitchPorts", d))
    BY ReadIsSection DEF Sections, ToSet
  <2>2. ReadSection("SwitchPorts", d) = ReadSwitchPorts(d.device)
    BY DEF ReadSection
  <2>3. IsItem("SwitchPorts", x)
    BY <2>1, <2>2, ListingDomain DEF IsSection, ToSet
  <2> QED
    BY <2>3 DEF IsItem, PlainPort, IntList
<1>9. Listing(y.TaggedVLANs)
  BY DEF PlainPort, IntList
<1> HIDE DEF o, T
<1>10. Distinct(T)
  BY <1>7, <1>8, <1>9, DistinctBySame
<1>11. Listing(z.TaggedVLANs) /\ Distinct(z.TaggedVLANs) /\ SameMembers(T, z.TaggedVLANs)
  <2>1. z.TaggedVLANs = DomainValue("someset", ModelValue("someset", T))
    BY DEF T
  <2> QED
    BY <1>8, <1>10, <2>1, SetReturns
<1>12. PortOver(o, z) = o
  <2>1. z.NativeVLAN = AsInt(At(o, "vlan")) /\ z.AllVLANs = AsFlag(At(At(o, "allowedVlans"), "all"))
    BY <1>6
  <2> QED
    BY <1>1, <1>4, <1>6, <1>11, <2>1, PortItself
<1> QED
  BY <1>3, <1>4, <1>11, <1>12 DEF PortFixed, o

LEMMA RefreshedIsFixed ==
  ASSUME NEW d, Regular(d), NEW s \in ToSet(Sections), Settles(s, d), NEW id, Names(s, id),
         NEW y, IsItem(s, y), Identity(s, y) = id, Fixed(s, d, y), Unrepeated(s, y),
         NEW x \in ToSet(ReadSection(s, d)), Identity(s, x) = id
  PROVE  LET z == DomainItem(s, id, Model(s, x)) IN Fixed(s, d, z) /\ Unrepeated(s, z)
<1> DEFINE z == DomainItem(s, id, Model(s, x))
<1>0. "SwitchPorts" \notin DOMAIN Codec /\ "DHCPReservations" \notin DOMAIN Codec
  BY DEF Codec
<1>1. IsItem(s, x)
  <2>1. IsSection(s, ReadSection(s, d))
    BY ReadIsSection
  <2> QED
    BY <2>1, ListingDomain DEF IsSection, ToSet
<1>2. CASE s \in DOMAIN Codec
  BY <1>2, RefreshedInList
<1>3. /\ z[IdentityField(s)] = x[IdentityField(s)]
      /\ \A f \in DOMAIN ModelOf(s) : f # IdentityField(s) => z[f] = DomainValue(ModelOf(s)[f], ModelValue(ModelOf(s)[f], x[f]))
  BY <1>1, ReturnedItem
<1>4. IsItem(s, z)
  BY ReadItemShows
<1> HIDE DEF z
<1>5. CASE s = "SwitchPorts" /\ \A e : ReadSection(s, e) = ReadSwitchPorts(e.device)
  <2>1. ModelOf(s) = SwitchPortModel /\ IdentityField(s) = "Port"
    BY <1>5 DEF ModelOf, IdentityField
  <2>2. /\ z.Port = x.Port
        /\ z.NativeVLAN = DomainValue("int", ModelValue("int", x.NativeVLAN))
        /\ z.AllVLANs = DomainValue("bool", ModelValue("bool", x.AllVLANs))
        /\ z.TaggedVLANs = DomainValue("someset", ModelValue("someset", x.TaggedVLANs))
    BY <1>3, <2>1 DEF SwitchPortModel
  <2>3. z.NativeVLAN = x.NativeVLAN /\ z.AllVLANs = x.AllVLANs
    BY <2>2 DEF DomainValue, ModelValue, Value
  <2>4. PlainPort(x) /\ PlainPort(y) /\ PlainPort(z)
    BY <1>1, <1>4, <1>5 DEF IsItem
  <2>5. x.Port = y.Port
    <3>1. \A n \in Numbers : Decimal[Text(n)] = n
      BY DecimalAssumption DEF Numbers, Text
    <3>2. Text(x.Port) = Text(y.Port)
      BY <1>5 DEF Identity
    <3> QED
      BY <2>4, <3>1, <3>2 DEF PlainPort
  <2>6. PortFixed(d.device, y) /\ Distinct(y.TaggedVLANs)
    BY <1>5 DEF Fixed, Unrepeated
  <2>7. PortFixed(d.device, z) /\ Distinct(z.TaggedVLANs)
    BY <1>5, <2>2, <2>3, <2>4, <2>5, <2>6, RefreshedPort
  <2> QED
    BY <1>0, <1>5, <2>7 DEF Fixed, Unrepeated, z
<1>6. CASE s = "DHCPReservations" /\ \A e : ReadSection(s, e) = ReadReservations(e.clients)
  <2>1. ModelOf(s) = ReservationModel /\ IdentityField(s) = "MAC"
    BY <1>6 DEF ModelOf, IdentityField
  <2>2. z.MAC = x.MAC /\ z.IP = DomainValue("always", ModelValue("always", x.IP))
    BY <1>3, <2>1 DEF ReservationModel
  <2>3. z.IP = x.IP
    BY <2>2 DEF DomainValue, ModelValue
  <2>4. x.MAC = id /\ y.MAC = id
    BY <1>6 DEF Identity
  <2>5. id \in DOMAIN ClientOf /\ MACOf[ClientOf[id]] = id /\ ClientOf[id] \in DOMAIN MACOf
    BY <1>6, MACAssumption DEF Names
  <2> DEFINE v == IPShown(d, ClientOf[id])
  <2>6. AsString(v) # "" /\ x.IP = AsString(v)
    <3> DEFINE k == ClientOf[id]
    <3>1. x \in ToSet(ReadReservations(d.clients)) /\ x.MAC = MACOf[k]
      BY <1>6, <2>4, <2>5
    <3>2. k \in DOMAIN MACOf
      BY <2>5
    <3>3. v = IPShown(d, k)
      OBVIOUS
    <3> HIDE DEF k, v
    <3>4. \A w \in ToSet(ReadReservations(d.clients)) :
            w.MAC = MACOf[k] => AsString(IPShown(d, k)) # "" /\ w.IP = AsString(IPShown(d, k))
      BY <3>2, ShownIsRead
    <3> QED
      BY <3>1, <3>3, <3>4
  <2>7. IPOver(v, x.IP) = v
    BY <2>6 DEF IPOver
  <2>8. Fixed(s, d, z)
    BY <1>0, <1>6, <2>2, <2>3, <2>4, <2>7 DEF Fixed
  <2> QED
    BY <1>0, <1>6, <2>8 DEF Unrepeated, z
<1> QED
  BY <1>2, <1>5, <1>6, ThreeKinds

-----------------------------------------------------------------------------
(* The cloud holds what the slots that were applied would write again.       *)

HeldItem(r) == DomainItem(focus, tf[r][1].id, tf[r][1].m)
HeldFixed ==
  held # {} =>
    /\ Settles(focus, cloud) /\ Identified(focus, cloud)
    /\ \A r \in held : Fixed(focus, cloud, HeldItem(r)) /\ Unrepeated(focus, HeldItem(r))

LEMMA SameFixed ==
  ASSUME HeldFixed, focus' = focus, cloud' = cloud, held' \subseteq held, \A r \in held' : tf'[r] = tf[r]
  PROVE  HeldFixed'
BY DEF HeldFixed, HeldItem

LEMMA RolledBackFixed ==
  ASSUME Orderly, HeldShown, HeldFixed, NEW c, Sound(c), RolledBack(Plan(c, cloud))
  PROVE  HeldFixed'
<1> DEFINE v == Post(Post(cloud, Plan(c, cloud)), PreImages(cloud, Plan(c, cloud)))
<1>1. /\ Fits(c) /\ (c["SwitchPorts"] # <<>> => cloud.device # Null)
      /\ Regular(cloud) /\ Regular(v) /\ focus \in ToSet(Sections)
  BY SoundFits DEF Orderly, Documented
<1>2. \A kind \in Kinds : \A key : Says(cloud, kind, key) = Says(v, kind, key)
  BY <1>1, UndoneIsRegular
<1>3. cloud' = v /\ focus' = focus /\ held' = held /\ tf' = tf
  BY DEF RolledBack
<1> HIDE DEF v
<1>4. Read(v) = Read(cloud)
  BY <1>2, ReadSame
<1>5. Read(v)[focus] = ReadSection(focus, v) /\ Read(cloud)[focus] = ReadSection(focus, cloud)
  BY <1>1 DEF Read
<1>6. CASE held = {}
  BY <1>3, <1>6 DEF HeldFixed
<1>7. CASE held # {}
  <2>1. Settles(focus, cloud) /\ Identified(focus, cloud)
        /\ \A r \in held : Fixed(focus, cloud, HeldItem(r)) /\ Unrepeated(focus, HeldItem(r))
    BY <1>7 DEF HeldFixed
  <2>2. Settles(focus, v)
    BY <1>1, <1>2, <2>1, SettlesSame
  <2>3. Identified(focus, v)
    BY <1>4, <1>5, <2>1 DEF Identified
  <2>4. ASSUME NEW r \in held PROVE Fixed(focus, v, HeldItem(r))
    <3>1. IsItem(focus, HeldItem(r))
      BY <2>4 DEF HeldShown, RecallsIn, HeldItem
    <3>2. Fixed(focus, cloud, HeldItem(r))
      BY <2>1
    <3> QED
      BY <1>1, <1>2, <2>1, <3>1, <3>2, FixedSame
  <2> QED
    BY <1>3, <2>1, <2>2, <2>3, <2>4 DEF HeldFixed, HeldItem
<1> QED
  BY <1>6, <1>7

\* The elements of a section other than the one put are the ones that were there.
LEMMA PutMembers ==
  ASSUME NEW s, NEW items, IsSection(s, items), NEW x, IsItem(s, x)
  PROVE  LET q == PutItem(s, items, x) IN
         /\ IsSection(s, q) /\ x \in ToSet(q)
         /\ \A y : Identity(s, y) # Identity(s, x) => (y \in ToSet(items) <=> y \in ToSet(q))
         /\ \A y \in ToSet(q) : y = x \/ y \in ToSet(items)
<1> DEFINE q == PutItem(s, items, x)
           n == Len(items)
<1>1. /\ IsSection(s, q)
      /\ \/ Len(q) = n + 1 /\ q[n + 1] = x /\ \A i \in 1..n : q[i] = items[i]
         \/ Len(q) = n /\ \E k \in 1..n : /\ Identity(s, items[k]) = Identity(s, x)
                                         /\ q[k] = x /\ \A i \in 1..n : i # k => q[i] = items[i]
  BY PutItemIs
<1> HIDE DEF q
<1>2. DOMAIN items = 1..n /\ DOMAIN q = 1..Len(q) /\ n \in Nat
  BY <1>1, ListingDomain DEF IsSection, Listing
<1>3. CASE Len(q) = n + 1 /\ q[n + 1] = x /\ \A i \in 1..n : q[i] = items[i]
  <2>1. n + 1 \in 1..Len(q) /\ \A i \in 1..Len(q) : i = n + 1 \/ i \in 1..n
    BY <1>2, <1>3
  <2>2. \A i \in 1..n : i \in 1..Len(q)
    BY <1>2, <1>3
  <2> HIDE DEF n
  <2>3. \A y : y \in ToSet(q) <=> y = x \/ y \in ToSet(items)
    BY <1>2, <1>3, <2>1, <2>2 DEF ToSet
  <2> QED
    BY <1>1, <2>3 DEF q
<1>4. CASE Len(q) = n /\ \E k \in 1..n : /\ Identity(s, items[k]) = Identity(s, x)
                                         /\ q[k] = x /\ \A i \in 1..n : i # k => q[i] = items[i]
  <2>1. PICK k \in 1..n : /\ Identity(s, items[k]) = Identity(s, x)
                          /\ q[k] = x /\ \A i \in 1..n : i # k => q[i] = items[i]
    BY <1>4
  <2>2. x \in ToSet(q) /\ \A y \in ToSet(q) : y = x \/ y \in ToSet(items)
    BY <1>2, <1>4, <2>1 DEF ToSet
  <2>3. \A y : Identity(s, y) # Identity(s, x) => (y \in ToSet(items) <=> y \in ToSet(q))
    BY <1>2, <1>4, <2>1 DEF ToSet
  <2> QED
    BY <1>1, <2>2, <2>3 DEF q
<1> QED
  BY <1>1, <1>3, <1>4

\* A reservation that is read names its client.
LEMMA ReadMACs ==
  ASSUME NEW d, Regular(d), NEW y \in ToSet(ReadReservations(d.clients))
  PROVE  Names("DHCPReservations", y.MAC)
<1>1. Listing(ReadReservations(d.clients))
  <2>1. IsSection("DHCPReservations", ReadSection("DHCPReservations", d))
    BY ReadIsSection DEF Sections, ToSet
  <2> QED
    BY <2>1 DEF IsSection, ReadSection
<1>2. y \in Reserved(d.clients)
  BY <1>1, ListingDomain, ReservationsOf DEF ToSet, Regular
<1>3. PICK c \in DOMAIN d.clients : y = [MAC |-> MACOf[c], IP |-> IPRead(d.clients[c])]
  BY <1>2 DEF Reserved
<1>4. y.MAC = MACOf[c]
  BY <1>3
<1> QED
  BY <1>3, <1>4, MACAssumption DEF Regular, Names

LEMMA PutFixed ==
  ASSUME Orderly, HeldShown, HeldFixed, NEW r \in Slots, NEW id, NEW m, PutStep(r, id, m)
  PROVE  HeldFixed'
<1> DEFINE c == PutConfig(id, m)
           u == Post(cloud, Plan(c, cloud))
           item == DomainItem(focus, id, m)
           was == ReadSection(focus, cloud)
           items == PutItem(focus, was, item)
           state == [StateOf(focus, id, item) EXCEPT !.m = m]
<1>1. Sound(c) /\ focus \in ToSet(Sections) /\ IsSection(focus, was) /\ Regular(cloud)
  BY PutIsSound, ReadIsSection DEF Orderly, Documented
<1>2. IsItem(focus, item) /\ FiniteSets(focus, m) /\ Names(focus, id) /\ \A q \in Slots \ {r} : tf[q] # <<>> => tf[q][1].id # id
  BY TakenIsOwned DEF PutStep, Orderly
<1>3. Identity(focus, item) = id
  BY <1>1, <1>2, ItemNamed
<1>4. /\ IsSection(focus, items) /\ item \in ToSet(items)
      /\ \A y : Identity(focus, y) # id => (y \in ToSet(was) <=> y \in ToSet(items))
      /\ \A y \in ToSet(items) : y = item \/ y \in ToSet(was)
  BY <1>1, <1>2, <1>3, PutMembers
<1>5. c[focus] = <<items>> /\ c[focus] # <<>> /\ c[focus][1] = items
  <2>1. c = Desired(focus, items)
    BY DEF PutConfig
  <2> HIDE DEF items, c
  <2> QED
    BY <1>1, <1>4, <2>1, DesiredIsConfig
<1>6. state.id = id /\ state.m = m
  BY DEF StateOf
<1>7. Transact(c, r, <<state>>, Plan(c, cloud))
  BY DEF PutStep, Put, ElementApply, PutConfig
<1>8. CASE RolledBack(Plan(c, cloud))
  BY <1>1, <1>8, RolledBackFixed
<1>9. CASE /\ cloud' = u /\ tf' = [tf EXCEPT ![r] = <<state>>] /\ held' = held \cup {r} /\ focus' = focus
  <2>1. Unrepeated(focus, item)
    BY <1>1, <1>2, WantedUnrepeated
  <2> HIDE DEF c, was, items, state
  <2>2. focus = "SwitchPorts" =>
          \A y \in ToSet(ReadSwitchPorts(cloud.device)) : \E x \in ToSet(c[focus][1]) : x.Port = y.Port
    <3> SUFFICES ASSUME focus = "SwitchPorts", NEW y \in ToSet(ReadSwitchPorts(cloud.device))
                 PROVE  \E x \in ToSet(items) : x.Port = y.Port
      BY <1>5
    <3>1. y \in ToSet(was)
      BY DEF was, ReadSection
    <3>2. CASE Identity(focus, y) # id
      BY <1>4, <3>1, <3>2
    <3>3. CASE Identity(focus, y) = id
      <4>1. PlainPort(item)
        BY <1>2 DEF IsItem
      <4>2. PlainPort(y)
        BY <1>1, <3>1, ListingDomain DEF IsSection, ToSet, IsItem
      <4> HIDE DEF item
      <4>3. Text(y.Port) = Text(item.Port)
        BY <1>3, <3>3 DEF Identity
      <4>4. \A n \in Numbers : Decimal[Text(n)] = n
        BY DecimalAssumption DEF Numbers, Text
      <4>5. item.Port = y.Port
        BY <4>1, <4>2, <4>3, <4>4 DEF PlainPort
      <4> QED
        BY <1>4, <4>5
    <3> QED
      BY <3>2, <3>3
  <2>3. focus = "DHCPReservations" => \A y \in ToSet(c[focus][1]) : Names(focus, y.MAC)
    <3> SUFFICES ASSUME focus = "DHCPReservations", NEW y \in ToSet(items) PROVE Names(focus, y.MAC)
      BY <1>5
    <3>1. CASE y = item
      <4>1. Identity(focus, y) = y.MAC
        BY DEF Identity
      <4> HIDE DEF item
      <4> QED
        BY <1>2, <1>3, <3>1, <4>1
    <3>2. CASE y \in ToSet(was)
      BY <1>1, <3>2, ReadMACs DEF was, ReadSection
    <3> QED
      BY <1>4, <3>1, <3>2
  <2> HIDE DEF item
  <2>4. Settles(focus, u) /\ Identified(focus, u) /\ Fixed(focus, u, item)
    BY <1>1, <1>4, <1>5, <2>2, SectionSettles
  <2>5. ASSUME NEW q \in held, q # r PROVE Fixed(focus, u, HeldItem(q)) /\ Unrepeated(focus, HeldItem(q))
    <3> DEFINE own == tf[q][1].id
               model == tf[q][1].m
    <3>1. q \in Slots /\ tf[q] # <<>> /\ IsItem(focus, DomainItem(focus, own, model))
      BY <2>5 DEF HeldShown, RecallsIn
    <3>2. Names(focus, own) /\ own # id
      BY <1>2, <2>5, <3>1 DEF Orderly, Stated
    <3>3. Settles(focus, cloud) /\ Fixed(focus, cloud, DomainItem(focus, own, model)) /\ Unrepeated(focus, HeldItem(q))
      BY <2>5 DEF HeldFixed, HeldItem
    <3>4. \A y : Identity(focus, y) = own => (y \in ToSet(ReadSection(focus, cloud)) <=> y \in ToSet(c[focus][1]))
      BY <1>4, <1>5, <3>2 DEF was
    <3> HIDE DEF own, model
    <3>5. Fixed(focus, u, DomainItem(focus, own, model))
      BY <1>1, <1>5, <2>3, <3>1, <3>2, <3>3, <3>4, StillFixed
    <3> QED
      BY <3>3, <3>5 DEF HeldItem, own, model
  <2>6. tf'[r][1] = state /\ \A q \in Slots \ {r} : tf'[q] = tf[q]
    BY <1>9 DEF Orderly, Documented
  <2>7. DomainItem(focus, tf'[r][1].id, tf'[r][1].m) = item
    BY <1>6, <2>6 DEF item
  <2>8. \A q \in held' : LET x == DomainItem(focus, tf'[q][1].id, tf'[q][1].m) IN Fixed(focus, u, x) /\ Unrepeated(focus, x)
    <3> SUFFICES ASSUME NEW q \in held'
                 PROVE  LET x == DomainItem(focus, tf'[q][1].id, tf'[q][1].m) IN Fixed(focus, u, x) /\ Unrepeated(focus, x)
      OBVIOUS
    <3>1. CASE q = r
      BY <2>1, <2>4, <2>7, <3>1
    <3>2. CASE q # r
      <4>1. q \in held /\ q \in Slots \ {r}
        BY <1>9, <3>2 DEF HeldShown
      <4> QED
        BY <2>5, <2>6, <4>1 DEF HeldItem
    <3> QED
      BY <3>1, <3>2
  <2> QED
    BY <1>9, <2>4, <2>8 DEF HeldFixed, HeldItem
<1> QED
  <2>1. <<state>> # <<>>
    OBVIOUS
  <2> HIDE DEF c, state
  <2> QED
    BY <1>7, <1>8, <1>9, <2>1 DEF Transact, Applied

LEMMA DropFixed ==
  ASSUME Orderly, HeldShown, HeldFixed, NEW r \in Slots, tf[r] # <<>>, focus # "SwitchPorts", Drop(focus, r)
  PROVE  HeldFixed'
<1> DEFINE id == tf[r][1].id
           c == DropConfig(id)
           u == Post(cloud, Plan(c, cloud))
           was == ReadSection(focus, cloud)
           items == DropItem(focus, was, id)
<1>1. Sound(c) /\ focus \in ToSet(Sections) /\ IsSection(focus, was) /\ Regular(cloud)
  BY DropIsSound, ReadIsSection DEF Orderly, Documented
<1>2. IsSection(focus, items)
  BY <1>1, DropItemIs
<1>3. c[focus] = <<items>> /\ c[focus] # <<>> /\ c[focus][1] = items
  <2>1. c = Desired(focus, items)
    BY DEF DropConfig
  <2> HIDE DEF items, c
  <2> QED
    BY <1>1, <1>2, <2>1, DesiredIsConfig
<1>4. DOMAIN was = 1..Len(was) /\ DOMAIN items = 1..Len(items)
  BY <1>1, <1>2, ListingDomain DEF IsSection
<1>5. /\ \A y : Identity(focus, y) # id => (y \in ToSet(was) <=> y \in ToSet(items))
      /\ \A y \in ToSet(items) : y \in ToSet(was)
  <2>1. items = DropItem(focus, was, id)
    OBVIOUS
  <2> HIDE DEF items, was
  <2>2. \A i \in 1..Len(items) : Identity(focus, items[i]) # id /\ \E j \in 1..Len(was) : items[i] = was[j]
    BY <1>1, <2>1, DropItemIs
  <2>3. \A j \in 1..Len(was) : Identity(focus, was[j]) # id => \E i \in 1..Len(items) : items[i] = was[j]
    BY <1>1, <2>1, DropItemIs
  <2>4. ASSUME NEW y \in ToSet(items) PROVE y \in ToSet(was)
    <3>1. PICK i \in 1..Len(items) : y = items[i]
      BY <1>4, <2>4 DEF ToSet
    <3> QED
      BY <1>4, <2>2, <3>1 DEF ToSet
  <2>5. ASSUME NEW y \in ToSet(was), Identity(focus, y) # id PROVE y \in ToSet(items)
    <3>1. PICK j \in 1..Len(was) : y = was[j]
      BY <1>4, <2>5 DEF ToSet
    <3> QED
      BY <1>4, <2>3, <2>5, <3>1 DEF ToSet
  <2> QED
    BY <2>4, <2>5
<1>6. Transact(c, r, <<>>, Plan(c, cloud))
  BY DEF Drop, ElementApply, DropConfig
<1>7. CASE RolledBack(Plan(c, cloud))
  BY <1>1, <1>7, RolledBackFixed
<1>8. CASE /\ cloud' = u /\ tf' = [tf EXCEPT ![r] = <<>>] /\ held' = held \ {r} /\ focus' = focus
  <2> HIDE DEF c, was, items
  <2>1. focus = "DHCPReservations" => \A y \in ToSet(c[focus][1]) : Names(focus, y.MAC)
    BY <1>1, <1>3, <1>5, ReadMACs DEF was, ReadSection
  <2>2. Settles(focus, u) /\ Identified(focus, u)
    BY <1>1, <1>3, SectionSettles
  <2>3. ASSUME NEW q \in held, q # r PROVE Fixed(focus, u, HeldItem(q)) /\ Unrepeated(focus, HeldItem(q))
    <3> DEFINE own == tf[q][1].id
               model == tf[q][1].m
    <3>1. q \in Slots /\ tf[q] # <<>> /\ IsItem(focus, DomainItem(focus, own, model))
      BY <2>3 DEF HeldShown, RecallsIn
    <3>2. Names(focus, own) /\ own # id
      BY <2>3, <3>1 DEF Orderly, Stated
    <3>3. Settles(focus, cloud) /\ Fixed(focus, cloud, DomainItem(focus, own, model)) /\ Unrepeated(focus, HeldItem(q))
      BY <2>3 DEF HeldFixed, HeldItem
    <3>4. \A y : Identity(focus, y) = own => (y \in ToSet(ReadSection(focus, cloud)) <=> y \in ToSet(c[focus][1]))
      BY <1>3, <1>5, <3>2 DEF was
    <3> HIDE DEF own, model
    <3>5. Fixed(focus, u, DomainItem(focus, own, model))
      BY <1>1, <1>3, <2>1, <3>1, <3>2, <3>3, <3>4, StillFixed
    <3> QED
      BY <3>3, <3>5 DEF HeldItem, own, model
  <2>4. \A q \in Slots \ {r} : tf'[q] = tf[q]
    BY <1>8 DEF Orderly, Documented
  <2>5. \A q \in held' : q \in held /\ q # r /\ tf'[q] = tf[q]
    BY <1>8, <2>4 DEF HeldShown
  <2> QED
    BY <1>8, <2>2, <2>3, <2>5 DEF HeldFixed, HeldItem
<1> HIDE DEF c
<1> QED
  BY <1>6, <1>7, <1>8 DEF Transact, Applied

LEMMA ReadFixed ==
  ASSUME Orderly, HeldShown, HeldFixed, NEW r \in Slots, ReadState(focus, r)
  PROVE  HeldFixed'
<1> DEFINE id == tf[r][1].id
           found == Find(cloud, focus, id)
           was == ReadSection(focus, cloud)
<1>1. /\ focus \in ToSet(Sections) /\ Regular(cloud) /\ Names(focus, id)
      /\ tf[r] # <<>> /\ focus' = focus /\ cloud' = cloud
      /\ tf' = [tf EXCEPT ![r] = Refreshed(focus, tf[r][1])]
      /\ held' = IF tf'[r] = <<>> THEN held \ {r} ELSE held
  BY DEF Orderly, Documented, Stated, ReadState
<1>2. tf'[r] = Refreshed(focus, tf[r][1]) /\ \A q \in Slots \ {r} : tf'[q] = tf[q]
  BY <1>1 DEF Orderly, Documented
<1>3. CASE r \notin held \/ tf'[r] = <<>>
  <2>1. held' \subseteq held /\ r \notin held'
    BY <1>1, <1>3
  <2>2. held \subseteq Slots
    BY DEF HeldShown
  <2> QED
    BY <1>1, <1>2, <2>1, <2>2, SameFixed
<1>4. CASE r \in held /\ tf'[r] # <<>>
  <2> DEFINE x == found[1]
             state == StateOf(focus, id, x)
             y == DomainItem(focus, id, tf[r][1].m)
             z == DomainItem(focus, id, Model(focus, x))
  <2>1. found # <<>> /\ tf'[r] = <<state>>
    BY <1>2, <1>4 DEF Refreshed
  <2>2. x \in ToSet(was) /\ Identity(focus, x) = id
    BY <1>1, <2>1, FoundIs
  <2>3. Settles(focus, cloud) /\ Identified(focus, cloud) /\ Fixed(focus, cloud, y) /\ Unrepeated(focus, y)
    BY <1>4 DEF HeldFixed, HeldItem
  <2>4. IsItem(focus, y)
    BY <1>4 DEF HeldShown, RecallsIn
  <2>5. Identity(focus, y) = id
    BY <1>1, ItemNamed
  <2>6. state.id = id /\ state.m = Model(focus, x)
    BY DEF StateOf
  <2> HIDE DEF found, x, y, state
  <2>7. Fixed(focus, cloud, z) /\ Unrepeated(focus, z)
    BY <1>1, <2>2, <2>3, <2>4, <2>5, RefreshedIsFixed
  <2>8. tf'[r][1] = state
    BY <2>1
  <2>9. held' = held /\ held \subseteq Slots
    BY <1>1, <1>4 DEF HeldShown
  <2>10. DomainItem(focus, tf'[r][1].id, tf'[r][1].m) = z
    BY <2>6, <2>8
  <2>11. \A q \in held : LET v == DomainItem(focus, tf'[q][1].id, tf'[q][1].m) IN Fixed(focus, cloud, v) /\ Unrepeated(focus, v)
    <3> SUFFICES ASSUME NEW q \in held
                 PROVE  LET v == DomainItem(focus, tf'[q][1].id, tf'[q][1].m) IN Fixed(focus, cloud, v) /\ Unrepeated(focus, v)
      OBVIOUS
    <3>1. CASE q = r
      BY <2>7, <2>10, <3>1
    <3>2. CASE q # r
      BY <1>2, <2>9, <3>2 DEF HeldFixed, HeldItem
    <3> QED
      BY <3>1, <3>2
  <2> QED
    BY <1>1, <2>3, <2>9, <2>11 DEF HeldFixed, HeldItem
<1> QED
  BY <1>3, <1>4

LEMMA HeldFixedStep ==
  ASSUME Orderly, HeldShown, HeldFixed, [Next]_vars
  PROVE  HeldFixed'
<1>0. held \subseteq Slots /\ \A r \in held : tf[r] # <<>>
  BY DEF HeldShown
<1>1. CASE UNCHANGED vars
  BY <1>1, SameFixed DEF vars
<1>2. ASSUME NEW r \in Slots, ElementStep(r) PROVE HeldFixed'
  <2>1. CASE ImportItem(focus, r)
    <3>1. r \notin held
      BY <1>0, <2>1 DEF ImportItem
    <3>2. focus' = focus /\ cloud' = cloud /\ held' = held /\ \A q \in held : tf'[q] = tf[q]
      BY <1>0, <2>1, <3>1 DEF ImportItem, Orderly, Documented
    <3> QED
      BY <3>2, SameFixed
  <2>2. CASE SwitchPortDelete(r)
    <3>1. focus' = focus /\ cloud' = cloud /\ held' \subseteq held /\ \A q \in held' : tf'[q] = tf[q]
      BY <1>0, <2>2 DEF SwitchPortDelete, Orderly, Documented
    <3> QED
      BY <3>1, SameFixed
  <2> QED
    BY <1>2, <2>1, <2>2, PutFixed, DropFixed, ReadFixed DEF ElementStep
<1>3. ASSUME NEW m \in ConfWanted[focus], ConfApply(conf, m) PROVE HeldFixed'
  <2> DEFINE c == ToConfig(m)
  <2>1. Sound(c)
    BY <1>3, AskedIsSound
  <2>2. CASE RolledBack(Plan(c, cloud))
    BY <2>1, <2>2, RolledBackFixed
  <2>3. CASE cloud' = Post(cloud, Plan(c, cloud)) /\ focus' = focus /\ tf' = tf
             /\ held' = IF Plan(c, cloud) = {} THEN held ELSE {}
    <3>1. CASE Plan(c, cloud) = {}
      <4>1. cloud' = cloud
        BY <2>3, <3>1, NothingPosted
      <4> QED
        BY <2>3, <3>1, <4>1, SameFixed
    <3>2. CASE Plan(c, cloud) # {}
      <4>1. held' = {}
        BY <2>3, <3>2
      <4> QED
        BY <4>1 DEF HeldFixed
    <3> QED
      BY <3>1, <3>2
  <2> QED
    BY <1>3, <2>2, <2>3 DEF ConfApply, Applied
<1>4. CASE ConfRead \/ ConfDelete \/ ConfImport
  BY <1>4, SameFixed DEF ConfRead, ConfDelete, ConfImport
<1>5. CASE PortalEdit
  <2>1. held' = {}
    BY <1>5 DEF PortalEdit
  <2> QED
    BY <2>1 DEF HeldFixed
<1> QED
  BY <1>1, <1>2, <1>3, <1>4, <1>5, StepKinds DEF Orderly

-----------------------------------------------------------------------------
(* Writing a section that stands as it is changes nothing.                   *)

\* Writing the items to section s leaves its part of d as it is.
Quiet(s, items, d) ==
  /\ s \in DOMAIN Codec => ListWrite(s, d.site, items) = d.site
  /\ s = "SwitchPorts" => WriteSwitchPorts(d.device, items) = d.device
  /\ s = "DHCPReservations" =>
       LET next == WriteReservations(d.clients, items) IN \A k \in DOMAIN next : Shown(next, k) = Shown(d.clients, k)

LEMMA QuietOverlay ==
  ASSUME NEW c, NEW d, Regular(d), NEW s \in ToSet(Sections), s # "DHCPReservations", c[s] # <<>> => Quiet(s, c[s][1], d)
  PROVE  Overlay(c, d, s) = d
<1>1. d = [site |-> d.site, device |-> d.device, clients |-> d.clients]
  BY DEF Regular, Ready, IsDocument, FiniteKeys
<1>2. CASE c[s] = <<>>
  BY <1>2 DEF Overlay
<1>3. CASE c[s] # <<>> /\ s = "SwitchPorts"
  <2>1. Overlay(c, d, s) = [site |-> d.site, device |-> WriteSwitchPorts(d.device, c[s][1]), clients |-> d.clients]
    BY <1>1, <1>3 DEF Overlay, WriteSection
  <2>2. WriteSwitchPorts(d.device, c[s][1]) = d.device
    BY <1>3 DEF Quiet
  <2> QED
    BY <1>1, <2>1, <2>2
<1>4. CASE c[s] # <<>> /\ s \in DOMAIN Codec
  <2>1. s # "SwitchPorts"
    BY <1>4 DEF Codec
  <2>2. Overlay(c, d, s) = [site |-> ListWrite(s, d.site, c[s][1]), device |-> d.device, clients |-> d.clients]
    BY <1>1, <1>4, <2>1 DEF Overlay, WriteSection
  <2>3. ListWrite(s, d.site, c[s][1]) = d.site
    BY <1>4 DEF Quiet
  <2> QED
    BY <1>1, <2>2, <2>3
<1> QED
  BY <1>2, <1>3, <1>4, ThreeKinds

LEMMA SectionsAreQuiet ==
  ASSUME NEW c, NEW d, Regular(d), \A s \in ToSet(Sections) : c[s] # <<>> => Quiet(s, c[s][1], d)
  PROVE  Plan(c, d) = {}
<1> DEFINE last == "DHCPReservations"
           again == Apply(c, d)
<1>1. d = [site |-> d.site, device |-> d.device, clients |-> d.clients]
  BY DEF Regular, Ready, IsDocument, FiniteKeys
<1>2. \A t \in ToSet(Sections) : t # last => Overlay(c, d, t) = d
  BY QuietOverlay
<1>3. Sections[6] = last /\ last \in ToSet(Sections)
  BY DEF Sections, ToSet
<1>4. again = Overlay(c, d, last)
  <2>1. Len(Sections) \in Nat /\ Len(Sections) = 6
    BY SectionsAre
  <2>2. PICK f : /\ f[0] = d /\ Apply(c, d) = f[6]
                 /\ \A i \in 1..6 : f[i] = Overlay(c, f[i - 1], Sections[i])
    BY <2>1, ApplyRuns
  <2> DEFINE S == {i \in Nat : i <= 5 => f[i] = d}
  <2>3. 0 \in S
    BY <2>2
  <2>4. ASSUME NEW i \in Nat, i \in S PROVE i + 1 \in S
    <3>1. i + 1 <= 5 => i <= 5 /\ i + 1 \in 1..6 /\ i + 1 - 1 = i /\ i + 1 # 6
      OBVIOUS
    <3>2. i + 1 <= 5 => Sections[i + 1] \in ToSet(Sections) /\ Sections[i + 1] # last
      <4>1. 6 \in 1..6
        OBVIOUS
      <4> QED
        BY <1>3, <3>1, <4>1, SectionsAre
    <3> QED
      BY <1>2, <2>2, <2>4, <3>1, <3>2
  <2>5. 5 \in S
    <3> HIDE DEF S
    <3> QED
      BY <2>3, <2>4, NatInduct
  <2>6. f[6] = Overlay(c, f[6 - 1], Sections[6]) /\ 6 - 1 = 5
    BY <2>2
  <2> QED
    BY <1>3, <2>2, <2>5, <2>6
<1>5. /\ again.site = d.site /\ again.device = d.device
      /\ \A k \in DOMAIN again.clients : ClientEdit(Record(again, k)) = ClientEdit(Record(d, k))
  <2>1. CASE c[last] = <<>>
    <3>1. again = d
      BY <1>4, <2>1 DEF Overlay
    <3> QED
      BY <3>1
  <2>2. CASE c[last] # <<>>
    <3> DEFINE items == c[last][1]
    <3>1. again = [site |-> d.site, device |-> d.device, clients |-> WriteReservations(d.clients, items)]
      BY <1>1, <1>4, <2>2 DEF Overlay, WriteSection
    <3>2. \A k \in DOMAIN WriteReservations(d.clients, items) :
            Shown(WriteReservations(d.clients, items), k) = Shown(d.clients, k)
      BY <1>3, <2>2 DEF Quiet
    <3>3. \A y, k : ClientEdit(Record(y, k)) = Shown(y.clients, k)
      BY DEF Record, Shown
    <3> HIDE DEF again, items
    <3> QED
      BY <3>1, <3>2, <3>3
  <2> QED
    BY <2>1, <2>2
<1> HIDE DEF again
<1>6. Changed(d.site, again.site) = {} /\ Changed(d.device, again.device) = {}
  BY <1>5 DEF Changed
<1>7. Writes(again, d) = {}
  BY <1>5, <1>6 DEF Writes
<1> QED
  BY <1>7 DEF Plan, again

LEMMA OneSectionIsQuiet ==
  ASSUME NEW s \in ToSet(Sections), NEW items, IsSection(s, items), NEW d, Regular(d), Quiet(s, items, d)
  PROVE  Plan(Desired(s, items), d) = {}
<1> DEFINE c == Desired(s, items)
<1>1. c[s] = <<items>> /\ \A t \in ToSet(Sections) : t # s => c[t] = <<>>
  BY DesiredIsConfig
<1> HIDE DEF c
<1>2. \A t \in ToSet(Sections) : c[t] # <<>> => Quiet(t, c[t][1], d)
  BY <1>1
<1>3. Plan(c, d) = {}
  BY <1>2, SectionsAreQuiet
<1> QED
  BY <1>3 DEF c

LEMMA EditsAgree ==
  ASSUME NEW o, NEW p, \A j \in EditKeys : ClientEdit(o)[j] = ClientEdit(p)[j]
  PROVE  ClientEdit(o) = ClientEdit(p)
<1>1. ClientEdit(o) = [k \in EditKeys |-> ClientEdit(o)[k]] /\ ClientEdit(p) = [k \in EditKeys |-> ClientEdit(p)[k]]
  BY EditIs
<1> QED
  BY <1>1

\* Clients that show the address written to them, the others none.
LEMMA ClientsAreQuiet ==
  ASSUME NEW d, NEW items,
         \A k \in WantedClients(items) : IPOver(IPShown(d, k), IPWanted(items, k)) = IPShown(d, k),
         \A k \in DOMAIN d.clients : k \notin WantedClients(items) => IPShown(d, k) = Null
  PROVE  \A k \in DOMAIN WriteReservations(d.clients, items) :
           Shown(WriteReservations(d.clients, items), k) = Shown(d.clients, k)
<1> DEFINE W == WantedClients(items)
           next == WriteReservations(d.clients, items)
<1>1. next = [k \in DOMAIN d.clients \cup W |->
                IF k \in W THEN Held(RecordOf(d.clients, k), IPWanted(items, k)) ELSE Released(RecordOf(d.clients, k))]
  BY ReservationsWritten
<1>2. "ip" \in EditKeys
  BY DEF EditKeys, ClientConfigFields
<1>3. \A k : IPShown(d, k) = Shown(d.clients, k)["ip"]
  BY DEF IPShown, Record, Shown
<1>4. (\A k \in W : IPOver(IPShown(d, k), IPWanted(items, k)) = IPShown(d, k))
      /\ (\A k \in DOMAIN d.clients : k \notin W => IPShown(d, k) = Null)
  OBVIOUS
<1> HIDE DEF next, W
<1>5. ASSUME NEW k \in DOMAIN next PROVE Shown(next, k) = Shown(d.clients, k)
  <2> DEFINE o == RecordOf(d.clients, k)
             ip == IPWanted(items, k)
  <2>1. ClientEdit(o) = Shown(d.clients, k)
    BY RecordEdit
  <2>2. Shown(next, k) = ClientEdit(next[k])
    BY <1>5 DEF Shown
  <2> HIDE DEF o, ip
  <2>3. CASE k \in W
    <3>1. next[k] = Held(o, ip)
      BY <1>1, <1>5, <2>3 DEF o, ip
    <3>2. IPOver(ClientEdit(o)["ip"], ip) = ClientEdit(o)["ip"]
      BY <1>3, <1>4, <2>1, <2>3 DEF ip
    <3>3. \A j \in EditKeys : ClientEdit(Held(o, ip))[j] = ClientEdit(o)[j]
      BY <3>2, HeldEdit
    <3>4. ClientEdit(Held(o, ip)) = ClientEdit(o)
      BY <3>3, EditsAgree
    <3> QED
      BY <2>1, <2>2, <3>1, <3>4
  <2>4. CASE k \notin W
    <3>1. next[k] = Released(o) /\ k \in DOMAIN d.clients
      BY <1>1, <1>5, <2>4 DEF o
    <3>2. ClientEdit(o)["ip"] = Null
      BY <1>3, <1>4, <2>1, <2>4, <3>1
    <3>3. \A j \in EditKeys : ClientEdit(Released(o))[j] = ClientEdit(o)[j]
      BY <3>2, ReleasedEdit
    <3>4. ClientEdit(Released(o)) = ClientEdit(o)
      BY <3>3, EditsAgree
    <3> QED
      BY <2>1, <2>2, <3>1, <3>4
  <2> QED
    BY <2>3, <2>4
<1> QED
  BY <1>5 DEF next

LEMMA SameRoutes ==
  ASSUME NEW s \in DOMAIN Codec, s = "StaticRoutes", NEW e, NEW x, PlainItem(s, x), Encode(Codec[s].fields, x, e) = e
  PROVE  LET y == Decode(Codec[s].row, e) IN
         \A z : (RouteBefore(z, y) <=> RouteBefore(z, x)) /\ (RouteBefore(y, z) <=> RouteBefore(x, z))
<1> DEFINE y == Decode(Codec[s].row, e)
<1>1. \A f \in DOMAIN Codec[s].row : ReadsAs(Codec[s].row[f][3], y[f], x[f])
  BY ReadsByName
<1> HIDE DEF y
<1>2. \A f \in {"Metric", "Network"} : f \in DOMAIN Codec[s].row /\ Codec[s].row[f][3] \in {"int", "string"}
  BY RouteRows
<1>3. \A f \in {"Metric", "Network"} : y[f] = x[f]
  BY <1>1, <1>2 DEF ReadsAs, Stored
<1>4. y.Metric = x.Metric /\ y.Network = x.Network
  BY <1>3
<1> QED
  BY <1>4 DEF RouteBefore, MetricOf, y

\* A list whose elements stand is written again as it is with an item that is fixed in it.
LEMMA ListIsQuiet ==
  ASSUME NEW d, Regular(d), NEW s \in DOMAIN Codec, Settles(s, d), Identified(s, d), NEW x, IsItem(s, x), Fixed(s, d, x)
  PROVE  ListWrite(s, d.site, PutItem(s, ReadSection(s, d), x)) = d.site
<1> DEFINE q == Elements(Codec[s].path, d.site)
           n == Len(q)
           was == ReadSection(s, d)
           items == PutItem(s, was, x)
           read(i) == Decode(Codec[s].row, q[i])
           id(i) == AsString(At(q[i], "id"))
<1>1. /\ s \in ToSet(Sections) /\ ElementsOf(q) /\ Listing(q) /\ Distinct(ElementIDs(q)) /\ DOMAIN q = 1..n
      /\ was = [i \in 1..n |-> read(i)] /\ n \in Nat
      /\ ToSet(was) = {read(i) : i \in 1..n}
  BY ReadElements DEF Listing
<1>2. Standing(s, d.site) /\ SelfRead(s, q) /\ (s = "StaticRoutes" => InOrder(q))
  BY DEF Settles
<1>3. \A i \in 1..n : id(i) = Identity(s, read(i)) /\ Encode(Codec[s].fields, read(i), q[i]) = q[i]
  BY <1>2 DEF SelfRead
<1>4. PICK k \in 1..n : id(k) = Identity(s, x) /\ Encode(Codec[s].fields, x, q[k]) = q[k]
  BY DEF Fixed, HoldsAs
<1>5. IsSection(s, was)
  BY <1>1, ReadIsSection
<1>6. \A i \in 1..n : read(i) \in ToSet(was)
  BY <1>1
<1> HIDE DEF q, was, read
<1>7. \A i, j \in 1..n : id(i) = id(j) => i = j
  <2>1. ElementIDs(q) = [i \in 1..n |-> id(i)]
    BY <1>1 DEF ElementIDs
  <2>2. Len(ElementIDs(q)) = n
    BY <1>1, <2>1
  <2>3. \A i, j \in 1..n : ElementIDs(q)[i] = ElementIDs(q)[j] => i = j
    BY <1>1, <2>2 DEF Distinct
  <2>4. \A i \in 1..n : ElementIDs(q)[i] = id(i)
    BY <2>1
  <2> HIDE DEF id, n
  <2> QED
    BY <2>3, <2>4
<1>8. Len(was) = n /\ \A i \in 1..n : was[i] = read(i)
  BY <1>1
<1>9. /\ IsSection(s, items) /\ Len(items) = n
      /\ items[k] = x /\ \A i \in 1..n : i # k => items[i] = read(i)
  <2>1. /\ IsSection(s, items)
        /\ \/ \A i \in 1..Len(was) : Identity(s, was[i]) # Identity(s, x)
           \/ /\ Len(items) = Len(was)
              /\ \E j \in 1..Len(was) : /\ Identity(s, was[j]) = Identity(s, x)
                                        /\ items[j] = x /\ \A i \in 1..Len(was) : i # j => items[i] = was[i]
    BY <1>5, PutItemIs
  <2> HIDE DEF items, n, id
  <2>2. Identity(s, was[k]) = Identity(s, x)
    BY <1>3, <1>4, <1>8
  <2>3. PICK j \in 1..n : /\ Identity(s, was[j]) = Identity(s, x)
                          /\ items[j] = x /\ \A i \in 1..n : i # j => items[i] = was[i]
    BY <1>8, <2>1, <2>2
  <2>4. j = k
    BY <1>3, <1>4, <1>7, <1>8, <2>3
  <2> QED
    BY <1>8, <2>1, <2>2, <2>3, <2>4
<1>10. \A i \in 1..n : id(i) = Identity(s, items[i])
  BY <1>3, <1>4, <1>9
<1>11. \A i \in 1..n : id(i) # ""
  BY <1>3, <1>6 DEF Identified, was
<1>12. \A j \in 1..Len(items) : HoldsAs(s, q, items[j])
  <2> HIDE DEF items
  <2> QED
    BY <1>3, <1>4, <1>9, <1>10 DEF HoldsAs
<1>13. Listable(s, items)
  <2> HIDE DEF items, id, n
  <2>1. Listing(items) /\ DOMAIN items = 1..Len(items)
    BY <1>9, ListingDomain DEF IsSection
  <2>2. ~ListError(s, items)
    BY <1>7, <1>9, <1>10, <1>11, <2>1 DEF ListError
  <2> QED
    BY <1>9, <2>1, <2>2 DEF Listable, IsSection, IsItem
<1>14. s = "StaticRoutes" => \A i, j \in 1..n : i < j => ~RouteBefore(items[j], items[i])
  <2> HIDE DEF items, id
  <2>1. SUFFICES ASSUME s = "StaticRoutes", NEW i \in 1..n, NEW j \in 1..n, i < j PROVE ~RouteBefore(items[j], items[i])
    OBVIOUS
  <2>2. ~RouteBefore(read(j), read(i))
    BY <1>2, <2>1 DEF InOrder, read
  <2>3. PlainItem(s, x)
    BY DEF IsItem
  <2>4. \A z : (RouteBefore(z, read(k)) <=> RouteBefore(z, x)) /\ (RouteBefore(read(k), z) <=> RouteBefore(x, z))
    BY <1>4, <2>1, <2>3, SameRoutes DEF read
  <2>5. i # j
    BY <2>1, <1>1
  <2> QED
    BY <1>9, <2>2, <2>4, <2>5
<1> HIDE DEF items
<1>15. WriteOrder(s, q, items) = ElementIDs(q)
  BY <1>1, <1>9, <1>10, <1>13, <1>14, SameOrder
<1>16. NextElements(s, q, items) = q
  BY <1>1, <1>12, <1>13, <1>15, ListStays
<1>17. ListSettled(s, d.site, items)
  BY <1>2, <1>16, StandingSettles DEF q
<1> QED
  BY <1>17, SettledIsQuiet DEF items, was

LEMMA PortsAreQuiet ==
  ASSUME NEW d, Regular(d), Settles("SwitchPorts", d),
         NEW x, IsItem("SwitchPorts", x), Fixed("SwitchPorts", d, x)
  PROVE  WriteSwitchPorts(d.device, PutItem("SwitchPorts", ReadSwitchPorts(d.device), x)) = d.device
<1> DEFINE s == "SwitchPorts"
           was == ReadSwitchPorts(d.device)
           items == PutItem(s, was, x)
<1>1. IsSection(s, was)
  <2>1. IsSection(s, ReadSection(s, d))
    BY ReadIsSection DEF Sections, ToSet
  <2> QED
    BY <2>1 DEF ReadSection
<1> HIDE DEF was
<1>2. IsSection(s, items) /\ \A y \in ToSet(items) : y = x \/ y \in ToSet(was)
  BY <1>1, PutMembers
<1> HIDE DEF items
<1>3. Len(items) \in Nat /\ DOMAIN items = 1..Len(items)
  BY <1>2, ListingDomain DEF IsSection, Listing
<1>4. PortFixed(d.device, x) /\ \A y \in ToSet(was) : PortFixed(d.device, y)
  BY DEF Fixed, Settles, was
<1>5. \A j \in 1..Len(items) : PortFixed(d.device, items[j])
  BY <1>2, <1>3, <1>4 DEF ToSet
<1>6. PortsSettled(d.device, items)
  BY <1>5 DEF PortsSettled, PortFixed
<1> QED
  BY <1>3, <1>6, SettledPortsAreQuiet DEF items, was

LEMMA ReservationsAreQuiet ==
  ASSUME NEW d, Regular(d), Settles("DHCPReservations", d),
         NEW x, IsItem("DHCPReservations", x), Fixed("DHCPReservations", d, x)
  PROVE  LET next == WriteReservations(d.clients, PutItem("DHCPReservations", ReadReservations(d.clients), x)) IN
         \A k \in DOMAIN next : Shown(next, k) = Shown(d.clients, k)
<1> DEFINE s == "DHCPReservations"
           was == ReadReservations(d.clients)
           items == PutItem(s, was, x)
           W == WantedClients(items)
           v(k) == IPShown(d, k)
<1>1. IsSection(s, was)
  <2>1. IsSection(s, ReadSection(s, d))
    BY ReadIsSection DEF Sections, ToSet
  <2> QED
    BY <2>1 DEF ReadSection
<1> HIDE DEF was
<1>2. /\ x \in ToSet(items) /\ \A y \in ToSet(items) : y = x \/ y \in ToSet(was)
      /\ \A y : y.MAC # x.MAC => (y \in ToSet(was) <=> y \in ToSet(items))
  <2>1. \A y : Identity(s, y) = y.MAC
    BY DEF Identity
  <2>2. /\ x \in ToSet(items)
        /\ \A y : Identity(s, y) # Identity(s, x) => (y \in ToSet(was) <=> y \in ToSet(items))
        /\ \A y \in ToSet(items) : y = x \/ y \in ToSet(was)
    BY <1>1, PutMembers
  <2> HIDE DEF items
  <2> QED
    BY <2>1, <2>2
<1>3. DOMAIN d.clients \subseteq DOMAIN MACOf
  BY RegularIs
<1>4. \A k \in DOMAIN MACOf : AsString(v(k)) = "" => v(k) = Null
  BY DEF Settles
<1>5. IPOver(v(ClientOf[x.MAC]), x.IP) = v(ClientOf[x.MAC])
  BY DEF Fixed
<1>6. \A k \in DOMAIN MACOf : /\ AsString(v(k)) # "" => [MAC |-> MACOf[k], IP |-> AsString(v(k))] \in ToSet(was)
                              /\ \A y \in ToSet(was) : y.MAC = MACOf[k] => AsString(v(k)) # "" /\ y.IP = AsString(v(k))
  BY ShownIsRead DEF was
<1>7. \A y \in ToSet(was) : ClientOf[y.MAC] \in DOMAIN MACOf /\ MACOf[ClientOf[y.MAC]] = y.MAC
  BY ReadMACs, MACAssumption DEF was, Names
<1> HIDE DEF v, items
<1>8. ASSUME NEW k \in W PROVE IPOver(v(k), IPWanted(items, k)) = v(k)
  <2> DEFINE r == CHOOSE r \in ToSet(items) : ClientOf[r.MAC] = k
  <2>1. r \in ToSet(items) /\ ClientOf[r.MAC] = k
    BY <1>8 DEF WantedClients
  <2>2. IPWanted(items, k) = r.IP
    BY DEF IPWanted
  <2> HIDE DEF r
  <2>3. CASE r = x
    BY <1>5, <2>1, <2>2, <2>3
  <2>4. CASE r \in ToSet(was)
    <3>1. k \in DOMAIN MACOf /\ r.MAC = MACOf[k]
      BY <1>7, <2>1, <2>4
    <3>2. AsString(v(k)) # "" /\ r.IP = AsString(v(k))
      BY <1>6, <2>4, <3>1
    <3> QED
      BY <2>2, <3>2 DEF IPOver
  <2> QED
    BY <1>2, <2>1, <2>3, <2>4
<1>9. ASSUME NEW k \in DOMAIN d.clients, k \notin W PROVE v(k) = Null
  <2>1. k \in DOMAIN MACOf
    BY <1>3
  <2>2. SUFFICES ASSUME AsString(v(k)) # "" PROVE FALSE
    BY <1>4, <2>1
  <2> DEFINE y == [MAC |-> MACOf[k], IP |-> AsString(v(k))]
  <2>3. y \in ToSet(was) /\ y.MAC = MACOf[k]
    BY <1>6, <2>1, <2>2
  <2>4. ClientOf[MACOf[k]] = k
    BY <2>1, MACAssumption
  <2> HIDE DEF y
  <2>5. \E z \in ToSet(items) : ClientOf[z.MAC] = k
    BY <1>2, <2>3, <2>4
  <2> QED
    BY <1>9, <2>5 DEF WantedClients
<1>10. /\ \A k \in WantedClients(items) : IPOver(IPShown(d, k), IPWanted(items, k)) = IPShown(d, k)
       /\ \A k \in DOMAIN d.clients : k \notin WantedClients(items) => IPShown(d, k) = Null
  BY <1>8, <1>9 DEF v
<1>11. \A k \in DOMAIN WriteReservations(d.clients, items) :
         Shown(WriteReservations(d.clients, items), k) = Shown(d.clients, k)
  BY <1>10, ClientsAreQuiet
<1> QED
  BY <1>11 DEF items, was

LEMMA FixedIsQuiet ==
  ASSUME NEW d, Regular(d), NEW s \in ToSet(Sections), Settles(s, d), Identified(s, d),
         NEW x, IsItem(s, x), Fixed(s, d, x)
  PROVE  Plan(Desired(s, PutItem(s, ReadSection(s, d), x)), d) = {}
<1> DEFINE items == PutItem(s, ReadSection(s, d), x)
<1>1. IsSection(s, items)
  BY ReadIsSection, PutItemIs
<1>2. s \in DOMAIN Codec => ListWrite(s, d.site, items) = d.site
  BY ListIsQuiet
<1>3. s = "SwitchPorts" => WriteSwitchPorts(d.device, items) = d.device
  BY PortsAreQuiet DEF ReadSection
<1>4. s = "DHCPReservations" =>
        \A k \in DOMAIN WriteReservations(d.clients, items) :
          Shown(WriteReservations(d.clients, items), k) = Shown(d.clients, k)
  <2> SUFFICES ASSUME s = "DHCPReservations"
               PROVE  \A k \in DOMAIN WriteReservations(d.clients, items) :
                        Shown(WriteReservations(d.clients, items), k) = Shown(d.clients, k)
    OBVIOUS
  <2>1. items = PutItem("DHCPReservations", ReadReservations(d.clients), x)
    BY DEF ReadSection
  <2> HIDE DEF items
  <2> QED
    BY <2>1, ReservationsAreQuiet
<1> HIDE DEF items
<1>5. Quiet(s, items, d)
  BY <1>2, <1>3, <1>4 DEF Quiet
<1>6. Plan(Desired(s, items), d) = {}
  BY <1>1, <1>5, OneSectionIsQuiet
<1> QED
  BY <1>6 DEF items

LEMMA HeldIsQuiet ==
  ASSUME Orderly, HeldShown, HeldFixed
  PROVE  SecondApplyIsQuiet
<1> SUFFICES ASSUME NEW r \in held PROVE Plan(Again(r), cloud) = {}
  BY DEF SecondApplyIsQuiet
<1> DEFINE x == HeldItem(r)
<1>1. Regular(cloud) /\ focus \in ToSet(Sections)
  BY DEF Orderly, Documented
<1>2. Settles(focus, cloud) /\ Identified(focus, cloud) /\ Fixed(focus, cloud, x)
  BY DEF HeldFixed
<1>3. IsItem(focus, x)
  BY DEF HeldShown, RecallsIn, HeldItem
<1>4. Again(r) = Desired(focus, PutItem(focus, ReadSection(focus, cloud), x))
  BY DEF Again, HeldItem
<1> HIDE DEF x
<1> QED
  BY <1>1, <1>2, <1>3, <1>4, FixedIsQuiet

LEMMA AlwaysHeldFixed == Spec => [](Orderly /\ HeldShown /\ HeldFixed)
<1>1. Init => HeldFixed
  BY DEF Init, HeldFixed
<1>2. Orderly /\ HeldShown /\ HeldFixed /\ [Next]_vars => HeldFixed'
  BY HeldFixedStep
<1> QED
  BY <1>1, <1>2, AlwaysHeldShown, PTL DEF Spec

\* What an element resource applied is what applying it again would write: while the slot is
\* held, one more apply of it writes nothing, whatever the other slots applied since.
THEOREM AppliedAgainIsQuiet == Spec => []SecondApplyIsQuiet
<1>1. Orderly /\ HeldShown /\ HeldFixed => SecondApplyIsQuiet
  BY HeldIsQuiet
<1> QED
  BY <1>1, AlwaysHeldFixed, PTL

-----------------------------------------------------------------------------
(* What has the portal's own form is written again as it is.                 *)

LEMMA AbsentField ==
  ASSUME NEW e, IsObj(e), NEW row, row[3] \in FieldKinds \ {"number"}, row[2] \notin DOMAIN Fields(e),
         NEW item, item[row[1]] = DecodeField(e, row[2], row[3])
  PROVE  EncodeField(item, e, row) = e
<1> DEFINE k == row[2]
           kind == row[3]
           x == item[row[1]]
<1>0. x = DecodeField(e, k, kind)
  OBVIOUS
<1>1. At(e, k) = Null /\ Omit(e, k) = e
  BY OmitAbsent DEF At
<1>2. Null[1] = "null" /\ AsString(Null) = "" /\ AsInt(Null) = NoInt /\ Null # Bool(TRUE) /\ Entries(Null) = <<>> /\ Fields(Null) = <<>>
  BY Tags DEF Null, AsString, AsInt, Bool, Entries, Fields
<1> HIDE DEF k, kind, x
<1>3. CASE kind = "string"
  BY <1>0, <1>1, <1>2, <1>3 DEF EncodeField, DecodeField, PutString, k, kind, x
<1>4. CASE kind = "int"
  BY <1>0, <1>1, <1>2, <1>4 DEF EncodeField, DecodeField, PutInt, k, kind, x
<1>5. CASE kind \in {"flag", "noflag"}
  BY <1>0, <1>1, <1>2, <1>5 DEF EncodeField, DecodeField, PutFlag, AsFlag, k, kind, x
<1>6. CASE kind = "tri"
  BY <1>0, <1>1, <1>2, <1>6 DEF EncodeField, DecodeField, PutTri, k, kind, x
<1>7. CASE kind = "csv"
  <2>1. x = <<>>
    BY <1>0, <1>1, <1>2, <1>7 DEF DecodeField, SplitCSV
  <2> QED
    BY <1>1, <1>7, <2>1 DEF EncodeField, PutCSV, k, kind, x
<1>8. CASE kind = "set"
  <2>1. x = AsStrings(At(e, k))
    BY <1>0, <1>8 DEF DecodeField
  <2>2. SameMembers(AsStrings(At(e, k)), x)
    BY <2>1 DEF SameMembers
  <2> QED
    BY <1>8, <2>2 DEF EncodeField, PutStringSet, k, kind, x
<1>9. CASE kind = "endpoint"
  <2>1. x.Address = "" /\ x.Port = ""
    <3>1. x = DecodeEndpoint(e, k)
      BY <1>0, <1>9 DEF DecodeField
    <3>2. \A j : At(Null, j) = Null
      BY DEF Fields, Null, At
    <3>3. x = [Address |-> AsString(At(At(e, k), "address")), Port |-> AsString(At(At(e, k), "port"))]
      BY <3>1 DEF DecodeEndpoint
    <3> QED
      BY <1>1, <1>2, <3>2, <3>3
  <2>2. Child(e, k) = EmptyObj
    BY <1>1, EmptyObject DEF Child
  <2>3. Omit(EmptyObj, "address") = EmptyObj /\ Omit(EmptyObj, "port") = EmptyObj
    <3>1. "port" \notin DOMAIN Fields(EmptyObj)
      BY FieldsObj DEF EmptyObj
    <3> QED
      BY <3>1, EmptyObject, OmitAbsent
  <2>4. PutPort(PutString(Child(e, k), "address", x.Address), "port", x.Port) = EmptyObj
    BY <2>1, <2>2, <2>3, EmptyIsNoNumber DEF PutPort, PutString
  <2>5. EncodeEndpoint(e, k, x) = PruneEmpty(With(e, k, EmptyObj), k)
    BY <2>4 DEF EncodeEndpoint
  <2>6. PruneEmpty(With(e, k, EmptyObj), k) = e
    BY AtSame, OmitWith DEF PruneEmpty, k
  <2> QED
    BY <1>9, <2>5, <2>6 DEF EncodeField, k, kind, x
<1> QED
  BY <1>3, <1>4, <1>5, <1>6, <1>7, <1>8, <1>9 DEF FieldKinds, kind

\* An endpoint that is there and has the portal's form.
LEMMA EndpointStays ==
  ASSUME NEW e, IsElement(e), NEW k \in DOMAIN Fields(e), FormOf("endpoint", At(e, k))
  PROVE  EncodeEndpoint(e, k, DecodeEndpoint(e, k)) = e
<1> DEFINE v == At(e, k)
           a == AsString(At(v, "address"))
           p == AsString(At(v, "port"))
<1>1. IsObj(v) /\ v # EmptyObj /\ \A j \in {"address", "port"} \cap DOMAIN Fields(v) : AsString(At(v, j)) # ""
  BY DEF FormOf
<1>2. IsObj(Obj(Fields(v)))
  BY DEF IsElement, IsValue
<1>3. IsObj(e) /\ With(e, k, v) = e
  BY WithSame DEF IsElement
<1> DEFINE c == Child(e, k)
<1>4. c = Obj(Fields(v)) /\ IsObj(c) /\ Fields(c) = Fields(v) /\ \A j : At(c, j) = At(v, j)
  <2>1. c = Obj(Fields(v))
    BY DEF Child
  <2>2. Fields(c) = Fields(v)
    BY <2>1, FieldsObj
  <2> HIDE DEF c, v
  <2> QED
    BY <1>2, <2>1, <2>2 DEF At
<1> HIDE DEF c
<1>5. ASSUME NEW j \in {"address", "port"} PROVE PutString(c, j, AsString(At(v, j))) = c
  <2>1. CASE j \in DOMAIN Fields(v)
    BY <1>1, <1>4, <2>1 DEF PutString
  <2>2. CASE j \notin DOMAIN Fields(v)
    <3>1. At(v, j) = Null /\ AsString(Null) = ""
      BY <2>2, Tags DEF At, AsString, Null
    <3>2. Omit(c, j) = c
      BY <1>4, <2>2, OmitAbsent
    <3> QED
      BY <3>1, <3>2 DEF PutString
  <2> QED
    BY <2>1, <2>2
<1>6. PutPort(PutString(c, "address", a), "port", p) = c
  <2>1. PutString(c, "address", a) = c /\ PutString(c, "port", p) = c
    BY <1>5
  <2>2. AsString(At(c, "port")) = p
    BY <1>4
  <2> HIDE DEF a, p
  <2> QED
    BY <2>1, <2>2 DEF PutPort
<1>7. EncodeEndpoint(e, k, DecodeEndpoint(e, k)) = PruneEmpty(With(e, k, c), k)
  <2>1. DecodeEndpoint(e, k) = [Address |-> a, Port |-> p]
    BY DEF DecodeEndpoint
  <2> HIDE DEF a, p
  <2> QED
    BY <1>6, <2>1 DEF EncodeEndpoint, c
<1>8. c = v
  <2>1. v = Obj(Fields(v))
    BY <1>1, FieldsObj DEF IsObj
  <2> QED
    BY <1>4, <2>1
<1> QED
  BY <1>1, <1>3, <1>7, <1>8 DEF PruneEmpty

\* A row of an element that has the portal's form is written again as it reads.
LEMMA FormStays ==
  ASSUME NEW e, IsElement(e), NEW row, row[3] \in FieldKinds \cup {"destination"},
         row[2] \in DOMAIN Fields(e) \/ row[3] \in {"destination", "number"} => FormOf(row[3], At(e, row[2])),
         NEW item, row[3] # "destination" => item[row[1]] = DecodeField(e, row[2], row[3])
  PROVE  EncodeField(item, e, row) = e
<1> DEFINE k == row[2]
           kind == row[3]
           x == item[row[1]]
           v == At(e, k)
<1>0. IsObj(e)
  BY DEF IsElement
<1>1. CASE kind = "destination"
  BY <1>1 DEF EncodeField, PutString, FormOf
<1>2. CASE kind = "number"
  <2>1. AsInt(v) # NoInt
    BY <1>2 DEF FormOf
  <2>2. x = AsInt(v)
    BY <1>2, <2>1 DEF DecodeField
  <2> QED
    BY <1>2, <2>1, <2>2 DEF EncodeField, PutInt
<1>3. CASE kind \notin {"number", "destination"} /\ k \notin DOMAIN Fields(e)
  BY <1>0, <1>3, AbsentField
<1>4. CASE kind \notin {"number", "destination"} /\ k \in DOMAIN Fields(e)
  <2>1. x = DecodeField(e, k, kind) /\ FormOf(kind, v) /\ kind \in FieldKinds
    BY <1>4
  <2>2. With(e, k, v) = e
    BY <1>0, <1>4, WithSame
  <2> HIDE DEF k, kind, x
  <2>3. CASE kind = "string"
    BY <2>1, <2>3 DEF EncodeField, DecodeField, FormOf, PutString, k, kind, x
  <2>4. CASE kind = "int"
    BY <2>1, <2>4 DEF EncodeField, DecodeField, FormOf, PutInt, k, kind, x
  <2>5. CASE kind \in {"flag", "noflag"}
    BY <2>1, <2>2, <2>5 DEF EncodeField, DecodeField, FormOf, PutFlag, AsFlag, k, kind, x
  <2>6. CASE kind = "tri"
    <3>1. v[1] = "bool" /\ v = Bool(v[2]) /\ x = <<v[2]>>
      BY <2>1, <2>6 DEF FormOf, DecodeField
    <3>2. x # <<>> /\ x[1] = v[2]
      BY <3>1
    <3>3. PutTri(e, k, x) = With(e, k, Bool(x[1]))
      BY <3>2 DEF PutTri
    <3> HIDE DEF v
    <3> QED
      BY <2>2, <2>6, <3>1, <3>2, <3>3 DEF EncodeField, k, kind, x
  <2>7. CASE kind = "csv"
    <3>1. v[1] = "csv" /\ v = Joined(v[2], FALSE) /\ v[2] \notin DOMAIN Rejoined \union {<<>>, <<"">>}
      BY <2>1, <2>7 DEF FormOf
    <3>2. x = v[2]
      BY <2>1, <2>7, <3>1 DEF DecodeField, SplitCSV
    <3>3. PutCSV(e, k, x) = With(e, k, Joined(x, FALSE))
      BY <3>1, <3>2 DEF PutCSV, NamesIn
    <3> HIDE DEF v
    <3> QED
      BY <2>2, <2>7, <3>1, <3>2, <3>3 DEF EncodeField, k, kind, x
  <2>8. CASE kind = "set"
    <3>1. x = AsStrings(At(e, k))
      BY <2>1, <2>8 DEF DecodeField
    <3>2. SameMembers(AsStrings(At(e, k)), x)
      BY <3>1 DEF SameMembers
    <3> QED
      BY <2>8, <3>2 DEF EncodeField, PutStringSet, k, kind, x
  <2>9. CASE kind = "endpoint"
    <3>1. x = DecodeEndpoint(e, k)
      BY <2>1, <2>9 DEF DecodeField
    <3>2. EncodeEndpoint(e, k, DecodeEndpoint(e, k)) = e
      BY <1>4, <2>1, <2>9, EndpointStays
    <3> QED
      BY <2>9, <3>1, <3>2 DEF EncodeField, k, kind, x
  <2> QED
    BY <2>1, <2>3, <2>4, <2>5, <2>6, <2>7, <2>8, <2>9, <1>4 DEF FieldKinds
<1> QED
  BY <1>1, <1>2, <1>3, <1>4

\* An element of that form is what it reads as, its sets without repetitions.
LEMMA FormIsRead ==
  ASSUME NEW s \in DOMAIN Codec, NEW e, IsElement(e), ElementForm(s, e)
  PROVE  LET x == Decode(Codec[s].row, e) IN
         /\ AsString(At(e, "id")) = Identity(s, x) /\ Encode(Codec[s].fields, x, e) = e
         /\ Unrepeated(s, x)
<1> DEFINE x == Decode(Codec[s].row, e)
           fields == Codec[s].fields
           row == Codec[s].row
<1>1. Table(fields)
  BY Codecs
<1>2. \A i \in DOMAIN fields :
        fields[i][2] \in DOMAIN Fields(e) \/ fields[i][3] \in {"destination", "number"} => FormOf(fields[i][3], At(e, fields[i][2]))
  BY DEF ElementForm, ToSet
<1>3. ASSUME NEW i \in DOMAIN fields PROVE EncodeField(x, e, fields[i]) = e
  <2>1. fields[i][3] # "destination" => x[fields[i][1]] = DecodeField(e, fields[i][2], fields[i][3])
    <3> SUFFICES ASSUME fields[i][3] # "destination" PROVE x[fields[i][1]] = DecodeField(e, fields[i][2], fields[i][3])
      OBVIOUS
    <3>1. fields[i][1] \in DOMAIN row /\ row[fields[i][1]] = fields[i]
      BY EveryRow
    <3> HIDE DEF fields, row
    <3> QED
      BY <3>1 DEF Decode, row
  <2>2. fields[i][3] \in FieldKinds \cup {"destination"}
    BY <1>1 DEF Table
  <2> HIDE DEF fields, x
  <2> QED
    BY <1>2, <2>1, <2>2, FormStays
<1>4. Encode(fields, x, e) = e
  <2> HIDE DEF x
  <2> QED
    BY <1>3, StayedRows
<1>5. ASSUME NEW f \in DOMAIN row PROVE x[f] = DecodeField(e, row[f][2], row[f][3])
  BY DEF Decode
<1>6. ASSUME NEW f \in DOMAIN row PROVE row[f][2] \in DOMAIN Fields(e) \/ row[f][3] = "number" => FormOf(row[f][3], At(e, row[f][2]))
  <2>1. PICK i \in DOMAIN fields : row[f] = fields[i]
    BY Codecs
  <2> HIDE DEF fields, row
  <2> QED
    BY <1>2, <2>1
<1>7. AsString(At(e, "id")) = Identity(s, x)
  <2>1. "ID" \in DOMAIN row /\ row["ID"][2] = "id" /\ row["ID"][3] = IF s = "VLANs" THEN "number" ELSE "string"
    BY RowKinds
  <2>2. Identity(s, x) = IF s = "VLANs" THEN Text(x["ID"]) ELSE x["ID"]
    BY IdentityRow
  <2>3. x["ID"] = DecodeField(e, "id", IF s = "VLANs" THEN "number" ELSE "string")
    BY <1>5, <2>1
  <2> HIDE DEF x, row
  <2>4. CASE s # "VLANs"
    BY <2>2, <2>3, <2>4 DEF DecodeField
  <2>5. CASE s = "VLANs"
    <3>1. AsInt(At(e, "id")) # NoInt /\ AsString(At(e, "id")) = ToString(AsInt(At(e, "id")))
      BY <1>6, <2>1, <2>5 DEF FormOf
    <3>2. x["ID"] = AsInt(At(e, "id"))
      BY <2>3, <2>5, <3>1 DEF DecodeField
    <3>3. AsInt(At(e, "id")) \in Int
      BY <3>1, DecimalAssumption DEF AsInt
    <3> QED
      BY <2>2, <2>5, <3>1, <3>2, <3>3 DEF Text
  <2> QED
    BY <2>4, <2>5
<1>8. ASSUME NEW f \in DOMAIN row, row[f][3] = "set" PROVE Distinct(x[f])
  <2>1. x[f] = AsStrings(At(e, row[f][2]))
    BY <1>5, <1>8 DEF DecodeField
  <2> HIDE DEF x, row
  <2>2. CASE row[f][2] \in DOMAIN Fields(e)
    BY <1>6, <1>8, <2>1, <2>2 DEF FormOf
  <2>3. CASE row[f][2] \notin DOMAIN Fields(e)
    <3>1. At(e, row[f][2]) = Null /\ Entries(Null) = <<>>
      BY <2>3, NothingAtNull DEF At
    <3>2. x[f] = <<>>
      BY <2>1, <3>1 DEF AsStrings
    <3> QED
      BY <3>2 DEF Distinct
  <2> QED
    BY <2>2, <2>3
<1>9. s # "SwitchPorts"
  BY DEF Codec
<1> QED
  BY <1>4, <1>7, <1>8, <1>9 DEF Unrepeated

\* An object of ports that has the portal's form.
LEMMA PortFormStays ==
  ASSUME NEW o, IsPort(o), PortForm(o), NEW n
  PROVE  PortOver(o, PortAs(n, o)) = o
<1> DEFINE x == PortAs(n, o)
           k == "allowedVlans"
           allowed == At(o, k)
           vlans == AsInts(At(allowed, "list"))
           port == PutInt(Obj(Fields(o)), "vlan", x.NativeVLAN)
<1>1. /\ x.NativeVLAN = AsInt(At(o, "vlan")) /\ x.AllVLANs = AsFlag(At(allowed, "all")) /\ x.TaggedVLANs = vlans
  BY DEF PortAs
<1>2. /\ IsObj(o)
      /\ "vlan" \in DOMAIN Fields(o) => AsInt(At(o, "vlan")) # NoInt
      /\ k \in DOMAIN Fields(o) => IsObj(allowed) /\ allowed # EmptyObj
      /\ "all" \in DOMAIN Fields(allowed) => At(allowed, "all") = Bool(TRUE)
      /\ "list" \in DOMAIN Fields(allowed) => vlans # <<>>
  BY DEF PortForm
<1>3. Obj(Fields(o)) = o
  BY <1>2, FieldsObj DEF IsObj
<1>4. /\ AsInt(Null) = NoInt /\ AsFlag(Null) = FALSE /\ Fields(Null) = <<>> /\ AsInts(Null) = <<>>
  <2>1. Null[1] = "null" /\ Null # Bool(TRUE) /\ Entries(Null) = <<>> /\ Fields(Null) = <<>>
    BY Tags DEF Null, Bool, Entries, Fields
  <2>2. AsInts(Null) = <<>>
    BY <2>1 DEF AsInts, AllInts
  <2> QED
    BY <2>1, <2>2 DEF AsInt, AsFlag
<1> HIDE DEF x, vlans
<1>5. port = o
  <2>1. CASE "vlan" \in DOMAIN Fields(o)
    BY <1>1, <1>2, <1>3, <2>1 DEF PutInt
  <2>2. CASE "vlan" \notin DOMAIN Fields(o)
    <3>1. At(o, "vlan") = Null
      BY <2>2 DEF At
    <3>2. Omit(o, "vlan") = o
      BY <1>2, <2>2, OmitAbsent
    <3> QED
      BY <1>1, <1>3, <1>4, <3>1, <3>2 DEF PutInt
  <2> QED
    BY <2>1, <2>2
<1>6. PortOver(o, x) = PruneEmpty(With(o, k, VLANsOver(Obj(Fields(allowed)), x)), k)
  BY <1>5 DEF PortOver, Child
<1>7. ASSUME NEW a, IsObj(a), Fields(a) = Fields(allowed) PROVE VLANsOver(a, x) = a
  <2>0. \A j : At(a, j) = At(allowed, j)
    BY <1>7 DEF At
  <2> HIDE DEF allowed
  <2>1. PutFlag(a, "all", x.AllVLANs) = a
    <3>1. CASE "all" \in DOMAIN Fields(a)
      <4>1. At(a, "all") = Bool(TRUE)
        BY <1>2, <1>7, <2>0, <3>1
      <4>2. With(a, "all", At(a, "all")) = a
        BY <1>7, <3>1, WithSame
      <4> QED
        BY <1>1, <2>0, <4>1, <4>2 DEF PutFlag, AsFlag
    <3>2. CASE "all" \notin DOMAIN Fields(a)
      <4>1. At(a, "all") = Null
        BY <3>2 DEF At
      <4>2. Omit(a, "all") = a
        BY <1>7, <3>2, OmitAbsent
      <4> QED
        BY <1>1, <1>4, <2>0, <4>1, <4>2 DEF PutFlag
    <3> QED
      BY <3>1, <3>2
  <2>2. vlans = AsInts(At(a, "list"))
    BY <2>0 DEF vlans
  <2>3. PutIntSet(a, "list", vlans) = a
    <3>1. CASE "list" \in DOMAIN Fields(a)
      <4>1. vlans # <<>>
        BY <1>2, <1>7, <3>1
      <4>2. AllInts(At(a, "list"))
        BY <2>2, <4>1 DEF AsInts
      <4>3. SameMembers(AsInts(At(a, "list")), vlans)
        BY <2>2 DEF SameMembers
      <4> QED
        BY <4>1, <4>2, <4>3 DEF PutIntSet
    <3>2. CASE "list" \notin DOMAIN Fields(a)
      <4>1. At(a, "list") = Null
        BY <3>2 DEF At
      <4>2. Omit(a, "list") = a
        BY <1>7, <3>2, OmitAbsent
      <4> QED
        BY <1>4, <2>2, <4>1, <4>2 DEF PutIntSet
    <3> QED
      BY <3>1, <3>2
  <2> QED
    BY <1>1, <2>1, <2>3 DEF VLANsOver
<1>8. CASE k \in DOMAIN Fields(o)
  <2>1. Obj(Fields(allowed)) = allowed /\ IsObj(allowed) /\ allowed # EmptyObj
    <3>1. IsObj(allowed) /\ allowed # EmptyObj
      BY <1>2, <1>8
    <3> HIDE DEF allowed
    <3> QED
      BY <3>1, FieldsObj DEF IsObj
  <2>2. VLANsOver(allowed, x) = allowed
    BY <1>7, <2>1
  <2>3. With(o, k, allowed) = o
    BY <1>2, <1>8, WithSame
  <2> QED
    BY <1>6, <2>1, <2>2, <2>3 DEF PruneEmpty, x
<1>9. CASE k \notin DOMAIN Fields(o)
  <2>1. allowed = Null /\ Obj(Fields(allowed)) = EmptyObj /\ IsObj(EmptyObj)
    <3>1. allowed = Null
      BY <1>9 DEF At
    <3> QED
      BY <3>1, EmptyObject
  <2>2. Fields(EmptyObj) = Fields(allowed)
    <3>1. Fields(EmptyObj) = Fields(Obj(Fields(allowed)))
      BY <2>1
    <3> QED
      BY <3>1, FieldsObj
  <2>3. VLANsOver(EmptyObj, x) = EmptyObj
    BY <1>7, <2>1, <2>2
  <2>4. PruneEmpty(With(o, k, EmptyObj), k) = o
    <3>1. At(With(o, k, EmptyObj), k) = EmptyObj
      BY AtSame
    <3>2. Omit(With(o, k, EmptyObj), k) = o
      BY <1>2, <1>9, OmitWith
    <3> QED
      BY <3>1, <3>2 DEF PruneEmpty
  <2> QED
    BY <1>6, <2>1, <2>3, <2>4 DEF x
<1> QED
  BY <1>8, <1>9 DEF x

\* What is there, and in objects, is rooted.
LEMMA InObjectsIsRooted ==
  ASSUME NEW root, NEW path, Len(path) \in Nat, InObjects(root, path), Node(root, path) # Null
  PROVE  Rooted(root, path)
<1> DEFINE at(m) == Node(root, Prefix(path, m))
<1>1. \A m \in 1..Len(path) : IsObj(at(m - 1))
  BY DEF InObjects, Prefix
<1>2. \A m \in 1..Len(path) : at(m) = At(at(m - 1), path[m])
  BY NodeNext
<1>3. at(Len(path)) # Null
  BY NodeAlong
<1> HIDE DEF at
<1>4. \A m \in 1..Len(path) : at(m) # Null
  <2> SUFFICES ASSUME NEW m \in 1..Len(path), m # Len(path) PROVE at(m) # Null
    BY <1>3
  <2>1. m + 1 \in 1..Len(path) /\ m + 1 - 1 = m
    OBVIOUS
  <2> QED
    BY <1>1, <2>1, NullIsNoObj
<1>5. \A m \in 1..Len(path) : path[m] \in DOMAIN Fields(at(m - 1))
  BY <1>2, <1>4 DEF At
<1> QED
  BY <1>1, <1>5 DEF Rooted, at

\* A section that has the portal's form is what it reads as, item by item.
AsRead(s, d) ==
  /\ Settles(s, d) /\ Identified(s, d)
  /\ \A x \in ToSet(ReadSection(s, d)) : Fixed(s, d, x) /\ Unrepeated(s, x) /\ Names(s, Identity(s, x))

LEMMA PortalListIsAsRead ==
  ASSUME NEW d, Regular(d), NEW s \in DOMAIN Codec, PortalForm(s, d)
  PROVE  AsRead(s, d)
<1> DEFINE path == Codec[s].path
           q == Elements(path, d.site)
           n == Len(q)
           read(i) == Decode(Codec[s].row, q[i])
           was == ReadSection(s, d)
<1>1. /\ s \in ToSet(Sections) /\ ElementsOf(q) /\ Listing(q) /\ DOMAIN q = 1..n
      /\ was = [i \in 1..n |-> read(i)] /\ n \in Nat
      /\ ToSet(was) = {read(i) : i \in 1..n}
  BY ReadElements DEF Listing
<1>2. s # "SwitchPorts" /\ s # "DHCPReservations"
  BY DEF Codec
<1>3. ListRead(s, d.site) = was
  BY <1>2 DEF ReadSection
<1>4. /\ Node(d.site, path) = List(q) /\ InObjects(d.site, path)
      /\ \A i \in DOMAIN q : ElementForm(s, q[i])
      /\ s = "StaticRoutes" => \A i, j \in DOMAIN was : i < j => RouteBefore(was[i], was[j])
  BY <1>2, <1>3 DEF PortalForm
<1>5. ASSUME NEW i \in 1..n
      PROVE  /\ AsString(At(q[i], "id")) = Identity(s, read(i)) /\ Encode(Codec[s].fields, read(i), q[i]) = q[i]
             /\ Unrepeated(s, read(i)) /\ AsString(At(q[i], "id")) # "" /\ PlainItem(s, read(i))
  <2>1. IsElement(q[i]) /\ ElementForm(s, q[i])
    BY <1>1, <1>4 DEF ElementsOf
  <2>2. AsString(At(q[i], "id")) # ""
    BY <2>1 DEF ElementForm
  <2> QED
    BY <2>1, <2>2, FormIsRead, DecodedItem
<1>6. Standing(s, d.site)
  <2>1. List(q) # Null
    BY Tags
  <2>2. Len(path) \in Nat
    BY Paths
  <2>3. Rooted(d.site, path)
    <3> HIDE DEF q, path
    <3> QED
      BY <1>4, <2>1, <2>2, InObjectsIsRooted
  <2> QED
    BY <1>4, <2>3 DEF Standing
<1>7. SelfRead(s, q)
  BY <1>5 DEF SelfRead
<1>8. s = "StaticRoutes" => InOrder(q)
  <2> SUFFICES ASSUME s = "StaticRoutes", NEW i \in 1..n, NEW j \in 1..n, i < j PROVE ~RouteBefore(read(j), read(i))
    BY DEF InOrder
  <2>1. RouteBefore(was[i], was[j]) /\ was[i] = read(i) /\ was[j] = read(j)
    BY <1>1, <1>4
  <2>2. \A k \in {i, j} : read(k).Network \in ToSet(Lexical)
    <3>1. Placed(was)
      BY <1>3 DEF Regular
    <3>2. Len(was) = n
      BY <1>1
    <3> QED
      BY <1>1, <2>1, <3>1, <3>2 DEF Placed
  <2>3. \A k \in {i, j} : MetricOf(read(k)) \in Int
    <3>1. \A k \in {i, j} : PlainItem(s, read(k))
      BY <1>5
    <3>2. "Metric" \in DOMAIN Codec[s].row /\ Codec[s].row["Metric"][3] = "int"
      BY RouteRows
    <3> HIDE DEF read
    <3>3. \A k \in {i, j} : read(k)["Metric"] \in Numbers \cup {NoInt}
      BY <3>1, <3>2 DEF PlainItem, Plain
    <3>4. Numbers \subseteq Int
      BY DecimalAssumption DEF Numbers
    <3>5. ASSUME NEW k \in {i, j} PROVE read(k).Metric \in Int
      <4>1. read(k).Metric \in Numbers \/ read(k).Metric = NoInt
        BY <3>3
      <4>2. NoInt \in Int
        BY DEF NoInt
      <4> QED
        BY <3>4, <4>1, <4>2
    <3> QED
      BY <3>5 DEF MetricOf
  <2> HIDE DEF read, was
  <2>4. RouteBefore(read(i), read(j))
    BY <2>1
  <2> QED
    BY <2>2, <2>3, <2>4, PlaceOf DEF RouteBefore
<1>9. Settles(s, d)
  BY <1>2, <1>6, <1>7, <1>8 DEF Settles
<1>10. \A x \in ToSet(was) : \E i \in 1..n : x = read(i)
  BY <1>1
<1>11. Identified(s, d)
  <2> HIDE DEF read, was
  <2>1. \A x \in ToSet(was) : Identity(s, x) # ""
    BY <1>5, <1>10
  <2> QED
    BY <2>1 DEF Identified, was
<1>12. ASSUME NEW x \in ToSet(was) PROVE Fixed(s, d, x) /\ Unrepeated(s, x) /\ Names(s, Identity(s, x))
  <2>1. PICK i \in 1..n : x = read(i)
    BY <1>10
  <2>2. Unrepeated(s, x) /\ PlainItem(s, x)
    BY <1>5, <2>1
  <2>3. HoldsAs(s, q, x)
    BY <1>5, <2>1 DEF HoldsAs
  <2>4. Fixed(s, d, x)
    BY <1>2, <2>3 DEF Fixed
  <2>5. Names(s, Identity(s, x))
    <3>1. CASE s # "VLANs"
      BY <1>2, <3>1 DEF Names
    <3>2. CASE s = "VLANs"
      <4>1. "ID" \in DOMAIN Codec[s].row /\ Codec[s].row["ID"][3] = "number"
        BY <3>2, RowKinds
      <4>2. x["ID"] \in Numbers
        BY <2>2, <4>1 DEF PlainItem, Plain
      <4>3. Numbers \subseteq Int
        BY DecimalAssumption DEF Numbers
      <4>4. Identity(s, x) = ToString(x["ID"])
        BY <3>2, <4>2, <4>3, IdentityRow DEF Text
      <4>5. ToString(x["ID"]) \in DOMAIN Decimal /\ Decimal[ToString(x["ID"])] = x["ID"]
        BY <4>2, KeyOfPort
      <4> QED
        BY <3>2, <4>4, <4>5 DEF Names
    <3> QED
      BY <3>1, <3>2
  <2> QED
    BY <2>2, <2>4, <2>5
<1> QED
  BY <1>9, <1>11, <1>12 DEF AsRead

LEMMA PortalPortsAreAsRead ==
  ASSUME NEW d, Regular(d), NEW s, s = "SwitchPorts", PortalForm(s, d)
  PROVE  AsRead(s, d)
<1> DEFINE device == d.device
           ports == PortsOf(device)
           was == ReadSwitchPorts(device)
<1>1. IsFiniteSet(DOMAIN Fields(ports)) /\ \A k : IsPort(At(ports, k))
  BY RegularIs
<1>2. \A k \in DOMAIN Fields(ports) \cap DOMAIN Decimal :
        InObjects(device, PortPath(k)) /\ k = ToString(Decimal[k]) /\ PortForm(At(ports, k))
  BY DEF PortalForm, PortPath, PortsOf
<1>3. ReadSection(s, d) = was
  BY DEF ReadSection
<1> HIDE DEF was
<1>4. ASSUME NEW x \in ToSet(was)
      PROVE  PortFixed(device, x) /\ Unrepeated(s, x) /\ Names(s, Identity(s, x))
  <2>1. PICK k \in DOMAIN Fields(ports) \cap DOMAIN Decimal : x.Port = Decimal[k]
    <3>1. PICK n \in Nat : \E p :
             /\ was = [i \in 1..n |-> PortAs(p[i], At(ports, ToString(p[i])))]
             /\ p \in [1..n -> PortNumbers(device)]
      BY <1>1, PortsRead DEF was
    <3>0. PICK p :
             /\ was = [i \in 1..n |-> PortAs(p[i], At(ports, ToString(p[i])))]
             /\ p \in [1..n -> PortNumbers(device)]
      BY <3>1
    <3>2. PICK i \in 1..n : x = PortAs(p[i], At(ports, ToString(p[i])))
      BY <3>0 DEF ToSet
    <3>3. x.Port = p[i] /\ p[i] \in PortNumbers(device)
      BY <3>0, <3>2 DEF PortAs
    <3> QED
      BY <3>3 DEF PortNumbers
  <2> DEFINE o == At(ports, k)
  <2>2. k = ToString(Decimal[k]) /\ PortForm(o) /\ InObjects(device, PortPath(k)) /\ IsPort(o)
    BY <1>1, <1>2
  <2>3. Key(x) = k /\ x = PortAs(x.Port, o) /\ x.Port \in Numbers
    BY <1>1, <2>1, <2>2, ReadPortIs DEF Key, was
  <2>4. PortOver(o, x) = o
    <3> HIDE DEF o
    <3> QED
      BY <2>2, <2>3, PortFormStays
  <2>5. Rooted(device, PortPath(k))
    <3>1. Len(PortPath(k)) \in Nat
      BY PortPathIs
    <3>2. Node(device, PortPath(k)) = o
      BY PortNode DEF PortsOf
    <3>3. o # Null
      <4>1. IsObj(o)
        BY <2>2 DEF PortForm
      <4> QED
        BY <4>1, NullIsNoObj
    <3> HIDE DEF o
    <3> QED
      BY <2>2, <3>1, <3>2, <3>3, InObjectsIsRooted
  <2>6. PortFixed(device, x)
    BY <2>3, <2>4, <2>5 DEF PortFixed
  <2>7. Unrepeated(s, x)
    <3> DEFINE allowed == At(o, "allowedVlans")
               vlans == AsInts(At(allowed, "list"))
    <3>1. x.TaggedVLANs = vlans
      BY <2>3 DEF PortAs
    <3>2. "list" \in DOMAIN Fields(allowed) => Distinct(vlans)
      BY <2>2 DEF PortForm
    <3>3. "list" \notin DOMAIN Fields(allowed) => Distinct(vlans)
      <4> SUFFICES ASSUME "list" \notin DOMAIN Fields(allowed) PROVE Distinct(vlans)
        OBVIOUS
      <4>1. At(allowed, "list") = Null
        BY DEF At
      <4>2. AsInts(Null) = <<>>
        BY NothingAtNull DEF AsInts
      <4> QED
        BY <4>1, <4>2 DEF Distinct
    <3> HIDE DEF vlans, allowed
    <3>4. s \notin DOMAIN Codec
      BY DEF Codec
    <3> QED
      BY <3>1, <3>2, <3>3, <3>4 DEF Unrepeated
  <2>8. Names(s, Identity(s, x))
    <3>1. Numbers \subseteq Int
      BY DecimalAssumption DEF Numbers
    <3>2. Identity(s, x) = ToString(x.Port)
      BY <2>3, <3>1 DEF Identity, Text
    <3>3. ToString(x.Port) \in DOMAIN Decimal /\ Decimal[ToString(x.Port)] = x.Port
      BY <2>3, KeyOfPort
    <3> QED
      BY <3>2, <3>3 DEF Names
  <2> QED
    BY <2>6, <2>7, <2>8
<1>5. s \notin DOMAIN Codec
  BY DEF Codec
<1>6. Settles(s, d) /\ Identified(s, d)
  BY <1>4, <1>5 DEF Settles, Identified, was
<1>7. ASSUME NEW x \in ToSet(was) PROVE Fixed(s, d, x)
  BY <1>4, <1>5 DEF Fixed
<1> QED
  BY <1>3, <1>4, <1>6, <1>7 DEF AsRead

LEMMA PortalClientsAreAsRead ==
  ASSUME NEW d, Regular(d), NEW s, s = "DHCPReservations", PortalForm(s, d)
  PROVE  AsRead(s, d)
<1> DEFINE was == ReadReservations(d.clients)
           v(k) == IPShown(d, k)
<1>1. ASSUME NEW k, AsString(v(k)) = "" PROVE v(k) = Null
  <2>1. CASE k \in DOMAIN d.clients
    <3>1. \A c \in DOMAIN d.clients : LET ip == ClientEdit(d.clients[c])["ip"] IN AsString(ip) = "" => ip = Null
      BY DEF PortalForm
    <3>2. v(k) = ClientEdit(d.clients[k])["ip"]
      BY <2>1 DEF IPShown, Record
    <3> HIDE DEF v
    <3> QED
      BY <1>1, <2>1, <3>1, <3>2
  <2>2. CASE k \notin DOMAIN d.clients
    <3>1. v(k) = ClientEdit(EmptyObj)["ip"]
      BY <2>2 DEF IPShown, Record
    <3>2. "ip" \in EditKeys
      BY DEF EditKeys, ClientConfigFields
    <3> QED
      BY <3>1, <3>2, EditOfEmpty
  <2> QED
    BY <2>1, <2>2
<1>2. ReadSection(s, d) = was
  BY DEF ReadSection
<1> HIDE DEF was, v
<1>3. ASSUME NEW x \in ToSet(was)
      PROVE  /\ Names(s, x.MAC)
             /\ IPOver(v(ClientOf[x.MAC]), x.IP) = v(ClientOf[x.MAC])
  <2>1. Names(s, x.MAC)
    BY ReadMACs DEF was
  <2> DEFINE k == ClientOf[x.MAC]
  <2>2. k \in DOMAIN MACOf /\ MACOf[k] = x.MAC
    BY <2>1, MACAssumption DEF Names
  <2>3. AsString(v(k)) # "" /\ x.IP = AsString(v(k))
    BY <2>2, ShownIsRead DEF was, v
  <2> HIDE DEF k
  <2>4. IPOver(v(k), x.IP) = v(k)
    BY <2>3 DEF IPOver
  <2> QED
    BY <2>1, <2>4 DEF k
<1>4. s \notin DOMAIN Codec
  BY DEF Codec
<1>5. Settles(s, d) /\ Identified(s, d)
  BY <1>1, <1>4 DEF Settles, Identified, v
<1>6. ASSUME NEW x \in ToSet(was) PROVE Fixed(s, d, x) /\ Unrepeated(s, x) /\ Names(s, Identity(s, x))
  BY <1>3, <1>4 DEF Fixed, Unrepeated, Identity, v
<1> QED
  BY <1>2, <1>5, <1>6 DEF AsRead

LEMMA PortalIsAsRead ==
  ASSUME NEW d, Regular(d), NEW s \in ToSet(Sections), PortalForm(s, d)
  PROVE  AsRead(s, d)
BY ThreeKinds, PortalListIsAsRead, PortalPortsAreAsRead, PortalClientsAreAsRead

-----------------------------------------------------------------------------
(* The items alta_router_config recorded of a section.                       *)

\* An item as its record gives it back.
Recall(s, x) == DomainItem(s, Identity(s, x), Model(s, x))
\* The items that a record gives back of those a section read: one for each identity, and the
\* rules in their order.
Recalls(s, was, items) ==
  /\ Listing(items)
  /\ \A i \in 1..Len(items) : \E x \in ToSet(was) : items[i] = Recall(s, x)
  /\ \A x \in ToSet(was) : \E i \in 1..Len(items) : Identity(s, items[i]) = Identity(s, x)
  /\ \A i, j \in 1..Len(items) : Identity(s, items[i]) = Identity(s, items[j]) => i = j
  /\ s = "FirewallRules" => Len(items) = Len(was) /\ \A i \in 1..Len(items) : items[i] = Recall(s, was[i])

LEMMA MapOrder ==
  ASSUME NEW s, NEW section, IsFiniteSet(DOMAIN section), DOMAIN section \subseteq ToSet(Lexical)
  PROVE  LET items == ConvertMap(s, section) IN
         \E p : /\ Listing(items) /\ p \in [1..Len(items) -> DOMAIN section]
                /\ \A k \in DOMAIN section : \E i \in 1..Len(items) : p[i] = k
                /\ \A i, j \in 1..Len(items) : p[i] = p[j] => i = j
                /\ \A i \in 1..Len(items) : items[i] = Item(s, KeyOf(s, p[i]), section[p[i]])
<1> DEFINE S == DOMAIN section
           keys == Sorted(S, Before)
           n == Cardinality(S)
           items == ConvertMap(s, section)
<1>1. /\ n \in Nat /\ keys \in [1..n -> S] /\ (\A x \in S : \E i \in 1..n : keys[i] = x)
      /\ \A i, j \in 1..n : keys[i] = keys[j] => i = j
  BY TextsSorted
<1>2. items = [i \in 1..n |-> Item(s, KeyOf(s, keys[i]), section[keys[i]])]
  BY <1>1 DEF ConvertMap
<1> HIDE DEF keys, items
<1>3. DOMAIN items = 1..n /\ items = [i \in DOMAIN items |-> items[i]]
  BY <1>2
<1>4. Listing(items) /\ Len(items) = n
  BY <1>1, <1>3, ListingOf
<1>5. \A i \in 1..n : items[i] = Item(s, KeyOf(s, keys[i]), section[keys[i]])
  BY <1>2
<1> HIDE DEF n
<1>6. \E p : /\ Listing(items) /\ p \in [1..Len(items) -> S]
             /\ \A k \in S : \E i \in 1..Len(items) : p[i] = k
             /\ \A i, j \in 1..Len(items) : p[i] = p[j] => i = j
             /\ \A i \in 1..Len(items) : items[i] = Item(s, KeyOf(s, p[i]), section[p[i]])
  BY <1>1, <1>4, <1>5
<1> QED
  BY <1>6 DEF items

LEMMA MapRecalls ==
  ASSUME NEW d, Regular(d), Sortable(d), NEW s \in ToSet(Sections), s # "FirewallRules", AsRead(s, d)
  PROVE  Recalls(s, ReadSection(s, d), ConvertMap(s, ToMap(s, ReadSection(s, d))))
<1> DEFINE was == ReadSection(s, d)
           section == ToMap(s, was)
           items == ConvertMap(s, section)
<1>1. Listing(was) /\ DOMAIN was = 1..Len(was)
  BY ReadIsSection, ListingDomain DEF IsSection
<1>2. \A i \in 1..Len(was) : Identity(s, was[i]) \in ToSet(Lexical) /\ Names(s, Identity(s, was[i]))
  <2>1. \A x \in ToSet(was) : Names(s, Identity(s, x))
    BY DEF AsRead
  <2>2. \A i \in 1..Len(was) : Identity(s, was[i]) \in ToSet(Lexical)
    BY IdentitiesOrdered
  <2> HIDE DEF was
  <2> QED
    BY <1>1, <2>1, <2>2 DEF ToSet
<1> HIDE DEF was
<1>3. /\ \A i \in 1..Len(was) : Identity(s, was[i]) \in DOMAIN section
      /\ IsFiniteSet(DOMAIN section)
      /\ \A k \in DOMAIN section : \E i \in 1..Len(was) : Identity(s, was[i]) = k /\ section[k] = Model(s, was[i])
  BY <1>1, MapIs
<1> HIDE DEF section
<1>4. DOMAIN section \subseteq ToSet(Lexical)
  BY <1>2, <1>3
<1>5. PICK p : /\ Listing(items) /\ p \in [1..Len(items) -> DOMAIN section]
               /\ \A k \in DOMAIN section : \E i \in 1..Len(items) : p[i] = k
               /\ \A i, j \in 1..Len(items) : p[i] = p[j] => i = j
               /\ \A i \in 1..Len(items) : items[i] = Item(s, KeyOf(s, p[i]), section[p[i]])
  BY <1>3, <1>4, MapOrder
<1> HIDE DEF items
<1>6. ASSUME NEW i \in 1..Len(items)
      PROVE  /\ \E x \in ToSet(was) : items[i] = Recall(s, x)
             /\ Identity(s, items[i]) = p[i]
  <2>1. PICK j \in 1..Len(was) : Identity(s, was[j]) = p[i] /\ section[p[i]] = Model(s, was[j])
    BY <1>3, <1>5
  <2>2. items[i] = Recall(s, was[j])
    BY <1>5, <2>1 DEF Recall, DomainItem
  <2>3. Identity(s, Recall(s, was[j])) = p[i]
    BY <1>2, <2>1, ItemNamed DEF Recall
  <2>4. was[j] \in ToSet(was)
    BY <1>1 DEF ToSet
  <2> QED
    BY <2>2, <2>3, <2>4
<1>7. ASSUME NEW x \in ToSet(was) PROVE \E i \in 1..Len(items) : Identity(s, items[i]) = Identity(s, x)
  <2>1. PICK j \in 1..Len(was) : x = was[j]
    BY <1>1 DEF ToSet
  <2> QED
    BY <1>3, <1>5, <1>6, <2>1
<1>8. \A i, j \in 1..Len(items) : Identity(s, items[i]) = Identity(s, items[j]) => i = j
  BY <1>5, <1>6
<1>9. Recalls(s, was, items)
  BY <1>5, <1>6, <1>7, <1>8 DEF Recalls
<1> QED
  BY <1>9 DEF was, section, items

LEMMA RulesRecall ==
  ASSUME NEW d, Regular(d), NEW s, s = "FirewallRules", AsRead(s, d),
         NEW rules, rules = [i \in DOMAIN ReadSection(s, d) |->
                               Over([f \in {"ID"} |-> <<ReadSection(s, d)[i].ID>>], Model(s, ReadSection(s, d)[i]))]
  PROVE  Recalls(s, ReadSection(s, d), [i \in DOMAIN rules |-> Item(s, Value(rules[i].ID, ""), rules[i])])
<1> DEFINE was == ReadSection(s, d)
           n == Len(was)
           items == [i \in DOMAIN rules |-> Item(s, Value(rules[i].ID, ""), rules[i])]
           q == Elements(Codec[s].path, d.site)
<1>0. s \in DOMAIN Codec /\ s \in ToSet(Sections)
  BY DEF Codec, Sections, ToSet
<1>1. Listing(was) /\ DOMAIN was = 1..n /\ n \in Nat
  BY <1>0, ReadIsSection, ListingDomain DEF IsSection, Listing
<1>2. \A i, j \in 1..n : Identity(s, was[i]) = Identity(s, was[j]) => i = j
  <2>1. /\ Listing(q) /\ Distinct(ElementIDs(q)) /\ was = [i \in 1..Len(q) |-> Decode(Codec[s].row, q[i])]
    BY <1>0, ReadElements
  <2>2. SelfRead(s, q)
    BY <1>0 DEF AsRead, Settles
  <2>3. Len(q) = n
    BY <1>1, <2>1 DEF Listing
  <2>4. \A i \in 1..n : AsString(At(q[i], "id")) = Identity(s, was[i])
    <3>1. \A i \in 1..Len(q) : AsString(At(q[i], "id")) = Identity(s, Decode(Codec[s].row, q[i]))
      BY <2>2 DEF SelfRead
    <3>2. \A i \in 1..Len(q) : was[i] = Decode(Codec[s].row, q[i])
      BY <2>1
    <3> HIDE DEF was, q, n
    <3> QED
      BY <2>3, <3>1, <3>2
  <2> HIDE DEF was, q, n
  <2>5. ElementIDs(q) = [i \in 1..n |-> AsString(At(q[i], "id"))] /\ Len(ElementIDs(q)) = n
    BY <2>1, <2>3, IdsOf
  <2>6. \A i \in 1..n : ElementIDs(q)[i] = Identity(s, was[i])
    BY <2>4, <2>5
  <2>7. \A i, j \in 1..n : ElementIDs(q)[i] = ElementIDs(q)[j] => i = j
    BY <2>1, <2>5 DEF Distinct
  <2> QED
    BY <2>6, <2>7
<1>3. \A x \in ToSet(was) : Names(s, Identity(s, x))
  BY DEF AsRead
<1>4. DOMAIN rules = 1..n /\ \A i \in 1..n : rules[i] = Over([f \in {"ID"} |-> <<was[i].ID>>], Model(s, was[i]))
  BY <1>1
<1> HIDE DEF was, n
<1>5. Listing(items) /\ Len(items) = n
  <2>1. DOMAIN items = 1..n /\ items = [i \in DOMAIN items |-> items[i]]
    BY <1>4
  <2> HIDE DEF items
  <2> QED
    BY <1>1, <2>1, ListingOf
<1>6. ASSUME NEW i \in 1..n PROVE items[i] = Recall(s, was[i]) /\ Identity(s, items[i]) = Identity(s, was[i])
  <2> DEFINE k == ModelOf(s)
             rule == rules[i]
  <2>1. "ID" \notin DOMAIN k
    BY DEF ModelOf, FirewallRuleModel
  <2>2. Model(s, was[i]) = [f \in DOMAIN k |-> ModelValue(k[f], was[i][f])]
    BY DEF Model
  <2>3. items[i] = Item(s, Value(rule.ID, ""), rule)
    BY <1>4
  <2>4. rule = Over([f \in {"ID"} |-> <<was[i].ID>>], Model(s, was[i]))
    BY <1>4
  <2> HIDE DEF items, rule, k
  <2>5. rule.ID = <<was[i].ID>> /\ \A f \in DOMAIN k : rule[f] = Model(s, was[i])[f]
    BY <2>1, <2>2, <2>4 DEF Over
  <2>6. Value(rule.ID, "") = was[i].ID /\ Identity(s, was[i]) = was[i].ID
    <3>1. Value(rule.ID, "") = was[i].ID
      BY <2>5 DEF Value
    <3> QED
      BY <3>1 DEF Identity
  <2>7. \A id : Item(s, id, rule) = Item(s, id, Model(s, was[i]))
    <3>1. [f \in DOMAIN k |-> DomainValue(k[f], rule[f])] = [f \in DOMAIN k |-> DomainValue(k[f], Model(s, was[i])[f])]
      BY <2>5
    <3> QED
      BY <3>1 DEF Item, k
  <2>8. items[i] = Recall(s, was[i])
    <3>1. KeyOf(s, was[i].ID) = was[i].ID
      BY DEF KeyOf
    <3> QED
      BY <2>3, <2>6, <2>7, <3>1 DEF Recall, DomainItem
  <2>9. Identity(s, Recall(s, was[i])) = Identity(s, was[i])
    <3>1. Names(s, Identity(s, was[i]))
      BY <1>1, <1>3 DEF ToSet
    <3> DEFINE id == Identity(s, was[i])
    <3> HIDE DEF id
    <3>2. Identity(s, DomainItem(s, id, Model(s, was[i]))) = id
      BY <1>0, <3>1, ItemNamed DEF id
    <3> QED
      BY <3>2 DEF Recall, id
  <2> QED
    BY <2>8, <2>9
<1> HIDE DEF items
<1>7. \A x \in ToSet(was) : \E i \in 1..n : x = was[i]
  BY <1>1 DEF ToSet
<1>8. \A i \in 1..n : was[i] \in ToSet(was)
  BY <1>1 DEF ToSet
<1>9. Recalls(s, was, items)
  <2>1. \A i \in 1..n : \E x \in ToSet(was) : items[i] = Recall(s, x)
    BY <1>6, <1>8
  <2>2. \A x \in ToSet(was) : \E i \in 1..n : Identity(s, items[i]) = Identity(s, x)
    BY <1>6, <1>7
  <2>3. \A i, j \in 1..n : Identity(s, items[i]) = Identity(s, items[j]) => i = j
    BY <1>2, <1>6
  <2>4. Len(items) = Len(was) /\ \A i \in 1..n : items[i] = Recall(s, was[i])
    BY <1>5, <1>6 DEF n
  <2> QED
    BY <1>5, <2>1, <2>2, <2>3, <2>4 DEF Recalls
<1> QED
  BY <1>9 DEF was, items

\* The items recorded of a section.
LEMMA RecordRecalls ==
  ASSUME NEW m0, NEW d, Regular(d), Sortable(d), NEW s \in ToSet(Sections), m0[s] # <<>>, AsRead(s, d)
  PROVE  LET c == ToConfig(WithConfig(m0, Read(d))) IN
         c[s] = <<c[s][1]>> /\ Recalls(s, ReadSection(s, d), c[s][1])
<1> DEFINE m == WithConfig(m0, Read(d))
           c == ToConfig(m)
           was == ReadSection(s, d)
<1>1. Read(d)[s] = was
  BY DEF Read
<1>2. CASE s = "FirewallRules"
  <2> DEFINE rules == [i \in DOMAIN was |-> Over([f \in {"ID"} |-> <<was[i].ID>>], Model(s, was[i]))]
             items == [i \in DOMAIN rules |-> Item(s, Value(rules[i].ID, ""), rules[i])]
  <2>1. m[s] = <<rules>>
    BY <1>1, <1>2 DEF WithConfig
  <2>2. Recalls(s, was, items)
    BY <1>2, RulesRecall
  <2> HIDE DEF rules, m
  <2>3. c[s] = <<items>>
    <3>1. m[s] # <<>> /\ m[s][1] = rules
      BY <2>1
    <3>2. c[s] = <<[i \in DOMAIN m[s][1] |-> Item(s, Value(m[s][1][i].ID, ""), m[s][1][i])]>>
      BY <1>2, <3>1 DEF ToConfig
    <3> QED
      BY <3>1, <3>2
  <2> HIDE DEF items, c, was
  <2> QED
    BY <2>2, <2>3 DEF c, m, was
<1>3. CASE s # "FirewallRules"
  <2> DEFINE section == ToMap(s, was)
             items == ConvertMap(s, section)
  <2>1. m[s] = <<section>>
    BY <1>1, <1>3 DEF WithConfig
  <2>2. Recalls(s, was, items)
    BY <1>3, MapRecalls
  <2> HIDE DEF section, m
  <2>3. c[s] = <<items>>
    BY <1>3, <2>1 DEF ToConfig
  <2> HIDE DEF items, c, was
  <2> QED
    BY <2>2, <2>3 DEF c, m, was
<1> QED
  BY <1>2, <1>3

-----------------------------------------------------------------------------
(* A section in the portal's form is written as it is from its record.       *)

LEMMA Extent == ASSUME NEW S, NEW T, \A v : v \in S <=> v \in T PROVE S = T
OBVIOUS

LEMMA RecallsFixed ==
  ASSUME NEW d, Regular(d), NEW s \in ToSet(Sections), AsRead(s, d), NEW x \in ToSet(ReadSection(s, d))
  PROVE  /\ IsItem(s, x) /\ IsItem(s, Recall(s, x)) /\ Fixed(s, d, Recall(s, x))
         /\ Identity(s, Recall(s, x)) = Identity(s, x)
<1> DEFINE id == Identity(s, x)
<1>1. IsItem(s, x)
  BY ReadIsSection, ListingDomain DEF IsSection, ToSet
<1>2. Settles(s, d) /\ Fixed(s, d, x) /\ Unrepeated(s, x) /\ Names(s, id)
  BY DEF AsRead
<1>3. IsItem(s, DomainItem(s, id, Model(s, x)))
  BY <1>2, ReadItemShows
<1> HIDE DEF id
<1>4. Fixed(s, d, DomainItem(s, id, Model(s, x)))
  BY <1>1, <1>2, RefreshedIsFixed DEF id
<1>5. Identity(s, DomainItem(s, id, Model(s, x))) = id
  BY <1>2, ItemNamed
<1> QED
  BY <1>1, <1>3, <1>4, <1>5 DEF Recall, id

LEMMA RecalledItems ==
  ASSUME NEW d, Regular(d), NEW s \in ToSet(Sections), AsRead(s, d), NEW items, Recalls(s, ReadSection(s, d), items)
  PROVE  /\ IsSection(s, items) /\ DOMAIN items = 1..Len(items) /\ Len(items) \in Nat
         /\ \A j \in 1..Len(items) :
              Fixed(s, d, items[j]) /\ \E x \in ToSet(ReadSection(s, d)) : items[j] = Recall(s, x) /\ Identity(s, items[j]) = Identity(s, x)
<1> DEFINE was == ReadSection(s, d)
<1>1. /\ Listing(items)
      /\ \A i \in 1..Len(items) : \E x \in ToSet(was) : items[i] = Recall(s, x)
  BY DEF Recalls
<1>2. \A x \in ToSet(was) : IsItem(s, Recall(s, x)) /\ Fixed(s, d, Recall(s, x)) /\ Identity(s, Recall(s, x)) = Identity(s, x)
  BY RecallsFixed
<1> HIDE DEF was
<1>3. \A j \in 1..Len(items) : IsItem(s, items[j]) /\ Fixed(s, d, items[j])
  BY <1>1, <1>2
<1>4. \A j \in 1..Len(items) : \E x \in ToSet(was) : items[j] = Recall(s, x) /\ Identity(s, items[j]) = Identity(s, x)
  BY <1>1, <1>2
<1>5. DOMAIN items = 1..Len(items) /\ Len(items) \in Nat
  BY <1>1, ListingDomain DEF Listing
<1> QED
  BY <1>1, <1>3, <1>4, <1>5 DEF IsSection, was

LEMMA RecalledRoute ==
  ASSUME NEW s \in ToSet(Sections), s = "StaticRoutes", NEW x, IsItem(s, x), Names(s, Identity(s, x))
  PROVE  LET z == Recall(s, x) IN
         z.Metric = x.Metric /\ z.Network = x.Network /\ z.Name = x.Name /\ z.Type = x.Type
         /\ z.NextHop = x.NextHop /\ z.Interface = x.Interface
<1> DEFINE z == Recall(s, x)
           k == ModelOf(s)
<1>1. \A f \in DOMAIN k : f # IdentityField(s) => z[f] = DomainValue(k[f], ModelValue(k[f], x[f]))
  BY ReturnedItem DEF Recall
<1>2. /\ {"Name", "Type", "Network", "NextHop", "Interface", "Metric"} \subseteq DOMAIN k
      /\ \A f \in {"Name", "Type", "Network", "NextHop", "Interface"} : k[f] = "string"
      /\ k["Metric"] = "int" /\ IdentityField(s) = "ID"
  BY DEF ModelOf, StaticRouteModel, IdentityField
<1> HIDE DEF z, k
<1>3. \A v : DomainValue("string", ModelValue("string", v)) = v /\ DomainValue("int", ModelValue("int", v)) = v
  BY DEF DomainValue, ModelValue, Value, Optional
<1>4. \A f \in {"Name", "Type", "Network", "NextHop", "Interface"} : z[f] = x[f]
  BY <1>1, <1>2, <1>3
<1>5. z["Metric"] = x["Metric"]
  BY <1>1, <1>2, <1>3
<1> QED
  BY <1>4, <1>5 DEF z

\* The reads of a list, strictly in order if they are routes.
Strict(s, d) ==
  LET r == ReadSection(s, d) IN s = "StaticRoutes" => \A i, j \in 1..Len(r) : i < j => RouteBefore(r[i], r[j])

LEMMA RecalledListable ==
  ASSUME NEW d, Regular(d), NEW s \in DOMAIN Codec, AsRead(s, d), NEW items, Recalls(s, ReadSection(s, d), items)
  PROVE  Listable(s, items)
<1> DEFINE was == ReadSection(s, d)
<1>1. s \in ToSet(Sections)
  BY ReadElements
<1>2. /\ IsSection(s, items) /\ DOMAIN items = 1..Len(items) /\ Len(items) \in Nat
      /\ \A j \in 1..Len(items) : \E x \in ToSet(was) : Identity(s, items[j]) = Identity(s, x)
  BY <1>1, RecalledItems
<1>3. \A x \in ToSet(was) : Identity(s, x) # ""
  BY DEF AsRead, Identified
<1>4. \A i, j \in 1..Len(items) : Identity(s, items[i]) = Identity(s, items[j]) => i = j
  BY DEF Recalls
<1> HIDE DEF was
<1>5. ~ListError(s, items)
  BY <1>2, <1>3, <1>4 DEF ListError
<1> QED
  BY <1>2, <1>5 DEF Listable, IsSection, IsItem

LEMMA RecalledOrder ==
  ASSUME NEW d, Regular(d), NEW s \in DOMAIN Codec, AsRead(s, d), Strict(s, d),
         NEW items, Recalls(s, ReadSection(s, d), items)
  PROVE  LET q == Elements(Codec[s].path, d.site) IN WriteOrder(s, q, items) = ElementIDs(q)
<1> DEFINE q == Elements(Codec[s].path, d.site)
           n == Len(q)
           was == ReadSection(s, d)
           ids == ElementIDs(q)
           own == Identities(s, items)
<1>0. Listable(s, items)
  BY RecalledListable
<1>1. /\ s \in ToSet(Sections) /\ Listing(q) /\ Distinct(ids) /\ was = [i \in 1..n |-> Decode(Codec[s].row, q[i])]
      /\ n \in Nat
  BY ReadElements DEF Listing
<1>2. SelfRead(s, q)
  BY DEF AsRead, Settles
<1>3. Len(was) = n /\ DOMAIN was = 1..n /\ \A i \in 1..n : AsString(At(q[i], "id")) = Identity(s, was[i])
  <2>1. Len(was) = n /\ DOMAIN was = 1..n
    BY <1>1
  <2>2. \A i \in 1..n : was[i] = Decode(Codec[s].row, q[i])
    BY <1>1
  <2> HIDE DEF was
  <2> QED
    BY <1>2, <2>1, <2>2 DEF SelfRead
<1>4. /\ Listing(items)
      /\ \A j \in 1..Len(items) : \E x \in ToSet(was) : items[j] = Recall(s, x) /\ Identity(s, items[j]) = Identity(s, x)
      /\ \A x \in ToSet(was) : \E j \in 1..Len(items) : Identity(s, items[j]) = Identity(s, x)
      /\ s = "FirewallRules" => Len(items) = n /\ \A i \in 1..n : items[i] = Recall(s, was[i])
  <2>1. \A j \in 1..Len(items) : \E x \in ToSet(was) : items[j] = Recall(s, x) /\ Identity(s, items[j]) = Identity(s, x)
    <3>1. s \in ToSet(Sections)
      BY <1>1
    <3> HIDE DEF q, n, ids, own
    <3> QED
      BY <3>1, RecalledItems
  <2>2. Len(was) = n
    BY <1>3
  <2> HIDE DEF was, n
  <2> QED
    BY <2>1, <2>2 DEF Recalls, was
<1>5. \A x \in ToSet(was) : Identity(s, Recall(s, x)) = Identity(s, x) /\ IsItem(s, x) /\ Names(s, Identity(s, x))
  <2>1. \A x \in ToSet(was) : Identity(s, Recall(s, x)) = Identity(s, x) /\ IsItem(s, x)
    BY <1>1, RecallsFixed
  <2>2. \A x \in ToSet(was) : Names(s, Identity(s, x))
    BY DEF AsRead
  <2> HIDE DEF was
  <2> QED
    BY <2>1, <2>2
<1>6. s = "StaticRoutes" => \A i, j \in 1..n : i < j => RouteBefore(was[i], was[j])
  <2>1. Len(was) = n
    BY <1>3
  <2> HIDE DEF n
  <2> QED
    BY <2>1 DEF Strict, was
<1> HIDE DEF was, q
<1>7. ids = [i \in 1..n |-> AsString(At(q[i], "id"))] /\ Listing(ids) /\ Len(ids) = n
  BY <1>1, IdsOf
<1>8. \A i \in 1..n : ids[i] = Identity(s, was[i]) /\ was[i] \in ToSet(was)
  BY <1>3, <1>7 DEF ToSet
<1>9. \A x \in ToSet(was) : \E i \in 1..n : x = was[i]
  BY <1>3 DEF ToSet
<1>10. own = [j \in 1..Len(items) |-> Identity(s, items[j])] /\ Listing(own) /\ Len(own) = Len(items) /\ Distinct(own)
  BY <1>0, <1>4, IdentitiesOf, ItemsApart
<1> HIDE DEF ids, own, n
<1>11. Members(own) = Members(ids)
  <2>0. Len(ids) = n /\ Len(own) = Len(items) /\ \A j \in 1..Len(items) : own[j] = Identity(s, items[j])
    BY <1>7, <1>10
  <2>1. \A j \in 1..Len(own) : \E i \in 1..n : own[j] = ids[i]
    BY <1>4, <1>8, <1>9, <2>0
  <2>2. ASSUME NEW i \in 1..n PROVE \E j \in 1..Len(own) : ids[i] = own[j]
    <3>1. was[i] \in ToSet(was) /\ ids[i] = Identity(s, was[i])
      BY <1>8
    <3>2. PICK j \in 1..Len(items) : Identity(s, items[j]) = Identity(s, was[i])
      BY <1>4, <3>1
    <3> QED
      BY <2>0, <3>1, <3>2
  <2>3. ASSUME NEW v \in Members(own) PROVE v \in Members(ids)
    <3>1. PICK j \in 1..Len(own) : v = own[j]
      BY DEF Members
    <3>2. PICK i \in 1..n : own[j] = ids[i]
      BY <2>1
    <3> QED
      BY <2>0, <3>1, <3>2 DEF Members
  <2>4. ASSUME NEW v \in Members(ids) PROVE v \in Members(own)
    <3>1. PICK i \in 1..n : v = ids[i]
      BY <2>0 DEF Members
    <3> QED
      BY <2>2, <3>1 DEF Members
  <2>5. \A v : v \in Members(own) <=> v \in Members(ids)
    BY <2>3, <2>4
  <2> QED
    BY <2>5, Extent
<1>12. CASE s = "FirewallRules"
  <2>1. Len(items) = n /\ \A i \in 1..n : AsString(At(q[i], "id")) = Identity(s, items[i])
    BY <1>3, <1>4, <1>5, <1>8, <1>12
  <2>2. WriteOrder(s, q, items) = ElementIDs(q)
    BY <1>0, <1>1, <1>12, <2>1, SameOrder DEF n
  <2> QED
    BY <2>2 DEF q
<1>13. CASE s = "StaticRoutes"
  <2> DEFINE order == WriteOrder(s, q, items)
  <2>1. Listing(order) /\ Distinct(order) /\ Len(order) = Len(items) /\ Members(order) = Members(own)
    BY <1>0, <1>1, WriteOrderDistinct, WriteOrderIs DEF own, ids
  <2>2. Len(own) = n
    BY <1>1, <1>7, <1>10, <1>11, SameMembersSameLength
  <2>3. \A i, j \in 1..Len(order) : \A a, b \in 1..Len(items) :
           i < j /\ order[i] = Identity(s, items[a]) /\ order[j] = Identity(s, items[b]) => ~RouteBefore(items[b], items[a])
    <3>1. Listable("StaticRoutes", items)
      BY <1>0, <1>13
    <3> QED
      BY <1>13, <3>1, RoutesInOrder
  <2> HIDE DEF order
  <2>4. Len(order) = n /\ Len(items) = n /\ n \in Nat
    BY <1>1, <1>10, <2>1, <2>2
  <2>5. ASSUME NEW i \in 1..n PROVE \E j \in 1..n : order[i] = ids[j]
    <3>1. order[i] \in Members(order)
      BY <2>4 DEF Members
    <3>2. order[i] \in Members(ids) /\ Len(ids) = n
      BY <1>7, <1>11, <2>1, <3>1
    <3> QED
      BY <3>2 DEF Members
  <2> DEFINE g == [i \in 1..n |-> CHOOSE j \in 1..n : order[i] = ids[j]]
  <2>6. g \in [1..n -> 1..n] /\ \A i \in 1..n : order[i] = ids[g[i]]
    BY <2>5
  <2> HIDE DEF g
  <2>7. \A i, j \in 1..n : g[i] = g[j] => i = j
    <3>1. \A i, j \in 1..n : order[i] = order[j] => i = j
      BY <2>1, <2>4 DEF Distinct
    <3> QED
      BY <2>6, <3>1
  <2>8. ASSUME NEW k \in 1..n
        PROVE  \E a \in 1..n : /\ Identity(s, items[a]) = ids[k]
                               /\ items[a].Metric = was[k].Metric /\ items[a].Network = was[k].Network
    <3>0. was[k] \in ToSet(was) /\ ids[k] = Identity(s, was[k])
      BY <1>8
    <3>1. PICK a \in 1..n : Identity(s, items[a]) = ids[k]
      BY <1>4, <2>4, <3>0
    <3>2. PICK x \in ToSet(was) : items[a] = Recall(s, x) /\ Identity(s, items[a]) = Identity(s, x)
      BY <1>4, <2>4
    <3>3. PICK i \in 1..n : x = was[i]
      BY <1>9
    <3>4. ids[i] = ids[k]
      BY <1>8, <3>1, <3>2, <3>3
    <3>5. i = k
      BY <1>1, <1>7, <3>4 DEF Distinct
    <3>6. Recall(s, x).Metric = x.Metric /\ Recall(s, x).Network = x.Network
      BY <1>1, <1>5, <1>13, RecalledRoute
    <3> QED
      BY <3>1, <3>2, <3>3, <3>5, <3>6
  <2>9. ASSUME NEW i \in 1..n, NEW j \in 1..n, i < j PROVE g[i] < g[j]
    <3>1. PICK a \in 1..n : /\ Identity(s, items[a]) = ids[g[i]]
                            /\ items[a].Metric = was[g[i]].Metric /\ items[a].Network = was[g[i]].Network
      BY <2>6, <2>8
    <3>2. PICK b \in 1..n : /\ Identity(s, items[b]) = ids[g[j]]
                            /\ items[b].Metric = was[g[j]].Metric /\ items[b].Network = was[g[j]].Network
      BY <2>6, <2>8
    <3>3. ~RouteBefore(items[b], items[a])
      BY <2>3, <2>4, <2>6, <2>9, <3>1, <3>2
    <3>4. ~RouteBefore(was[g[j]], was[g[i]])
      BY <3>1, <3>2, <3>3 DEF RouteBefore, MetricOf
    <3>5. ~(g[j] < g[i])
      BY <1>6, <1>13, <2>6, <3>4
    <3>6. g[i] # g[j]
      BY <2>7, <2>9
    <3>7. g[i] \in Int /\ g[j] \in Int
      BY <2>6
    <3> QED
      BY <3>5, <3>6, <3>7
  <2>10. \A i \in 1..n : g[i] = i
    BY <2>4, <2>6, <2>9, Increasing
  <2>11. \A i \in 1..n : order[i] = ids[i]
    BY <2>6, <2>10
  <2>12. order = ids
    <3>1. order = [i \in 1..n |-> order[i]] /\ ids = [i \in 1..n |-> ids[i]]
      BY <1>7, <2>1, <2>4 DEF Listing
    <3> QED
      BY <2>11, <3>1
  <2> QED
    BY <2>12 DEF order, ids, q
<1>14. CASE s # "FirewallRules" /\ s # "StaticRoutes"
  <2>1. Codec[s].order = "kept"
    BY <1>14, OrderKinds
  <2>2. WriteOrder(s, q, items) = StableOrder(ids, own)
    BY <2>1 DEF WriteOrder, ids, own
  <2>3. StableOrder(ids, own) = ids
    BY <1>7, <1>10, <1>11, StableOrderIs
  <2> QED
    BY <2>2, <2>3 DEF ids, q
<1> QED
  BY <1>12, <1>13, <1>14

-----------------------------------------------------------------------------
(* A section in the portal's form is left as it is by what is recorded of it, *)
(* and what is recorded of it is no error.                                   *)

LEMMA RecalledListIsQuiet ==
  ASSUME NEW d, Regular(d), NEW s \in DOMAIN Codec, AsRead(s, d), Strict(s, d),
         NEW items, Recalls(s, ReadSection(s, d), items)
  PROVE  ListWrite(s, d.site, items) = d.site
<1> DEFINE q == Elements(Codec[s].path, d.site)
<1>1. s \in ToSet(Sections) /\ ElementsOf(q) /\ Distinct(ElementIDs(q))
  BY ReadElements
<1>2. Listable(s, items)
  BY RecalledListable
<1>3. WriteOrder(s, q, items) = ElementIDs(q)
  BY RecalledOrder
<1>4. \A j \in 1..Len(items) : HoldsAs(s, q, items[j])
  <2>1. \A j \in 1..Len(items) : Fixed(s, d, items[j])
    BY <1>1, RecalledItems
  <2> QED
    BY <2>1 DEF Fixed
<1>5. Standing(s, d.site)
  BY DEF AsRead, Settles
<1>6. NextElements(s, q, items) = q
  <2> HIDE DEF q
  <2> QED
    BY <1>1, <1>2, <1>3, <1>4, ListStays
<1>7. ListSettled(s, d.site, items)
  BY <1>5, <1>6, StandingSettles
<1> QED
  BY <1>7, SettledIsQuiet

LEMMA RecalledPortsAreQuiet ==
  ASSUME NEW d, Regular(d), NEW s, s = "SwitchPorts", AsRead(s, d), NEW items, Recalls(s, ReadSection(s, d), items)
  PROVE  WriteSwitchPorts(d.device, items) = d.device
<1>1. s \in ToSet(Sections)
  BY DEF Sections, ToSet
<1>2. Len(items) \in Nat /\ \A j \in 1..Len(items) : Fixed(s, d, items[j])
  BY <1>1, RecalledItems
<1>3. \A j \in 1..Len(items) : PortFixed(d.device, items[j])
  BY <1>2 DEF Fixed
<1>4. PortsSettled(d.device, items)
  BY <1>3 DEF PortsSettled, PortFixed
<1> QED
  BY <1>2, <1>4, SettledPortsAreQuiet

LEMMA RecalledClientsAreQuiet ==
  ASSUME NEW d, Regular(d), NEW s, s = "DHCPReservations", AsRead(s, d), NEW items, Recalls(s, ReadSection(s, d), items)
  PROVE  LET next == WriteReservations(d.clients, items) IN
         \A k \in DOMAIN next : Shown(next, k) = Shown(d.clients, k)
<1> DEFINE was == ReadReservations(d.clients)
           W == WantedClients(items)
           v(k) == IPShown(d, k)
<1>1. s \in ToSet(Sections) /\ ReadSection(s, d) = was
  BY DEF Sections, ToSet, ReadSection
<1>2. /\ DOMAIN items = 1..Len(items)
      /\ \A j \in 1..Len(items) : IPOver(v(ClientOf[items[j].MAC]), items[j].IP) = v(ClientOf[items[j].MAC])
  <2>1. DOMAIN items = 1..Len(items) /\ \A j \in 1..Len(items) : Fixed(s, d, items[j])
    BY <1>1, RecalledItems
  <2> QED
    BY <2>1 DEF Fixed
<1>3. \A x \in ToSet(was) : \E j \in 1..Len(items) : items[j].MAC = x.MAC
  BY <1>1 DEF Recalls, Identity
<1>4. DOMAIN d.clients \subseteq DOMAIN MACOf
  BY RegularIs
<1>5. \A k \in DOMAIN MACOf : AsString(v(k)) = "" => v(k) = Null
  BY DEF AsRead, Settles
<1>6. \A k \in DOMAIN MACOf : AsString(v(k)) # "" => [MAC |-> MACOf[k], IP |-> AsString(v(k))] \in ToSet(was)
  BY ShownIsRead
<1> HIDE DEF v, was
<1>7. ASSUME NEW k \in W PROVE IPOver(v(k), IPWanted(items, k)) = v(k)
  <2> DEFINE r == CHOOSE r \in ToSet(items) : ClientOf[r.MAC] = k
  <2>1. r \in ToSet(items) /\ ClientOf[r.MAC] = k
    BY <1>7 DEF WantedClients
  <2>2. IPWanted(items, k) = r.IP
    BY DEF IPWanted
  <2> HIDE DEF r
  <2>3. PICK j \in 1..Len(items) : r = items[j]
    BY <1>2, <2>1 DEF ToSet
  <2> QED
    BY <1>2, <2>1, <2>2, <2>3
<1>8. ASSUME NEW k \in DOMAIN d.clients, k \notin W PROVE v(k) = Null
  <2>1. k \in DOMAIN MACOf
    BY <1>4
  <2>2. SUFFICES ASSUME AsString(v(k)) # "" PROVE FALSE
    BY <1>5, <2>1
  <2> DEFINE y == [MAC |-> MACOf[k], IP |-> AsString(v(k))]
  <2>3. y \in ToSet(was) /\ y.MAC = MACOf[k]
    BY <1>6, <2>1, <2>2
  <2>4. ClientOf[MACOf[k]] = k
    BY <2>1, MACAssumption
  <2> HIDE DEF y
  <2>5. PICK j \in 1..Len(items) : items[j].MAC = MACOf[k]
    BY <1>3, <2>3
  <2>6. items[j] \in ToSet(items) /\ ClientOf[items[j].MAC] = k
    BY <1>2, <2>4, <2>5 DEF ToSet
  <2> QED
    BY <1>8, <2>6 DEF WantedClients
<1>9. /\ \A k \in WantedClients(items) : IPOver(IPShown(d, k), IPWanted(items, k)) = IPShown(d, k)
      /\ \A k \in DOMAIN d.clients : k \notin WantedClients(items) => IPShown(d, k) = Null
  BY <1>7, <1>8 DEF v
<1> QED
  BY <1>9, ClientsAreQuiet

LEMMA PortFormApart ==
  ASSUME NEW d, Regular(d), NEW s, s = "SwitchPorts", PortalForm(s, d), NEW x \in ToSet(ReadSection(s, d))
  PROVE  x.AllVLANs => x.TaggedVLANs = <<>>
<1> DEFINE ports == PortsOf(d.device)
           o == At(ports, Key(x))
           allowed == At(o, "allowedVlans")
<1>1. IsFiniteSet(DOMAIN Fields(ports)) /\ ReadSection(s, d) = ReadSwitchPorts(d.device)
  BY RegularIs DEF ReadSection
<1>2. x.Port \in Numbers /\ x = PortAs(x.Port, o)
  BY <1>1, ReadPortIs
<1>3. Key(x) \in DOMAIN Decimal
  BY <1>2, KeyOfPort DEF Key
<1>4. x.AllVLANs = AsFlag(At(allowed, "all")) /\ x.TaggedVLANs = AsInts(At(allowed, "list"))
  BY <1>2 DEF PortAs
<1>5. AsInts(Null) = <<>>
  BY NothingAtNull DEF AsInts
<1>6. "list" \in DOMAIN Fields(allowed) => "all" \notin DOMAIN Fields(allowed)
  <2>1. CASE Key(x) \in DOMAIN Fields(ports)
    <3>1. PortForm(o)
      BY <1>3, <2>1 DEF PortalForm, PortsOf
    <3> HIDE DEF o
    <3> QED
      BY <3>1 DEF PortForm
  <2>2. CASE Key(x) \notin DOMAIN Fields(ports)
    <3>1. o = Null
      BY <2>2 DEF At
    <3>2. Fields(Null) = <<>>
      BY DEF Fields, Null
    <3>3. allowed = Null
      BY <3>1, <3>2 DEF At
    <3> QED
      BY <3>2, <3>3
  <2> QED
    BY <2>1, <2>2
<1>7. "all" \notin DOMAIN Fields(allowed) => ~AsFlag(At(allowed, "all"))
  BY Tags DEF At, AsFlag
<1>8. "list" \notin DOMAIN Fields(allowed) => At(allowed, "list") = Null
  BY DEF At
<1> HIDE DEF allowed
<1> QED
  BY <1>4, <1>5, <1>6, <1>7, <1>8

LEMMA RecalledSectionOK ==
  ASSUME NEW d, Regular(d), NEW s \in ToSet(Sections), AsRead(s, d), PortalForm(s, d),
         NEW items, Recalls(s, ReadSection(s, d), items)
  PROVE  ~SectionError(s, items, d)
<1> DEFINE was == ReadSection(s, d)
<1>1. /\ IsSection(s, items) /\ DOMAIN items = 1..Len(items)
      /\ \A j \in 1..Len(items) :
           \E x \in ToSet(was) : items[j] = Recall(s, x) /\ Identity(s, items[j]) = Identity(s, x)
  BY RecalledItems
<1>2. \A i, j \in 1..Len(items) : Identity(s, items[i]) = Identity(s, items[j]) => i = j
  BY DEF Recalls
<1>3. \A x \in ToSet(was) : Names(s, Identity(s, x))
  BY DEF AsRead
<1>4. CASE s \in DOMAIN Codec
  <2>1. ~ListError(s, items)
    BY <1>4, RecalledListable DEF Listable
  <2>2. s # "SwitchPorts" /\ s # "DHCPReservations"
    BY <1>4 DEF Codec
  <2> QED
    BY <2>1, <2>2 DEF SectionError
<1>5. CASE s = "SwitchPorts"
  <2>1. d.device # Null
    BY <1>5 DEF PortalForm
  <2>2. \A i, j \in 1..Len(items) : items[i].Port = items[j].Port => i = j
    BY <1>2, <1>5 DEF Identity
  <2>3. ASSUME NEW j \in 1..Len(items), items[j].AllVLANs PROVE items[j].TaggedVLANs = <<>>
    <3>1. PICK x \in ToSet(was) : items[j] = Recall(s, x)
      BY <1>1
    <3>2. ShowsItem(s, x, items[j])
      BY <1>3, <3>1, ReadItemShows DEF Recall
    <3>3. x.AllVLANs = items[j].AllVLANs /\ ToSet(x.TaggedVLANs) = ToSet(items[j].TaggedVLANs)
      BY <1>5, <3>2 DEF ShowsItem
    <3>4. x.TaggedVLANs = <<>>
      BY <1>5, <2>3, <3>3, PortFormApart
    <3>5. ToSet(<<>>) = {}
      BY DEF ToSet
    <3>6. ToSet(items[j].TaggedVLANs) = {}
      <4> HIDE DEF was
      <4> QED
        BY <3>3, <3>4, <3>5
    <3>7. PlainPort(items[j])
      BY <1>1, <1>5 DEF IsSection, IsItem
    <3>8. Listing(items[j].TaggedVLANs)
      BY <3>7 DEF PlainPort, IntList
    <3> DEFINE t == items[j].TaggedVLANs
    <3>9. ToSet(t) = {} /\ Listing(t)
      BY <3>6, <3>8
    <3> HIDE DEF t
    <3>10. DOMAIN t = 1..Len(t) /\ Len(t) \in Nat
      BY <3>9, ListingDomain DEF Listing
    <3>11. DOMAIN t = {}
      BY <3>9 DEF ToSet
    <3>12. Len(t) = 0
      BY <3>10, <3>11
    <3>13. t = <<>>
      BY <3>9, <3>11, <3>12 DEF Listing
    <3> QED
      BY <3>13 DEF t
  <2>4. ~SwitchPortsError(d.device, items)
    BY <1>1, <2>1, <2>2, <2>3 DEF SwitchPortsError
  <2> QED
    BY <1>5, <2>4 DEF SectionError
<1>6. CASE s = "DHCPReservations"
  <2>1. ASSUME NEW j \in 1..Len(items) PROVE items[j].MAC \in DOMAIN ClientOf /\ MACOf[ClientOf[items[j].MAC]] = items[j].MAC
    <3>1. Names(s, Identity(s, items[j]))
      BY <1>1, <1>3
    <3>2. Identity(s, items[j]) = items[j].MAC
      BY <1>6 DEF Identity
    <3> QED
      BY <1>6, <3>1, <3>2 DEF Names
  <2>2. \A i, j \in 1..Len(items) : items[i].MAC = items[j].MAC => i = j
    BY <1>2, <1>6 DEF Identity
  <2>3. ASSUME NEW i \in 1..Len(items), NEW j \in 1..Len(items), ClientOf[items[i].MAC] = ClientOf[items[j].MAC] PROVE i = j
    <3>1. items[i].MAC = items[j].MAC
      BY <2>1, <2>3
    <3> QED
      BY <2>2, <3>1
  <2>4. ~ReservationsError(items)
    BY <1>1, <2>1, <2>3 DEF ReservationsError
  <2> QED
    BY <1>6, <2>4 DEF SectionError
<1> QED
  BY <1>4, <1>5, <1>6, ThreeKinds

-----------------------------------------------------------------------------
(* What alta_router_config recorded of sections in the portal's form is no   *)
(* error, and writes nothing.                                                *)

LEMMA RecalledIsQuiet ==
  ASSUME NEW d, Regular(d), NEW s \in ToSet(Sections), AsRead(s, d), Strict(s, d),
         NEW items, Recalls(s, ReadSection(s, d), items)
  PROVE  Quiet(s, items, d)
BY RecalledListIsQuiet, RecalledPortsAreQuiet, RecalledClientsAreQuiet, ThreeKinds DEF Quiet

LEMMA PortalIsStrict ==
  ASSUME NEW d, Regular(d), NEW s \in ToSet(Sections), PortalForm(s, d)
  PROVE  /\ Strict(s, d)
         /\ s = "StaticRoutes" => \A x \in ToSet(ReadSection(s, d)) : ~RouteError(x)
<1> SUFFICES ASSUME s = "StaticRoutes"
             PROVE  Strict(s, d) /\ \A x \in ToSet(ReadSection(s, d)) : ~RouteError(x)
  BY DEF Strict
<1> DEFINE r == ReadSection(s, d)
<1>1. r = ListRead(s, d.site)
  BY DEF ReadSection
<1>2. \A i \in DOMAIN r : ~RouteError(r[i]) /\ \A j \in DOMAIN r : i < j => RouteBefore(r[i], r[j])
  BY <1>1 DEF PortalForm
<1>3. DOMAIN r = 1..Len(r)
  BY ReadIsSection, ListingDomain DEF IsSection
<1> HIDE DEF r
<1>4. Strict(s, d)
  BY <1>2, <1>3 DEF Strict, r
<1>5. \A x \in ToSet(r) : ~RouteError(x)
  BY <1>2 DEF ToSet
<1> QED
  BY <1>4, <1>5 DEF r

LEMMA SameManaged ==
  ASSUME NEW m0, NEW c, NEW s \in ToSet(Sections)
  PROVE  WithConfig(m0, c)[s] # <<>> <=> m0[s] # <<>>
BY DEF WithConfig

\* What is recorded is no error in itself.
LEMMA RecordConverts ==
  ASSUME NEW m0, NEW d, Regular(d), Sortable(d), \A s \in Managed(WithConfig(m0, Read(d))) : PortalForm(s, d)
  PROVE  ~ToConfigError(WithConfig(m0, Read(d)))
<1> DEFINE m == WithConfig(m0, Read(d))
           c == ToConfig(m)
<1>1. ASSUME NEW s \in ToSet(Sections), m[s] # <<>>
      PROVE  /\ m0[s] # <<>> /\ PortalForm(s, d) /\ AsRead(s, d)
             /\ c[s] = <<c[s][1]>> /\ Recalls(s, ReadSection(s, d), c[s][1])
  <2>1. m0[s] # <<>>
    BY <1>1, SameManaged
  <2>2. PortalForm(s, d)
    BY <1>1 DEF Managed
  <2>3. AsRead(s, d)
    BY <2>2, PortalIsAsRead
  <2>4. c[s] = <<c[s][1]>> /\ Recalls(s, ReadSection(s, d), c[s][1])
    BY <2>1, <2>3, RecordRecalls
  <2> QED
    BY <2>1, <2>2, <2>3, <2>4
<1>2. ASSUME NEW s \in ToSet(Sections) \ {"FirewallRules"}, m[s] # <<>>
      PROVE  ~SectionKeyError(s, DOMAIN m[s][1])
  <2> DEFINE was == ReadSection(s, d)
             section == ToMap(s, was)
  <2>1. m[s] = <<section>>
    BY <1>1, <1>2 DEF WithConfig, Read
  <2>2. Listing(was) /\ DOMAIN was = 1..Len(was)
    BY ReadIsSection, ListingDomain DEF IsSection
  <2>3. \A x \in ToSet(was) : Names(s, Identity(s, x))
    BY <1>1, <1>2 DEF AsRead
  <2> HIDE DEF was
  <2>4. \A k \in DOMAIN section : \E i \in 1..Len(was) : Identity(s, was[i]) = k
    BY <2>2, MapIs
  <2>5. \A k \in DOMAIN section : Names(s, k)
    BY <2>2, <2>3, <2>4 DEF ToSet
  <2> HIDE DEF section, m
  <2> QED
    BY <2>1, <2>5 DEF SectionKeyError, Names
<1>3. ASSUME m.StaticRoutes # <<>>, NEW z \in ToSet(ConvertMap("StaticRoutes", m.StaticRoutes[1])) PROVE ~RouteError(z)
  <2> DEFINE s == "StaticRoutes"
             was == ReadSection(s, d)
             items == c[s][1]
  <2>1. s \in ToSet(Sections) /\ m[s] # <<>>
    BY <1>3 DEF Sections, ToSet
  <2>2. PortalForm(s, d) /\ AsRead(s, d) /\ Recalls(s, was, items)
    BY <1>1, <2>1
  <2>3. items = ConvertMap(s, m[s][1])
    BY <2>1 DEF ToConfig
  <2>4. \A x \in ToSet(was) : ~RouteError(x)
    BY <2>1, <2>2, PortalIsStrict
  <2>5. \A x \in ToSet(was) : IsItem(s, x) /\ Names(s, Identity(s, x))
    <3>1. \A x \in ToSet(was) : IsItem(s, x)
      BY <2>1, <2>2, RecallsFixed
    <3> QED
      BY <2>2, <3>1 DEF AsRead
  <2> HIDE DEF c, m
  <2>6. DOMAIN items = 1..Len(items)
    BY <2>2, ListingDomain DEF Recalls
  <2>7. PICK j \in 1..Len(items) : z = items[j]
    BY <1>3, <2>3, <2>6 DEF ToSet
  <2>8. PICK x \in ToSet(was) : items[j] = Recall(s, x)
    BY <2>2 DEF Recalls
  <2> HIDE DEF items, was
  <2>9. IsItem(s, x) /\ Names(s, Identity(s, x)) /\ ~RouteError(x)
    BY <2>4, <2>5
  <2>10. LET y == Recall(s, x) IN
         y.Name = x.Name /\ y.Type = x.Type /\ y.NextHop = x.NextHop /\ y.Interface = x.Interface
    BY <2>1, <2>9, RecalledRoute
  <2> QED
    BY <2>7, <2>8, <2>9, <2>10 DEF RouteError
<1> HIDE DEF m
<1>4. ~ToConfigError(m)
  BY <1>2, <1>3 DEF ToConfigError
<1> QED
  BY <1>4 DEF m

\* Nor is it one in the document it was recorded from, and it writes nothing of it.
LEMMA RecordIsQuiet ==
  ASSUME NEW m0, NEW d, Regular(d), Sortable(d), \A s \in Managed(WithConfig(m0, Read(d))) : PortalForm(s, d)
  PROVE  LET c == ToConfig(WithConfig(m0, Read(d))) IN ~ConfigError(c, d) /\ Plan(c, d) = {}
<1> DEFINE m == WithConfig(m0, Read(d))
           c == ToConfig(m)
<1>1. ASSUME NEW s \in ToSet(Sections), c[s] # <<>>
      PROVE  ~SectionError(s, c[s][1], d) /\ Quiet(s, c[s][1], d)
  <2>1. m[s] # <<>>
    BY <1>1 DEF ToConfig
  <2>2. m0[s] # <<>> /\ PortalForm(s, d)
    BY <2>1, SameManaged DEF Managed
  <2>3. AsRead(s, d) /\ Strict(s, d)
    BY <2>2, PortalIsAsRead, PortalIsStrict
  <2>4. Recalls(s, ReadSection(s, d), c[s][1])
    BY <2>2, <2>3, RecordRecalls
  <2> HIDE DEF c
  <2> QED
    BY <2>2, <2>3, <2>4, RecalledSectionOK, RecalledIsQuiet
<1> HIDE DEF c
<1>2. ~ConfigError(c, d)
  BY <1>1 DEF ConfigError
<1>3. Plan(c, d) = {}
  BY <1>1, SectionsAreQuiet
<1> QED
  BY <1>2, <1>3 DEF c

-----------------------------------------------------------------------------
(* A section nobody touched since the last refresh does not refuse an update. *)

\* While nothing was written since, what is recorded is what the cloud says.
FreshlyRecorded == fresh => \E m0 : conf = <<WithConfig(m0, Read(cloud))>>

LEMMA FreshlyRecordedInit == Init => FreshlyRecorded
BY DEF Init, FreshlyRecorded

LEMMA SameReading ==
  ASSUME FreshlyRecorded, conf' = conf, fresh' => fresh, Read(cloud') = Read(cloud)
  PROVE  FreshlyRecorded'
BY DEF FreshlyRecorded

LEMMA NewReading ==
  ASSUME NEW m0, conf' = <<WithConfig(m0, Read(cloud'))>>
  PROVE  FreshlyRecorded'
BY DEF FreshlyRecorded

LEMMA FreshlyRecordedStep ==
  ASSUME Orderly, FreshlyRecorded, [Next]_vars
  PROVE  FreshlyRecorded'
<1>0. Undone
  BY StepUndone DEF Orderly
<1>1. ASSUME NEW c, RolledBack(Plan(c, cloud)) PROVE FreshlyRecorded'
  <2>1. Read(cloud') = Read(cloud)
    BY <1>0, <1>1 DEF Undone, RolledBack
  <2> QED
    BY <1>1, <2>1, SameReading DEF RolledBack
<1>2. ASSUME NEW s, NEW items, NEW r, NEW state, ElementApply(s, items, r, state) PROVE FreshlyRecorded'
  <2> DEFINE c == Desired(s, items)
             writes == Plan(c, cloud)
  <2>1. \/ Applied(writes) /\ fresh' = (fresh /\ writes = {}) /\ conf' = conf
        \/ RolledBack(writes)
    BY <1>2 DEF ElementApply, Transact
  <2>2. CASE RolledBack(writes)
    BY <1>1, <2>2
  <2>3. CASE Applied(writes) /\ fresh' = (fresh /\ writes = {}) /\ conf' = conf
    <3>1. CASE writes = {}
      <4>1. cloud' = cloud
        BY <2>3, <3>1, NothingPosted DEF Applied
      <4> QED
        BY <2>3, <4>1, SameReading
    <3>2. CASE writes # {}
      BY <2>3, <3>2 DEF FreshlyRecorded
    <3> QED
      BY <3>1, <3>2
  <2> QED
    BY <2>1, <2>2, <2>3
<1>3. ASSUME NEW r \in Slots, ElementStep(r) PROVE FreshlyRecorded'
  <2>1. \/ \E s, items, state : ElementApply(s, items, r, state)
        \/ cloud' = cloud /\ conf' = conf /\ fresh' = fresh
    BY <1>3 DEF ElementStep, PutStep, Put, Drop, ReadState, ImportItem, SwitchPortDelete
  <2> QED
    BY <1>2, <2>1, SameReading
<1>4. ASSUME NEW m, ConfApply(conf, m) PROVE FreshlyRecorded'
  <2>1. \/ conf' = <<WithConfig(m, Read(cloud'))>>
        \/ RolledBack(Plan(ToConfig(m), cloud))
    BY <1>4 DEF ConfApply
  <2> QED
    BY <1>1, <2>1, NewReading
<1>5. CASE ConfRead
  BY <1>5, NewReading DEF ConfRead
<1>6. CASE ConfImport
  BY <1>6, NewReading DEF ConfImport
<1>7. CASE ConfDelete \/ PortalEdit
  BY <1>7 DEF ConfDelete, PortalEdit, FreshlyRecorded
<1>8. CASE UNCHANGED vars
  BY <1>8, SameReading DEF vars
<1>9. CASE Next
  BY <1>3, <1>4, <1>5, <1>6, <1>7, <1>9, StepKinds DEF Orderly
<1> QED
  BY <1>8, <1>9

LEMMA AlwaysFreshlyRecorded == Spec => [](Orderly /\ FreshlyRecorded)
BY FreshlyRecordedInit, FreshlyRecordedStep, AlwaysOrderly, PTL DEF Spec

LEMMA FreshIsAccepted ==
  ASSUME Orderly, FreshlyRecorded
  PROVE  UntouchedIsAccepted
<1> SUFFICES ASSUME fresh, \A s \in Managed(conf[1]) : PortalForm(s, cloud) PROVE UnchangedSince(conf)
  BY DEF UntouchedIsAccepted
<1>1. PICK m0 : conf = <<WithConfig(m0, Read(cloud))>>
  BY DEF FreshlyRecorded
<1> DEFINE m == WithConfig(m0, Read(cloud))
<1>2. conf[1] = m
  BY <1>1
<1>3. Regular(cloud) /\ Sortable(cloud) /\ \A s \in Managed(m) : PortalForm(s, cloud)
  BY <1>2 DEF Orderly
<1>4. ~ToConfigError(m)
  BY <1>3, RecordConverts
<1>5. ~ConfigError(ToConfig(m), cloud) /\ Plan(ToConfig(m), cloud) = {}
  BY <1>3, RecordIsQuiet
<1> HIDE DEF m
<1> QED
  BY <1>2, <1>4, <1>5 DEF UnchangedSince

\* In a cloud of the portal's own form nothing that alta_router_config just applied, read or
\* imported counts as changed: it converts, is no error and would write nothing, so the update
\* that follows is not refused (resources/router_config.go: unchangedSince).
THEOREM UntouchedUpdateIsAccepted == Spec => []UntouchedIsAccepted
<1>1. Orderly /\ FreshlyRecorded => UntouchedIsAccepted
  BY FreshIsAccepted
<1> QED
  BY <1>1, AlwaysFreshlyRecorded, PTL
=============================================================================
