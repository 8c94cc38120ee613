------------------------------- MODULE Shapes -------------------------------
(***************************************************************************)
(* The form of what the sections, their items and a site's objects are     *)
(* made of: what every value a JSON text or a Terraform schema yields has, *)
(* and what the proofs take of the ones a behaviour starts from.           *)
(***************************************************************************)
EXTENDS Document

\* A JSON object, a sequence, and the integers that have a text.
IsObj(o) == o = Obj([j \in DOMAIN Fields(o) |-> Fields(o)[j]])
Listing(q) == Len(q) \in Nat /\ q = [i \in 1..Len(q) |-> q[i]]
Numbers == {Decimal[t] : t \in DOMAIN Decimal}

\* A value of the type its row's kind has.
Plain(kind, x) ==
  /\ kind = "int" => x \in Numbers \cup {NoInt}
  /\ kind = "number" => x \in Numbers
  /\ kind \in {"flag", "noflag"} => x \in BOOLEAN
  /\ kind = "tri" => x = <<>> \/ x = <<x[1]>>
  /\ kind = "set" => Listing(x)
  /\ kind = "endpoint" => x = [Address |-> x.Address, Port |-> x.Port]
PlainItem(s, item) == \A f \in DOMAIN Codec[s].row : Plain(Codec[s].row[f][3], item[f])

\* What a value becomes once it is stored: a number loses its padding, one empty DNS server is
\* none, and one whose name has a comma is several.
Unpadded(p) == IF p \in DOMAIN Decimal THEN ToString(Decimal[p]) ELSE p
Stored(kind, x) ==
  IF kind = "endpoint" THEN [Address |-> x.Address, Port |-> Unpadded(x.Port)]
  ELSE IF kind = "csv" THEN (IF x = <<"">> THEN <<>> ELSE NamesIn(x))
  ELSE x

\* A JSON value has fields, entries or neither.  An element is an object of JSON values, and a
\* section's list one of JSON values whose objects are elements, each with an id of its own.
IsValue(v) == IsObj(Obj(Fields(v))) /\ Listing(Entries(v))
IsElement(e) == IsObj(e) /\ \A k \in DOMAIN Fields(e) : IsValue(At(e, k))
HoldsElements(s, root) ==
  LET q == Entries(Node(root, Codec[s].path))
  IN Listing(q) /\ \A i \in 1..Len(q) : q[i][1] = "obj" => IsElement(q[i])
Distinct(q) == \A i, j \in 1..Len(q) : q[i] = q[j] => i = j
Numbered(s, root) == Distinct(ElementIDs(Elements(Codec[s].path, root)))

\* Routes whose networks have a place in the order of texts.
Placed(routes) == \A i \in 1..Len(routes) : routes[i].Network \in ToSet(Lexical)

\* A switch port as it is written, and what a device and a client hold.
IntList(want) == Listing(want) /\ \A i \in DOMAIN want : want[i] \in Numbers
PlainPort(sp) ==
  /\ sp.Port \in Numbers /\ sp.NativeVLAN \in Numbers \cup {NoInt} /\ sp.AllVLANs \in BOOLEAN
  /\ IntList(sp.TaggedVLANs)

\* The items a section is written from.
IsItem(s, item) ==
  /\ s \in DOMAIN Codec => PlainItem(s, item)
  /\ s = "StaticRoutes" => item.Network \in ToSet(Lexical)
  /\ s = "SwitchPorts" => PlainPort(item)
IsSection(s, items) == Listing(items) /\ \A i \in 1..Len(items) : IsItem(s, items[i])
IsConfig(c) == \A s \in ToSet(Sections) : c[s] # <<>> => IsSection(s, c[s][1])

PortsOf(x) == Node(x, PortsPath)
IsPort(o) ==
  LET allowed == At(o, "allowedVlans")
  IN IsObj(Obj(Fields(o))) /\ IsObj(Obj(Fields(allowed))) /\ Listing(Entries(At(allowed, "list")))
IsDevice(device) == \A k \in DOMAIN Fields(PortsOf(device)) : IsPort(At(PortsOf(device), k))
IsClient(o) == IsObj(Child(o, "config"))

\* A document in the form the cloud keeps: objects where there are objects, lists of elements.
Ready(d) ==
  /\ IsDocument(d)
  /\ IsObj(d.site) /\ \A s \in DOMAIN Codec : HoldsElements(s, d.site)
  /\ (d.device = Null \/ IsObj(d.device)) /\ IsDevice(d.device)
  /\ \A c \in DOMAIN d.clients : IsClient(d.clients[c])
\* And one whose sections name what they hold: ids of their own, networks that are ordered,
\* clients that have a MAC address.
Regular(d) ==
  /\ Ready(d)
  /\ \A s \in DOMAIN Codec : Numbered(s, d.site)
  /\ Placed(ListRead("StaticRoutes", d.site))
  /\ DOMAIN d.clients \subseteq DOMAIN MACOf
\* The sections alta_router_config keys by ids that are texts, and these ids in their order.
Keyed == {"PortForwards", "StaticRoutes"}
Sortable(d) == \A s \in Keyed : \A x \in ToSet(ReadSection(s, d)) : x.ID \in ToSet(Lexical)
=============================================================================
