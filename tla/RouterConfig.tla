---------------------------- MODULE RouterConfig ----------------------------
(***************************************************************************)
(* internal/routerconfig: a router's configuration, section by section, as *)
(* it is read from the cloud objects and overlaid on them, and the writes  *)
(* that make one document into another.  A codec is data here: the rows of *)
(* its table name an item's field, the element's key and the kind of value *)
(* between them.                                                           *)
(***************************************************************************)
EXTENDS Values

CONSTANTS
  ClientOf,   \* the client id of each text that parses as a MAC address
  MACOf       \* the MAC address of each client id, lowercase and colon-separated

ASSUME ClientOfAssumption == IsFiniteSet(DOMAIN ClientOf)
ASSUME MACAssumption ==
  /\ \A c \in DOMAIN MACOf : MACOf[c] \in DOMAIN ClientOf /\ ClientOf[MACOf[c]] = c /\ MACOf[c] \in ToSet(Lexical)
  /\ \A t \in DOMAIN ClientOf : ClientOf[t] \in DOMAIN MACOf

Sections == <<"PortForwards", "FirewallRules", "VLANs", "StaticRoutes", "SwitchPorts", "DHCPReservations">>

NoEndpoint == [Address |-> "", Port |-> ""]

VLANFields ==
  << <<"ID", "id", "number">>, <<"Name", "notes", "string">>, <<"RouterIP", "routerIP", "string">>,
     <<"PoolSize", "poolSize", "int">>, <<"ReservedIPs", "reservedIPs", "int">>,
     <<"DNSServers", "dnsServers", "csv">>, <<"DomainName", "domainName", "string">>,
     <<"DHCP", "disableDHCP", "noflag">>, <<"Isolation", "isolation", "flag">>, <<"MDNS", "mdns", "tri">> >>
StaticRouteFields ==
  << <<"ID", "id", "string">>, <<"Name", "name", "string">>, <<"Type", "type", "string">>,
     <<"Network", "network", "string">>, <<"NextHop", "nextHop", "string">>,
     <<"Interface", "interface", "string">>, <<"Metric", "metric", "int">> >>
PortForwardFields ==
  << <<"ID", "id", "string">>, <<"Type", "type", "destination">>, <<"Description", "description", "string">>,
     <<"Protocols", "protocol", "set">>, <<"IPVersion", "ipVersion", "string">>,
     <<"ZoneIn", "zoneIn", "string">>, <<"ZoneOut", "zoneOut", "string">>, <<"Source", "source", "endpoint">>,
     <<"Destination", "destination", "endpoint">>, <<"Translation", "translation", "endpoint">> >>
FirewallRuleFields ==
  << <<"ID", "id", "string">>, <<"Description", "description", "string">>, <<"Action", "action", "string">>,
     <<"Protocols", "protocol", "set">>, <<"IPVersion", "ipVersion", "string">>, <<"ICMPTypes", "icmpType", "set">>,
     <<"ZoneIn", "zoneIn", "string">>, <<"ZoneOut", "zoneOut", "string">>, <<"Source", "source", "endpoint">>,
     <<"Destination", "destination", "endpoint">>, <<"Limit", "limit", "string">> >>

\* "kept": existing elements keep their place; "given": the order of the items; "sorted":
\* the portal's.  row: of each field of an item, its row.
ListCodec(path, order, fields) ==
  LET read == {row \in ToSet(fields) : row[3] # "destination"}
  IN [path |-> path, order |-> order, fields |-> fields,
      row |-> [f \in {row[1] : row \in read} |-> CHOOSE row \in read : row[1] = f]]
Codec ==
  [PortForwards  |-> ListCodec(<<"firewall", "nat", "rules">>, "kept", PortForwardFields),
   FirewallRules |-> ListCodec(<<"firewall", "firewall", "rules">>, "given", FirewallRuleFields),
   VLANs         |-> ListCodec(<<"vlans">>, "kept", VLANFields),
   StaticRoutes  |-> ListCodec(<<"routes">>, "sorted", StaticRouteFields)]

DecodeEndpoint(o, k) == [Address |-> AsString(At(At(o, k), "address")), Port |-> AsString(At(At(o, k), "port"))]
EncodeEndpoint(o, k, e) ==
  PruneEmpty(With(o, k, PutPort(PutString(Child(o, k), "address", e.Address), "port", e.Port)), k)

DecodeField(e, k, kind) ==
  CASE kind = "string"   -> AsString(At(e, k))
    [] kind = "int"      -> AsInt(At(e, k))
    [] kind = "number"   -> IF AsInt(At(e, k)) = NoInt THEN 0 ELSE AsInt(At(e, k))
    [] kind = "flag"     -> AsFlag(At(e, k))
    [] kind = "noflag"   -> ~AsFlag(At(e, k))
    [] kind = "tri"      -> IF At(e, k)[1] = "bool" THEN <<At(e, k)[2]>> ELSE <<>>
    [] kind = "csv"      -> SplitCSV(At(e, k))
    [] kind = "set"      -> AsStrings(At(e, k))
    [] kind = "endpoint" -> DecodeEndpoint(e, k)
Decode(row, e) == [f \in DOMAIN row |-> DecodeField(e, row[f][2], row[f][3])]

EncodeField(item, e, row) ==
  LET f == row[1]  k == row[2]  kind == row[3] IN
  CASE kind = "destination" -> PutString(e, k, "destination")
    [] kind = "string"   -> PutString(e, k, item[f])
    [] kind \in {"int", "number"} -> PutInt(e, k, item[f])
    [] kind = "flag"     -> PutFlag(e, k, item[f])
    [] kind = "noflag"   -> PutFlag(e, k, ~item[f])
    [] kind = "tri"      -> PutTri(e, k, item[f])
    [] kind = "csv"      -> PutCSV(e, k, item[f])
    [] kind = "set"      -> PutStringSet(e, k, item[f])
    [] kind = "endpoint" -> EncodeEndpoint(e, k, item[f])
Encode(fields, item, element) == Fold(LAMBDA e, row : EncodeField(item, e, row), element, fields)

Text(x) == IF x \in Int THEN ToString(x) ELSE x
Identity(s, item) ==
  CASE s = "SwitchPorts" -> Text(item.Port) [] s = "DHCPReservations" -> item.MAC [] s = "VLANs" -> Text(item.ID) [] OTHER -> item.ID

Node(root, path) == Fold(At, root, path)
\* root with v at path, its missing parents created.
PutAt(root, path, v) ==
  LET n == Len(path)
      wrap(inner, i) == With(Obj(Fields(Node(root, SubSeq(path, 1, n - i)))), path[n - i + 1], inner)
  IN Fold(wrap, v, [i \in 1..n |-> i])

Elements(path, root) == LET q == Entries(Node(root, path)) IN Kept(q, {e \in ToSet(q) : e[1] = "obj"})
ElementIDs(elements) == [i \in DOMAIN elements |-> AsString(At(elements[i], "id"))]

\* The ids that are there keep their place, the others follow in the order given.
StableOrder(current, wanted) ==
  Kept(current, ToSet(wanted)) \o Kept(wanted, ToSet(wanted) \ ToSet(current))

MetricOf(r) == IF r.Metric = NoInt THEN 0 ELSE r.Metric
RouteBefore(a, b) == MetricOf(a) < MetricOf(b) \/ (MetricOf(a) = MetricOf(b) /\ Before(a.Network, b.Network))
\* Mutant: routes of the same metric and network change places.
SortedRoutesUnstable(items) ==
  LET first(i, j) == RouteBefore(items[i], items[j]) \/ (~RouteBefore(items[j], items[i]) /\ i > j)
      place == Sorted(DOMAIN items, first)
  IN [i \in DOMAIN items |-> items[place[i]]]
SortedRoutes(items) ==
  LET first(i, j) == RouteBefore(items[i], items[j]) \/ (~RouteBefore(items[j], items[i]) /\ i < j)
      place == Sorted(DOMAIN items, first)
  IN [i \in DOMAIN items |-> items[place[i]]]

RouteError(r) ==
  \/ r.Name = ""
  \/ r.Type = "next-hop" /\ r.NextHop = ""
  \/ r.Type = "interface" /\ r.Interface = ""

ListRead(s, root) == LET c == Codec[s]  q == Elements(c.path, root) IN [i \in DOMAIN q |-> Decode(c.row, q[i])]
ListError(s, items) ==
  \/ \E i \in DOMAIN items : Identity(s, items[i]) = ""
  \/ \E i, j \in DOMAIN items : i # j /\ Identity(s, items[i]) = Identity(s, items[j])

\* Mutant: every element is written afresh, from the item alone.
ListWriteFresh(s, root, items) ==
  LET c == Codec[s] IN PutAt(root, c.path, List([i \in DOMAIN items |-> Encode(c.fields, items[i], EmptyObj)]))
\* The last element that has an id.
Existing(current, id) ==
  LET at == {i \in DOMAIN current : AsString(At(current[i], "id")) = id}
  IN IF at = {} THEN EmptyObj ELSE current[CHOOSE i \in at : \A j \in at : j <= i]
Identities(s, items) == [i \in DOMAIN items |-> Identity(s, items[i])]
WriteOrder(s, current, items) ==
  CASE Codec[s].order = "sorted" -> Identities(s, SortedRoutes(items))
    [] Codec[s].order = "kept"   -> StableOrder(ElementIDs(current), Identities(s, items))
    [] Codec[s].order = "given"  -> Identities(s, items)
\* The list holds exactly these items, each overlaid on the element that has its id.
NextElements(s, current, items) ==
  LET order == WriteOrder(s, current, items)
      item(id) == CHOOSE x \in ToSet(items) : Identity(s, x) = id
  IN [i \in DOMAIN order |-> Encode(Codec[s].fields, item(order[i]), Existing(current, order[i]))]
ListWrite(s, root, items) ==
  LET path == Codec[s].path
      next == NextElements(s, Elements(path, root), items)
      grown == PutAt(root, Front(path), Obj(Fields(Node(root, Front(path)))))
  IN IF next = <<>> /\ Node(root, path) = Null THEN grown ELSE PutAt(root, path, List(next))

PortsPath == <<"portsCfg", "ports">>
ReadSwitchPorts(device) ==
  LET ports == Node(device, PortsPath)
      keys == Sorted({Decimal[k] : k \in DOMAIN Fields(ports) \cap DOMAIN Decimal}, <)
      port(n) == At(ports, ToString(n))
      allowed(n) == At(port(n), "allowedVlans")
  IN [i \in DOMAIN keys |->
       [Port |-> keys[i], NativeVLAN |-> AsInt(At(port(keys[i]), "vlan")),
        AllVLANs |-> AsFlag(At(allowed(keys[i]), "all")), TaggedVLANs |-> AsInts(At(allowed(keys[i]), "list"))]]
SwitchPortsError(device, items) ==
  \/ device = Null
  \/ \E i, j \in DOMAIN items : i # j /\ items[i].Port = items[j].Port
  \/ \E i \in DOMAIN items : items[i].AllVLANs /\ items[i].TaggedVLANs # <<>>
WriteSwitchPort(device, sp) ==
  LET path == Append(PortsPath, ToString(sp.Port))
      port == PutInt(Obj(Fields(Node(device, path))), "vlan", sp.NativeVLAN)
      allowed == PutIntSet(PutFlag(Child(port, "allowedVlans"), "all", sp.AllVLANs), "list", sp.TaggedVLANs)
  IN PutAt(device, path, PruneEmpty(With(port, "allowedVlans", allowed), "allowedVlans"))
WriteSwitchPorts(device, items) == Fold(WriteSwitchPort, device, items)

ReadReservations(clients) ==
  LET ip(c) == AsString(At(At(clients[c], "config"), "ip"))
      held == {[MAC |-> MACOf[c], IP |-> ip(c)] : c \in {c \in DOMAIN clients : ip(c) # ""}}
  IN Sorted(held, LAMBDA a, b : Before(a.MAC, b.MAC))
ReservationsError(items) ==
  \/ \E i \in DOMAIN items : items[i].MAC \notin DOMAIN ClientOf
  \/ \E i, j \in DOMAIN items : i # j /\ ClientOf[items[i].MAC] = ClientOf[items[j].MAC]
\* Mutant: a client that is not listed keeps its reservation.
WriteReservationsListed(clients, items) ==
  LET wanted == {ClientOf[r.MAC] : r \in ToSet(items)}
      ip(c) == (CHOOSE r \in ToSet(items) : ClientOf[r.MAC] = c).IP
      record(c) == IF c \in DOMAIN clients THEN clients[c] ELSE Obj([id |-> Str(c)])
  IN [c \in wanted |-> With(record(c), "config", PutString(Child(record(c), "config"), "ip", ip(c)))] @@ clients
\* Clients that are not listed lose their reservation; one that is not there gets a record.
WriteReservations(clients, items) ==
  LET wanted == {ClientOf[r.MAC] : r \in ToSet(items)}
      ip(c) == (CHOOSE r \in ToSet(items) : ClientOf[r.MAC] = c).IP
      record(c) == IF c \in DOMAIN clients THEN clients[c] ELSE Obj([id |-> Str(c)])
      without(o) == IF At(o, "config")[1] = "obj" THEN With(o, "config", Omit(At(o, "config"), "ip")) ELSE o
  IN [c \in DOMAIN clients \cup wanted |->
       IF c \in wanted THEN With(record(c), "config", PutString(Child(record(c), "config"), "ip", ip(c)))
                       ELSE without(record(c))]

ClientConfigFields == {"type", "vlan", "ip", "dlRate", "ulRate", "ignoreHotspot", "icon", "upnp", "upnpPorts"}
ClientRecordFields == {"profile", "schedule", "filter"}
\* The body the portal posts for a client: every field, null when it is not set.
ClientEdit(record) ==
  [k \in ClientConfigFields \cup ClientRecordFields \cup {"wired"} |->
     CASE k \in ClientConfigFields -> At(At(record, "config"), k)
       [] k \in ClientRecordFields -> At(record, k)
       [] k = "wired" -> Bool(AsFlag(At(record, "wired")))]
=============================================================================
