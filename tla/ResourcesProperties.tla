------------------------- MODULE ResourcesProperties -------------------------
(***************************************************************************)
(* What the configuration resources promise of the cloud's document, of    *)
(* the portal's part in it, and of their own state.                        *)
(***************************************************************************)
EXTENDS Resources

\* An item in the form the cloud keeps it in: no padded numbers, no list of one empty name,
\* no name that is several, a MAC address as the client's id spells it.
AsStored(s, item) ==
  CASE s = "SwitchPorts" -> item
    [] s = "DHCPReservations" -> [MAC |-> MACOf[ClientOf[item.MAC]], IP |-> item.IP]
    [] OTHER -> [f \in DOMAIN Codec[s].row |-> Stored(Codec[s].row[f][3], item[f])]

\* A state as reading its item back from the cloud would record it.
Canonical(state) ==
  LET item == AsStored(focus, DomainItem(focus, state.id, state.m))
  IN state.m = Model(focus, item) /\ (focus = "DHCPReservations" => item.IP # "")

\* What an element resource applied reads back as it was planned, whatever the other
\* resources applied since: no difference appears in a plan that nobody caused.
NoPhantomDrift == \A r \in held : Canonical(tf[r][1]) => Refreshed(focus, tf[r][1]) = tf[r]

\* Applying the same element once more writes nothing, also where the configuration asks
\* for an empty text or list ("an unchanged configuration produces no writes", values.go).
Again(r) ==
  LET item == DomainItem(focus, tf[r][1].id, tf[r][1].m)
  IN Desired(focus, PutItem(focus, ReadSection(focus, cloud), item))
SecondApplyIsQuiet == \A r \in held : Plan(Again(r), cloud) = {}

\* What a document says of everything but one item: the other items (in order, where the
\* order is theirs), the fields no section models, and the other sections.
Modelled(s) == {row[2] : row \in ToSet(Codec[s].fields)}
Unknown(s, d) ==
  CASE s = "SwitchPorts" ->
         LET ports == Node(d.device, PortsPath)
         IN {<<p, k, At(At(ports, p), k)>> : p \in DOMAIN Fields(ports),
              k \in UNION {DOMAIN Fields(At(ports, q)) : q \in DOMAIN Fields(ports)} \ {"vlan", "allowedVlans"}}
    [] s = "DHCPReservations" ->
         [c \in DOMAIN MACOf |-> [k \in (ClientConfigFields \cup ClientRecordFields \cup {"wired"}) \ {"ip"} |->
            ClientEdit(Record(d, c))[k]]]
    [] OTHER ->
         LET q == Elements(Codec[s].path, d.site)
         IN {<<AsString(At(q[i], "id")), k, At(q[i], k)>> : i \in DOMAIN q,
              k \in UNION {DOMAIN Fields(q[j]) : j \in DOMAIN q} \ Modelled(s)}
OtherItems(s, items, id) ==
  LET others == SelectSeq(items, LAMBDA x : Identity(s, x) # id)
  IN IF s = "StaticRoutes" THEN ToSet(others) ELSE others
OtherFields(s, u, id) == IF s = "DHCPReservations" THEN u ELSE {t \in u : t[1] # id /\ t[3] # Null}
OneItemApart(s, d, e) ==
  LET was == ReadSection(s, d)  is == ReadSection(s, e)
      uwas == Unknown(s, d)  uis == Unknown(s, e)
      identities == {Identity(s, x) : x \in ToSet(was) \cup ToSet(is)}
  IN /\ \A t \in ToSet(Sections) \ {s} : ReadSection(t, d) = ReadSection(t, e)
     /\ \E id \in {""} \cup identities :
          OtherItems(s, was, id) = OtherItems(s, is, id) /\ OtherFields(s, uwas, id) = OtherFields(s, uis, id)

\* A step of an element resource, rolled back or not, changes what the cloud says of at
\* most one item ("this resource owns its own rule and nothing else").
ByElement == cloud' # cloud /\ edits' = edits /\ conf' = conf /\ (asked' # <<>> => asked' = asked)
OthersKept == [][ByElement => OneItemApart(focus, cloud, cloud')]_vars

\* A transaction that is rolled back leaves the configuration reading as it did: its
\* pre-images undo what its writes did, in every section and for records it created.
RolledBackReadsTheSame ==
  [][UNCHANGED <<tf, conf, held, fresh, edits>> /\ asked' = <<>> /\ cloud' # cloud =>
       Read(cloud') = Read(cloud)]_vars

\* Two items that mean the same to Terraform.
Alike(s, x, y) ==
  LET a == AsStored(s, x)  b == AsStored(s, y) IN Model(s, a) = Model(s, b) /\ Identity(s, a) = Identity(s, b)
Covered(s, P, Q) == \A x \in P : \E y \in Q : Alike(s, x, y)

\* After alta_router_config is applied its sections hold exactly what it asked, the rules in
\* its order and no reservation of an empty address; of the ports it does not list and the
\* sections it does not manage, what was there.
AsAsked(s, items, was, is) ==
  CASE s = "FirewallRules" -> Len(is) = Len(items) /\ \A i \in DOMAIN items : Alike(s, is[i], items[i])
    [] s = "SwitchPorts" ->
         /\ Covered(s, ToSet(items), ToSet(is))
         /\ \A y \in ToSet(is) : y \in ToSet(was) \/ Covered(s, {y}, ToSet(items))
    [] s = "DHCPReservations" ->
         LET given == {x \in ToSet(items) : x.IP # ""} IN Covered(s, given, ToSet(is)) /\ Covered(s, ToSet(is), given)
    [] OTHER -> Len(is) = Len(items) /\ Covered(s, ToSet(items), ToSet(is))
ConfigAuthoritative ==
  [][asked' # asked /\ asked' # <<>> =>
       \A s \in ToSet(Sections) :
         IF asked'[1][s] = <<>> THEN ReadSection(s, cloud') = ReadSection(s, cloud)
         ELSE AsAsked(s, ToConfig(asked'[1])[s][1], ReadSection(s, cloud), ReadSection(s, cloud'))]_vars

\* alta_router_config never writes over a section somebody changed since its last refresh:
\* the cloud holds what the state recorded, item for item, whenever an update writes.
StillAsRecorded(m) ==
  \A s \in ToSet(Sections) : m[s] # <<>> =>
    LET is == ReadSection(s, cloud) IN AsAsked(s, ToConfig(m)[s][1], is, is)
StaleIsRefused ==
  [][asked' # asked /\ asked' # <<>> /\ conf # <<>> /\ cloud' # cloud => StillAsRecorded(conf[1])]_vars

\* In a cloud of the portal's own form (every managed list there and its elements named, its
\* routes complete and in order without a tie, and no value explicitly empty, padded, repeated
\* or of another type) alta_router_config finds the sections it just refreshed or imported
\* unchanged: it would write nothing of them, and an update is not refused.
FormOf(kind, v) ==
  CASE kind = "destination"        -> AsString(v) = "destination"
    [] kind = "string"             -> AsString(v) # ""
    [] kind = "int"                -> AsInt(v) # NoInt
    [] kind = "number"             -> AsInt(v) # NoInt /\ AsString(v) = ToString(AsInt(v))
    [] kind \in {"flag", "noflag"} -> v = Bool(TRUE)
    [] kind = "tri"                -> v[1] = "bool" /\ v = Bool(v[2])
    [] kind = "csv"                -> v[1] = "csv" /\ v = Joined(v[2], FALSE) /\ v[2] \notin DOMAIN Rejoined \union {<<>>, <<"">>}
    [] kind = "set"                -> Distinct(AsStrings(v))
    [] kind = "endpoint"           ->
         IsObj(v) /\ v # EmptyObj /\ \A k \in {"address", "port"} \cap DOMAIN Fields(v) : AsString(At(v, k)) # ""
ElementForm(s, e) ==
  /\ AsString(At(e, "id")) # ""
  /\ \A row \in ToSet(Codec[s].fields) :
       row[2] \in DOMAIN Fields(e) \/ row[3] \in {"destination", "number"} => FormOf(row[3], At(e, row[2]))
PortForm(o) ==
  LET allowed == At(o, "allowedVlans")  vlans == AsInts(At(allowed, "list")) IN
  /\ IsObj(o)
  /\ "vlan" \in DOMAIN Fields(o) => AsInt(At(o, "vlan")) # NoInt
  /\ "allowedVlans" \in DOMAIN Fields(o) => IsObj(allowed) /\ allowed # EmptyObj
  /\ "all" \in DOMAIN Fields(allowed) => At(allowed, "all") = Bool(TRUE)
  /\ "list" \in DOMAIN Fields(allowed) => vlans # <<>> /\ Distinct(vlans) /\ "all" \notin DOMAIN Fields(allowed)
\* What is at the path, if anything is, is in objects.
InObjects(root, path) == \A n \in 1..Len(path) : IsObj(Node(root, SubSeq(path, 1, n - 1)))
PortalForm(s, d) ==
  CASE s = "SwitchPorts" ->
         LET ports == Node(d.device, PortsPath)
         IN /\ d.device # Null
            /\ \A k \in DOMAIN Fields(ports) \cap DOMAIN Decimal :
                 InObjects(d.device, Append(PortsPath, k)) /\ k = ToString(Decimal[k]) /\ PortForm(At(ports, k))
    [] s = "DHCPReservations" ->
         \A c \in DOMAIN d.clients : LET ip == ClientEdit(d.clients[c])["ip"] IN AsString(ip) = "" => ip = Null
    [] OTHER ->
         LET path == Codec[s].path  q == Elements(path, d.site)  r == ListRead(s, d.site) IN
         /\ Node(d.site, path) = List(q) /\ InObjects(d.site, path)
         /\ \A i \in DOMAIN q : ElementForm(s, q[i])
         /\ s = "StaticRoutes" =>
              \A i \in DOMAIN r : ~RouteError(r[i]) /\ \A j \in DOMAIN r : i < j => RouteBefore(r[i], r[j])
Managed(m) == {s \in ToSet(Sections) : m[s] # <<>>}
UntouchedIsAccepted ==
  fresh /\ (\A s \in Managed(conf[1]) : PortalForm(s, cloud)) => UnchangedSince(conf)

\* Nothing was changed since the refresh, so an update of alta_router_config is not refused
\* for a change outside Terraform (values.go: "an unchanged configuration produces no
\* writes"; collection.go: "absent and empty mean the same thing").
RefreshedIsAccepted == fresh => Plan(ToConfig(conf[1]), cloud) = {}

\* The switch ports in the state are the ones listed ("Listed ports are managed; other ports
\* are left alone").
OnlyListedPorts ==
  asked # <<>> /\ asked[1].SwitchPorts # <<>> =>
  DOMAIN conf[1].SwitchPorts[1] = DOMAIN asked[1].SwitchPorts[1]
=============================================================================
