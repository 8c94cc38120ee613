------------------------------ MODULE Resources ------------------------------
(***************************************************************************)
(* The configuration resources: the six element resources, each owning one *)
(* item of a section, and alta_router_config, which owns whole sections.   *)
(* A handler is one step here, its transaction applied or rolled back      *)
(* whole: Engine models what a transaction does, Provider what happens     *)
(* between the steps of two handlers.  Terraform calls Create when it has  *)
(* no state of a resource, Update when the state differs from the          *)
(* configuration and the identity is the same, and refreshes whenever it   *)
(* likes; the portal edits the cloud at any time.                          *)
(***************************************************************************)
EXTENDS Models, Shapes

CONSTANTS
  Slots,       \* the element resources of one configuration
  Clouds,      \* for each section, the documents a behaviour may start from
  Wanted,      \* for each section and slot, what its configuration may ask: [id, m]
  ConfWanted,  \* for each section, what an alta_router_config may ask
  NewIDs,      \* the ids that may be generated
  Retouch,     \* for each section, the keys the portal may set, with their values
  Appear,      \* for each section, the elements the portal may add
  Mixed,       \* whether a section may be declared both ways at once
  MaxEdits     \* the bound on the edits of the portal

ASSUME CloudsAssumption == \A s \in ToSet(Sections) : \A d \in Clouds[s] : IsDocument(d)
ASSUME RegularAssumption == \A s \in ToSet(Sections) : \A d \in Clouds[s] : Regular(d) /\ Sortable(d)

\* An identity as the state of an element resource holds it: a number in its one form, a MAC
\* address as the cloud spells it.
Names(s, id) ==
  /\ s \in {"VLANs", "SwitchPorts"} => id \in DOMAIN Decimal /\ ToString(Decimal[id]) = id
  /\ s = "DHCPReservations" => id \in DOMAIN ClientOf /\ MACOf[ClientOf[id]] = id
\* A set of Terraform's is finite.
FiniteSets(s, m) ==
  \A f \in DOMAIN ModelOf(s) :
    /\ ModelOf(s)[f] = "set" => IsFiniteSet(m[f])
    /\ ModelOf(s)[f] = "someset" => IsFiniteSet(Value(m[f], {}))
\* What an element resource asks has the types of its schema, and an identity no other has.
ASSUME WantedAssumption ==
  \A s \in ToSet(Sections) : \A r \in Slots : \A w \in Wanted[s][r] :
    /\ s \in {"VLANs", "SwitchPorts", "DHCPReservations"} => w.id # <<>>
    /\ IsItem(s, Item(s, KeyOf(s, Value(w.id, "")), w.m)) /\ FiniteSets(s, w.m)
    /\ w.id # <<>> =>
         /\ w.id = <<w.id[1]>> /\ Names(s, w.id[1]) /\ w.id[1] \in ToSet(Lexical) \ NewIDs
         /\ \A q \in Slots \ {r} : \A v \in Wanted[s][q] : v.id # w.id
ASSUME NewIDsAssumption == NewIDs \subseteq ToSet(Lexical)
\* So has what alta_router_config asks; its items by key are finitely many, their keys in order.
Askable(m) ==
  \A t \in ToSet(Sections) : m[t] # <<>> =>
    IF t = "FirewallRules"
    THEN LET rules == m[t][1]
         IN Listing(rules) /\ \A i \in 1..Len(rules) : IsItem(t, Item(t, Value(rules[i].ID, ""), rules[i]))
    ELSE LET keys == DOMAIN m[t][1]
         IN /\ IsFiniteSet(keys) /\ keys \subseteq ToSet(Lexical)
            /\ ~SectionKeyError(t, keys) => \A k \in keys : IsItem(t, Item(t, KeyOf(t, k), m[t][1][k]))
ASSUME ConfWantedAssumption == \A s \in ToSet(Sections) : \A m \in ConfWanted[s] : Askable(m)
\* What the portal writes is JSON too, and of a route it does not unset the network.
ASSUME PortalAssumption ==
  \A s \in ToSet(Sections) :
    /\ \A kv \in Retouch[s] :
         /\ kv[1] # "id" /\ IsValue(kv[2]) /\ IsValue(At(kv[2], "list"))
         /\ s = "StaticRoutes" /\ kv[1] = "network" => AsString(kv[2]) \in ToSet(Lexical)
    /\ \A e \in Appear[s] :
         /\ IsElement(e) /\ AsString(At(e, "id")) \in ToSet(Lexical)
         /\ s = "StaticRoutes" => AsString(At(e, "network")) \in ToSet(Lexical)

VARIABLES
  focus,  \* the section this configuration is about
  cloud,  \* the document the cloud holds
  tf,     \* the state of each element resource: <<>> or <<[id, m, derived]>>
  conf,   \* the state of the router_config resource: <<>> or <<a model>>
  asked,  \* the router_config just applied, until anything else is written or read: <<>> or <<a model>>
  held,   \* the slots applied since the portal or router_config last wrote
  fresh,  \* nothing was written since conf was read from the cloud
  edits   \* the edits of the portal so far

vars == <<focus, cloud, tf, conf, asked, held, fresh, edits>>

Init ==
  /\ focus \in ToSet(Sections)
  /\ cloud \in Clouds[focus]
  /\ tf = [r \in Slots |-> <<>>]
  /\ conf = <<>> /\ asked = <<>>
  /\ held = {} /\ fresh = FALSE /\ edits = 0

(***************************************************************************)
(* element.go: one item of a collection, as a transaction.                 *)
(***************************************************************************)
DomainItem(s, id, m) == Item(s, KeyOf(s, id), m)
StateOf(s, id, item) ==
  [id |-> id, m |-> Model(s, item), derived |-> IF s = "VLANs" THEN Derived(item) ELSE <<>>]

Find(d, s, id) == LET items == ReadSection(s, d) IN Kept(items, {x \in ToSet(items) : Identity(s, x) = id})

PutItem(s, items, item) ==
  LET at == {i \in DOMAIN items : Identity(s, items[i]) = Identity(s, item)}
  IN IF at = {} THEN Append(items, item)
     ELSE [items EXCEPT ![CHOOSE i \in at : \A j \in at : i <= j] = item]
DropItem(s, items, id) == Kept(items, {x \in ToSet(items) : Identity(s, x) # id})

Desired(s, items) == [Unmanaged EXCEPT ![s] = <<items>>]

\* A transaction: all of its writes, or none of them after a rollback.
Applied(writes) == cloud' = Post(cloud, writes)
RolledBack(writes) ==
  /\ writes # {}
  /\ cloud' = Post(Post(cloud, writes), PreImages(cloud, writes))
  /\ asked' = <<>>
  /\ UNCHANGED <<focus, tf, conf, held, fresh, edits>>

Transact(c, r, state, writes) ==
  /\ ~ConfigError(c, cloud)
  /\ \/ /\ Applied(writes)
        /\ tf' = [tf EXCEPT ![r] = state]
        /\ held' = IF state = <<>> THEN held \ {r} ELSE held \cup {r}
        /\ fresh' = (fresh /\ writes = {})
        /\ asked' = IF fresh' THEN asked ELSE <<>>
        /\ UNCHANGED <<focus, conf, edits>>
     \/ RolledBack(writes)
ElementApply(s, items, r, state) ==
  LET c == Desired(s, items) IN Transact(c, r, state, Plan(c, cloud))

\* The state keeps the plan as it is, not what the cloud made of it.
Put(s, r, id, m) ==
  LET item == DomainItem(s, id, m)
  IN ElementApply(s, PutItem(s, ReadSection(s, cloud), item), r, <<[StateOf(s, id, item) EXCEPT !.m = m]>>)
Drop(s, r) == ElementApply(s, DropItem(s, ReadSection(s, cloud), tf[r][1].id), r, <<>>)
Refreshed(s, state) ==
  LET found == Find(cloud, s, state.id) IN IF found = <<>> THEN <<>> ELSE <<StateOf(s, state.id, found[1])>>

GeneratedID(id) == IF id # <<>> THEN {id[1]} ELSE NewIDs \ {tf[r][1].id : r \in {r \in Slots : tf[r] # <<>>}}
NoConf == ~Mixed => conf = <<>>
NoElement == ~Mixed => \A r \in Slots : tf[r] = <<>>
PlannedCreate(s, r) == IF focus = s /\ tf[r] = <<>> /\ NoConf THEN Wanted[s][r] ELSE {}
PlannedUpdate(s, r) ==
  IF focus # s \/ tf[r] = <<>> THEN {}
  ELSE {w \in Wanted[s][r] : w.id \in {<<>>, <<tf[r][1].id>>} /\ w.m # tf[r][1].m}
PlannedDelete(s, r) == focus = s /\ tf[r] # <<>>

ReadState(s, r) ==
  /\ focus = s /\ tf[r] # <<>>
  /\ tf' = [tf EXCEPT ![r] = Refreshed(s, tf[r][1])]
  /\ held' = IF tf'[r] = <<>> THEN held \ {r} ELSE held
  /\ UNCHANGED <<focus, cloud, conf, asked, fresh, edits>>
ImportItem(s, r) ==
  /\ focus = s /\ tf[r] = <<>> /\ NoConf
  /\ \E w \in Wanted[s][r] :
       /\ w.id # <<>> /\ Find(cloud, s, w.id[1]) # <<>>
       /\ tf' = [tf EXCEPT ![r] = <<StateOf(s, w.id[1], Find(cloud, s, w.id[1])[1])>>]
  /\ UNCHANGED <<focus, cloud, conf, asked, held, fresh, edits>>

(***************************************************************************)
(* alta_vlan                                                               *)
(***************************************************************************)
VLANCreate(r) == \E w \in PlannedCreate("VLANs", r) : Put("VLANs", r, w.id[1], w.m)
VLANUpdate(r) == \E w \in PlannedUpdate("VLANs", r) : Put("VLANs", r, w.id[1], w.m)
VLANRead(r) == ReadState("VLANs", r)
VLANDelete(r) == PlannedDelete("VLANs", r) /\ Drop("VLANs", r)
VLANImport(r) == ImportItem("VLANs", r)

(***************************************************************************)
(* alta_static_route                                                       *)
(***************************************************************************)
RouteWrite(r, id, m) == ~RouteError(DomainItem("StaticRoutes", id, m)) /\ Put("StaticRoutes", r, id, m)
StaticRouteCreate(r) == \E w \in PlannedCreate("StaticRoutes", r) : \E id \in GeneratedID(w.id) : RouteWrite(r, id, w.m)
StaticRouteUpdate(r) == \E w \in PlannedUpdate("StaticRoutes", r) : RouteWrite(r, tf[r][1].id, w.m)
StaticRouteRead(r) == ReadState("StaticRoutes", r)
StaticRouteDelete(r) == PlannedDelete("StaticRoutes", r) /\ Drop("StaticRoutes", r)
StaticRouteImport(r) == ImportItem("StaticRoutes", r)

(***************************************************************************)
(* alta_port_forward                                                       *)
(***************************************************************************)
PortForwardCreate(r) == \E w \in PlannedCreate("PortForwards", r) : \E id \in GeneratedID(w.id) : Put("PortForwards", r, id, w.m)
PortForwardUpdate(r) == \E w \in PlannedUpdate("PortForwards", r) : Put("PortForwards", r, tf[r][1].id, w.m)
PortForwardRead(r) == ReadState("PortForwards", r)
PortForwardDelete(r) == PlannedDelete("PortForwards", r) /\ Drop("PortForwards", r)
PortForwardImport(r) == ImportItem("PortForwards", r)

(***************************************************************************)
(* alta_firewall_rule                                                      *)
(***************************************************************************)
FirewallRuleCreate(r) == \E w \in PlannedCreate("FirewallRules", r) : \E id \in GeneratedID(w.id) : Put("FirewallRules", r, id, w.m)
FirewallRuleUpdate(r) == \E w \in PlannedUpdate("FirewallRules", r) : Put("FirewallRules", r, tf[r][1].id, w.m)
FirewallRuleRead(r) == ReadState("FirewallRules", r)
FirewallRuleDelete(r) == PlannedDelete("FirewallRules", r) /\ Drop("FirewallRules", r)
FirewallRuleImport(r) == ImportItem("FirewallRules", r)

(***************************************************************************)
(* alta_switch_port: a port cannot be deleted, so Delete only forgets it.  *)
(***************************************************************************)
SwitchPortCreate(r) == \E w \in PlannedCreate("SwitchPorts", r) : Put("SwitchPorts", r, w.id[1], w.m)
SwitchPortUpdate(r) == \E w \in PlannedUpdate("SwitchPorts", r) : Put("SwitchPorts", r, w.id[1], w.m)
SwitchPortRead(r) == ReadState("SwitchPorts", r)
SwitchPortDelete(r) ==
  /\ PlannedDelete("SwitchPorts", r)
  /\ tf' = [tf EXCEPT ![r] = <<>>] /\ held' = held \ {r}
  /\ UNCHANGED <<focus, cloud, conf, asked, fresh, edits>>
SwitchPortImport(r) == ImportItem("SwitchPorts", r)

(***************************************************************************)
(* alta_dhcp_reservation                                                   *)
(***************************************************************************)
ReservationCreate(r) == \E w \in PlannedCreate("DHCPReservations", r) : Put("DHCPReservations", r, w.id[1], w.m)
ReservationUpdate(r) == \E w \in PlannedUpdate("DHCPReservations", r) : Put("DHCPReservations", r, w.id[1], w.m)
ReservationRead(r) == ReadState("DHCPReservations", r)
ReservationDelete(r) == PlannedDelete("DHCPReservations", r) /\ Drop("DHCPReservations", r)
ReservationImport(r) == ImportItem("DHCPReservations", r)

(***************************************************************************)
(* alta_router_config                                                      *)
(***************************************************************************)
\* Mutant: the sections are not compared with the last refresh.
UnchangedSinceAnything(prior) == TRUE
UnchangedSince(prior) ==
  prior # <<>> =>
    /\ ~ToConfigError(prior[1])
    /\ ~ConfigError(ToConfig(prior[1]), cloud)
    /\ Plan(ToConfig(prior[1]), cloud) = {}
ConfApply(prior, m) ==
  LET c == ToConfig(m)  writes == Plan(c, cloud) IN
  /\ ~ToConfigError(m) /\ ~ConfigError(c, cloud)
  /\ UnchangedSince(prior)
  /\ \/ /\ Applied(writes)
        /\ conf' = <<WithConfig(m, Read(cloud'))>> /\ asked' = <<m>> /\ fresh' = TRUE
        /\ held' = IF writes = {} THEN held ELSE {}
        /\ UNCHANGED <<focus, tf, edits>>
     \/ RolledBack(writes)
ConfCreate == conf = <<>> /\ \E m \in {m \in ConfWanted[focus] : NoElement} : ConfApply(<<>>, m)
ConfUpdate == conf # <<>> /\ \E m \in ConfWanted[focus] \ {conf[1]} : ConfApply(conf, m)
ConfRead ==
  /\ conf # <<>> /\ conf' = <<WithConfig(conf[1], Read(cloud))>> /\ fresh' = TRUE /\ asked' = <<>>
  /\ UNCHANGED <<focus, cloud, tf, held, edits>>
ConfDelete ==
  /\ conf # <<>> /\ conf' = <<>> /\ asked' = <<>> /\ fresh' = FALSE
  /\ UNCHANGED <<focus, cloud, tf, held, edits>>
\* Every section present and empty, which the read that follows an import fills.
ConfImport ==
  /\ conf = <<>> /\ NoElement /\ conf' = <<WithConfig(AllSections, Read(cloud))>> /\ fresh' = TRUE /\ asked' = <<>>
  /\ UNCHANGED <<focus, cloud, tf, held, edits>>

(***************************************************************************)
(* The portal: one element added, removed or retouched.                    *)
(***************************************************************************)
Retouched(o, kv) == IF kv[2] = Null THEN Omit(o, kv[1]) ELSE With(o, kv[1], kv[2])
Edited(s, d) ==
  CASE s = "SwitchPorts" ->
         {[d EXCEPT !.device = PutAt(@, Append(PortsPath, p), Retouched(Node(@, Append(PortsPath, p)), kv))] :
            p \in DOMAIN Fields(Node(d.device, PortsPath)), kv \in Retouch[s]}
    [] s = "DHCPReservations" ->
         {[d EXCEPT !.clients[c] = With(@, "config", Retouched(Child(@, "config"), kv))] :
            c \in DOMAIN d.clients, kv \in Retouch[s]}
    [] OTHER ->
         LET q == Elements(Codec[s].path, d.site)
             lists == {RemoveAt(q, i) : i \in DOMAIN q} \cup {Append(q, e) : e \in {e \in Appear[s] : AsString(At(e, "id")) \notin ToSet(ElementIDs(q))}}
                      \cup {[q EXCEPT ![i] = Retouched(@, kv)] : i \in DOMAIN q, kv \in Retouch[s]}
         IN {[d EXCEPT !.site = PutAt(@, Codec[s].path, List(l))] : l \in lists}
PortalEdit ==
  /\ edits < MaxEdits /\ edits' = edits + 1
  /\ cloud' \in Edited(focus, cloud) \ {cloud}
  /\ held' = {} /\ fresh' = FALSE /\ asked' = <<>>
  /\ UNCHANGED <<focus, tf, conf>>

Element(r) ==
  \/ VLANCreate(r) \/ VLANUpdate(r) \/ VLANRead(r) \/ VLANDelete(r) \/ VLANImport(r)
  \/ StaticRouteCreate(r) \/ StaticRouteUpdate(r) \/ StaticRouteRead(r) \/ StaticRouteDelete(r) \/ StaticRouteImport(r)
  \/ PortForwardCreate(r) \/ PortForwardUpdate(r) \/ PortForwardRead(r) \/ PortForwardDelete(r) \/ PortForwardImport(r)
  \/ FirewallRuleCreate(r) \/ FirewallRuleUpdate(r) \/ FirewallRuleRead(r) \/ FirewallRuleDelete(r) \/ FirewallRuleImport(r)
  \/ SwitchPortCreate(r) \/ SwitchPortUpdate(r) \/ SwitchPortRead(r) \/ SwitchPortDelete(r) \/ SwitchPortImport(r)
  \/ ReservationCreate(r) \/ ReservationUpdate(r) \/ ReservationRead(r) \/ ReservationDelete(r) \/ ReservationImport(r)
Configuration == ConfCreate \/ ConfUpdate \/ ConfRead \/ ConfDelete \/ ConfImport

Next == (\E r \in Slots : Element(r)) \/ Configuration \/ PortalEdit
Spec == Init /\ [][Next]_vars
=============================================================================
