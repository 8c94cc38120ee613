------------------------------- MODULE Models -------------------------------
(***************************************************************************)
(* internal/resources: Terraform's own form of a configuration and how it  *)
(* becomes the domain's and back.  A Terraform value that may be null is   *)
(* <<>> or <<v>>, a set attribute is a set.  A model is a record of such   *)
(* values; the tables below say of which kind each attribute is.  Element  *)
(* resources repeat the attributes of alta_router_config's sections next   *)
(* to their identity.                                                      *)
(***************************************************************************)
EXTENDS Document

CONSTANT Cidr   \* the gateway and the subnet of each text that is a CIDR address

PortForwardModel == [Description |-> "string", Protocols |-> "set", IPVersion |-> "string", ZoneIn |-> "string",
  ZoneOut |-> "string", Source |-> "endpoint", Destination |-> "endpoint", Translation |-> "endpoint"]
FirewallRuleModel == [Description |-> "string", Action |-> "string", Protocols |-> "someset", IPVersion |-> "string",
  ICMPTypes |-> "someset", ZoneIn |-> "string", ZoneOut |-> "string", Source |-> "endpoint",
  Destination |-> "endpoint", Limit |-> "string"]
VLANModel == [Name |-> "string", RouterIP |-> "string", PoolSize |-> "int", ReservedIPs |-> "int",
  DNSServers |-> "somelist", DomainName |-> "string", DHCP |-> "bool", Isolation |-> "bool", MDNS |-> "bool"]
StaticRouteModel == [Name |-> "string", Type |-> "string", Network |-> "string", NextHop |-> "string",
  Interface |-> "string", Metric |-> "int"]
SwitchPortModel == [NativeVLAN |-> "int", AllVLANs |-> "bool", TaggedVLANs |-> "someset"]
ReservationModel == [IP |-> "always"]

ModelOf(s) ==
  CASE s = "PortForwards" -> PortForwardModel [] s = "FirewallRules" -> FirewallRuleModel
    [] s = "VLANs" -> VLANModel [] s = "StaticRoutes" -> StaticRouteModel
    [] s = "SwitchPorts" -> SwitchPortModel [] s = "DHCPReservations" -> ReservationModel
IdentityField(s) == CASE s = "SwitchPorts" -> "Port" [] s = "DHCPReservations" -> "MAC" [] OTHER -> "ID"

Value(v, zero) == IF v = <<>> THEN zero ELSE v[1]
Optional(x) == IF x = "" THEN <<>> ELSE <<x>>
NonEmpty(x) == IF x = <<>> THEN <<>> ELSE <<x>>
ToDomain(e) == IF e = <<>> THEN NoEndpoint ELSE [Address |-> Value(e[1].Address, ""), Port |-> Value(e[1].Port, "")]
EndpointFrom(e) == IF e = NoEndpoint THEN <<>> ELSE <<[Address |-> Optional(e.Address), Port |-> Optional(e.Port)]>>

DomainValue(kind, v) ==
  CASE kind = "string"   -> Value(v, "")
    [] kind = "int"      -> Value(v, NoInt)
    [] kind \in {"bool", "always"} -> v
    [] kind = "somelist" -> Value(v, <<>>)
    [] kind = "someset"  -> SetToSeq(Value(v, {}))
    [] kind = "set"      -> SetToSeq(v)
    [] kind = "endpoint" -> ToDomain(v)
ModelValue(kind, x) ==
  CASE kind = "string"   -> Optional(x)
    [] kind = "int"      -> IF x = NoInt THEN <<>> ELSE <<x>>
    [] kind \in {"bool", "always"} -> x
    [] kind = "somelist" -> NonEmpty(x)
    [] kind = "someset"  -> IF x = <<>> THEN <<>> ELSE <<ToSet(x)>>
    [] kind = "set"      -> ToSet(x)
    [] kind = "endpoint" -> EndpointFrom(x)
Item(s, id, m) ==
  LET k == ModelOf(s) IN Over([f \in {IdentityField(s)} |-> id], [f \in DOMAIN k |-> DomainValue(k[f], m[f])])
Model(s, item) == LET k == ModelOf(s) IN [f \in DOMAIN k |-> ModelValue(k[f], item[f])]

(***************************************************************************)
(* alta_router_config.  Each section is <<>> (unmanaged) or holds its      *)
(* items by key, the firewall rules in order, each with its id.            *)
(***************************************************************************)
SectionKeyError(s, keys) == s \in {"VLANs", "SwitchPorts"} /\ ~(keys \subseteq DOMAIN Decimal)
KeyOf(s, key) == IF s \in {"VLANs", "SwitchPorts"} THEN Decimal[key] ELSE key
ConvertMap(s, section) ==
  LET keys == Sorted(DOMAIN section, Before)
  IN [i \in DOMAIN keys |-> Item(s, KeyOf(s, keys[i]), section[keys[i]])]
ToConfigError(m) ==
  \/ \E s \in ToSet(Sections) \ {"FirewallRules"} : m[s] # <<>> /\ SectionKeyError(s, DOMAIN m[s][1])
  \/ m.StaticRoutes # <<>> /\ \E r \in ToSet(ConvertMap("StaticRoutes", m.StaticRoutes[1])) : RouteError(r)
ToConfig(m) ==
  [s \in ToSet(Sections) |->
     IF m[s] = <<>> THEN <<>>
     ELSE IF s = "FirewallRules" THEN <<[i \in DOMAIN m[s][1] |-> Item(s, Value(m[s][1][i].ID, ""), m[s][1][i])]>>
     ELSE <<ConvertMap(s, m[s][1])>>]
ToMap(s, items) ==
  LET last(k) == items[CHOOSE i \in DOMAIN items : Identity(s, items[i]) = k /\ \A j \in DOMAIN items : Identity(s, items[j]) = k => j <= i]
  IN [k \in {Identity(s, items[i]) : i \in DOMAIN items} |-> Model(s, last(k))]
\* m with each section it manages replaced by what c holds.
WithConfig(m, c) ==
  [s \in ToSet(Sections) |->
     IF m[s] = <<>> THEN <<>>
     ELSE IF s = "FirewallRules" THEN <<[i \in DOMAIN c[s] |-> Over([f \in {"ID"} |-> <<c[s][i].ID>>], Model(s, c[s][i]))]>>
     ELSE <<ToMap(s, c[s])>>]
AllSections == [s \in ToSet(Sections) |-> <<<<>>>>]

(***************************************************************************)
(* The element resources: a model, its identity, and for a VLAN the names  *)
(* that follow from it.                                                    *)
(***************************************************************************)
NetworkName(v) == IF v.ID <= 1 THEN "lan" ELSE "lan_" \o ToString(v.ID)
Interface(v) == "br-" \o NetworkName(v)
Gateway(v) == IF v.RouterIP \in DOMAIN Cidr THEN Cidr[v.RouterIP].gateway ELSE ""
Subnet(v) == IF v.RouterIP \in DOMAIN Cidr THEN Cidr[v.RouterIP].subnet ELSE ""
Derived(v) == [Network |-> NetworkName(v), Interface |-> Interface(v), Gateway |-> Optional(Gateway(v)), Subnet |-> Optional(Subnet(v))]
=============================================================================
