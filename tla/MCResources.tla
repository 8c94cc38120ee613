---------------------------- MODULE MCResources ----------------------------
(***************************************************************************)
(* Small documents, configurations and portal edits for Resources: each    *)
(* section holds an element in the forms the cloud uses (numbers and       *)
(* texts, omitted and explicit flags, fields nobody models), and the       *)
(* configurations ask for it, for a new one, and for none.                 *)
(***************************************************************************)
EXTENDS ResourcesProperties

\* Text, number and zero-padded forms of what the instance uses.
MCDecimal == [t \in {"0", "1", "2", "3", "5", "7", "9", "50", "60", "443", "0443"} |->
  CASE t = "0" -> 0 [] t = "1" -> 1 [] t = "2" -> 2 [] t = "3" -> 3 [] t = "5" -> 5 [] t = "7" -> 7 [] t = "9" -> 9
    [] t = "50" -> 50 [] t = "60" -> 60 [] OTHER -> 443]
MCRejoined == <<"d1,d2">> :> <<"d1", "d2">>
MCLexical == <<"0", "02:01", "02:02", "02:03", "1", "10.1.0.0/16", "10.2.0.0/16", "10.3.0.0/16", "2", "3", "443",
               "5", "50", "60", "7", "9", "a", "b", "c", "n1">>
MCClientOf == ("02:01" :> "c1") @@ ("02:02" :> "c2") @@ ("02:03" :> "c3")
MCMACOf == ("c1" :> "02:01") @@ ("c2" :> "02:02") @@ ("c3" :> "02:03")
MCCidr == ("192.0.2.1/24" :> [gateway |-> "192.0.2.1", subnet |-> "192.0.2.0/24"])

NoRules == Obj([rules |-> List(<<>>)])
Blank == [name |-> Str("home"), vlans |-> List(<<>>), routes |-> List(<<>>), firewall |-> Obj([nat |-> NoRules, firewall |-> NoRules])]
Site(k, v) == [site |-> Obj([Blank EXCEPT ![k] = v]), device |-> EmptyObj, clients |-> <<>>]
Nowhere == <<>>
To(address, port) == <<[Address |-> address, Port |-> port]>>

\* VLANs
Vlan1 == Obj([id |-> Num("1"), notes |-> Str("Home"), routerIP |-> Str("192.0.2.1/24"),
              dnsServers |-> Joined(<<"d1", "d2">>, TRUE), stp |-> Bool(TRUE)])
Vlan3 == Obj([id |-> Str("3"), disableDHCP |-> Bool(TRUE), mdns |-> Bool(FALSE), poolSize |-> Str("50")])
Vlan7 == Obj([id |-> Num("7"), isolation |-> Bool(FALSE), mdns |-> Bool(TRUE)])
Net(name, pool, dns, dhcp, mdns) ==
  [Name |-> name, RouterIP |-> <<>>, PoolSize |-> pool, ReservedIPs |-> <<>>, DNSServers |-> dns,
   DomainName |-> <<>>, DHCP |-> dhcp, Isolation |-> ~dhcp, MDNS |-> mdns]
IoT == Net(<<"IoT">>, <<60>>, <<<<"d1">>>>, TRUE, <<>>)
Split == Net(<<"IoT">>, <<60>>, <<<<"d1,d2">>>>, TRUE, <<>>)
Bare == Net(<<"">>, <<>>, <<>>, FALSE, <<FALSE>>)
\* Static routes
RouteA == Obj([id |-> Str("a"), name |-> Str("a"), type |-> Str("blackhole"), network |-> Str("10.2.0.0/16"), metric |-> Num("50")])
RouteB == Obj([id |-> Str("b"), name |-> Str("b"), type |-> Str("blackhole"), network |-> Str("10.1.0.0/16"), tag |-> Str("x")])
RouteC == Obj([id |-> Str("c"), name |-> Str("c"), type |-> Str("next-hop"), network |-> Str("10.1.0.0/16"),
               nextHop |-> Str("192.0.2.9"), metric |-> Num("50")])
Route(type, network, hop, metric) ==
  [Name |-> <<"r">>, Type |-> <<type>>, Network |-> <<network>>, NextHop |-> hop, Interface |-> <<>>, Metric |-> metric]
\* Port forwards and firewall rules
RuleA == Obj([id |-> Str("a"), action |-> Str("ACCEPT"), protocol |-> List(<<Str("tcp"), Str("udp")>>), zoneIn |-> Str("wan"),
              icmpType |-> List(<<>>), log |-> Bool(TRUE)])
RuleB == Obj([id |-> Str("b"), action |-> Str("DROP"), zoneIn |-> Str("lan"), destination |-> Obj([port |-> Num("443")])])
RuleC == Obj([id |-> Str("c"), action |-> Str("REJECT"), protocol |-> List(<<>>), source |-> Obj([address |-> Str("")])])
ForwardA == Obj([id |-> Str("a"), type |-> Str("destination"), protocol |-> List(<<Str("udp"), Str("tcp")>>),
                 zoneIn |-> Str("wan"), destination |-> Obj([port |-> Num("443"), note |-> Str("x")])])
ForwardB == Obj([id |-> Str("b"), type |-> Str("destination"), protocol |-> List(<<Str("udp")>>), zoneIn |-> Str("wan"),
                 source |-> EmptyObj, destination |-> Obj([port |-> Str("443")]), fav |-> Num("1")])
ForwardC == Obj([id |-> Str("c"), type |-> Str("destination"), protocol |-> List(<<Str("tcp")>>), zoneIn |-> Str("wan"),
                 description |-> Str("")])
Natted(rules) == Obj([nat |-> Obj([rules |-> List(rules)]), firewall |-> Obj([rules |-> List(<<RuleA>>)])])
Rules(rules) == Obj([nat |-> Obj([rules |-> List(<<ForwardA>>)]), firewall |-> Obj([rules |-> List(rules)])])
Forward(protocols, dest) ==
  [Description |-> <<"f">>, Protocols |-> protocols, IPVersion |-> <<>>, ZoneIn |-> <<"wan">>, ZoneOut |-> <<>>,
   Source |-> Nowhere, Destination |-> dest, Translation |-> To(<<"192.0.2.9">>, <<"443">>)]
Rule(action, protocols, dest) ==
  [Description |-> <<>>, Action |-> <<action>>, Protocols |-> protocols, IPVersion |-> <<>>, ICMPTypes |-> <<>>,
   ZoneIn |-> <<"wan">>, ZoneOut |-> <<>>, Source |-> Nowhere, Destination |-> dest, Limit |-> <<>>]
\* Switch ports
Port1 == Obj([vlan |-> Num("1"), speed |-> Str("auto"), allowedVlans |-> Obj([all |-> Bool(TRUE)])])
Port2 == Obj([eee |-> Str("off"), allowedVlans |-> Obj([list |-> List(<<Num("3"), Num("2")>>)])])
Ports == [site |-> Obj(Blank), clients |-> <<>>,
          device |-> Obj([portsCfg |-> Obj([ports |-> Obj(("1" :> Port1) @@ ("2" :> Port2))])])]
Port(native, all, tagged) == [NativeVLAN |-> native, AllVLANs |-> all, TaggedVLANs |-> tagged]
\* Reservations
Client1 == Obj([id |-> Str("c1"), config |-> Obj([ip |-> Str("192.0.2.7"), vlan |-> Num("3")]), wired |-> Bool(TRUE)])
Client2 == Obj([id |-> Str("c2"), profile |-> Str("kids")])
Homes == [site |-> Obj(Blank), device |-> EmptyObj, clients |-> ("c1" :> Client1) @@ ("c2" :> Client2)]

MCClouds == [s \in ToSet(Sections) |->
  CASE s = "VLANs" -> {Site("vlans", List(<<Vlan1, Vlan3>>))}
    [] s = "StaticRoutes" -> {Site("routes", List(<<RouteB, RouteA>>)), Site("routes", Null)}
    [] s = "PortForwards" -> {Site("firewall", Natted(<<ForwardA, ForwardB>>))}
    [] s = "FirewallRules" -> {Site("firewall", Rules(<<RuleA, RuleB>>))}
    [] s = "SwitchPorts" -> {Ports}
    [] s = "DHCPReservations" -> {Homes}]

r1 == "r1"
r2 == "r2"
MCSlots == {r1, r2}
W(id, m) == [id |-> id, m |-> m]
MCWanted == [s \in ToSet(Sections) |->
  CASE s = "VLANs" -> (r1 :> {W(<<"3">>, IoT), W(<<"3">>, Bare)}) @@ (r2 :> {W(<<"5">>, IoT), W(<<"5">>, Split)})
    [] s = "StaticRoutes" ->
         (r1 :> {W(<<"a">>, Route("next-hop", "10.3.0.0/16", <<"192.0.2.9">>, <<60>>)), W(<<"a">>, Route("next-hop", "10.3.0.0/16", <<>>, <<>>)),
                 W(<<"a">>, Route("blackhole", "10.1.0.0/16", <<>>, <<>>))})
         @@ (r2 :> {W(<<>>, Route("blackhole", "10.2.0.0/16", <<>>, <<50>>))})
    [] s = "PortForwards" ->
         (r1 :> {W(<<"a">>, Forward({"tcp", "udp"}, To(<<>>, <<"443">>))), W(<<"a">>, Forward({"tcp"}, To(<<"">>, <<"0443">>))),
                 W(<<"a">>, Forward({"tcp"}, To(<<>>, <<"0443">>)))})
         @@ (r2 :> {W(<<>>, Forward({"udp"}, Nowhere))})
    [] s = "FirewallRules" ->
         (r1 :> {W(<<"a">>, Rule("DROP", <<{"tcp", "udp"}>>, To(<<>>, <<"443">>))), W(<<"a">>, Rule("ACCEPT", <<{}>>, Nowhere))})
         @@ (r2 :> {W(<<>>, Rule("DROP", <<>>, Nowhere))})
    [] s = "SwitchPorts" ->
         (r1 :> {W(<<"2">>, Port(<<>>, FALSE, <<{2, 3}>>)), W(<<"2">>, Port(<<5>>, TRUE, <<>>)), W(<<"2">>, Port(<<5>>, TRUE, <<{2}>>))})
         @@ (r2 :> {W(<<"9">>, Port(<<1>>, FALSE, <<>>))})
    [] s = "DHCPReservations" ->
         (r1 :> {W(<<"02:01">>, [IP |-> "192.0.2.7"]), W(<<"02:01">>, [IP |-> "192.0.2.8"])})
         @@ (r2 :> {W(<<"02:03">>, [IP |-> "192.0.2.9"])})]

Only(s, section) == [Unmanaged EXCEPT ![s] = <<section>>]
MCConfWanted == [s \in ToSet(Sections) |->
  CASE s = "VLANs" -> {Only(s, <<>>), Only(s, ("1" :> IoT) @@ ("3" :> Bare))}
    [] s = "StaticRoutes" -> {Only(s, <<>>), Only(s, ("b" :> Route("blackhole", "10.2.0.0/16", <<>>, <<50>>)) @@ ("c" :> Route("blackhole", "10.1.0.0/16", <<>>, <<50>>)))}
    [] s = "PortForwards" -> {Only(s, <<>>), Only(s, "b" :> Forward({"udp"}, To(<<>>, <<"443">>)))}
    [] s = "FirewallRules" -> {[Only(s, <<("ID" :> <<"b">>) @@ Rule("DROP", <<>>, Nowhere), ("ID" :> <<"a">>) @@ Rule("DROP", <<>>, Nowhere)>>)
                                 EXCEPT !["PortForwards"] = <<"a" :> Forward({"tcp"}, Nowhere)>>], Only(s, <<>>)}
    [] s = "SwitchPorts" -> {Only(s, "2" :> Port(<<>>, FALSE, <<{2, 3}>>)), Only(s, "1" :> Port(<<3>>, FALSE, <<>>))}
    [] s = "DHCPReservations" -> {Only(s, <<>>), Only(s, "02:02" :> [IP |-> "192.0.2.7"])}]

MCNewIDs == {"n1"}
MCRetouch == [s \in ToSet(Sections) |->
  CASE s = "VLANs" -> {<<"notes", Str("Lab")>>, <<"isolation", Bool(FALSE)>>}
    [] s = "StaticRoutes" -> {<<"metric", Num("60")>>, <<"tag", Str("y")>>}
    [] s = "PortForwards" -> {<<"protocol", List(<<Str("udp"), Str("tcp")>>)>>, <<"protocol", List(<<Str("tcp"), Str("udp")>>)>>}
    [] s = "FirewallRules" -> {<<"action", Str("REJECT")>>, <<"limit", Str("")>>}
    [] s = "SwitchPorts" -> {<<"vlan", Num("3")>>, <<"speed", Str("1000")>>,
                             <<"allowedVlans", Obj([all |-> Bool(TRUE), list |-> List(<<Num("2")>>)])>>}
    [] s = "DHCPReservations" -> {<<"ip", Null>>, <<"ip", Str("192.0.2.8")>>, <<"vlan", Num("5")>>}]
MCAppear == [s \in ToSet(Sections) |->
  CASE s = "VLANs" -> {Vlan7} [] s = "StaticRoutes" -> {RouteC} [] s = "PortForwards" -> {ForwardC}
    [] s = "FirewallRules" -> {RuleC} [] OTHER -> {}]
=============================================================================
