----------------------------- MODULE MCProvider -----------------------------
(***************************************************************************)
(* Two rules of the same list, and a router_config with the port forwards, *)
(* which are in the same key, and the switch ports, which the second       *)
(* request reads.                                                          *)
(***************************************************************************)
EXTENDS Provider, TLC

MCElements == {"rule1", "rule2"}
MCConfigs == {"config"}
MCItemsOf == ("firewall" :> {"rule1", "rule2", "forwards"}) @@ ("portsCfg" :> {"ports"})
MCOwned == ("rule1" :> {"rule1"}) @@ ("rule2" :> {"rule2"}) @@ ("config" :> {"forwards", "ports"})
MCAsked ==
  ("rule1" :> [{"rule1"} -> {"set", "absent"}]) @@ ("rule2" :> [{"rule2"} -> {"set"}])
    @@ ("config" :> {[forwards |-> "set", ports |-> "set"], [forwards |-> "absent", ports |-> "set"]})
MCSettings == {[readOnly |-> FALSE, ssh |-> TRUE], [readOnly |-> TRUE, ssh |-> TRUE], [readOnly |-> FALSE, ssh |-> FALSE]}
=============================================================================
