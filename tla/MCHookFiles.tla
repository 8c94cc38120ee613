---------------------------- MODULE MCHookFiles ----------------------------
(***************************************************************************)
(* Two event hooks of which one may change its priority and script, a boot *)
(* hook, and a post-cfg.sh that somebody else wrote.                       *)
(***************************************************************************)
EXTENDS HookFiles

Plan(priority, script) == [priority |-> priority, script |-> script]
MCWanted == [h \in {"wg", "lan", "dns"} |->
  CASE h = "wg" -> {Plan("50", "x"), Plan("99", "y")}
    [] h = "lan" -> {Plan("50", "x")}
    [] h = "dns" -> {Plan("none", "x")}]
MCConfigurations == {{"wg", "lan"}, {"wg", "dns"}, {"dns", PostCfg}}
=============================================================================
