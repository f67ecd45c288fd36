---------------------------- MODULE MCHookBackend ----------------------------
(* The mitigations that hook sysctl, its private variant and gethostname,  *)
(* in the order of config/mitigations.json.                                *)
EXTENDS HookBackend

CONSTANTS boot, identity, network, sysctl, private, hostname, app, lib, late

MCImports == [x \in Images |->
  CASE x = app -> {sysctl} [] x = lib -> {private, hostname} [] x = late -> {sysctl}]

MCPlan ==
  SysctlInstall(boot, <<sysctl, private>>)
    \o SysctlInstall(identity, <<sysctl, private, hostname>>)
    \o Steps(network, "inline", <<hostname, sysctl>>)
=============================================================================
