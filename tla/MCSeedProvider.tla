--------------------------- MODULE MCSeedProvider ---------------------------
(* Small instances of SeedProvider. *)
EXTENDS SeedProvider

CONSTANTS mail, game, acme, red

MCVendorOf == [a \in Apps |-> acme]

Policy(mode, custom) == [enabled |-> TRUE, mode |-> mode, custom |-> custom]
Disabled == [enabled |-> FALSE, mode |-> "install", custom |-> NoSeed]

AllPolicies ==
  {Disabled, Policy("install", NoSeed), Policy("app", NoSeed),
   Policy("vendor", NoSeed), Policy("manual", red)}
=============================================================================
