---------------------------- MODULE MCPolicyStore ----------------------------
(* Small instances of PolicyStore. *)
EXTENDS PolicyStore, TLC

CONSTANTS mail, game, system, red, blue

MCRank == game :> 1 @@ mail :> 2 @@ system :> 3
=============================================================================
