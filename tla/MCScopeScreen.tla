---------------------------- MODULE MCScopeScreen ----------------------------
(* Small instances of ScopeScreen. *)
EXTENDS ScopeScreen, TLC

CONSTANTS mail, game, red, blue

MCRank == game :> 1 @@ mail :> 2

(* Seeds are only compared, and no file is ordered by them. *)
SeedSymmetry == Permutations({red, blue})
=============================================================================
