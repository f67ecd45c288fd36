--------------------------- MODULE MCInterfaceLists ---------------------------
(* Small instances of InterfaceLists: threads and addresses are alike. *)
EXTENDS InterfaceLists, TLC

ListSymmetry == Permutations(Threads) \cup Permutations(Addresses)
=============================================================================
