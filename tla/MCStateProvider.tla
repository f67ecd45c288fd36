-------------------------- MODULE MCStateProvider --------------------------
(* Small instances of StateProvider. *)
EXTENDS StateProvider, TLC

CONSTANTS t1, t2, t3, app, ext, stored, embedded, early, late, refused

MCProcessOf == t1 :> app @@ t2 :> app @@ t3 :> ext
MCTwoThreads == t1 :> app @@ t2 :> ext

(* The bounds follow the clock, so two callers generate different values;  *)
(* the bounds of "refused" are empty and the generator fails.              *)
MCGenerate(p, a) == IF a = refused THEN NoValue ELSE a
=============================================================================
