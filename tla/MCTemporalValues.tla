-------------------------- MODULE MCTemporalValues --------------------------
(* Small instances of TemporalValues.  The intervals keep the order of the *)
(* sources' constants, scaled down so that a few ticks cross them.         *)
EXTENDS TemporalValues, TLC

CONSTANTS t1, t2, app, ext

MCProcessOf == t1 :> app @@ t2 :> ext

(* The two apps, each with its thread, are alike. *)
AppSymmetry == {[x \in {t1, t2, app, ext} |->
  CASE x = t1 -> t2 [] x = t2 -> t1 [] x = app -> ext [] OTHER -> app]}

(* Seeds that have an answer for a value or none; seeds that place all     *)
(* three values alike; one that places the baseline late.                  *)
AnySeed == [Keys -> {0, UnitCount}]
AlikeSeeds == {[k \in Keys |-> u] : u \in 0..UnitCount - 1}
SkewedSeed == {[k \in Keys |-> IF k = "volume" THEN UnitCount - 1 ELSE 0]}
=============================================================================
