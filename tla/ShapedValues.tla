---------------------------- MODULE ShapedValues ----------------------------
(***************************************************************************)
(* The functions that shape a live value of the device before an app sees  *)
(* it (LHMitigationValues.c, LHValueQuantizer.c and the hooks that call    *)
(* them).  None keeps state: an answer depends on the value and on what    *)
(* active seed, policy seed and scope derive for a context, here a number  *)
(* of a seed.  Reals are integers: see Sine and the units of each function.*)
(***************************************************************************)
EXTENDS Integers

CONSTANTS
  Derived(_, _),   \* Derived(seed, context): LHMitigationDeriveU64
  Sine             \* Sine[i]: sin of i/400 of a turn, in 1/10000, up to a quarter

(* A quarter of a sine rises from 0, and no faster than its argument.      *)
ASSUME SineAssumption ==
  /\ Sine \in [0..100 -> Nat] /\ Sine[0] = 0
  /\ \A i \in 0..99 : Sine[i] <= Sine[i + 1] /\ Sine[i + 1] <= Sine[i] + 158

Least(x, y) == IF x < y THEN x ELSE y
Most(x, y) == IF x < y THEN y ELSE x

DeriveBounded(seed, context, upperBound) == Derived(seed, context) % upperBound

-----------------------------------------------------------------------------
(* LHStorageCapacityBucketedNumber, in MiB: 0 is no bucket.                *)
GiB == 1024

BucketSize(value) ==
  IF value < 512 THEN 0
  ELSE IF value < 2 * GiB THEN 256
  ELSE IF value < 16 * GiB THEN GiB
  ELSE IF value < 64 * GiB THEN 2 * GiB
  ELSE 4 * GiB

QuantizeDown(value, bucketSize) ==
  IF bucketSize = 0 THEN value ELSE value - (value % bucketSize)

(* The checks after the rounding: never an empty volume, never more than   *)
(* there is.                                                               *)
Bucketed(value) ==
  LET size == BucketSize(value)
      down == QuantizeDown(value, size)
  IN IF size = 0 THEN value ELSE Least(IF down = 0 THEN size ELSE down, value)

-----------------------------------------------------------------------------
(* The sine of i/400 of a turn. *)
Wave(i) ==
  LET k == i % 200
      height == Sine[IF k > 100 THEN 200 - k ELSE k]
  IN IF i % 400 < 200 THEN height ELSE -height

Direction(bit) == IF bit % 2 = 0 THEN 1 ELSE -1

(* A level of x hundredths on a curve, in millionths: two waves, half a    *)
(* turn and a turn over the unit interval, of amplitudes in 1/100000.      *)
Curve(x, primary, secondary) ==
  LET curved == (10000 * x) + ((primary * Wave(2 * x)) \div 1000)
                          + ((secondary * Wave(4 * x)) \div 1000)
  IN Least(Most(curved, 0), 1000000)

(* A level inside the interval is not shown as one of its ends. *)
Interior(x, shown, step) ==
  IF x \in 1..99 THEN Least(Most(shown, step), 1000000 - step) ELSE shown

MutantBatteryLevel(seed, x) ==
  LET profile == DeriveBounded(seed, "battery", 48)
      primary == Direction(profile \div 9) * (4000 + (1000 * (profile % 3)))
      secondary == Direction(profile \div 18) * (10000 * ((profile \div 3) % 3))
      rounded == 10000 * ((Curve(x, primary, secondary) + 5000) \div 10000)
  IN Interior(x, rounded, 10000)

(* LHBatteryCurvedLevel: one of 48 profiles, two decimals. *)
BatteryLevel(seed, x) ==
  LET profile == DeriveBounded(seed, "battery", 48)
      primary == Direction(profile \div 9) * (4000 + (1000 * (profile % 3)))
      secondary == Direction(profile \div 18) * (1000 * ((profile \div 3) % 3))
      rounded == 10000 * ((Curve(x, primary, secondary) + 5000) \div 10000)
  IN Interior(x, rounded, 10000)

(* LHValueMapUnitIntervalCurve. *)
UnitIntervalCurve(seed, context, x, primaryMax, secondaryMax) ==
  LET profile == DeriveBounded(seed, context, 48)
      primary == Direction(profile \div 9) * ((primaryMax * (2 + (profile % 3))) \div 4)
      secondary == Direction(profile \div 18) * ((secondaryMax * ((profile \div 3) % 3)) \div 2)
  IN Interior(x, Curve(x, primary, secondary), 1)

Brightness(seed, x) == UnitIntervalCurve(seed, "brightness", x, 4500, 1500)

OutputVolume(seed, x) == UnitIntervalCurve(seed, "outputVolume", x, 4000, 1500)

(* LHValueApplySeededSinePerturbation of x/400 of a wavelength, in 1/400000 *)
(* of it; only 13 of the 16 phases are ever drawn.                         *)
SinePerturbation(seed, context, x, amplitudeMax) ==
  LET profile == DeriveBounded(seed, context, 64)
      amplitude == (amplitudeMax * (4 + (profile % 5))) \div 8
      phase == 25 * ((profile \div 5) % 16)
  IN (1000 * x) + ((amplitude * Wave(x + phase)) \div 10000)

(* Motion and field components alike: 0.015 of 0.50, 1.5 of 50. *)
Motion(seed, x) == SinePerturbation(seed, "motion", x, 12000)

Latency(seed, x) == Most(SinePerturbation(seed, "latency", x, 20000), 0)
=============================================================================
