------------------------- MODULE LiveAnswersProofs -------------------------
(***************************************************************************)
(* What holds of the live answers for any seed, any derived number, any    *)
(* reading of the device and any number of threads, on paths of any        *)
(* length.                                                                 *)
(***************************************************************************)
EXTENDS LiveAnswers, TLAPS, NaturalsInduction, WellFoundedInduction, FiniteSetTheorems

(* What never changes, and the clock. *)
StillInv ==
  /\ surface \in Surfaces /\ seed \in SeedsOf[surface]
  /\ now \in StartTime..MaxTime /\ boot \in Nat

-----------------------------------------------------------------------------
(* Induction over numbers.                                                 *)
(* A set of naturals has a least one. *)
LEMMA LeastOne ==
  ASSUME NEW T \in SUBSET Nat, T # {}
  PROVE  \E x \in T : \A y \in T : ~(y < x)
  <1>1. ASSUME NEW x \in Nat, NEW y \in Nat, y < x PROVE <<y, x>> \in OpToRel(<, Nat)
    BY <1>1, Zenon DEF OpToRel
  <1>2. \E x \in T : \A y \in T : ~(<<y, x>> \in OpToRel(<, Nat))
    BY NatLessThanWellFounded, WFMin, Zenon
  <1>3. QED
    BY <1>1, <1>2, Zenon

(* What holds of 0, and of the next number with each, holds of them all. *)
LEMMA Numbers ==
  ASSUME NEW T \in SUBSET Nat, 0 \in T, \A n \in T : n + 1 \in T
  PROVE  T = Nat
  <1>1. SUFFICES ASSUME Nat \ T # {} PROVE FALSE
    OBVIOUS
  <1>2. PICK x \in Nat \ T : \A y \in Nat \ T : ~(y < x)
    BY <1>1, LeastOne
  <1>3. x # 0 /\ x - 1 \in Nat /\ x - 1 \in T
    BY <1>2
  <1>4. QED
    BY <1>2, <1>3

-----------------------------------------------------------------------------
(* Remainders and quotients. *)
LEMMA Remainder ==
  ASSUME NEW a \in Int, NEW b \in Nat \ {0}
  PROVE  a % b \in 0..b - 1
  OBVIOUS

(* Whole parts of naturals are natural. *)
LEMMA QuotientNat ==
  ASSUME NEW a \in Nat, NEW b \in Nat \ {0}
  PROVE  a \div b \in Nat
  OBVIOUS

(* A quotient grows with its dividend: here, of the packets that carry the bytes. *)
LEMMA QuotientGrows ==
  ASSUME NEW a \in Nat, NEW c \in Nat, NEW b \in Nat \ {0}, a <= c
  PROVE  a \div b <= c \div b
  OBVIOUS

(* A product grows with its factor: a rate over a longer uptime. *)
LEMMA ProductGrows ==
  ASSUME NEW a \in Nat, NEW c \in Nat, NEW b \in Nat, a <= c
  PROVE  b * a \in Nat /\ b * a <= b * c
  OBVIOUS

(* A counter that is shaped is not raised, loses at most a 64th of itself  *)
(* or one, and at most its cap, and does not vanish.                       *)
LEMMA Shaped ==
  ASSUME NEW s, NEW field, Derived(s, field) \in Nat,
         NEW value \in Nat, Mixed(value) \in Nat, NEW cap \in Nat
  PROVE  LET shown == ShapeU64(s, field, value, cap)
         IN /\ shown \in value - Least(Most(value \div 64, 1), cap)..value
            /\ value > 0 => shown > 0
  <1> DEFINE most == MaxNoise(value, cap)
             noise == Noise(s, field, value, most)
             d == DeriveBounded(s, field, most + 1)
             m == Mixed(value) % (most + 1)
  <1>1. most \in Nat /\ most = Least(Most(value \div 64, 1), cap)
    BY DEF MaxNoise, Least, Most
  <1>2. d \in Nat /\ m \in Nat
    <2> DEFINE b == most + 1
    <2> HIDE DEF most
    <2>1. b \in Nat \ {0}
      BY <1>1
    <2> HIDE DEF b
    <2>2. \A a \in Nat : a % b \in Nat
      BY <2>1, Remainder
    <2>3. d = Derived(s, field) % b /\ m = Mixed(value) % b
      BY DEF DeriveBounded, b
    <2> HIDE DEF d, m
    <2>4. QED
      BY <2>2, <2>3
  <1>3. noise \in 0..most
    <2> DEFINE b == most + 1
    <2>1. noise = (d + m) % b
      BY DEF Noise
    <2> HIDE DEF noise, d, m, most
    <2>2. b \in Nat \ {0} /\ b - 1 = most
      BY <1>1
    <2> HIDE DEF b
    <2>3. QED
      BY <1>2, <2>1, <2>2, Remainder
  <1>4. ShapeU64(s, field, value, cap)
          = IF value < 8 \/ cap = 0 \/ noise >= value THEN value ELSE value - noise
    BY DEF ShapeU64
  <1> HIDE DEF noise, most
  <1>5. QED
    BY <1>1, <1>3, <1>4

(* Free space is rounded down by less than half. *)
LEMMA RoundedDown ==
  ASSUME NEW value \in Nat
  PROVE  Bucketed(value) \in value - (value \div 2)..value
  <1>1. /\ BucketSize(value) \in Nat
        /\ BucketSize(value) # 0 => 2 * BucketSize(value) <= value
    BY DEF BucketSize, GiB
  <1> DEFINE size == BucketSize(value)
  <1>2. Bucketed(value) = IF size = 0 THEN value
                          ELSE Least(IF QuantizeDown(value, size) = 0 THEN size
                                     ELSE QuantizeDown(value, size), value)
    BY DEF Bucketed
  <1> HIDE DEF size
  <1>3. CASE size = 0
    BY <1>2, <1>3
  <1>4. CASE size # 0
    <2>1. size \in Nat \ {0} /\ 2 * size <= value
      BY <1>1, <1>4 DEF size
    <2> DEFINE rest == value % size
    <2>2. rest \in 0..size - 1
      BY <2>1, Remainder
    <2>3. QuantizeDown(value, size) = value - rest
      BY <1>4 DEF QuantizeDown
    <2> HIDE DEF rest
    <2>4. QED
      BY <1>2, <1>4, <2>1, <2>2, <2>3 DEF Least
  <1>5. QED
    BY <1>3, <1>4

-----------------------------------------------------------------------------
(* Levels on their curves.                                                 *)
Within(P, p) == p \in Int /\ -P <= p /\ p <= P

(* The sines of a quarter, by their distance from its beginning. *)
LEMMA Sines ==
  /\ \A j \in 0..100 : Sine[j] \in Nat
  /\ Sine[0] = 0
  /\ \A j \in 0..99 : Sine[j] <= Sine[j + 1] /\ Sine[j + 1] <= Sine[j] + 158
  <1>1. Sine \in [0..100 -> Nat] /\ Sine[0] = 0
    BY SineAssumption DEF SineAssumption
  <1>2. \A j \in 0..99 : Sine[j] <= Sine[j + 1] /\ Sine[j + 1] <= Sine[j] + 158
    BY SineAssumption, Zenon DEF SineAssumption
  <1>3. QED
    BY <1>1, <1>2

Height(k) == Sine[IF k > 100 THEN 200 - k ELSE k]

(* Half a wave rises and falls in such steps, from 0 to 0. *)
LEMMA HeightStep ==
  ASSUME NEW k \in 0..199
  PROVE  /\ Height(k) \in Int /\ Height(0) = 0
         /\ k < 199 => Within(158, Height(k + 1) - Height(k))
         /\ k = 199 => Within(158, Height(k))
  <1>1. CASE k < 100
    <2>1. k \in 0..99 /\ k \in 0..100 /\ k + 1 \in 0..100
      BY <1>1
    <2>2. Height(k) = Sine[k] /\ Height(k + 1) = Sine[k + 1] /\ Height(0) = Sine[0]
      BY <1>1 DEF Height
    <2>3. /\ Sine[k] <= Sine[k + 1] /\ Sine[k + 1] <= Sine[k] + 158
          /\ Sine[k] \in Int /\ Sine[k + 1] \in Int /\ Sine[0] = 0
      BY <2>1, Sines
    <2>4. QED
      BY <1>1, <2>2, <2>3 DEF Within
  <1>2. CASE k >= 100
    <2> DEFINE j == (200 - k) - 1
    <2>1. j \in 0..99 /\ j \in 0..100 /\ j + 1 \in 0..100 /\ j + 1 = 200 - k /\ (k = 199 => j = 0)
      BY <1>2
    <2>2. Height(k) = Sine[j + 1] /\ Height(0) = Sine[0]
      <3>1. k = 100 => j + 1 = k
        OBVIOUS
      <3>2. Height(k) = Sine[IF k > 100 THEN 200 - k ELSE k] /\ Height(0) = Sine[0]
        BY DEF Height
      <3> HIDE DEF j
      <3>3. QED
        BY <1>2, <2>1, <3>1, <3>2
    <2>3. k < 199 => Height(k + 1) = Sine[j]
      <3>1. 200 - (k + 1) = j /\ k + 1 > 100
        BY <1>2
      <3>2. QED
        BY <3>1 DEF Height
    <2> HIDE DEF j
    <2>4. Sine[j] <= Sine[j + 1] /\ Sine[j + 1] <= Sine[j] + 158
      <3>1. j \in 0..99
        BY <2>1
      <3>2. QED
        BY <3>1, Sines, Zenon
    <2>5. Sine[j] \in Nat /\ Sine[j + 1] \in Nat /\ Sine[0] = 0
      <3>1. j \in 0..100 /\ j + 1 \in 0..100
        BY <2>1
      <3>2. QED
        BY <3>1, Sines, Zenon
    <2>6. QED
      BY <1>2, <2>1, <2>2, <2>3, <2>4, <2>5 DEF Within
  <1>3. QED
    BY <1>1, <1>2

(* A wave is never steeper than at 0, where it is 0. *)
LEMMA WaveStep ==
  ASSUME NEW i \in Int
  PROVE  Wave(i) \in Int /\ Within(158, Wave(i + 1) - Wave(i))
  <1> DEFINE k == i % 200
             l == (i + 1) % 200
             rising == i % 400 < 200
             later == (i + 1) % 400 < 200
  <1>1. k \in 0..199 /\ l \in 0..199
    OBVIOUS
  <1>2. k < 199 => l = k + 1 /\ (later <=> rising)
    OBVIOUS
  <1>3. k = 199 => l = 0 /\ (later <=> ~rising)
    OBVIOUS
  <1>4. /\ Wave(i) = IF rising THEN Height(k) ELSE -Height(k)
        /\ Wave(i + 1) = IF later THEN Height(l) ELSE -Height(l)
    BY DEF Wave, Height
  <1> HIDE DEF k, l, rising, later
  <1>5. /\ Height(k) \in Int /\ Height(l) \in Int /\ Height(0) = 0
        /\ k < 199 => Within(158, Height(k + 1) - Height(k))
        /\ k = 199 => Within(158, Height(k))
    BY <1>1, HeightStep
  <1>6. QED
    BY <1>1, <1>2, <1>3, <1>4, <1>5 DEF Within

(* Over d hundredths of a quarter it changes by no more than d such steps. *)
LEMMA WaveSlope ==
  ASSUME NEW i \in Int, NEW d \in Nat
  PROVE  Within(158 * d, Wave(i + d) - Wave(i))
  <1> DEFINE T == {e \in Nat : Within(158 * e, Wave(i + e) - Wave(i))}
  <1>1. 0 \in T
    <2>1. Wave(i) \in Int /\ i + 0 = i
      BY WaveStep
    <2>2. QED
      BY <2>1 DEF Within
  <1>2. ASSUME NEW e \in T PROVE e + 1 \in T
    <2>1. e \in Nat /\ i + e \in Int /\ (i + e) + 1 = i + (e + 1) /\ i + (e + 1) \in Int
      OBVIOUS
    <2>2. Wave(i + e) \in Int /\ Within(158, Wave((i + e) + 1) - Wave(i + e))
      BY <2>1, WaveStep
    <2>3. Wave(i) \in Int /\ Wave(i + (e + 1)) \in Int
      BY <2>1, WaveStep
    <2>4. Within(158 * e, Wave(i + e) - Wave(i))
      OBVIOUS
    <2> HIDE DEF T
    <2>5. Within(158 * (e + 1), Wave(i + (e + 1)) - Wave(i))
      BY <2>1, <2>2, <2>3, <2>4 DEF Within
    <2>6. QED
      BY <2>1, <2>5 DEF T
  <1>3. T = Nat
    <2> HIDE DEF T
    <2>1. T \in SUBSET Nat
      BY DEF T
    <2>2. QED
      BY <1>1, <1>2, <2>1, Numbers
  <1>4. QED
    BY <1>3

(* A bounded factor scales what is bounded. *)
LEMMA Scaled ==
  ASSUME NEW P \in Nat, NEW p, Within(P, p), NEW B \in Nat, NEW w, Within(B, w)
  PROVE  Within(P * B, p * w)
  <1> DEFINE a == IF p < 0 THEN -p ELSE p
             b == IF w < 0 THEN -w ELSE w
  <1>1. a \in Nat /\ b \in Nat /\ a <= P /\ b <= B
    BY DEF Within
  <1>2. p * w = a * b \/ p * w = -(a * b)
    BY DEF Within
  <1> HIDE DEF a, b
  <1>3. b * a <= b * P /\ b * a \in Nat /\ P * b <= P * B /\ P * b \in Nat
    BY <1>1, ProductGrows
  <1>4. b * a = a * b /\ b * P = P * b /\ P * B \in Nat
    BY <1>1
  <1>5. QED
    BY <1>1, <1>2, <1>3, <1>4 DEF Within

(* From i on, a wave of amplitude p falls in d steps no deeper than a wave *)
(* of amplitude P can.                                                     *)
Falls(P, p, i, d) ==
  /\ p * Wave(i) \in Int /\ p * Wave(i + d) \in Int
  /\ p * Wave(i + d) - p * Wave(i) >= -(P * (158 * d))

(* A wave of some amplitude falls by no more than the amplitude allows. *)
LEMMA WaveFalls ==
  ASSUME NEW P \in Nat, NEW p, Within(P, p), NEW i \in Int, NEW d \in Nat
  PROVE  Falls(P, p, i, d)
  <1>1. Wave(i) \in Int /\ Wave(i + d) \in Int
    BY WaveStep
  <1> DEFINE w == Wave(i + d) - Wave(i)
  <1>2. Within(158 * d, w)
    BY WaveSlope
  <1>3. 158 * d \in Nat
    OBVIOUS
  <1>4. Within(P * (158 * d), p * w)
    <2> HIDE DEF w
    <2> QED
      BY <1>2, <1>3, Scaled
  <1>5. p * w = p * Wave(i + d) - p * Wave(i) /\ p \in Int
    BY <1>1 DEF Within
  <1>6. P * (158 * d) \in Nat
    BY <1>3
  <1>7. QED
    BY <1>1, <1>4, <1>5, <1>6 DEF Within, Falls

(* A curve of amplitudes within their bounds never falls, and begins and   *)
(* ends where the level does.                                              *)
LEMMA CurveGrows ==
  ASSUME NEW p, Within(6000, p), NEW q, Within(2000, q), NEW x \in Nat, NEW y \in Nat, x <= y, y <= 100
  PROVE  Curve(x, p, q) <= Curve(y, p, q)
  <1> DEFINE d == y - x
             a == p * Wave(2 * x)
             b == p * Wave(2 * y)
             u == q * Wave(4 * x)
             v == q * Wave(4 * y)
  <1>1. /\ d \in Nat /\ y = x + d
        /\ 2 * x \in Int /\ 2 * d \in Nat /\ 2 * y = 2 * x + 2 * d
        /\ 4 * x \in Int /\ 4 * d \in Nat /\ 4 * y = 4 * x + 4 * d
    OBVIOUS
  <1>2. a \in Int /\ b \in Int /\ b - a >= -(6000 * (158 * (2 * d)))
    <2> DEFINE i == 2 * x
               e == 2 * d
               P == 6000
    <2>1. P \in Nat /\ Within(P, p) /\ i \in Int /\ e \in Nat /\ 2 * y = i + e
      BY <1>1
    <2> HIDE DEF d, i, e, P
    <2>2. Falls(P, p, i, e)
      BY <2>1, WaveFalls
    <2>3. QED
      BY <2>1, <2>2 DEF i, e, P, Falls
  <1>3. u \in Int /\ v \in Int /\ v - u >= -(2000 * (158 * (4 * d)))
    <2> DEFINE i == 4 * x
               e == 4 * d
               P == 2000
    <2>1. P \in Nat /\ Within(P, q) /\ i \in Int /\ e \in Nat /\ 4 * y = i + e
      BY <1>1
    <2> HIDE DEF d, i, e, P
    <2>2. Falls(P, q, i, e)
      BY <2>1, WaveFalls
    <2>3. QED
      BY <2>1, <2>2 DEF i, e, P, Falls
  <1>4. /\ Curve(x, p, q) = Least(Most((10000 * x) + (a \div 1000) + (u \div 1000), 0), 1000000)
        /\ Curve(y, p, q) = Least(Most((10000 * y) + (b \div 1000) + (v \div 1000), 0), 1000000)
    BY DEF Curve
  <1> HIDE DEF a, b, u, v, d
  <1>5. (b \div 1000) - (a \div 1000) >= -(1896 * d)
    BY <1>1, <1>2
  <1>6. (v \div 1000) - (u \div 1000) >= -(1264 * d)
    BY <1>1, <1>3
  <1>7. (10000 * x) + (a \div 1000) + (u \div 1000) <= (10000 * y) + (b \div 1000) + (v \div 1000)
    BY <1>1, <1>2, <1>3, <1>5, <1>6
  <1>8. QED
    BY <1>1, <1>2, <1>3, <1>4, <1>7 DEF Least, Most

(* It stays in the interval, and meets the level at both ends. *)
LEMMA CurveEnds ==
  ASSUME NEW p, Within(6000, p), NEW q, Within(2000, q), NEW x \in Nat, x <= 100
  PROVE  /\ Curve(x, p, q) \in Nat /\ Curve(x, p, q) <= 1000000
         /\ x = 0 => Curve(x, p, q) = 0
         /\ x = 100 => Curve(x, p, q) = 1000000
  <1> DEFINE a == p * Wave(2 * x)
             u == q * Wave(4 * x)
  <1>1. a \in Int /\ u \in Int
    BY WaveStep DEF Within
  <1>2. x = 0 \/ x = 100 => a = 0 /\ u = 0
    <2>1. Wave(0) = 0 /\ Wave(200) = 0 /\ Wave(400) = 0
      <3>1. Wave(0) = Height(0) /\ Wave(200) = -Height(0) /\ Wave(400) = Height(0)
        BY DEF Wave, Height
      <3>2. Height(0) = 0
        BY Sines DEF Height
      <3>3. QED
        BY <3>1, <3>2
    <2>2. p * 0 = 0 /\ q * 0 = 0
      BY DEF Within
    <2>3. CASE x = 0
      <3>1. 2 * x = 0 /\ 4 * x = 0
        BY <2>3
      <3>2. QED
        BY <2>1, <2>2, <3>1
    <2>4. CASE x = 100
      <3>1. 2 * x = 200 /\ 4 * x = 400
        BY <2>4
      <3>2. QED
        BY <2>1, <2>2, <3>1
    <2>5. QED
      BY <2>3, <2>4
  <1>3. Curve(x, p, q) = Least(Most((10000 * x) + (a \div 1000) + (u \div 1000), 0), 1000000)
    BY DEF Curve
  <1> HIDE DEF a, u
  <1>4. QED
    BY <1>1, <1>2, <1>3 DEF Least, Most

(* What is asked of a level that is shown, and of two. *)
Ends(x, shown) ==
  shown \in Nat /\ shown <= 1000000 /\ (x = 0 => shown = 0) /\ (x = 100 => shown = 1000000)

Inside(x, shown) ==
  (x = 0) = (shown = 0) /\ (x = 100) = (shown = 1000000)

(* Keeping levels off the ends changes neither their order nor the ends. *)
LEMMA InteriorGrows ==
  ASSUME NEW x \in Nat, NEW y \in Nat, x <= y, y <= 100, NEW step \in Nat \ {0}, step <= 10000,
         NEW f, NEW g, Ends(x, f), Ends(y, g), f <= g
  PROVE  /\ Interior(x, f, step) <= Interior(y, g, step)
         /\ Inside(x, Interior(x, f, step))
  BY DEF Ends, Inside, Interior, Least, Most

(* A direction has no size. *)
LEMMA Directed ==
  ASSUME NEW bit \in Nat, NEW P \in Nat, NEW size \in Nat, size <= P
  PROVE  Within(P, Direction(bit) * size)
  BY DEF Direction, Within

(* Whatever profile a seed picks, the battery is shown in order. *)
LEMMA BatteryGrows ==
  ASSUME NEW s, Derived(s, "battery") \in Nat, NEW x \in Nat, NEW y \in Nat, x <= y, y <= 100
  PROVE  BatteryLevel(s, x) <= BatteryLevel(s, y) /\ Inside(x, BatteryLevel(s, x))
  <1> DEFINE profile == DeriveBounded(s, "battery", 48)
             p == Direction(profile \div 9) * (4000 + (1000 * (profile % 3)))
             q == Direction(profile \div 18) * (1000 * ((profile \div 3) % 3))
             rounded(z) == 10000 * ((Curve(z, p, q) + 5000) \div 10000)
  <1>1. profile \in Nat
    BY DEF DeriveBounded
  <1>2. Within(6000, p) /\ Within(2000, q)
    <2> HIDE DEF profile
    <2>1. /\ profile \div 9 \in Nat /\ profile \div 18 \in Nat
          /\ 4000 + (1000 * (profile % 3)) \in Nat /\ 4000 + (1000 * (profile % 3)) <= 6000
          /\ 1000 * ((profile \div 3) % 3) \in Nat /\ 1000 * ((profile \div 3) % 3) <= 2000
      BY <1>1
    <2>2. QED
      BY <2>1, Directed
  <1>3. \A z : BatteryLevel(s, z) = Interior(z, rounded(z), 10000)
    BY DEF BatteryLevel
  <1> HIDE DEF p, q
  <1>4. Curve(x, p, q) <= Curve(y, p, q)
    BY <1>2, CurveGrows
  <1>5. ASSUME NEW z \in Nat, z <= 100 PROVE Ends(z, rounded(z)) /\ Curve(z, p, q) \in Nat
    <2>1. /\ Curve(z, p, q) \in Nat /\ Curve(z, p, q) <= 1000000
          /\ z = 0 => Curve(z, p, q) = 0
          /\ z = 100 => Curve(z, p, q) = 1000000
      BY <1>2, <1>5, CurveEnds
    <2>2. QED
      BY <2>1 DEF Ends
  <1>6. rounded(x) <= rounded(y)
    BY <1>4, <1>5
  <1>7. x <= 100 /\ 10000 \in Nat \ {0}
    OBVIOUS
  <1>8. Ends(x, rounded(x)) /\ Ends(y, rounded(y))
    BY <1>5, <1>7
  <1> HIDE DEF rounded
  <1>9. QED
    BY <1>3, <1>6, <1>7, <1>8, InteriorGrows

(* So is any level on a unit interval's curve. *)
LEMMA UnitIntervalGrows ==
  ASSUME NEW s, NEW context, Derived(s, context) \in Nat,
         NEW pMax \in Nat, NEW qMax \in Nat, pMax <= 6000, qMax <= 2000,
         NEW x \in Nat, NEW y \in Nat, x <= y, y <= 100
  PROVE  /\ UnitIntervalCurve(s, context, x, pMax, qMax) <= UnitIntervalCurve(s, context, y, pMax, qMax)
         /\ Inside(x, UnitIntervalCurve(s, context, x, pMax, qMax))
  <1> DEFINE profile == DeriveBounded(s, context, 48)
             p == Direction(profile \div 9) * ((pMax * (2 + (profile % 3))) \div 4)
             q == Direction(profile \div 18) * ((qMax * ((profile \div 3) % 3)) \div 2)
  <1>1. profile \in Nat
    BY DEF DeriveBounded
  <1>2. Within(6000, p) /\ Within(2000, q)
    <2> DEFINE third == profile % 3
               next == (profile \div 3) % 3
    <2> HIDE DEF profile
    <2>1. /\ profile \div 9 \in Nat /\ profile \div 18 \in Nat
          /\ third \in {0, 1, 2} /\ next \in {0, 1, 2}
      BY <1>1
    <2> HIDE DEF third, next
    <2>2. (pMax * (2 + third)) \div 4 \in Nat /\ (pMax * (2 + third)) \div 4 <= 6000
      <3>1. pMax * (2 + 0) = 2 * pMax /\ pMax * (2 + 1) = 3 * pMax /\ pMax * (2 + 2) = 4 * pMax
        OBVIOUS
      <3>2. pMax * (2 + third) \in 0..4 * pMax
        BY <2>1, <3>1
      <3>3. QED
        BY <3>2
    <2>3. (qMax * next) \div 2 \in Nat /\ (qMax * next) \div 2 <= 2000
      <3>1. qMax * 0 = 0 /\ qMax * 1 = qMax /\ qMax * 2 = 2 * qMax
        OBVIOUS
      <3>2. qMax * next \in 0..2 * qMax
        BY <2>1, <3>1
      <3>3. QED
        BY <3>2
    <2>4. QED
      BY <2>1, <2>2, <2>3, Directed DEF third, next
  <1>3. \A z : UnitIntervalCurve(s, context, z, pMax, qMax) = Interior(z, Curve(z, p, q), 1)
    BY DEF UnitIntervalCurve
  <1> HIDE DEF p, q
  <1>4. Curve(x, p, q) <= Curve(y, p, q)
    BY <1>2, CurveGrows
  <1>5. x <= 100 /\ 1 \in Nat \ {0} /\ 1 <= 10000
    OBVIOUS
  <1>6. Ends(x, Curve(x, p, q)) /\ Ends(y, Curve(y, p, q))
    BY <1>2, <1>5, CurveEnds DEF Ends
  <1>7. QED
    BY <1>3, <1>4, <1>5, <1>6, InteriorGrows

(* A perturbation of amplitude up to 20000 never turns a rise into a fall. *)
LEMMA PerturbationGrows ==
  ASSUME NEW s, NEW context, Derived(s, context) \in Nat, NEW most \in Nat, most <= 20000,
         NEW x \in Int, NEW y \in Int, x <= y
  PROVE  /\ SinePerturbation(s, context, x, most) \in Int
         /\ SinePerturbation(s, context, y, most) \in Int
         /\ SinePerturbation(s, context, x, most) <= SinePerturbation(s, context, y, most)
  <1> DEFINE profile == DeriveBounded(s, context, 64)
             fifth == profile % 5
             amplitude == (most * (4 + fifth)) \div 8
             phase == 25 * ((profile \div 5) % 16)
             d == y - x
             a == amplitude * Wave(x + phase)
             b == amplitude * Wave(y + phase)
  <1>1. profile \in Nat
    BY DEF DeriveBounded
  <1>2. amplitude \in Nat /\ amplitude <= 20000 /\ phase \in Int
    <2> HIDE DEF profile
    <2>1. fifth \in {0, 1, 2, 3, 4} /\ phase \in Int
      BY <1>1
    <2> HIDE DEF fifth
    <2>2. /\ most * (4 + 0) = 4 * most /\ most * (4 + 1) = 5 * most /\ most * (4 + 2) = 6 * most
          /\ most * (4 + 3) = 7 * most /\ most * (4 + 4) = 8 * most
      OBVIOUS
    <2>3. most * (4 + fifth) \in 0..8 * most
      BY <2>1, <2>2
    <2>4. QED
      BY <2>1, <2>3
  <1>3. /\ SinePerturbation(s, context, x, most) = (1000 * x) + (a \div 10000)
        /\ SinePerturbation(s, context, y, most) = (1000 * y) + (b \div 10000)
    BY DEF SinePerturbation
  <1> HIDE DEF amplitude, phase
  <1>4. d \in Nat /\ x + phase \in Int /\ y + phase = (x + phase) + d
    BY <1>2
  <1>5. a \in Int /\ b \in Int /\ b - a >= -(20000 * (158 * d))
    <2>1. Within(20000, amplitude) /\ 20000 \in Nat
      BY <1>2 DEF Within
    <2> HIDE DEF d
    <2>2. Falls(20000, amplitude, x + phase, d)
      BY <1>4, <2>1, WaveFalls
    <2>3. QED
      BY <1>4, <2>2 DEF Falls
  <1>6. y = x + d
    OBVIOUS
  <1> HIDE DEF a, b, d
  <1>7. (b \div 10000) - (a \div 10000) >= -(316 * d)
    BY <1>4, <1>5
  <1>8. QED
    BY <1>3, <1>4, <1>5, <1>6, <1>7

(* Free space is shown in order, across the buckets of all sizes. *)
LEMMA BucketedGrows ==
  ASSUME NEW x \in Nat, NEW y \in Nat, x <= y
  PROVE  Bucketed(x) <= Bucketed(y)
  <1>1. ASSUME NEW z \in Nat
        PROVE  /\ z < 512 => Bucketed(z) = z
               /\ 512 <= z /\ z < 2048 => Bucketed(z) = z - (z % 256)
               /\ 2048 <= z /\ z < 16384 => Bucketed(z) = z - (z % 1024)
               /\ 16384 <= z /\ z < 65536 => Bucketed(z) = z - (z % 2048)
               /\ 65536 <= z => Bucketed(z) = z - (z % 4096)
    BY DEF Bucketed, BucketSize, QuantizeDown, Least, GiB
  <1>2. CASE y < 512
    BY <1>1, <1>2
  <1>3. CASE 512 <= y /\ y < 2048
    BY <1>1, <1>3
  <1>4. CASE 2048 <= y /\ y < 16384
    BY <1>1, <1>4
  <1>5. CASE 16384 <= y /\ y < 65536
    BY <1>1, <1>5
  <1>6. CASE 65536 <= y
    BY <1>1, <1>6
  <1>7. QED
    BY <1>2, <1>3, <1>4, <1>5, <1>6

-----------------------------------------------------------------------------
(* What is asked of an answer about memory, by the field and as a whole.   *)
CapOf(field) == IF field = "available" THEN 32 * 1024 * 1024 ELSE Cap(field)

Bounded(value, cap, shown) ==
  /\ shown \in value - Least(Most(value \div 64, 1), cap)..value
  /\ value > 0 => shown > 0

MemoryAnswer(answer) ==
  /\ DOMAIN answer.shown = DOMAIN answer.asked
  /\ \A field \in DOMAIN answer.asked :
       /\ Bounded(answer.asked[field], CapOf(field), answer.shown[field])
       /\ ~answer.shaped \/ (field \in Fields64 /\ answer.count < EndOf[field])
            => answer.shown[field] = answer.asked[field]

(* A value that is passed on is within its own bounds. *)
LEMMA PassedOn ==
  ASSUME NEW value \in Nat, NEW cap \in Nat
  PROVE  Bounded(value, cap, value)
  BY DEF Bounded, Least, Most

(* Free memory has a cap of its own, and is none of the fields. *)
LEMMA CapsOf ==
  /\ CapOf("available") = 33554432
  /\ "available" \notin Fields64
  /\ \A field \in Fields64 : CapOf(field) = Cap(field)
  BY DEF CapOf, Fields64, Fields, Gauges, Transfers, Faults, Gauges64, Transfers64

(* What the hooks of the three calls leave in the buffer of the app. *)
LEMMA MemoryRead ==
  ASSUME StillInv, ReadStatistics64 \/ ReadStatistics \/ ReadAvailableMemory
  PROVE  /\ surface = "memory" /\ UNCHANGED <<surface, seed, now, boot, calls, floors>>
         /\ \E answer : told' = {answer} /\ MemoryAnswer(answer)
  <1>0. surface = "memory" /\ UNCHANGED <<surface, seed, now, boot, calls, floors>>
    BY DEF ReadStatistics64, ReadStatistics, ReadAvailableMemory, Tell
  <1>1. /\ \A field \in Fields64 :
             Derived(seed, field) \in Nat /\ Derived(seed, <<field, "64">>) \in Nat
        /\ Derived(seed, "os_proc_available_memory") \in Nat
    BY LiveAssumption DEF StillInv, LiveAssumption
  <1>2. \A value \in RawCounters \cup {RawFill} : value \in Nat /\ Mixed(value) \in Nat
    BY LiveAssumption DEF LiveAssumption
  <1>3. Fields \subseteq Fields64
    BY DEF Fields64
  <1>4. CASE ReadStatistics64
    <2>1. PICK raw \in RawCounters, count \in Counts, shaped \in BOOLEAN :
            LET filled == [field \in Fields64 |-> IF count >= EndOf[field] THEN raw ELSE RawFill]
            IN told' = {[asked |-> filled, count |-> count, shaped |-> shaped,
                         shown |-> HostStatistics64(seed, filled, count, shaped)]}
      BY <1>4 DEF ReadStatistics64, Tell
    <2> DEFINE filled == [field \in Fields64 |-> IF count >= EndOf[field] THEN raw ELSE RawFill]
               shown == HostStatistics64(seed, filled, count, shaped)
               answer == [asked |-> filled, count |-> count, shaped |-> shaped, shown |-> shown]
    <2>2. DOMAIN filled = Fields64 /\ \A field \in Fields64 : filled[field] \in RawCounters \cup {RawFill}
      OBVIOUS
    <2> HIDE DEF filled
    <2>3. /\ DOMAIN shown = Fields64
          /\ \A field \in Fields64 :
               shown[field] = IF shaped /\ IncludesField(count, field)
                              THEN ShapeU64(seed, <<field, "64">>, filled[field], Cap(field))
                              ELSE filled[field]
      BY DEF HostStatistics64
    <2> HIDE DEF shown
    <2>4. ASSUME NEW field \in Fields64
          PROVE  /\ Bounded(filled[field], Cap(field), shown[field])
                 /\ ~shaped \/ ~(count >= EndOf[field]) => shown[field] = filled[field]
      <3>1. filled[field] \in Nat /\ Mixed(filled[field]) \in Nat
        BY <1>2, <2>2
      <3>2. Cap(field) \in Nat
        BY DEF Cap
      <3>3. Bounded(filled[field], Cap(field),
                    ShapeU64(seed, <<field, "64">>, filled[field], Cap(field)))
        BY <1>1, <3>1, <3>2, Shaped DEF Bounded
      <3>4. QED
        BY <2>3, <3>1, <3>2, <3>3, PassedOn DEF IncludesField
    <2>5. ASSUME NEW field \in Fields64, count < EndOf[field]
          PROVE  ~(count >= EndOf[field])
      BY <2>5, EndAssumption, LiveAssumption DEF EndAssumption, LiveAssumption
    <2>6. MemoryAnswer(answer)
      BY <2>2, <2>3, <2>4, <2>5, CapsOf DEF MemoryAnswer
    <2>7. told' = {answer}
      BY <2>1 DEF filled, shown
    <2>8. QED
      BY <1>0, <2>6, <2>7
  <1>5. CASE ReadStatistics
    <2>1. PICK raw \in RawCounters, whole \in BOOLEAN, shaped \in BOOLEAN :
            LET filled == [field \in Fields |-> raw]
            IN told' = {[asked |-> filled, count |-> IF whole THEN WholeCount ELSE 0,
                         shaped |-> shaped, shown |-> HostStatistics(seed, filled, whole, shaped)]}
      BY <1>5 DEF ReadStatistics, Tell
    <2> DEFINE filled == [field \in Fields |-> raw]
               shown == HostStatistics(seed, filled, whole, shaped)
               count == IF whole THEN WholeCount ELSE 0
               answer == [asked |-> filled, count |-> count, shaped |-> shaped, shown |-> shown]
    <2>2. DOMAIN filled = Fields /\ \A field \in Fields : filled[field] = raw
      OBVIOUS
    <2> HIDE DEF filled
    <2>3. /\ DOMAIN shown = Fields
          /\ \A field \in Fields :
               shown[field] = IF shaped /\ whole
                              THEN ShapeU64(seed, field, filled[field], Cap(field))
                              ELSE filled[field]
      BY DEF HostStatistics
    <2> HIDE DEF shown
    <2>4. ASSUME NEW field \in Fields
          PROVE  /\ Bounded(filled[field], Cap(field), shown[field])
                 /\ ~shaped \/ ~whole => shown[field] = filled[field]
      <3>1. filled[field] \in Nat /\ Mixed(filled[field]) \in Nat
        BY <1>2, <2>2
      <3>2. Derived(seed, field) \in Nat /\ Cap(field) \in Nat
        <4>1. field \in Fields64
          BY <1>3
        <4>2. Derived(seed, field) \in Nat
          BY <1>1, <4>1
        <4>3. Cap(field) \in Nat
          BY DEF Cap
        <4>4. QED
          BY <4>2, <4>3
      <3>3. Bounded(filled[field], Cap(field),
                    ShapeU64(seed, field, filled[field], Cap(field)))
        BY <3>1, <3>2, Shaped DEF Bounded
      <3>4. QED
        BY <2>3, <3>1, <3>2, <3>3, PassedOn
    <2>5. ASSUME NEW field \in Fields, count < EndOf[field]
          PROVE  ~whole
      BY <1>3, <2>5, EndAssumption, LiveAssumption DEF EndAssumption, LiveAssumption
    <2>6. MemoryAnswer(answer)
      BY <1>3, <2>2, <2>3, <2>4, <2>5, CapsOf DEF MemoryAnswer
    <2>7. told' = {answer}
      BY <2>1 DEF filled, shown
    <2>8. QED
      BY <1>0, <2>6, <2>7
  <1>6. CASE ReadAvailableMemory
    <2>1. PICK raw \in RawCounters :
            told' = {[asked |-> [available |-> raw], count |-> WholeCount, shaped |-> TRUE,
                      shown |-> [available |-> AvailableMemory(seed, raw)]]}
      BY <1>6 DEF ReadAvailableMemory, Tell
    <2> DEFINE level == AvailableMemory(seed, raw)
               answer == [asked |-> [available |-> raw], count |-> WholeCount, shaped |-> TRUE,
                          shown |-> [available |-> level]]
    <2>2. Bounded(raw, 33554432, level)
      <3>1. level = ShapeU64(seed, "os_proc_available_memory", raw, 33554432)
        BY DEF AvailableMemory
      <3>2. QED
        BY <1>1, <1>2, <3>1, Shaped DEF Bounded
    <2> HIDE DEF level
    <2>3. MemoryAnswer(answer)
      BY <2>2, CapsOf DEF MemoryAnswer
    <2>4. QED
      BY <1>0, <2>1, <2>3 DEF level
  <1>7. QED
    BY <1>4, <1>5, <1>6

-----------------------------------------------------------------------------
(* The references left by the proxy filter, and the scopes of its answer.  *)
ProxyAnswer(answer) ==
  /\ answer.shown.original + answer.shown.filtered = 1
  /\ answer.shown.filteredScoped = answer.shown.filtered
  /\ answer.failed = {} => answer.shown.scopes = answer.asked.scopes \ {"tunnel"}

(* The filter of CFNetworkCopySystemProxySettings tells such an answer. *)
LEMMA ProxiesRead ==
  ASSUME CopyProxies
  PROVE  /\ surface = "proxies" /\ UNCHANGED <<surface, seed, now, boot, calls, floors>>
         /\ \E answer : told' = {answer} /\ ProxyAnswer(answer)
  <1>1. PICK settings \in Settings, failed \in SUBSET Allocations :
          told' = {[asked |-> settings, failed |-> failed,
                    shown |-> CopyFilteredProxySettings(settings, failed)]}
    BY DEF CopyProxies, Tell
  <1> DEFINE shown == CopyFilteredProxySettings(settings, failed)
             answer == [asked |-> settings, failed |-> failed, shown |-> shown]
  <1>2. settings.scoped \/ settings.scopes = {}
    BY DEF Settings
  <1>3. CASE FilterScopedProxySettings(settings, failed) = Filtered(settings, failed)
    <2>1. shown = [scopes |-> settings.scopes \ Recognized(failed), original |-> 0,
                   filteredScoped |-> 1, filtered |-> 1]
      BY <1>3 DEF CopyFilteredProxySettings, Filtered
    <2> HIDE DEF shown
    <2>2. ProxyAnswer(answer)
      BY <2>1 DEF ProxyAnswer, Recognized
    <2>3. QED
      BY <1>1, <2>2 DEF CopyProxies, Tell, shown
  <1>4. CASE FilterScopedProxySettings(settings, failed) # Filtered(settings, failed)
    <2>1. /\ FilterScopedProxySettings(settings, failed) = Unfiltered(settings, 0)
          /\ failed = {} => settings.scopes \cap {"tunnel"} = {}
      BY <1>2, <1>4 DEF FilterScopedProxySettings, Recognized
    <2>2. shown = [scopes |-> settings.scopes, original |-> 1,
                   filteredScoped |-> 0, filtered |-> 0]
      BY <2>1 DEF CopyFilteredProxySettings, Unfiltered
    <2> HIDE DEF shown
    <2>3. failed = {} => settings.scopes = settings.scopes \ {"tunnel"}
      BY <2>1
    <2>4. ProxyAnswer(answer)
      BY <2>2, <2>3 DEF ProxyAnswer
    <2>5. QED
      BY <1>1, <2>4 DEF CopyProxies, Tell, shown
  <1>5. QED
    BY <1>3, <1>4

-----------------------------------------------------------------------------
Start == [given |-> << >>, going |-> TRUE]

(* The function that the fold defines: what the block has seen of the      *)
(* interfaces at the indices of a set.                                     *)
Seen(f, path, wanted, originals, N) ==
  f = [s \in SUBSET (1..N) |->
         IF s = {} THEN Start
         ELSE Offer(f[s \ {Max(s)}], path[Max(s)], wanted, originals)]

(* The greatest index of a set that has one. *)
LEMMA Greatest ==
  ASSUME NEW s \in SUBSET Nat, NEW k \in s, \A i \in s : k >= i
  PROVE  Max(s) = k
  <1>1. Max(s) \in s /\ \A i \in s : Max(s) >= i
    BY DEF Max
  <1>2. Max(s) \in Nat /\ k \in Nat /\ Max(s) >= k /\ k >= Max(s)
    BY <1>1
  <1> HIDE DEF Max
  <1>3. QED
    BY <1>2

(* There is such a function for any number of indices. *)
LEMMA SeenExists ==
  ASSUME NEW path, NEW wanted, NEW originals, NEW N \in Nat
  PROVE  \E f : Seen(f, path, wanted, originals, N)
  <1> DEFINE Next1(f, s) == Offer(f[s \ {Max(s)}], path[Max(s)], wanted, originals)
             T == {k \in Nat : \E f : Seen(f, path, wanted, originals, k)}
  <1>1. 0 \in T
    <2>1. SUBSET (1..0) = {{}}
      OBVIOUS
    <2>2. Seen([s \in SUBSET (1..0) |-> Start], path, wanted, originals, 0)
      BY <2>1 DEF Seen
    <2>3. QED
      BY <2>2
  <1>2. ASSUME NEW k \in T PROVE k + 1 \in T
    <2>1. PICK f : Seen(f, path, wanted, originals, k)
      OBVIOUS
    <2>2. f = [s \in SUBSET (1..k) |-> IF s = {} THEN Start ELSE Next1(f, s)]
      BY <2>1 DEF Seen
    <2> HIDE DEF Next1
    <2> DEFINE g == [s \in SUBSET (1..k + 1) |->
                       IF s \in SUBSET (1..k) THEN f[s] ELSE Next1(f, s)]
    <2>3. k \in Nat /\ k + 1 \in Nat /\ SUBSET (1..k) \subseteq SUBSET (1..k + 1)
      OBVIOUS
    <2>4. ASSUME NEW s \in SUBSET (1..k + 1), s # {}
          PROVE  s \ {Max(s)} \in SUBSET (1..k)
      <3>1. CASE k + 1 \in s
        <4>1. Max(s) = k + 1
          BY <2>3, <3>1, Greatest
        <4>2. QED
          BY <2>3, <4>1
      <3>2. CASE k + 1 \notin s
        <4>1. \A i \in s : i \in 1..k
          BY <2>3, <3>2
        <4>2. QED
          BY <4>1
      <3>3. QED
        BY <3>1, <3>2
    <2>5. ASSUME NEW s \in SUBSET (1..k + 1), s # {} PROVE g[s] = Next1(g, s)
      <3>1. g[s \ {Max(s)}] = f[s \ {Max(s)}]
        BY <2>3, <2>4, <2>5
      <3>2. Next1(g, s) = Next1(f, s)
        BY <3>1 DEF Next1
      <3>3. g[s] = Next1(f, s)
        BY <2>2, <2>5
      <3>4. QED
        BY <3>2, <3>3
    <2>6. g[{}] = Start /\ {} \in SUBSET (1..k + 1)
      BY <2>2
    <2>7. g = [s \in SUBSET (1..k + 1) |-> IF s = {} THEN Start ELSE Next1(g, s)]
      <3>1. \A s \in SUBSET (1..k + 1) : g[s] = IF s = {} THEN Start ELSE Next1(g, s)
        BY <2>5, <2>6
      <3> HIDE DEF g
      <3>2. g = [s \in SUBSET (1..k + 1) |-> g[s]]
        BY DEF g
      <3>3. QED
        BY <3>1, <3>2
    <2>8. Seen(g, path, wanted, originals, k + 1)
      BY <2>7 DEF Seen, Next1
    <2>9. QED
      BY <2>3, <2>8
  <1>3. T = Nat
    <2> HIDE DEF T
    <2>1. T \in SUBSET Nat
      BY DEF T
    <2>2. QED
      BY <1>1, <1>2, <2>1, Numbers
  <1>4. QED
    BY <1>3

(* The interfaces up to the k-th that an enumeration passes on: those not  *)
(* known to be a tunnel's.                                                 *)
Shared(path, originals, k) == {i \in 1..k : ~Known(path[i], originals)}

Shareable(originals) == {interface \in Interfaces : ~Known(interface, originals)}

(* What the block has seen of the first k interfaces is what it may of     *)
(* them, until it has all it wanted; then it goes no further.              *)
SeenRight(seen, path, wanted, originals, k) ==
  /\ seen = [given |-> seen.given, going |-> Len(seen.given) < wanted]
  /\ seen.given \in Seq(Shareable(originals))
  /\ Len(seen.given) = Least(wanted, Cardinality(Shared(path, originals, k)))

(* One more interface that may be seen is one more to count. *)
LEMMA SharedGrows ==
  ASSUME NEW path, NEW originals, NEW k \in Nat
  PROVE  /\ Cardinality(Shared(path, originals, k)) \in Nat
         /\ Cardinality(Shared(path, originals, k + 1)) =
              IF Known(path[k + 1], originals) THEN Cardinality(Shared(path, originals, k))
              ELSE Cardinality(Shared(path, originals, k)) + 1
  <1>1. IsFiniteSet(Shared(path, originals, k)) /\ Cardinality(Shared(path, originals, k)) \in Nat
    <2>1. IsFiniteSet(1..k)
      BY FS_Interval
    <2>2. Shared(path, originals, k) \in SUBSET (1..k)
      BY DEF Shared
    <2>3. IsFiniteSet(Shared(path, originals, k))
      BY <2>1, <2>2, FS_Subset
    <2>4. QED
      BY <2>3, FS_CardinalityType
  <1>2. k + 1 \notin Shared(path, originals, k)
    BY DEF Shared
  <1>3. CASE Known(path[k + 1], originals)
    <2>1. Shared(path, originals, k + 1) = Shared(path, originals, k)
      BY <1>3 DEF Shared
    <2>2. QED
      BY <1>1, <1>3, <2>1
  <1>4. CASE ~Known(path[k + 1], originals)
    <2>1. Shared(path, originals, k + 1) = Shared(path, originals, k) \cup {k + 1}
      BY <1>4 DEF Shared
    <2>2. QED
      BY <1>1, <1>2, <1>4, <2>1, FS_AddElement
  <1>5. QED
    BY <1>3, <1>4

(* The next interface that is offered leaves the block right about one     *)
(* more.                                                                   *)
LEMMA OfferRight ==
  ASSUME NEW path, NEW wanted \in Nat, NEW originals, NEW k \in Nat,
         path[k + 1] \in Interfaces, NEW seen, SeenRight(seen, path, wanted, originals, k)
  PROVE  SeenRight(Offer(seen, path[k + 1], wanted, originals), path, wanted, originals, k + 1)
  <1> DEFINE before == Cardinality(Shared(path, originals, k))
             after == Cardinality(Shared(path, originals, k + 1))
             hidden == Known(path[k + 1], originals)
             length == Len(seen.given)
             interface == path[k + 1]
             given == Append(seen.given, interface)
  <1>1. before \in Nat /\ after = IF hidden THEN before ELSE before + 1
    BY SharedGrows
  <1>2. seen.given \in Seq(Shareable(originals)) /\ length \in Nat /\ length = Least(wanted, before)
        /\ (seen.going <=> length < wanted)
    <2>1. seen = [given |-> seen.given, going |-> Len(seen.given) < wanted]
      BY DEF SeenRight
    <2>2. [given |-> seen.given, going |-> Len(seen.given) < wanted].going = (length < wanted)
      OBVIOUS
    <2>3. seen.going = (length < wanted)
      BY <2>1, <2>2, Zenon
    <2>4. seen.given \in Seq(Shareable(originals)) /\ length = Least(wanted, before)
      BY DEF SeenRight
    <2>5. length \in Nat
      BY <2>4
    <2>6. seen.going <=> length < wanted
      BY <2>3, Zenon
    <2> HIDE DEF before, length
    <2>7. QED
      BY <2>4, <2>5, <2>6
  <1>3. Known(interface, originals) <=> hidden
    OBVIOUS
  <1>4. CASE ~seen.going \/ hidden
    <2>1. Offer(seen, interface, wanted, originals) = seen
      BY <1>3, <1>4 DEF Offer
    <2> HIDE DEF before, after, hidden
    <2>2. length = Least(wanted, after)
      BY <1>1, <1>2, <1>4 DEF Least
    <2>3. QED
      BY <2>1, <2>2 DEF SeenRight, after
  <1>5. CASE seen.going /\ ~hidden
    <2>1. Offer(seen, interface, wanted, originals) = [given |-> given, going |-> Len(given) < wanted]
      BY <1>3, <1>5 DEF Offer
    <2>2. given \in Seq(Shareable(originals)) /\ Len(given) = length + 1
      <3>1. interface \in Shareable(originals)
        BY <1>5 DEF Shareable
      <3>2. QED
        BY <1>2, <3>1
    <2> HIDE DEF before, after, hidden, given, length
    <2>3. Len(given) = Least(wanted, after)
      BY <1>1, <1>2, <1>5, <2>2 DEF Least
    <2> DEFINE offered == [given |-> given, going |-> Len(given) < wanted]
    <2>4. offered.given = given
      OBVIOUS
    <2>5. SeenRight(offered, path, wanted, originals, k + 1)
      BY <2>2, <2>3, <2>4 DEF SeenRight, after
    <2>6. QED
      BY <2>1, <2>5
  <1>6. QED
    BY <1>4, <1>5

(* An enumeration that is hooked gives the app every interface of the path *)
(* that is not known to be a tunnel's, up to those it wanted, and no other.*)
LEMMA EnumerationCounts ==
  ASSUME NEW path, NEW N \in Nat, path \in [1..N -> Interfaces],
         NEW wanted \in Nat \ {0}, NEW originals,
         "enumerate_interfaces" \in originals
  PROVE  /\ Len(EnumerateInterfaces(path, wanted, originals)) =
              Least(wanted, Cardinality(Shared(path, originals, N)))
         /\ EnumerateInterfaces(path, wanted, originals) \in Seq(Shareable(originals))
  <1> DEFINE f == CHOOSE f : Seen(f, path, wanted, originals, N)
  <1>1. EnumerateInterfaces(path, wanted, originals) = f[1..N].given
    <2>1. DOMAIN path = 1..N
      OBVIOUS
    <2>2. QED
      BY <2>1 DEF EnumerateInterfaces, FoldLeft, MapThenFoldSet, Seen, Start
  <1>2. Seen(f, path, wanted, originals, N)
    BY SeenExists
  <1> HIDE DEF f
  <1> DEFINE T == {k \in Nat : k <= N => SeenRight(f[1..k], path, wanted, originals, k)}
  <1>3. 0 \in T
    <2>1. 1..0 = {} /\ {} \in SUBSET (1..N)
      OBVIOUS
    <2>2. f[{}] = Start
      BY <1>2, <2>1 DEF Seen
    <2>3. Shared(path, originals, 0) = {} /\ Cardinality({}) = 0
      BY <2>1, FS_EmptySet DEF Shared
    <2>4. Start.given = << >> /\ << >> \in Seq(Shareable(originals)) /\ Len(<< >>) = 0
      BY DEF Start
    <2>5. (0 < wanted) = TRUE /\ Least(wanted, 0) = 0
      BY DEF Least
    <2>6. Start = [given |-> Start.given, going |-> Len(Start.given) < wanted]
      BY <2>4, <2>5, Zenon DEF Start
    <2>7. SeenRight(Start, path, wanted, originals, 0)
      BY <2>3, <2>4, <2>5, <2>6, Zenon DEF SeenRight
    <2>8. QED
      BY <2>1, <2>2, <2>7
  <1>4. ASSUME NEW k \in T PROVE k + 1 \in T
    <2>1. k \in Nat /\ k + 1 \in Nat
      OBVIOUS
    <2>2. SUFFICES ASSUME k + 1 <= N
                   PROVE  SeenRight(f[1..k + 1], path, wanted, originals, k + 1)
      BY <2>1
    <2>3. SeenRight(f[1..k], path, wanted, originals, k) /\ path[k + 1] \in Interfaces
      BY <2>1, <2>2
    <2>4. Max(1..k + 1) = k + 1
      <3>1. 1..k + 1 \in SUBSET Nat /\ k + 1 \in 1..k + 1 /\ \A i \in 1..k + 1 : k + 1 >= i
        BY <2>1
      <3>2. QED
        BY <3>1, Greatest
    <2>5. 1..k + 1 # {} /\ 1..k + 1 \in SUBSET (1..N) /\ (1..k + 1) \ {k + 1} = 1..k
      <3>1. k + 1 \in 1..k + 1 /\ \A i \in 1..k + 1 : i \in 1..N
        BY <2>1, <2>2
      <3>2. \A i : i \in (1..k + 1) \ {k + 1} <=> i \in 1..k
        BY <2>1
      <3>3. QED
        BY <3>1, <3>2, Zenon
    <2>6. f[1..k + 1] = Offer(f[1..k], path[k + 1], wanted, originals)
      <3> DEFINE s == 1..k + 1
      <3>1. f[s] = Offer(f[s \ {Max(s)}], path[Max(s)], wanted, originals)
        <4> HIDE DEF s
        <4>1. s \in SUBSET (1..N) /\ s # {}
          BY <2>5 DEF s
        <4>2. QED
          BY <1>2, <4>1 DEF Seen
      <3>2. QED
        BY <2>4, <2>5, <3>1
    <2>7. QED
      BY <2>1, <2>3, <2>6, OfferRight
  <1>5. T = Nat
    <2> HIDE DEF T
    <2>1. T \in SUBSET Nat
      BY DEF T
    <2>2. QED
      BY <1>3, <1>4, <2>1, Numbers
  <1>6. SeenRight(f[1..N], path, wanted, originals, N)
    BY <1>5
  <1>7. QED
    BY <1>1, <1>6 DEF SeenRight

(* What an app is given of a path, hooked or not: without the original of  *)
(* get_type nothing is known to be a tunnel's, and nothing is hidden.      *)
LEMMA GivenRight ==
  ASSUME NEW path, NEW N \in Nat, path \in [1..N -> Interfaces],
         NEW wanted \in Nat \ {0}, NEW originals, NEW installed \in SUBSET originals
  PROVE  LET given == Enumerated(path, wanted, installed, originals)
             filtering == "enumerate_interfaces" \in installed /\ "get_type" \in originals
             ordinary == {i \in DOMAIN path : ~PathTypeLooksSensitive(path[i].type)}
         IN /\ Len(given) = Least(wanted, Cardinality(IF filtering THEN ordinary ELSE DOMAIN path))
            /\ filtering => \A i \in DOMAIN given : ~PathTypeLooksSensitive(given[i].type)
  <1> DEFINE given == Enumerated(path, wanted, installed, originals)
             ordinary == {i \in DOMAIN path : ~PathTypeLooksSensitive(path[i].type)}
  <1>1. DOMAIN path = 1..N /\ path \in Seq(Interfaces) /\ Len(path) = N
    OBVIOUS
  <1>2. Cardinality(DOMAIN path) = N
    <2>1. Cardinality(1..N) = N
      BY FS_Interval
    <2>2. QED
      BY <1>1, <2>1
  <1>3. CASE "enumerate_interfaces" \in installed
    <2>1. given = EnumerateInterfaces(path, wanted, originals)
      BY <1>3 DEF Enumerated
    <2>2. /\ Len(given) = Least(wanted, Cardinality(Shared(path, originals, N)))
          /\ given \in Seq(Shareable(originals))
      BY <1>3, <2>1, EnumerationCounts
    <2> HIDE DEF given
    <2>3. CASE "get_type" \in originals
      <3>1. Shared(path, originals, N) = ordinary
        BY <1>1, <2>3 DEF Shared, Known
      <3>2. \A i \in DOMAIN given : given[i] \in Shareable(originals)
        BY <2>2
      <3>3. \A i \in DOMAIN given : ~PathTypeLooksSensitive(given[i].type)
        BY <2>3, <3>2 DEF Shareable, Known
      <3> HIDE DEF ordinary
      <3>4. QED
        BY <1>3, <2>2, <2>3, <3>1, <3>3 DEF given, ordinary
    <2>4. CASE "get_type" \notin originals
      <3>1. Shared(path, originals, N) = DOMAIN path
        BY <1>1, <2>4 DEF Shared, Known
      <3>2. QED
        BY <2>2, <2>4, <3>1 DEF given
    <2>5. QED
      BY <2>3, <2>4
  <1>4. CASE "enumerate_interfaces" \notin installed
    <2>1. given = SubSeq(path, 1, Least(wanted, N))
      BY <1>1, <1>4 DEF Enumerated
    <2>2. Least(wanted, N) \in 0..N
      BY DEF Least
    <2>3. Len(given) = Least(wanted, N)
      BY <1>1, <2>1, <2>2
    <2> HIDE DEF given
    <2>4. QED
      BY <1>2, <1>4, <2>3 DEF given
  <1>5. QED
    BY <1>3, <1>4

(* What each installed hook keeps of a path: a tunnel's name, a tunnel's   *)
(* type, and the interfaces of a tunnel but no other.                      *)
PathAnswer(answer) ==
  LET ordinary == {i \in DOMAIN answer.path : ~PathTypeLooksSensitive(answer.path[i].type)}
      filtering == "enumerate_interfaces" \in answer.installed
                     /\ "get_type" \in answer.originals
  IN /\ "get_name" \in answer.installed => "tunnel" \notin answer.names
     /\ ("get_type" \in answer.installed \/ filtering)
          => answer.types \cap {"other", "loopback"} = {}
     /\ "uses_interface_type" \in answer.installed
          => answer.uses \cap {"other", "loopback"} = {}
     /\ Len(answer.given) =
          Least(answer.wanted, Cardinality(IF filtering THEN ordinary ELSE DOMAIN answer.path))

(* The enumerations of a path tell such an answer. *)
LEMMA PathsRead ==
  ASSUME ReadPath
  PROVE  /\ surface = "paths" /\ UNCHANGED <<surface, seed, now, boot, calls, floors>>
         /\ \E answer : told' = {answer} /\ PathAnswer(answer)
  <1>0. PICK path \in SeqOf(Interfaces, MaxPath), wanted \in 1..MaxPath,
             originals \in SUBSET PathHooks :
          \E installed \in SUBSET originals : Tell(PathFound(path, wanted, installed, originals))
    BY DEF ReadPath
  <1>1. PICK installed \in SUBSET originals : Tell(PathFound(path, wanted, installed, originals))
    BY <1>0
  <1> DEFINE given == Enumerated(path, wanted, installed, originals)
             names == {AskName(given[i], installed, originals) : i \in DOMAIN given}
             types == {AskType(given[i], installed, originals) : i \in DOMAIN given}
             uses == {type \in Types : AskUses(path, type, installed, originals)}
             answer == [path |-> path, wanted |-> wanted, installed |-> installed,
                        originals |-> originals, given |-> given,
                        names |-> names, types |-> types, uses |-> uses]
             filtering == "enumerate_interfaces" \in installed /\ "get_type" \in originals
             ordinary == {i \in DOMAIN path : ~PathTypeLooksSensitive(path[i].type)}
  <1>2. PICK N \in 0..MaxPath : path \in [1..N -> Interfaces]
    BY DEF SeqOf
  <1>3. N \in Nat /\ wanted \in Nat \ {0} /\ DOMAIN path = 1..N
    BY <1>2, LiveAssumption DEF LiveAssumption
  <1>4. /\ Len(given) = Least(wanted, Cardinality(IF filtering THEN ordinary ELSE DOMAIN path))
        /\ filtering => \A i \in DOMAIN given : ~PathTypeLooksSensitive(given[i].type)
    BY <1>2, <1>3, GivenRight
  <1> HIDE DEF given, filtering, ordinary
  <1>5. "get_name" \in installed => "tunnel" \notin names
    BY DEF AskName, GetName, CommonNetworkInterfaceName
  <1>6. ("get_type" \in installed \/ filtering) => types \cap {"other", "loopback"} = {}
    BY <1>4 DEF AskType, GetType, PathTypeLooksSensitive
  <1>7. "uses_interface_type" \in installed => uses \cap {"other", "loopback"} = {}
    BY DEF AskUses, UsesInterfaceType, PathTypeLooksSensitive
  <1> HIDE DEF names, types, uses
  <1>8. PathAnswer(answer)
    BY <1>4, <1>5, <1>6, <1>7 DEF PathAnswer, filtering, ordinary
  <1>9. told' = {answer}
    BY <1>1 DEF Tell, PathFound, given, names, types, uses
  <1>10. QED
    BY <1>8, <1>9 DEF ReadPath, Tell

(* A level is read on a surface of its own, and free space as above. *)
CapacityAnswer(answer) ==
  answer.shown \in answer.real - (answer.real \div 2)..answer.real

(* A reading of a level tells such an answer. *)
LEMMA LevelRead ==
  ASSUME StillInv, ReadLevel
  PROVE  /\ surface \in Levels /\ UNCHANGED <<surface, seed, now, boot, calls, floors>>
         /\ \E answer : told' = {answer} /\ (surface = "capacity" => CapacityAnswer(answer))
  <1>1. PICK x \in Positions[surface] : told' = {[real |-> x, shown |-> Shown(x)]}
    BY DEF ReadLevel, Tell
  <1>2. ASSUME surface = "capacity"
        PROVE  CapacityAnswer([real |-> x, shown |-> Shown(x)])
    <2>1. x \in Nat
      BY <1>2, LiveAssumption DEF StillInv, LiveAssumption
    <2>2. /\ ~(surface = "battery") /\ ~(surface = "brightness") /\ ~(surface = "volume")
          /\ ~(surface = "motion") /\ ~(surface = "latency")
      BY <1>2
    <2>3. Shown(x) = Bucketed(x)
      BY <1>2, <2>2, Zenon DEF Shown
    <2>4. QED
      BY <2>1, <2>3, RoundedDown DEF CapacityAnswer
  <1>3. QED
    BY <1>1, <1>2 DEF ReadLevel, Tell

-----------------------------------------------------------------------------
(* The one answer the app has is right for the surface it reads. *)
ToldInv ==
  /\ told = {} \/ \E answer : told = {answer}
  /\ surface = "memory" => \A answer \in told : MemoryAnswer(answer)
  /\ surface = "capacity" => \A answer \in told : CapacityAnswer(answer)
  /\ surface = "proxies" => \A answer \in told : ProxyAnswer(answer)
  /\ surface = "paths" => \A answer \in told : PathAnswer(answer)

(* The clock runs for a time that a counter can hold. *)
LEMMA Clock ==
  StartTime \in Nat /\ MaxTime \in StartTime..MaxCounter /\ BootTimes \subseteq Nat
  BY LiveAssumption, Zenon DEF LiveAssumption

(* The surface and the seed never change, and the clock goes on by ticks.  *)
LEMMA StillUnchanged ==
  [Next]_vars => /\ UNCHANGED <<surface, seed, boot>>
                 /\ now' = now \/ (now < MaxTime /\ now' = now + 1)
  <1> SUFFICES ASSUME [Next]_vars
               PROVE  /\ UNCHANGED <<surface, seed, boot>>
                      /\ now' = now \/ (now < MaxTime /\ now' = now + 1)
    OBVIOUS
  <1>1. CASE Discard \/ UNCHANGED vars
    BY <1>1 DEF Discard, vars
  <1>2. CASE ReadLevel
    BY <1>2 DEF ReadLevel, Tell
  <1>3. CASE ReadStatistics64 \/ ReadStatistics \/ ReadAvailableMemory
    BY <1>3 DEF ReadStatistics64, ReadStatistics, ReadAvailableMemory, Tell
  <1>4. CASE \E thread \in Threads :
               Begin(thread) \/ ReadUptime(thread) \/ ShapeRow(thread) \/ Return(thread)
    BY <1>4 DEF Begin, ReadUptime, ShapeRow, Return, Update
  <1>5. CASE Tick
    BY <1>5 DEF Tick
  <1>6. CASE CopyProxies \/ ReadPath \/ AskBootTime
    BY <1>6 DEF CopyProxies, ReadPath, AskBootTime, Tell
  <1>7. QED
    BY <1>1, <1>2, <1>3, <1>4, <1>5, <1>6 DEF Next

(* So it stays in its run. *)
LEMMA StillStep == StillInv /\ [Next]_vars => StillInv'
  BY StillUnchanged, Clock DEF StillInv

(* Each reading leaves a right answer, and no other step leaves one. *)
LEMMA ToldStep == StillInv /\ ToldInv /\ [Next]_vars => ToldInv'
  <1> SUFFICES ASSUME StillInv, ToldInv, [Next]_vars PROVE ToldInv'
    OBVIOUS
  <1>1. CASE Discard
    BY <1>1 DEF Discard, ToldInv
  <1>2. CASE ReadLevel
    BY <1>2, LevelRead DEF ToldInv, Levels
  <1>3. CASE ReadStatistics64 \/ ReadStatistics \/ ReadAvailableMemory
    BY <1>3, MemoryRead DEF ToldInv
  <1>4. CASE \E thread \in Threads :
               Begin(thread) \/ ReadUptime(thread) \/ ShapeRow(thread) \/ Return(thread)
    <2>1. UNCHANGED <<surface, told>>
      BY <1>4 DEF Begin, ReadUptime, ShapeRow, Return, Update
    <2>2. QED
      BY <2>1 DEF ToldInv
  <1>5. CASE Tick
    BY <1>5 DEF Tick, ToldInv
  <1>6. CASE CopyProxies
    BY <1>6, ProxiesRead DEF ToldInv
  <1>7. CASE ReadPath
    BY <1>7, PathsRead DEF ToldInv
  <1>8. CASE AskBootTime
    BY <1>8 DEF AskBootTime, Tell, ToldInv
  <1>9. CASE UNCHANGED vars
    BY <1>9 DEF vars, ToldInv
  <1>10. QED
    BY <1>1, <1>2, <1>3, <1>4, <1>5, <1>6, <1>7, <1>8, <1>9 DEF Next

(* The run begins on a surface of its own, with nothing told. *)
LEMMA ToldInit == Init => StillInv /\ ToldInv
  <1> SUFFICES ASSUME Init PROVE StillInv /\ ToldInv
    OBVIOUS
  <1>1. surface \in Surfaces /\ seed \in SeedsOf[surface] /\ told = {} /\ now = StartTime
    BY DEF Init
  <1>2. boot \in Nat
    <2>1. boot \in BootTimes \/ boot = 0
      BY DEF Init
    <2>2. BootTimes \subseteq Nat
      BY Clock, Zenon
    <2>3. CASE boot \in BootTimes
      BY <2>2, <2>3, Zenon
    <2>4. CASE boot = 0
      BY <2>4
    <2>5. QED
      BY <2>1, <2>3, <2>4, Zenon
  <1>3. now \in StartTime..MaxTime
    BY <1>1, Clock
  <1>4. QED
    BY <1>1, <1>2, <1>3 DEF StillInv, ToldInv

(* Both hold in every state. *)
LEMMA ToldHolds == Spec => [](StillInv /\ ToldInv)
  <1>1. StillInv /\ ToldInv /\ [Next]_vars => (StillInv /\ ToldInv)'
    BY StillStep, ToldStep
  <1>2. QED
    BY <1>1, ToldInit, PTL DEF Spec

(* For every number a seed derives and every value a device has: a counter *)
(* is not shown higher than it is, and free space not above what there is. *)
THEOREM NeverShownMore == Spec => []NeverMore
  <1>1. ToldInv => NeverMore
    BY DEF ToldInv, NeverMore, MemoryAnswer, Bounded, CapOf, CapacityAnswer
  <1>2. QED
    BY <1>1, ToldHolds, PTL

(* Whatever the call filled, failed at or was asked for, the rest of the   *)
(* buffer is as the app left it.                                           *)
THEOREM BuffersKept == Spec => []BufferKept
  <1>1. ToldInv => BufferKept
    BY DEF ToldInv, BufferKept, MemoryAnswer
  <1>2. QED
    BY <1>1, ToldHolds, PTL

(* Whatever allocations fail, no reference to a dictionary is lost or left. *)
THEOREM ReferencesBalance == Spec => []ProxiesBalanced
  <1>1. ToldInv => ProxiesBalanced
    BY DEF ToldInv, ProxiesBalanced, ProxyAnswer
  <1>2. QED
    BY <1>1, ToldHolds, PTL

(* Tunnels stay untold however long the paths and whatever they hold, by   *)
(* each hook that is installed and whichever are not, and hiding them      *)
(* loses no other interface.                                               *)
THEOREM NoTunnelTold == Spec => []TunnelsUntold
  <1>1. ToldInv => TunnelsUntold
    BY DEF ToldInv, TunnelsUntold, ProxyAnswer, PathAnswer
  <1>2. QED
    BY <1>1, ToldHolds, PTL

-----------------------------------------------------------------------------
(* What is shown of each level. *)
LEMMA ShownOfEach ==
  ASSUME NEW x
  PROVE  /\ surface = "battery" => Shown(x) = BatteryLevel(seed, x)
         /\ surface = "brightness" => Shown(x) = Brightness(seed, x)
         /\ surface = "volume" => Shown(x) = OutputVolume(seed, x)
         /\ surface = "motion" => Shown(x) = Motion(seed, x)
         /\ surface = "latency" => Shown(x) = Latency(seed, x)
         /\ surface = "capacity" => Shown(x) = Bucketed(x)
  <1>1. CASE surface = "battery"
    <2>1. Shown(x) = BatteryLevel(seed, x)
      BY <1>1, Zenon DEF Shown
    <2>2. QED
      BY <1>1, <2>1
  <1>2. CASE surface = "brightness"
    <2>1. ~(surface = "battery")
      BY <1>2
    <2>2. Shown(x) = Brightness(seed, x)
      BY <1>2, <2>1, Zenon DEF Shown
    <2>3. QED
      BY <1>2, <2>2
  <1>3. CASE surface = "volume"
    <2>1. ~(surface = "battery") /\ ~(surface = "brightness")
      BY <1>3
    <2>2. Shown(x) = OutputVolume(seed, x)
      BY <1>3, <2>1, Zenon DEF Shown
    <2>3. QED
      BY <1>3, <2>2
  <1>4. CASE surface = "motion"
    <2>1. ~(surface = "battery") /\ ~(surface = "brightness") /\ ~(surface = "volume")
      BY <1>4
    <2>2. Shown(x) = Motion(seed, x)
      BY <1>4, <2>1, Zenon DEF Shown
    <2>3. QED
      BY <1>4, <2>2
  <1>5. CASE surface = "latency"
    <2>1. ~(surface = "battery") /\ ~(surface = "brightness") /\ ~(surface = "volume")
          /\ ~(surface = "motion")
      BY <1>5
    <2>2. Shown(x) = Latency(seed, x)
      BY <1>5, <2>1, Zenon DEF Shown
    <2>3. QED
      BY <1>5, <2>2
  <1>6. CASE surface = "capacity"
    <2>1. /\ ~(surface = "battery") /\ ~(surface = "brightness") /\ ~(surface = "volume")
          /\ ~(surface = "motion") /\ ~(surface = "latency")
      BY <1>6
    <2>2. Shown(x) = Bucketed(x)
      BY <1>6, <2>1, Zenon DEF Shown
    <2>3. QED
      BY <1>6, <2>2
  <1>7. QED
    BY <1>1, <1>2, <1>3, <1>4, <1>5, <1>6

(* On every surface a higher level is not shown lower, and a level of the  *)
(* unit interval is inside it exactly when it is shown there.              *)
LEMMA ShownGrows ==
  ASSUME StillInv, surface \in Levels,
         NEW x \in Positions[surface], NEW y \in Positions[surface], x <= y
  PROVE  /\ Shown(x) <= Shown(y)
         /\ surface \in {"battery", "brightness", "volume"} => Inside(x, Shown(x))
  <1>1. surface \in Surfaces /\ seed \in SeedsOf[surface]
    BY DEF StillInv
  <1>2. /\ Derived(seed, "battery") \in Nat /\ Derived(seed, "brightness") \in Nat
        /\ Derived(seed, "outputVolume") \in Nat /\ Derived(seed, "motion") \in Nat
        /\ Derived(seed, "latency") \in Nat
    BY <1>1, LiveAssumption DEF LiveAssumption
  <1>3. surface \in {"battery", "brightness", "volume"} => Positions[surface] \subseteq 0..100
    BY <1>1, LiveAssumption DEF LiveAssumption
  <1>4. surface \in {"motion", "latency"} => Positions[surface] \subseteq Int
    BY <1>1, LiveAssumption DEF LiveAssumption
  <1>5. surface = "capacity" => Positions[surface] \subseteq Nat
    BY <1>1, LiveAssumption DEF LiveAssumption
  <1>6. CASE surface \in {"battery", "brightness", "volume"}
    <2>1. x \in Nat /\ y \in Nat /\ y <= 100
      BY <1>3, <1>6
    <2>2. CASE surface = "battery"
      <3>1. BatteryLevel(seed, x) <= BatteryLevel(seed, y) /\ Inside(x, BatteryLevel(seed, x))
        BY <1>2, <2>1, BatteryGrows
      <3>2. Shown(x) = BatteryLevel(seed, x) /\ Shown(y) = BatteryLevel(seed, y)
        BY <2>2, ShownOfEach
      <3>3. QED
        BY <3>1, <3>2
    <2>3. CASE surface = "brightness"
      <3>1. 4500 \in Nat /\ 1500 \in Nat /\ 4500 <= 6000 /\ 1500 <= 2000
        OBVIOUS
      <3>2. Brightness(seed, x) <= Brightness(seed, y) /\ Inside(x, Brightness(seed, x))
        BY <1>2, <2>1, <3>1, UnitIntervalGrows DEF Brightness
      <3>3. Shown(x) = Brightness(seed, x) /\ Shown(y) = Brightness(seed, y)
        BY <2>3, ShownOfEach
      <3>4. QED
        BY <3>2, <3>3
    <2>4. CASE surface = "volume"
      <3>1. 4000 \in Nat /\ 1500 \in Nat /\ 4000 <= 6000 /\ 1500 <= 2000
        OBVIOUS
      <3>2. OutputVolume(seed, x) <= OutputVolume(seed, y) /\ Inside(x, OutputVolume(seed, x))
        BY <1>2, <2>1, <3>1, UnitIntervalGrows DEF OutputVolume
      <3>3. Shown(x) = OutputVolume(seed, x) /\ Shown(y) = OutputVolume(seed, y)
        BY <2>4, ShownOfEach
      <3>4. QED
        BY <3>2, <3>3
    <2>5. QED
      BY <1>6, <2>2, <2>3, <2>4
  <1>7. CASE surface = "motion"
    <2>1. x \in Int /\ y \in Int /\ 12000 \in Nat /\ 12000 <= 20000
      BY <1>4, <1>7
    <2>2. Motion(seed, x) <= Motion(seed, y)
      BY <1>2, <2>1, PerturbationGrows DEF Motion
    <2>3. Shown(x) = Motion(seed, x) /\ Shown(y) = Motion(seed, y)
      BY <1>7, ShownOfEach
    <2>4. QED
      BY <1>7, <2>2, <2>3
  <1>8. CASE surface = "latency"
    <2>1. x \in Int /\ y \in Int /\ 20000 \in Nat
      BY <1>4, <1>8
    <2> DEFINE before == SinePerturbation(seed, "latency", x, 20000)
               after == SinePerturbation(seed, "latency", y, 20000)
    <2>2. before \in Int /\ after \in Int /\ before <= after
      BY <1>2, <2>1, PerturbationGrows
    <2>3. Latency(seed, x) = Most(before, 0) /\ Latency(seed, y) = Most(after, 0)
      BY DEF Latency
    <2>4. Shown(x) = Latency(seed, x) /\ Shown(y) = Latency(seed, y)
      BY <1>8, ShownOfEach
    <2> HIDE DEF before, after
    <2>5. QED
      BY <1>8, <2>2, <2>3, <2>4 DEF Most
  <1>9. CASE surface = "capacity"
    <2>1. Bucketed(x) <= Bucketed(y)
      BY <1>5, <1>9, BucketedGrows
    <2>2. Shown(x) = Bucketed(x) /\ Shown(y) = Bucketed(y)
      BY <1>9, ShownOfEach
    <2>3. QED
      BY <1>9, <2>1, <2>2
  <1>10. QED
    BY <1>6, <1>7, <1>8, <1>9 DEF Levels

(* On a level's surface the answer the app has is what the seed shows of   *)
(* a value of the device.                                                  *)
LevelInv ==
  surface \in Levels =>
    \A answer \in told : answer.real \in Positions[surface] /\ answer.shown = Shown(answer.real)

(* A reading leaves such an answer, no other step leaves another one.      *)
LEMMA LevelStep == StillInv /\ LevelInv /\ [Next]_vars => LevelInv'
  <1> SUFFICES ASSUME LevelInv, [Next]_vars, surface' \in Levels PROVE LevelInv'
    BY DEF LevelInv
  <1>1. /\ surface' = surface /\ seed' = seed
        /\ \/ ReadLevel
           \/ told' = told \/ told' = {}
    <2>1. CASE Discard \/ Tick \/ UNCHANGED vars
      BY <2>1 DEF Discard, Tick, vars
    <2>2. CASE ReadLevel
      BY <2>2 DEF ReadLevel, Tell
    <2>3. CASE ReadStatistics64 \/ ReadStatistics \/ ReadAvailableMemory
      BY <2>3 DEF ReadStatistics64, ReadStatistics, ReadAvailableMemory, Tell, Levels
    <2>4. CASE \E thread \in Threads :
                 Begin(thread) \/ ReadUptime(thread) \/ ShapeRow(thread) \/ Return(thread)
      BY <2>4 DEF Begin, ReadUptime, ShapeRow, Return, Update
    <2>5. CASE CopyProxies \/ ReadPath \/ AskBootTime
      BY <2>5 DEF CopyProxies, ReadPath, AskBootTime, Tell, Levels
    <2>6. QED
      BY <2>1, <2>2, <2>3, <2>4, <2>5 DEF Next
  <1>2. \A x : Shown(x)' = Shown(x)
    BY <1>1, Zenon DEF Shown
  <1>3. CASE ReadLevel
    <2>1. PICK x \in Positions[surface] : told' = {[real |-> x, shown |-> Shown(x)]}
      BY <1>3 DEF ReadLevel, Tell
    <2>2. QED
      BY <1>1, <1>2, <2>1 DEF LevelInv
  <1>4. CASE told' = told \/ told' = {}
    BY <1>1, <1>2, <1>4 DEF LevelInv
  <1>5. QED
    BY <1>1, <1>3, <1>4

(* Whatever a seed derives, for every curve it may pick and every value of *)
(* a device: a value that rises or stays is never shown falling, and full  *)
(* and empty are shown exactly then.                                       *)
THEOREM OrderAlwaysKept == Spec => OrderKept
  <1> DEFINE Step == /\ \A before \in told, after \in told' :
                          surface \in Levels /\ before.real <= after.real => before.shown <= after.shown
                     /\ \A after \in told' :
                          surface \in {"battery", "brightness", "volume"}
                            => /\ (after.real = 0) = (after.shown = 0)
                               /\ (after.real = 100) = (after.shown = 1000000)
  <1>1. Init => LevelInv
    BY DEF Init, LevelInv
  <1>2. StillInv /\ LevelInv /\ LevelInv' /\ [Next]_vars => [Step]_vars
    <2> SUFFICES ASSUME StillInv, LevelInv, LevelInv', Next PROVE Step
      BY DEF vars
    <2>1. StillInv' /\ surface' = surface /\ seed' = seed
      BY StillStep, StillUnchanged
    <2>2. \A x : Shown(x)' = Shown(x)
      BY <2>1, Zenon DEF Shown
    <2>3. ASSUME surface \in Levels, NEW after \in told'
          PROVE  after.real \in Positions[surface] /\ after.shown = Shown(after.real)
      BY <2>1, <2>2, <2>3 DEF LevelInv
    <2>4. ASSUME surface \in Levels, NEW before \in told, NEW after \in told', before.real <= after.real
          PROVE  before.shown <= after.shown
      BY <2>3, <2>4, ShownGrows DEF LevelInv
    <2>5. ASSUME surface \in {"battery", "brightness", "volume"}, NEW after \in told'
          PROVE  Inside(after.real, after.shown)
      <3>1. surface \in Levels /\ after.real \in Positions[surface] /\ after.shown = Shown(after.real)
        BY <2>3, <2>5 DEF Levels
      <3>2. after.real <= after.real
        <4>1. Positions[surface] \subseteq 0..100
          BY <2>5, LiveAssumption DEF LiveAssumption, StillInv
        <4>2. QED
          BY <3>1, <4>1
      <3>3. QED
        BY <2>5, <3>1, <3>2, ShownGrows
    <2>6. QED
      BY <2>4, <2>5, SMT DEF Inside
  <1>3. StillInv /\ LevelInv /\ [Next]_vars => (StillInv /\ LevelInv)'
    BY StillStep, LevelStep
  <1>4. QED
    BY <1>1, <1>2, <1>3, ToldInit, PTL DEF Spec, OrderKept

-----------------------------------------------------------------------------
(* The two rows of the list. *)
LEMMA ListRows ==
  /\ Rows = {"lo0", "en0"} /\ List[1] = "lo0" /\ List[2] = "en0"
  /\ Traffic = {"ibytes", "obytes", "ipackets", "opackets"}
  BY DEF Rows, List, Traffic

(* What en0 shows at an uptime, and what it shows to a call that reads the *)
(* uptime at a moment.                                                     *)
AtUptime(s, uptime) ==
  [ibytes |-> SyntheticBytes(s, "en0", "ibytes", uptime),
   obytes |-> SyntheticBytes(s, "en0", "obytes", uptime),
   ipackets |-> SyntheticPackets(s, "en0", "ipackets", SyntheticBytes(s, "en0", "ibytes", uptime)),
   opackets |-> SyntheticPackets(s, "en0", "opackets", SyntheticBytes(s, "en0", "obytes", uptime))]

Grown(moment) == AtUptime(seed, UptimeSeconds(boot, moment))

(* The loopback shows the original's traffic, and en0 what the uptime gives. *)
LEMMA RowTraffic ==
  ASSUME NEW row, NEW original, NEW uptime, NEW moment
  PROVE  /\ row = "lo0" => CounterData(seed, row, original, uptime, moment).traffic = original
         /\ row = "en0" =>
              CounterData(seed, row, original, uptime, moment).traffic = AtUptime(seed, uptime)
         /\ CounterData(seed, row, original, uptime, moment).lastchange = LastChange(uptime, moment)
  BY DEF CounterData, AtUptime

(* The bytes of a longer uptime are no fewer, up to where they are cut. *)
LEMMA BytesGrow ==
  ASSUME NEW s, NEW name, NEW field, Derived(s, <<name, field>>) \in Nat,
         NEW u \in Nat, NEW v \in Nat, u <= v
  PROVE  /\ SyntheticBytes(s, name, field, u) \in 0..MaxCounter
         /\ SyntheticBytes(s, name, field, u) <= SyntheticBytes(s, name, field, v)
  <1> DEFINE some(upperBound) == Derived(s, <<name, field>>) % upperBound
             rate == RateBase + some(RateSpread)
             step == 1 + some(WobbleSpread)
             base == ByteBase + some(ByteSpread)
             sum(w) == base + (rate * w) + ((w \div WobbleEvery) * step)
  <1>1. /\ ByteBase \in Nat /\ RateBase \in Nat /\ MaxCounter \in Nat
        /\ ByteSpread \in Nat \ {0} /\ RateSpread \in Nat \ {0}
        /\ WobbleSpread \in Nat \ {0} /\ WobbleEvery \in Nat \ {0}
    BY RowsAssumption DEF RowsAssumption
  <1>2. \A b \in Nat \ {0} : some(b) \in Nat
    BY Remainder
  <1>3. rate \in Nat /\ step \in Nat /\ base \in Nat
    BY <1>1, <1>2
  <1>4. \A w : SyntheticBytes(s, name, field, w) = ClampU32(sum(w))
    BY DEF SyntheticBytes, DeriveCounterBounded, DeriveBounded
  <1> HIDE DEF rate, step, base
  <1>5. rate * u \in Nat /\ rate * u <= rate * v
    BY <1>3, ProductGrows
  <1>6. u \div WobbleEvery \in Nat /\ v \div WobbleEvery \in Nat
        /\ u \div WobbleEvery <= v \div WobbleEvery
    BY <1>1, QuotientNat, QuotientGrows
  <1>7. (u \div WobbleEvery) * step \in Nat
        /\ (u \div WobbleEvery) * step <= (v \div WobbleEvery) * step
    BY <1>3, <1>6
  <1>8. rate * v \in Nat /\ (v \div WobbleEvery) * step \in Nat
    BY <1>3, <1>6
  <1>9. sum(u) \in Nat /\ sum(v) \in Nat /\ sum(u) <= sum(v)
    BY <1>3, <1>5, <1>7, <1>8
  <1> HIDE DEF sum
  <1>10. QED
    BY <1>1, <1>4, <1>9 DEF ClampU32, Least

(* So are the packets, which are counted from the bytes. *)
LEMMA PacketsGrow ==
  ASSUME NEW s, NEW name, NEW field, Derived(s, <<name, field>>) \in Nat,
         NEW a \in 0..MaxCounter, NEW b \in 0..MaxCounter, a <= b
  PROVE  /\ SyntheticPackets(s, name, field, a) \in 0..MaxCounter
         /\ SyntheticPackets(s, name, field, a) <= SyntheticPackets(s, name, field, b)
  <1> DEFINE size == PacketBase + (Derived(s, <<name, field>>) % PacketSpread)
  <1>1. PacketBase \in Nat \ {0} /\ PacketSpread \in Nat \ {0} /\ MaxCounter \in Nat
    BY RowsAssumption DEF RowsAssumption
  <1>2. Derived(s, <<name, field>>) % PacketSpread \in Nat
    BY <1>1, Remainder
  <1>3. size \in Nat \ {0}
    BY <1>1, <1>2
  <1>4. \A c : SyntheticPackets(s, name, field, c) = c \div size
    BY DEF SyntheticPackets, DeriveCounterBounded, DeriveBounded
  <1> HIDE DEF size
  <1>5. a \in Nat /\ b \in Nat
    BY <1>1
  <1>6. a \div size \in Nat /\ a \div size <= b \div size
    BY <1>3, <1>5, QuotientNat, QuotientGrows
  <1>7. a \div size <= a
    BY <1>3, <1>5
  <1>8. QED
    BY <1>1, <1>4, <1>5, <1>6, <1>7

(* What a call shows of en0 is in 32 bits and no less than what a call     *)
(* that read the uptime before it shows.                                   *)
LEMMA GrownGrows ==
  ASSUME StillInv, NEW p \in Nat, NEW q \in Nat, p <= q, NEW field \in Traffic
  PROVE  /\ Grown(p)[field] \in 0..MaxCounter
         /\ Grown(p)[field] <= Grown(q)[field]
  <1> DEFINE u == UptimeSeconds(boot, p)
             v == UptimeSeconds(boot, q)
  <1>1. u \in Nat /\ v \in Nat /\ u <= v
    BY DEF StillInv, UptimeSeconds
  <1>2. \A f \in Traffic : Derived(seed, <<"en0", f>>) \in Nat
    BY LiveAssumption, ListRows DEF StillInv, LiveAssumption
  <1> HIDE DEF u, v
  <1>3. \A f \in {"ibytes", "obytes"} :
          /\ SyntheticBytes(seed, "en0", f, u) \in 0..MaxCounter
          /\ SyntheticBytes(seed, "en0", f, v) \in 0..MaxCounter
          /\ SyntheticBytes(seed, "en0", f, u) <= SyntheticBytes(seed, "en0", f, v)
    BY <1>1, <1>2, BytesGrow, ListRows
  <1>4. /\ Derived(seed, <<"en0", "ipackets">>) \in Nat
        /\ Derived(seed, <<"en0", "opackets">>) \in Nat
    BY <1>2, ListRows
  <1>5. /\ AtUptime(seed, u)[field] \in 0..MaxCounter
        /\ AtUptime(seed, u)[field] <= AtUptime(seed, v)[field]
    <2>1. CASE field \in {"ibytes", "obytes"}
      BY <1>3, <2>1 DEF AtUptime
    <2>2. CASE field = "ipackets"
      BY <1>3, <1>4, <2>2, PacketsGrow DEF AtUptime
    <2>3. CASE field = "opackets"
      BY <1>3, <1>4, <2>3, PacketsGrow DEF AtUptime
    <2>4. QED
      BY <2>1, <2>2, <2>3, ListRows
  <1>6. QED
    BY <1>5 DEF Grown, u, v

-----------------------------------------------------------------------------
(* A call of a thread is a record with these fields. *)
IsCall(call) ==
  call = [at |-> call.at, uptime |-> call.uptime, began |-> call.began,
          original |-> call.original, rows |-> call.rows, floor |-> call.floor]

(* What lists showed before the call began is no more than its loopback    *)
(* row, and no more than en0 shows at the uptime it has read or is to read.*)
CallFloor(call, moment) ==
  call.at # "idle" =>
    \A field \in Traffic :
      /\ call.original[field] \in 0..moment
      /\ call.floor["lo0"][field] \in 0..call.original[field]
      /\ call.floor["en0"][field] \in Nat
      /\ call.floor["en0"][field]
           <= Grown(IF call.at = "rows" THEN call.began ELSE moment)[field]

(* The rows that are shaped, in order and from the uptime of the call.     *)
CallRows(call, moment) ==
  /\ DOMAIN call.rows \in {{}, {"lo0"}, {"lo0", "en0"}}
  /\ call.at # "rows" => DOMAIN call.rows = {}
  /\ call.at = "rows" => call.began \in 0..moment /\ call.uptime = UptimeSeconds(boot, call.began)
  /\ "lo0" \in DOMAIN call.rows => call.rows["lo0"].traffic = call.original
  /\ "en0" \in DOMAIN call.rows => call.rows["en0"].traffic = AtUptime(seed, call.uptime)
  /\ \A row \in DOMAIN call.rows :
       IF boot = 0 \/ call.began <= boot THEN call.rows[row].lastchange = 0
       ELSE call.rows[row].lastchange \in boot..boot + (moment - call.began)

CallOK(call, moment) ==
  /\ IsCall(call)
  /\ call.at \in {"idle", "boot", "rows"} /\ call.uptime \in 0..MaxTime
  /\ CallFloor(call, moment) /\ CallRows(call, moment)

(* What lists that were returned have shown, the clock allows to show now. *)
FloorsOK(moment) ==
  /\ floors \in [Rows -> [Traffic -> 0..MaxCounter]]
  /\ \A field \in Traffic : /\ floors["lo0"][field] <= moment
                            /\ floors["en0"][field] <= Grown(moment)[field]

CallsInv ==
  /\ FloorsOK(now)
  /\ calls = [thread \in Threads |-> calls[thread]]
  /\ \A thread \in Threads : CallOK(calls[thread], now)

(* The moments of a run are numbers. *)
LEMMA Moments ==
  ASSUME StillInv
  PROVE  /\ now \in Nat /\ MaxTime \in Nat /\ now <= MaxTime /\ boot \in Nat
         /\ MaxCounter \in Nat /\ MaxTime <= MaxCounter
         /\ \A moment \in Nat : UptimeSeconds(boot, moment) \in 0..moment
  BY LiveAssumption, RowsAssumption DEF StillInv, LiveAssumption, RowsAssumption, UptimeSeconds

(* What holds of a call and of the floors still holds when time has passed. *)
LEMMA TimePasses ==
  ASSUME StillInv, NEW p \in Nat, NEW q \in Nat, p <= q
  PROVE  /\ \A call : CallOK(call, p) => CallOK(call, q)
         /\ FloorsOK(p) => FloorsOK(q)
  <1>1. \A field \in Traffic :
          /\ Grown(p)[field] \in Nat /\ Grown(q)[field] \in Nat
          /\ Grown(p)[field] <= Grown(q)[field]
    <2>1. MaxCounter \in Nat
      BY Moments
    <2>2. QED
      BY <2>1, GrownGrows
  <1>2. ASSUME NEW call, CallOK(call, p)
        PROVE  CallOK(call, q)
    <2>1. CallFloor(call, q)
      <3>1. SUFFICES ASSUME call.at # "idle", NEW field \in Traffic
                     PROVE  /\ call.original[field] \in 0..q
                            /\ call.floor["lo0"][field] \in 0..call.original[field]
                            /\ call.floor["en0"][field] \in Nat
                            /\ call.floor["en0"][field]
                                 <= Grown(IF call.at = "rows" THEN call.began ELSE q)[field]
        BY DEF CallFloor
      <3>2. /\ call.original[field] \in 0..p
            /\ call.floor["lo0"][field] \in 0..call.original[field]
            /\ call.floor["en0"][field] \in Nat
            /\ call.floor["en0"][field]
                 <= Grown(IF call.at = "rows" THEN call.began ELSE p)[field]
        BY <1>2, <3>1 DEF CallOK, CallFloor
      <3>3. CASE call.at = "rows"
        BY <3>2, <3>3
      <3>4. CASE call.at # "rows"
        BY <1>1, <3>2, <3>4
      <3>5. QED
        BY <3>3, <3>4
    <2>2. CallRows(call, q)
      <3>1. CallRows(call, p)
        BY <1>2 DEF CallOK
      <3>2. ASSUME NEW row \in DOMAIN call.rows, ~(boot = 0 \/ call.began <= boot)
            PROVE  call.rows[row].lastchange \in boot..boot + (q - call.began)
        <4>1. call.at = "rows" /\ call.began \in 0..p
          BY <3>1 DEF CallRows
        <4>2. call.rows[row].lastchange \in boot..boot + (p - call.began)
          BY <3>1, <3>2 DEF CallRows
        <4>3. QED
          BY <4>1, <4>2, Moments
      <3>3. QED
        BY <3>1, <3>2 DEF CallRows
    <2>3. QED
      BY <1>2, <2>1, <2>2 DEF CallOK
  <1>3. ASSUME FloorsOK(p)
        PROVE  FloorsOK(q)
    <2>1. floors \in [Rows -> [Traffic -> 0..MaxCounter]]
      BY <1>3 DEF FloorsOK
    <2>2. \A field \in Traffic : /\ floors["lo0"][field] \in Nat /\ floors["en0"][field] \in Nat
                                 /\ floors["lo0"][field] <= p
                                 /\ floors["en0"][field] <= Grown(p)[field]
      BY <1>3, <2>1, ListRows, Moments DEF FloorsOK
    <2>3. QED
      BY <1>1, <2>1, <2>2 DEF FloorsOK
  <1>4. QED
    BY <1>2, <1>3

(* A step of one call leaves the others and the floors alone. *)
LEMMA CallStep ==
  ASSUME StillInv, CallsInv, NEW thread \in Threads, NEW call,
         calls' = [calls EXCEPT ![thread] = call], CallOK(call, now),
         UNCHANGED <<seed, boot, now, floors>>
  PROVE  CallsInv'
  <1>1. /\ calls' = [t \in Threads |-> calls'[t]]
        /\ \A t \in Threads : calls'[t] = IF t = thread THEN call ELSE calls[t]
    BY DEF CallsInv
  <1>2. \A t \in Threads : CallOK(calls'[t], now)
    BY <1>1 DEF CallsInv
  <1>3. \A t \in Threads : CallOK(calls[t], now)'
    BY <1>2 DEF CallOK, CallFloor, CallRows, IsCall, Grown
  <1>4. FloorsOK(now)'
    BY DEF CallsInv, FloorsOK, Grown
  <1>5. QED
    BY <1>1, <1>3, <1>4 DEF CallsInv

(* What the first two steps of a call set of its record. *)
Begun(c, x, y, z) == [c EXCEPT !.at = x, !.floor = y, !.original = z]
Dated(c, x, y, z) == [c EXCEPT !.at = x, !.began = y, !.uptime = z]

(* The fields of both. *)
LEMMA BegunFields ==
  ASSUME NEW c, IsCall(c), NEW x, NEW y, NEW z
  PROVE  /\ Begun(c, x, y, z)
              = [at |-> x, uptime |-> c.uptime, began |-> c.began, original |-> z,
                 rows |-> c.rows, floor |-> y]
         /\ Dated(c, x, y, z)
              = [at |-> x, uptime |-> z, began |-> y, original |-> c.original,
                 rows |-> c.rows, floor |-> c.floor]
  <1>0. PICK u, b, o, r, f : u = c.uptime /\ b = c.began /\ o = c.original /\ r = c.rows /\ f = c.floor
    OBVIOUS
  <1> DEFINE first == [at |-> x, uptime |-> u, began |-> b, original |-> o, rows |-> r, floor |-> f]
             second == [at |-> x, uptime |-> u, began |-> b, original |-> o, rows |-> r, floor |-> y]
             third == [at |-> x, uptime |-> u, began |-> y, original |-> o, rows |-> r, floor |-> f]
  <1>1. [c EXCEPT !.at = x] = first
    BY <1>0 DEF IsCall
  <1>2. [first EXCEPT !.floor = y] = second
    OBVIOUS
  <1>3. [first EXCEPT !.began = y] = third
    OBVIOUS
  <1>4. [second EXCEPT !.original = z]
          = [at |-> x, uptime |-> u, began |-> b, original |-> z, rows |-> r, floor |-> y]
    OBVIOUS
  <1>5. [third EXCEPT !.uptime = z]
          = [at |-> x, uptime |-> z, began |-> y, original |-> o, rows |-> r, floor |-> f]
    OBVIOUS
  <1>6. Begun(c, x, y, z) = [[[c EXCEPT !.at = x] EXCEPT !.floor = y] EXCEPT !.original = z]
    BY DEF Begun
  <1>7. Dated(c, x, y, z) = [[[c EXCEPT !.at = x] EXCEPT !.began = y] EXCEPT !.uptime = z]
    BY DEF Dated
  <1> HIDE DEF first, second, third
  <1>8. QED
    BY <1>0, <1>1, <1>2, <1>3, <1>4, <1>5, <1>6, <1>7

(* A call begins with the floors of the moment, below its loopback row. *)
LEMMA BeginCalls ==
  ASSUME StillInv, CallsInv, NEW thread \in Threads, Begin(thread)
  PROVE  CallsInv'
  <1> DEFINE call == [at |-> "boot", uptime |-> 0, began |-> 0,
                      original |-> [field \in Traffic |-> now], rows |-> << >>, floor |-> floors]
  <1>1. [Idle EXCEPT !.at = "boot", !.floor = floors,
                     !.original = [field \in Traffic |-> now]] = call
    <2>1. IsCall(Idle) /\ Idle.uptime = 0 /\ Idle.began = 0 /\ Idle.rows = << >>
      BY DEF IsCall, Idle
    <2>2. [Idle EXCEPT !.at = "boot", !.floor = floors,
                       !.original = [field \in Traffic |-> now]]
            = Begun(Idle, "boot", floors, [field \in Traffic |-> now])
      BY DEF Begun
    <2>3. QED
      BY <2>1, <2>2, BegunFields
  <1>2. calls' = [calls EXCEPT ![thread] = call] /\ UNCHANGED <<seed, boot, now, floors>>
    BY <1>1 DEF Begin, Update
  <1>3. call.at = "boot" /\ call.uptime = 0 /\ DOMAIN call.rows = {} /\ call.floor = floors
        /\ \A field \in Traffic : call.original[field] = now
    OBVIOUS
  <1>4. IsCall(call)
    BY DEF IsCall
  <1> HIDE DEF call
  <1>5. CallFloor(call, now)
    <2>1. \A field \in Traffic : /\ floors["lo0"][field] \in 0..now
                                 /\ floors["en0"][field] \in Nat
                                 /\ floors["en0"][field] <= Grown(now)[field]
      BY ListRows, Moments DEF CallsInv, FloorsOK
    <2>2. QED
      BY <1>3, <2>1, Moments DEF CallFloor
  <1>6. CallRows(call, now)
    BY <1>3 DEF CallRows
  <1>7. CallOK(call, now)
    BY <1>3, <1>4, <1>5, <1>6, Moments DEF CallOK
  <1>8. QED
    BY <1>2, <1>7, CallStep

(* The uptime is that of this moment. *)
LEMMA UptimeCalls ==
  ASSUME StillInv, CallsInv, NEW thread \in Threads, ReadUptime(thread)
  PROVE  CallsInv'
  <1>0. PICK c : c = calls[thread]
    OBVIOUS
  <1> DEFINE call == [at |-> "rows", uptime |-> UptimeSeconds(boot, now), began |-> now,
                      original |-> c.original, rows |-> c.rows, floor |-> c.floor]
  <1>1. c.at = "boot" /\ CallOK(c, now)
    BY <1>0 DEF ReadUptime, CallsInv
  <1>2. c = [at |-> c.at, uptime |-> c.uptime, began |-> c.began,
             original |-> c.original, rows |-> c.rows, floor |-> c.floor]
    BY <1>1 DEF CallOK, IsCall
  <1>3. [c EXCEPT !.at = "rows", !.began = now, !.uptime = UptimeSeconds(boot, now)] = call
    <2>1. [c EXCEPT !.at = "rows", !.began = now, !.uptime = UptimeSeconds(boot, now)]
            = Dated(c, "rows", now, UptimeSeconds(boot, now))
      BY DEF Dated
    <2>2. QED
      BY <1>1, <2>1, BegunFields DEF CallOK
  <1>4. calls' = [calls EXCEPT ![thread] = call] /\ UNCHANGED <<seed, boot, now, floors>>
    BY <1>0, <1>3 DEF ReadUptime, Update
  <1>5. /\ call.at = "rows" /\ call.began = now /\ call.uptime = UptimeSeconds(boot, now)
        /\ call.original = c.original /\ call.floor = c.floor /\ DOMAIN call.rows = {}
    BY <1>1 DEF CallOK, CallRows
  <1>6. IsCall(call)
    BY DEF IsCall
  <1> HIDE DEF call
  <1>7. CallFloor(call, now)
    BY <1>1, <1>5 DEF CallOK, CallFloor
  <1>8. CallRows(call, now)
    BY <1>5, Moments DEF CallRows
  <1>9. UptimeSeconds(boot, now) \in 0..MaxTime
    BY Moments
  <1>10. CallOK(call, now)
    BY <1>5, <1>6, <1>7, <1>8, <1>9 DEF CallOK
  <1>11. QED
    BY <1>4, <1>10, CallStep

(* The next row of the list is shaped from the uptime the call has read.   *)
LEMMA ShapeCalls ==
  ASSUME StillInv, CallsInv, NEW thread \in Threads, ShapeRow(thread)
  PROVE  CallsInv'
  <1>0. PICK c : c = calls[thread]
    OBVIOUS
  <1>1. PICK row : row = List[Cardinality(DOMAIN c.rows) + 1]
    OBVIOUS
  <1> DEFINE shaped == CounterData(seed, row, c.original, c.uptime, now)
             rows == [name \in DOMAIN c.rows \cup {row} |-> IF name = row THEN shaped ELSE c.rows[name]]
             call == [at |-> c.at, uptime |-> c.uptime, began |-> c.began,
                      original |-> c.original, rows |-> rows, floor |-> c.floor]
  <1>2. c.at = "rows" /\ DOMAIN c.rows # Rows /\ CallOK(c, now)
    BY <1>0 DEF ShapeRow, CallsInv
  <1>3. c = [at |-> c.at, uptime |-> c.uptime, began |-> c.began,
             original |-> c.original, rows |-> c.rows, floor |-> c.floor]
    BY <1>2 DEF CallOK, IsCall
  <1>4. WithRow(c, row) = call
    <2>1. WithRow(c, row) = [c EXCEPT !.rows = rows]
      BY DEF WithRow
    <2> HIDE DEF rows
    <2>2. QED
      BY <1>3, <2>1
  <1>5. calls' = [calls EXCEPT ![thread] = call] /\ UNCHANGED <<seed, boot, now, floors>>
    <2>1. calls' = [calls EXCEPT ![thread] = WithRow(c, row)]
      BY <1>0, <1>1 DEF ShapeRow, Update
    <2>2. QED
      BY <1>4, <2>1 DEF ShapeRow, Update
  <1>6. \/ DOMAIN c.rows = {} /\ row = "lo0"
        \/ DOMAIN c.rows = {"lo0"} /\ row = "en0"
    <2>1. Cardinality({}) = 0 /\ Cardinality({"lo0"}) = 1
      BY FS_EmptySet, FS_Singleton
    <2>2. DOMAIN c.rows = {} \/ DOMAIN c.rows = {"lo0"}
      BY <1>2, ListRows DEF CallOK, CallRows
    <2>3. QED
      BY <1>1, <2>1, <2>2, ListRows
  <1>7. /\ DOMAIN rows = DOMAIN c.rows \cup {row} /\ rows[row] = shaped
        /\ \A name \in DOMAIN c.rows : name # row => rows[name] = c.rows[name]
    OBVIOUS
  <1>8. /\ row = "lo0" => shaped.traffic = c.original
        /\ row = "en0" => shaped.traffic = AtUptime(seed, c.uptime)
        /\ shaped.lastchange = LastChange(c.uptime, now)
    BY RowTraffic
  <1> HIDE DEF shaped, rows
  <1>9. /\ call.at = "rows" /\ call.began = c.began /\ call.uptime = c.uptime
        /\ call.original = c.original /\ call.floor = c.floor /\ call.rows = rows
    BY <1>2
  <1>10. IsCall(call)
    BY DEF IsCall
  <1> HIDE DEF call
  <1>11. CallFloor(call, now)
    BY <1>2, <1>9 DEF CallOK, CallFloor
  <1>12. c.began \in 0..now /\ c.uptime = UptimeSeconds(boot, c.began)
    BY <1>2 DEF CallOK, CallRows
  <1>13. IF boot = 0 \/ c.began <= boot THEN shaped.lastchange = 0
         ELSE shaped.lastchange \in boot..boot + (now - c.began)
    BY <1>8, <1>12, Moments DEF LastChange, UptimeSeconds
  <1>14. CallRows(call, now)
    <2>1. DOMAIN call.rows \in {{"lo0"}, {"lo0", "en0"}}
      BY <1>6, <1>7, <1>9
    <2>2. "lo0" \in DOMAIN call.rows => call.rows["lo0"].traffic = call.original
      BY <1>2, <1>6, <1>7, <1>8, <1>9 DEF CallOK, CallRows
    <2>3. "en0" \in DOMAIN call.rows => call.rows["en0"].traffic = AtUptime(seed, call.uptime)
      BY <1>6, <1>7, <1>8, <1>9
    <2>4. ASSUME NEW name \in DOMAIN call.rows
          PROVE  IF boot = 0 \/ call.began <= boot THEN call.rows[name].lastchange = 0
                 ELSE call.rows[name].lastchange \in boot..boot + (now - call.began)
      BY <1>2, <1>7, <1>9, <1>13 DEF CallOK, CallRows
    <2>5. QED
      BY <1>9, <1>12, <2>1, <2>2, <2>3, <2>4 DEF CallRows
  <1>15. CallOK(call, now)
    BY <1>2, <1>9, <1>10, <1>11, <1>14 DEF CallOK
  <1>16. QED
    BY <1>5, <1>15, CallStep

(* A list that is returned shows no more than the moment allows. *)
LEMMA ReturnCalls ==
  ASSUME StillInv, CallsInv, NEW thread \in Threads, Return(thread)
  PROVE  CallsInv'
  <1>0. PICK c : c = calls[thread]
    OBVIOUS
  <1>1. DOMAIN c.rows = {"lo0", "en0"} /\ CallOK(c, now)
    BY <1>0, ListRows DEF Return, CallsInv
  <1>2. c.at = "rows" /\ c.began \in Nat /\ c.began <= now /\ c.uptime = UptimeSeconds(boot, c.began)
    BY <1>1, Moments DEF CallOK, CallRows
  <1>3. ASSUME NEW field \in Traffic
        PROVE  /\ c.rows["lo0"].traffic[field] \in 0..now
               /\ c.rows["en0"].traffic[field] \in 0..MaxCounter
               /\ c.rows["en0"].traffic[field] <= Grown(now)[field]
    <2>1. c.rows["lo0"].traffic[field] \in 0..now
      BY <1>1, <1>2 DEF CallOK, CallRows, CallFloor
    <2>2. c.rows["en0"].traffic[field] = Grown(c.began)[field]
      BY <1>1, <1>2 DEF CallOK, CallRows, Grown
    <2>3. QED
      BY <1>2, <2>1, <2>2, GrownGrows, Moments
  <1>4. /\ floors' \in [Rows -> [Traffic -> 0..MaxCounter]]
        /\ \A field \in Traffic : /\ floors'["lo0"][field] <= now
                                  /\ floors'["en0"][field] <= Grown(now)[field]
    <2> DEFINE new == [row \in Rows |->
                         [field \in Traffic |-> Most(floors[row][field], c.rows[row].traffic[field])]]
    <2>1. floors' = new
      BY <1>0 DEF Return
    <2>2. ASSUME NEW field \in Traffic
          PROVE  /\ new["lo0"][field] = Most(floors["lo0"][field], c.rows["lo0"].traffic[field])
                 /\ new["en0"][field] = Most(floors["en0"][field], c.rows["en0"].traffic[field])
      BY ListRows
    <2>3. ASSUME NEW field \in Traffic
          PROVE  /\ floors["lo0"][field] \in 0..MaxCounter /\ floors["lo0"][field] <= now
                 /\ floors["en0"][field] \in 0..MaxCounter
                 /\ floors["en0"][field] <= Grown(now)[field]
      BY ListRows DEF CallsInv, FloorsOK
    <2>4. ASSUME NEW field \in Traffic
          PROVE  /\ new["lo0"][field] \in 0..MaxCounter /\ new["lo0"][field] <= now
                 /\ new["en0"][field] \in 0..MaxCounter
                 /\ new["en0"][field] <= Grown(now)[field]
      BY <1>3, <2>2, <2>3, Moments DEF Most
    <2>5. \A row \in Rows : \A field \in Traffic : new[row][field] \in 0..MaxCounter
      BY <2>4, ListRows
    <2>6. new \in [Rows -> [Traffic -> 0..MaxCounter]]
      BY <2>5
    <2>7. QED
      BY <2>1, <2>4, <2>6
  <1>5. UNCHANGED <<seed, boot, now>> /\ calls' = [calls EXCEPT ![thread] = Idle]
    BY DEF Return
  <1>6. FloorsOK(now)'
    BY <1>4, <1>5 DEF FloorsOK, Grown
  <1>7. CallOK(Idle, now)
    <2>1. /\ Idle.at = "idle" /\ Idle.uptime = 0 /\ DOMAIN Idle.rows = {} /\ IsCall(Idle)
      BY DEF Idle, IsCall
    <2>2. QED
      BY <2>1, Moments DEF CallOK, CallFloor, CallRows
  <1>8. /\ calls' = [t \in Threads |-> calls'[t]]
        /\ \A t \in Threads : calls'[t] = IF t = thread THEN Idle ELSE calls[t]
    BY <1>5 DEF CallsInv
  <1>9. \A t \in Threads : CallOK(calls'[t], now)
    BY <1>7, <1>8 DEF CallsInv
  <1>10. \A t \in Threads : CallOK(calls[t], now)'
    BY <1>5, <1>9 DEF CallOK, CallFloor, CallRows, IsCall, Grown
  <1>11. QED
    BY <1>6, <1>8, <1>10 DEF CallsInv

(* Nothing is begun and nothing was returned at the start. *)
LEMMA CallsInit == Init => CallsInv
  <1> SUFFICES ASSUME Init PROVE CallsInv
    OBVIOUS
  <1>1. StillInv
    BY ToldInit
  <1>2. \A field \in Traffic : Grown(now)[field] \in 0..MaxCounter
    BY <1>1, GrownGrows, Moments
  <1>3. FloorsOK(now)
    <2>1. floors = [row \in Rows |-> [field \in Traffic |-> 0]]
      BY DEF Init, NoTraffic
    <2>2. \A row \in Rows : \A field \in Traffic : floors[row][field] = 0
      BY <2>1
    <2>3. floors \in [Rows -> [Traffic -> 0..MaxCounter]]
      BY <1>1, <2>1, Moments
    <2>4. QED
      BY <1>1, <1>2, <2>2, <2>3, ListRows, Moments DEF FloorsOK
  <1>4. CallOK(Idle, now)
    <2>1. /\ Idle.at = "idle" /\ Idle.uptime = 0 /\ DOMAIN Idle.rows = {} /\ IsCall(Idle)
      BY DEF Idle, IsCall
    <2>2. QED
      BY <1>1, <2>1, Moments DEF CallOK, CallFloor, CallRows
  <1>5. calls = [thread \in Threads |-> Idle]
    BY DEF Init
  <1>6. QED
    BY <1>3, <1>4, <1>5 DEF CallsInv

(* Calls of any number of threads keep to it, whatever the clock does. *)
LEMMA CallsStep == StillInv /\ CallsInv /\ [Next]_vars => CallsInv'
  <1> SUFFICES ASSUME StillInv, CallsInv, [Next]_vars PROVE CallsInv'
    OBVIOUS
  <1>1. ASSUME NEW thread \in Threads, Begin(thread) \/ ReadUptime(thread)
                                         \/ ShapeRow(thread) \/ Return(thread)
        PROVE  CallsInv'
    BY <1>1, BeginCalls, UptimeCalls, ShapeCalls, ReturnCalls
  <1>2. CASE Tick
    <2>1. UNCHANGED <<seed, boot, calls, floors>> /\ now' = now + 1
      BY <1>2 DEF Tick
    <2> DEFINE q == now + 1
    <2>2. now \in Nat /\ q \in Nat /\ now <= q /\ now' = q
      BY <2>1, Moments
    <2> HIDE DEF q
    <2>3. FloorsOK(q) /\ \A thread \in Threads : CallOK(calls[thread], q)
      BY <2>2, TimePasses DEF CallsInv
    <2>4. FloorsOK(now)'
      BY <2>1, <2>2, <2>3 DEF FloorsOK, Grown
    <2>5. \A thread \in Threads : CallOK(calls[thread], now)'
      BY <2>1, <2>2, <2>3 DEF CallOK, CallFloor, CallRows, IsCall, Grown
    <2>6. QED
      BY <2>1, <2>4, <2>5 DEF CallsInv
  <1>3. ASSUME UNCHANGED <<seed, now, boot, calls, floors>>
        PROVE  CallsInv'
    BY <1>3 DEF CallsInv, FloorsOK, CallOK, CallFloor, CallRows, IsCall, Grown
  <1>4. CASE Discard \/ CopyProxies \/ ReadPath \/ AskBootTime \/ UNCHANGED vars
    BY <1>3, <1>4 DEF Discard, CopyProxies, ReadPath, AskBootTime, Tell, vars
  <1>5. CASE ReadLevel \/ ReadStatistics64 \/ ReadStatistics \/ ReadAvailableMemory
    BY <1>3, <1>5 DEF ReadLevel, ReadStatistics64, ReadStatistics, ReadAvailableMemory, Tell
  <1>6. QED
    BY <1>1, <1>2, <1>4, <1>5 DEF Next

(* The invariant of the calls holds in every state. *)
LEMMA CallsHold == Spec => [](StillInv /\ ToldInv /\ CallsInv)
  <1>1. Init => StillInv /\ ToldInv /\ CallsInv
    BY ToldInit, CallsInit
  <1>2. StillInv /\ ToldInv /\ CallsInv /\ [Next]_vars => (StillInv /\ ToldInv /\ CallsInv)'
    BY StillStep, ToldStep, CallsStep
  <1>3. QED
    BY <1>1, <1>2, PTL DEF Spec

-----------------------------------------------------------------------------
(* The types of all variables, in particular that every counter shown fits *)
(* in 32 bits.                                                             *)
THEOREM LiveTypeCorrect == Spec => []TypeOK
  <1>1. StillInv /\ ToldInv /\ CallsInv => TypeOK
    <2> SUFFICES ASSUME StillInv, ToldInv, CallsInv PROVE TypeOK
      OBVIOUS
    <2>1. Cardinality(told) <= 1
      <3>1. CASE told = {}
        BY <3>1, FS_EmptySet
      <3>2. CASE \E answer : told = {answer}
        <4>1. PICK answer : told = {answer}
          BY <3>2
        <4>2. Cardinality(told) = 1
          BY <4>1, FS_Singleton
        <4>3. QED
          BY <4>2
      <3>3. QED
        BY <3>1, <3>2 DEF ToldInv
    <2>2. QED
      BY <2>1 DEF StillInv, ToldInv, CallsInv, FloorsOK, CallOK, MemoryAnswer, TypeOK
  <1>2. QED
    BY <1>1, CallsHold, PTL

(* For any bases, rates and spreads a seed picks, any width of a counter   *)
(* and any number of threads: a list read after another was returned never *)
(* shows less traffic.                                                     *)
THEOREM CountersOnlyGrow == Spec => []CountersGrow
  <1>1. StillInv /\ CallsInv => CountersGrow
    <2> SUFFICES ASSUME StillInv, CallsInv, NEW thread \in Threads,
                        NEW row \in DOMAIN calls[thread].rows, NEW field \in Traffic
                 PROVE  calls[thread].rows[row].traffic[field] >= calls[thread].floor[row][field]
      BY DEF CountersGrow
    <2> DEFINE call == calls[thread]
    <2>1. CallFloor(call, now) /\ CallRows(call, now)
      BY DEF CallsInv, CallOK
    <2> HIDE DEF call
    <2>2. call.at = "rows" /\ call.uptime = UptimeSeconds(boot, call.began)
          /\ call.began \in 0..now /\ row \in {"lo0", "en0"}
      BY <2>1 DEF CallRows, call
    <2>3. CASE row = "lo0"
      <3>1. call.rows[row].traffic = call.original
        BY <2>1, <2>3 DEF CallRows, call
      <3>2. call.floor[row][field] \in 0..call.original[field] /\ call.original[field] \in 0..now
        BY <2>1, <2>2, <2>3 DEF CallFloor
      <3>3. QED
        BY <3>1, <3>2, Moments DEF call
    <2>4. CASE row = "en0"
      <3>1. call.rows[row].traffic = Grown(call.began)
        BY <2>1, <2>2, <2>4 DEF CallRows, Grown, call
      <3>2. call.floor[row][field] \in Nat /\ call.floor[row][field] <= Grown(call.began)[field]
        BY <2>1, <2>2, <2>4 DEF CallFloor
      <3>3. Grown(call.began)[field] \in Nat
        BY <2>2, GrownGrows, Moments
      <3>4. QED
        BY <3>1, <3>2, <3>3 DEF call
    <2>5. QED
      BY <2>2, <2>3, <2>4
  <1>2. QED
    BY <1>1, CallsHold, PTL

(* The last change of every row is the boot time the app can read, late by *)
(* no more than the call has taken since it read its uptime.               *)
THEOREM ChangedAtBoot == Spec => []LastChangeAtBoot
  <1>1. StillInv /\ CallsInv => LastChangeAtBoot
    BY DEF CallsInv, CallOK, CallRows, LastChangeAtBoot
  <1>2. QED
    BY <1>1, CallsHold, PTL
=============================================================================
