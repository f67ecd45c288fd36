------------------------ MODULE TemporalValuesProofs ------------------------
(***************************************************************************)
(* What holds of the timestamps for any seed, any intervals that leave the *)
(* margins of the sources between the values, any number of threads and    *)
(* processes, and, where no callers race, any troubles and any clock.      *)
(***************************************************************************)
EXTENDS TemporalValues, TLAPS

After(k) == IF k = "boot" THEN BootAfterVolume ELSE InstallAfterVolume

Age(k) == IF k = "volume" THEN VolumeMinAge
          ELSE IF k = "boot" THEN BootMinAge ELSE InstallMinAge

(* How far apart the values of one key may lie: callers that race read the *)
(* clock at most this far from each other.                                 *)
Skew == IF racing THEN CallSpan + Second - 1 ELSE 0

Steady == "setback" \notin troubles

Asking(t) == frames[t].step # "idle"
Based(t) == frames[t].step \in {"bounds", "value"}
Loading(t) == calls[t].stage \in {"read", "write"}
Answered(t) == calls[t].stage = "done" /\ calls[t].output # NoValue

(* A load is one the query has asked for, with bounds of that moment.      *)
Fits(t) ==
  /\ frames[t].step \in {"idle", "baseline", "bounds"} => calls[t] = Provider!Idle
  /\ frames[t].step \in {"volume", "value"} => calls[t].stage \in {"read", "write", "done"}
  /\ frames[t].step = "volume" => calls[t].path = "volume"
  /\ frames[t].step = "value" => calls[t].path = KeyOf(frames[t].query)
  /\ Based(t) => frames[t].query # "volume" /\ frames[t].volume \in Int
  /\ calls[t].stage = "write" =>
       calls[t].output = GenerateStableTimeInterval(calls[t].path, calls[t].arg)
  /\ Loading(t) /\ frames[t].step = "value" =>
       calls[t].arg = ValueBounds(frames[t].query, frames[t].now, frames[t].volume)
  /\ Loading(t) /\ frames[t].step = "volume" =>
       \E c \in Int : /\ calls[t].arg = VolumeBounds(Seconds(c))
                      /\ Steady => c \in frames[t].since..clock
  /\ Asking(t) => frames[t].now = Seconds(frames[t].since)
  /\ Asking(t) /\ Steady => clock \in frames[t].since..frames[t].since + CallSpan

FitInv == TypeOK /\ \A t \in Threads : Fits(t)

(* Where callers do not race there is one at a time, where they do there   *)
(* is no trouble.                                                          *)
AloneInv ==
  /\ racing => troubles = {}
  /\ ~racing => \A t, u \in Threads : Asking(t) /\ Asking(u) => t = u

(* A value lies as far before the clock as its interval does.              *)
PastInv ==
  Steady =>
    /\ \A k \in Keys : blobs[k] # NoValue => blobs[k] < clock - Age(k)
    /\ \A t \in Threads :
         /\ Answered(t) => calls[t].output < clock - Age(calls[t].path)
         /\ Based(t) => frames[t].volume < clock - VolumeMinAge

(* While the storage holds a value is answered only once one is on file,   *)
(* and then the values on file, still to be written, answered and served   *)
(* are all in one window.                                                  *)
Cut(q, x) == IF q \in {"boot", "uptime"} THEN Seconds(x) ELSE x

Window(k, m) ==
  /\ blobs[k] # NoValue =>
       /\ blobs[k] \in m..m + Skew
       /\ \A t \in Threads : calls[t].stage = "write" /\ calls[t].path = k =>
            calls[t].output \in m..m + Skew
  /\ \A t \in Threads : Answered(t) /\ calls[t].path = k =>
       blobs[k] # NoValue /\ calls[t].output \in m..m + Skew
  /\ \A q \in Queries : KeyOf(q) = k =>
       \A x \in served[q] : blobs[k] # NoValue /\ \E y \in m..m + Skew : x = Cut(q, y)

(* The others lie behind the whole window of volume creation.              *)
BehindVolume(k, v) ==
  /\ blobs[k] # NoValue => blobs["volume"] # NoValue /\ blobs[k] >= v + After(k)
  /\ \A t \in Threads : Answered(t) /\ calls[t].path = k => calls[t].output >= v + After(k)
  /\ \A q \in Queries : KeyOf(q) = k => \A x \in served[q] : x > v + Skew

Windows(v) ==
  /\ Window("volume", v)
  /\ \A t \in Threads : Based(t) => blobs["volume"] # NoValue /\ frames[t].volume \in v..v + Skew
  /\ \A k \in {"boot", "install"} : BehindVolume(k, v) /\ \E m \in Int : Window(k, m)

WindowInv ==
  IF StorageHolds THEN media = "ok" /\ \E v \in Int : Windows(v)
                  ELSE \A q \in Queries : served[q] = {}

(* A query passes through only for want of a value, which only the seed    *)
(* can be the reason of.                                                   *)
NoneInv ==
  troubles = {} =>
    /\ \A t \in Threads : calls[t].stage = "done" /\ calls[t].output = NoValue =>
         units[calls[t].path] = UnitCount
    /\ \A q \in passed : ~Answerable(q)

TimesInv == FitInv /\ AloneInv /\ PastInv /\ WindowInv /\ NoneInv

-----------------------------------------------------------------------------
(* Readings of the clock are cut by less than a second. *)
LEMMA Cutting ==
  ASSUME NEW x \in Int
  PROVE  Seconds(x) \in Int /\ Seconds(x) \in x - (Second - 1)..x
  <1>1. Second \in Nat \ {0}
    BY TemporalAssumption DEF TemporalAssumption
  <1>2. x % Second \in 0..Second - 1
    BY <1>1
  <1>3. QED
    BY <1>1, <1>2 DEF Seconds

(* A quotient is the whole part. *)
LEMMA WholePart ==
  ASSUME NEW a \in Int, NEW b \in Nat \ {0}
  PROVE  a \div b \in Int /\ b * (a \div b) <= a /\ a < b * (a \div b) + b
  OBVIOUS

(* Factors compare as their products do. *)
LEMMA Cancel ==
  ASSUME NEW a \in Int, NEW c \in Int, NEW b \in Nat \ {0}
  PROVE  /\ b * a < b * c + b => a <= c
         /\ b * a < b * c => a < c
  OBVIOUS

(* A product with a natural grows with the other factor. *)
LEMMA Growing ==
  ASSUME NEW a \in Int, NEW c \in Int, NEW b \in Nat, a <= c
  PROVE  a * b \in Int /\ c * b \in Int /\ a * b <= c * b
  OBVIOUS

(* A derived time is the weighted mean of its bounds, rounded down. *)
LEMMA Mean ==
  ASSUME NEW u \in 0..UnitCount, NEW l \in Int, NEW h \in Int
  PROVE  LET mean == l * (UnitCount - u) + h * u
             f == DeriveTimeIntervalBetween(u, l, h)
         IN /\ mean \in Int /\ f \in Int
            /\ UnitCount * f <= mean /\ mean < UnitCount * f + UnitCount
  <1>1. UnitCount \in Nat \ {0} /\ u \in Nat
    BY TemporalAssumption DEF TemporalAssumption
  <1> DEFINE product == (h - l) * u
             q == product \div UnitCount
  <1>2. product \in Int
    BY <1>1
  <1>3. q \in Int /\ UnitCount * q <= product /\ product < UnitCount * q + UnitCount
    <2> HIDE DEF product
    <2>1. QED
      BY <1>1, <1>2, WholePart
  <1>4. product + l * UnitCount = l * (UnitCount - u) + h * u
    BY <1>1
  <1>5. l * (UnitCount - u) + h * u \in Int
    BY <1>1
  <1>6. DeriveTimeIntervalBetween(u, l, h) = l + q
    BY DEF DeriveTimeIntervalBetween
  <1> HIDE DEF product, q
  <1>7. UnitCount * (l + q) = l * UnitCount + UnitCount * q /\ l * UnitCount \in Int
    BY <1>1, <1>3
  <1>8. UnitCount * q \in Int
    BY <1>1, <1>3
  <1>9. QED
    BY <1>1, <1>2, <1>3, <1>4, <1>5, <1>6, <1>7, <1>8

(* It lies in its interval, and before the end unless the quotient is 1. *)
LEMMA Inside ==
  ASSUME NEW u \in 0..UnitCount, NEW l \in Int, NEW h \in Int, l < h
  PROVE  /\ DeriveTimeIntervalBetween(u, l, h) >= l
         /\ u < UnitCount => DeriveTimeIntervalBetween(u, l, h) < h
  <1> DEFINE f == DeriveTimeIntervalBetween(u, l, h)
             mean == l * (UnitCount - u) + h * u
  <1>1. UnitCount \in Nat \ {0} /\ u \in Nat /\ UnitCount - u \in Nat
    BY TemporalAssumption DEF TemporalAssumption
  <1>2. mean \in Int /\ f \in Int /\ UnitCount * f <= mean /\ mean < UnitCount * f + UnitCount
    BY Mean
  <1>3. l * UnitCount = l * (UnitCount - u) + l * u
    BY <1>1
  <1>4. l * u <= h * u
    BY <1>1
  <1>5. UnitCount * l <= mean
    BY <1>1, <1>3, <1>4
  <1>6. u < UnitCount => mean < UnitCount * h
    <2> SUFFICES ASSUME u < UnitCount PROVE mean < UnitCount * h
      OBVIOUS
    <2>1. UnitCount - u \in Nat \ {0}
      BY <1>1
    <2>2. l * (UnitCount - u) < h * (UnitCount - u)
      BY <2>1
    <2>3. UnitCount * h = h * (UnitCount - u) + h * u
      BY <1>1
    <2>4. l * (UnitCount - u) \in Int /\ h * (UnitCount - u) \in Int /\ h * u \in Int
      BY <1>1
    <2>5. QED
      BY <2>2, <2>3, <2>4
  <1> HIDE DEF f, mean
  <1>7. UnitCount * l < UnitCount * f + UnitCount
    BY <1>1, <1>2, <1>5
  <1>8. u < UnitCount => UnitCount * f < UnitCount * h
    BY <1>1, <1>2, <1>6
  <1>9. QED
    BY <1>1, <1>2, <1>7, <1>8, Cancel DEF f

(* Bounds that are moved by at most d move a derived time by at most d. *)
LEMMA Shift ==
  ASSUME NEW u \in 0..UnitCount, NEW l \in Int, NEW h \in Int, NEW d \in Nat,
         NEW ll \in l..l + d, NEW hh \in h..h + d
  PROVE  LET f == DeriveTimeIntervalBetween(u, l, h)
             ff == DeriveTimeIntervalBetween(u, ll, hh)
         IN f \in Int /\ ff \in f..f + d
  <1> DEFINE f == DeriveTimeIntervalBetween(u, l, h)
             ff == DeriveTimeIntervalBetween(u, ll, hh)
             mean == l * (UnitCount - u) + h * u
             mmean == ll * (UnitCount - u) + hh * u
  <1>0. /\ ll \in Int /\ hh \in Int /\ l + d \in Int /\ h + d \in Int
        /\ l <= ll /\ ll <= l + d /\ h <= hh /\ hh <= h + d
    OBVIOUS
  <1>1. UnitCount \in Nat \ {0} /\ u \in Nat /\ UnitCount - u \in Nat
    BY TemporalAssumption DEF TemporalAssumption
  <1>2. mean \in Int /\ f \in Int /\ UnitCount * f <= mean /\ mean < UnitCount * f + UnitCount
    BY Mean
  <1>3. mmean \in Int /\ ff \in Int /\ UnitCount * ff <= mmean /\ mmean < UnitCount * ff + UnitCount
    BY <1>0, Mean
  <1>4. mean <= mmean
    <2>1. l * (UnitCount - u) <= ll * (UnitCount - u)
      BY ONLY <1>1, <1>0, Growing, l \in Int
    <2>4. h * u <= hh * u
      BY ONLY <1>1, <1>0, Growing, h \in Int
    <2>2. /\ l * (UnitCount - u) \in Int /\ ll * (UnitCount - u) \in Int
          /\ h * u \in Int /\ hh * u \in Int
      BY <1>1
    <2>3. QED
      BY <2>1, <2>2, <2>4
  <1>5. mmean <= mean + UnitCount * d
    <2>1. ll * (UnitCount - u) <= (l + d) * (UnitCount - u)
      BY ONLY <1>1, <1>0, Growing
    <2>5. hh * u <= (h + d) * u
      BY ONLY <1>1, <1>0, Growing
    <2>2. (l + d) * (UnitCount - u) + (h + d) * u = mean + UnitCount * d
      <3>1. (l + d) * (UnitCount - u) = l * (UnitCount - u) + d * (UnitCount - u)
        BY <1>1
      <3>2. (h + d) * u = h * u + d * u
        BY <1>1
      <3>3. d * (UnitCount - u) + d * u = UnitCount * d
        BY <1>1
      <3>4. /\ l * (UnitCount - u) \in Int /\ d * (UnitCount - u) \in Int
            /\ h * u \in Int /\ d * u \in Int /\ UnitCount * d \in Int
        BY <1>1
      <3>5. QED
        BY <3>1, <3>2, <3>3, <3>4
    <2>3. /\ ll * (UnitCount - u) \in Int /\ (l + d) * (UnitCount - u) \in Int
          /\ hh * u \in Int /\ (h + d) * u \in Int /\ mean + UnitCount * d \in Int
      BY <1>1
    <2>4. QED
      BY <2>1, <2>2, <2>3, <2>5
  <1> HIDE DEF f, ff, mean, mmean
  <1>6. UnitCount * f < UnitCount * ff + UnitCount
    BY <1>1, <1>2, <1>3, <1>4
  <1>7. UnitCount * ff < UnitCount * (f + d) + UnitCount
    <2>1. UnitCount * (f + d) = UnitCount * f + UnitCount * d
      BY <1>1, <1>2
    <2>2. UnitCount * d \in Int /\ UnitCount * f \in Int /\ UnitCount * ff \in Int
      BY <1>1, <1>2, <1>3
    <2>3. QED
      BY <1>1, <1>2, <1>3, <1>5, <2>1, <2>2
  <1>8. QED
    BY <1>0, <1>1, <1>2, <1>3, <1>6, <1>7, Cancel DEF f, ff

-----------------------------------------------------------------------------
(* The constants that the steps below need, as numbers. *)
LEMMA Numbers ==
  /\ UnitCount \in Nat \ {0} /\ Second \in Nat \ {0} /\ CallSpan \in Nat
  /\ Start \in Nat /\ MaxClock \in Nat /\ RaceClock \in Start..MaxClock
  /\ VolumeMinAge \in Nat \ {0} /\ VolumeMaxAge \in Nat \ {0}
  /\ BootMinAge \in Nat \ {0} /\ BootLookback \in Nat \ {0} /\ BootAfterVolume \in Nat \ {0}
  /\ InstallMinAge \in Nat \ {0} /\ InstallLookback \in Nat \ {0}
  /\ InstallAfterVolume \in Nat \ {0}
  BY TemporalAssumption DEF TemporalAssumption

(* A key is a query, and a query has a key. *)
LEMMA KeysOf ==
  /\ Keys \subseteq Queries /\ "volume" \in Keys /\ "boot" \in Keys /\ "install" \in Keys
  /\ \A q \in Queries : KeyOf(q) \in Keys /\ (KeyOf(q) = "volume") = (q = "volume")
  /\ \A q \in Queries : KeyOf(q) = "install" => q = "install"
  /\ \A q \in Queries : (KeyOf(q) = "boot") = (q \in {"boot", "uptime"})
  /\ NoValue \notin Int
  BY SurroundingsAssumption DEF Keys, Queries, KeyOf, SurroundingsAssumption

(* The seed gives every key a place in its interval. *)
LEMMA Units ==
  ASSUME TypeOK
  PROVE  units \in [Keys -> 0..UnitCount] /\ \A k \in Keys : units[k] \in 0..UnitCount
  BY TemporalAssumption DEF TypeOK, TemporalAssumption

(* Bounds are made of numbers. *)
LEMMA VolumeTyped ==
  ASSUME TypeOK, NEW n \in Int
  PROVE  VolumeBounds(n) \in Bounds
  BY Units, Numbers, KeysOf DEF Bounds, VolumeBounds

(* So are those behind a baseline. *)
LEMMA BoundsTyped ==
  ASSUME TypeOK, NEW n \in Int, NEW v \in Int, NEW q
  PROVE  ValueBounds(q, n, v) \in Bounds
  BY Units, Numbers, KeysOf
     DEF Bounds, ValueBounds, BootBounds, InstallBounds, Larger

(* What is generated lies in its bounds; without a value the bounds were   *)
(* empty or the quotient was 1.                                            *)
LEMMA Generated ==
  ASSUME NEW k, NEW b \in Bounds
  PROVE  LET v == GenerateStableTimeInterval(k, b)
         IN /\ v = NoValue \/ v \in Int
            /\ v # NoValue =>
                 /\ v = DeriveTimeIntervalBetween(b.unit, b.lower, b.upper)
                 /\ b.lower <= v /\ v < b.upper
            /\ v = NoValue => b.unit = UnitCount \/ b.upper <= b.lower
  <1>1. b.unit \in 0..UnitCount /\ b.lower \in Int /\ b.upper \in Int
    BY DEF Bounds
  <1>2. DeriveTimeIntervalBetween(b.unit, b.lower, b.upper) \in Int
    BY <1>1, Mean
  <1>3. b.lower < b.upper =>
          /\ DeriveTimeIntervalBetween(b.unit, b.lower, b.upper) >= b.lower
          /\ b.unit < UnitCount => DeriveTimeIntervalBetween(b.unit, b.lower, b.upper) < b.upper
    BY <1>1, Inside
  <1> DEFINE f == DeriveTimeIntervalBetween(b.unit, b.lower, b.upper)
  <1>4. GenerateStableTimeInterval(k, b) = IF b.upper > b.lower /\ f < b.upper THEN f ELSE NoValue
    BY DEF GenerateStableTimeInterval
  <1> HIDE DEF f
  <1>5. QED
    BY <1>1, <1>2, <1>3, <1>4, Numbers, KeysOf DEF f

(* What the step of a query says of it. *)
LEMMA FrameFields ==
  ASSUME TypeOK, NEW t \in Threads
  PROVE  /\ frames[t].step \in {"idle", "baseline", "volume", "bounds", "value"}
         /\ ~Asking(t) => frames[t] = NoFrame
         /\ frames[t] = NoFrame => ~Asking(t)
         /\ Asking(t) => /\ frames[t].query \in Queries /\ frames[t].now \in Int
                         /\ frames[t].volume \in Times /\ frames[t].since \in Int
  BY DEF TypeOK, Asking, NoFrame

(* What the stage of a load says of it. *)
LEMMA CallFields ==
  ASSUME TypeOK, NEW t \in Threads
  PROVE  /\ calls[t].stage \in {"idle", "read", "write", "done"}
         /\ calls[t].stage = "idle" => calls[t] = Provider!Idle
         /\ calls[t] = Provider!Idle => calls[t].stage = "idle"
         /\ calls[t].stage # "idle" => calls[t].path \in Keys
         /\ Loading(t) => calls[t].arg \in Bounds
         /\ calls[t].stage = "write" => calls[t].output \in Int
         /\ calls[t].stage = "done" => calls[t].output \in Times
  BY DEF TypeOK, Provider!TypeOK, Provider!CallStates, Provider!Idle, Loading, Times

-----------------------------------------------------------------------------
(* What each kind of step does: a query of t starts, asks for a value,     *)
(* goes on with the baseline, passes through, is told a value, or has its  *)
(* file read or written.                                                   *)
Elsewhere(t) ==
  \A u \in Threads : u # t => frames'[u] = frames[u] /\ calls'[u] = calls[u]

Quiet == UNCHANGED <<racing, clock, units, troubles>>

SameQuery(t) ==
  /\ frames'[t].query = frames[t].query /\ frames'[t].now = frames[t].now
  /\ frames'[t].since = frames[t].since

Starts(t) ==
  /\ Elsewhere(t) /\ Quiet /\ UNCHANGED <<blobs, media, served, passed>>
  /\ ~Asking(t) /\ calls'[t] = calls[t]
  /\ frames'[t].step = "baseline" /\ frames'[t].now = Seconds(clock) /\ frames'[t].since = clock
  /\ racing \/ \A u \in Threads : ~Asking(u)

Asks(t) ==
  /\ Elsewhere(t) /\ Quiet /\ UNCHANGED <<blobs, media, served, passed>>
  /\ SameQuery(t) /\ frames'[t].volume = frames[t].volume
  /\ calls'[t].stage = "read"
  /\ \/ /\ frames[t].step = "baseline" /\ frames'[t].step = "volume"
        /\ calls'[t].path = "volume" /\ calls'[t].arg = VolumeBounds(Seconds(clock))
     \/ /\ frames[t].step = "bounds" /\ frames'[t].step = "value"
        /\ calls'[t].path = KeyOf(frames[t].query)
        /\ calls'[t].arg = ValueBounds(frames[t].query, frames[t].now, frames[t].volume)

GoesOn(t) ==
  /\ Elsewhere(t) /\ Quiet /\ UNCHANGED <<blobs, media, served, passed>>
  /\ SameQuery(t) /\ frames[t].query # "volume"
  /\ frames[t].step = "volume" /\ Answered(t)
  /\ frames'[t].step = "bounds" /\ frames'[t].volume = calls[t].output
  /\ calls'[t] = Provider!Idle

Ends(t) ==
  /\ Elsewhere(t) /\ Quiet /\ UNCHANGED <<blobs, media>>
  /\ Asking(t) /\ frames'[t] = NoFrame /\ calls'[t] = Provider!Idle

Passes(t) ==
  /\ Ends(t) /\ UNCHANGED served
  /\ passed' = passed \cup {frames[t].query}
  /\ \/ /\ frames[t].step = "bounds"
        /\ LET b == ValueBounds(frames[t].query, frames[t].now, frames[t].volume)
           IN ~(b.upper > b.lower)
     \/ /\ frames[t].step \in {"volume", "value"}
        /\ calls[t].stage = "done" /\ calls[t].output = NoValue
     \/ /\ frames[t].step = "value" /\ frames[t].query \in {"boot", "uptime"} /\ Answered(t)
        /\ LET boot == Seconds(calls[t].output)
           IN ~(boot > frames[t].volume /\ boot < frames[t].now /\ clock >= boot)

Tells(t, v) ==
  /\ Ends(t) /\ UNCHANGED passed
  /\ served' = IF StorageHolds
               THEN [served EXCEPT ![frames[t].query] = @ \cup {v}] ELSE served
  /\ Answered(t)
  /\ \/ frames[t].step = "volume" /\ frames[t].query = "volume" /\ v = calls[t].output
     \/ frames[t].step = "value" /\ frames[t].query = "install" /\ v = calls[t].output
     \/ /\ frames[t].step = "value" /\ frames[t].query \in {"boot", "uptime"}
        /\ v = Seconds(calls[t].output)

Hits(t) ==
  /\ Elsewhere(t) /\ UNCHANGED <<queryVars, blobs, media>>
  /\ calls[t].stage = "read" /\ blobs[calls[t].path] # NoValue
  /\ calls'[t].stage = "done" /\ calls'[t].path = calls[t].path
  /\ calls'[t].output = blobs[calls[t].path]

Misses(t) ==
  /\ Elsewhere(t) /\ UNCHANGED <<queryVars, blobs, media>>
  /\ calls[t].stage = "read"
  /\ media = "locked" \/ blobs[calls[t].path] = NoValue
  /\ calls'[t].path = calls[t].path
  /\ calls'[t].output = GenerateStableTimeInterval(calls[t].path, calls[t].arg)
  /\ IF calls'[t].output = NoValue
     THEN calls'[t].stage = "done"
     ELSE calls'[t].stage = "write" /\ calls'[t].arg = calls[t].arg

Writes(t) ==
  /\ Elsewhere(t) /\ UNCHANGED <<queryVars, media>>
  /\ calls[t].stage = "write"
  /\ blobs' = [blobs EXCEPT ![calls[t].path] = calls[t].output]
  /\ calls'[t].stage = "done" /\ calls'[t].path = calls[t].path
  /\ calls'[t].output = calls[t].output

Fails(t) ==
  /\ Elsewhere(t) /\ UNCHANGED <<queryVars, blobs, media>>
  /\ calls[t].stage = "write" /\ media # "ok"
  /\ calls'[t].stage = "done" /\ calls'[t].path = calls[t].path
  /\ calls'[t].output = GenerateStableTimeInterval(calls[t].path, calls[t].arg)

(* A process is killed: some threads stop, nothing else changes. *)
Stops ==
  /\ Quiet /\ UNCHANGED <<blobs, media, served, passed>>
  /\ \A u \in Threads : \/ frames'[u] = frames[u] /\ calls'[u] = calls[u]
                        \/ frames'[u] = NoFrame /\ calls'[u] = Provider!Idle

(* The storage fails. *)
Troubles ==
  /\ ~racing /\ UNCHANGED <<racing, clock, units, frames, calls, passed>>
  /\ troubles \subseteq troubles' /\ troubles' \cap {"media", "removed"} # {}
  /\ ("setback" \in troubles' => "setback" \in troubles)
  /\ \A q \in Queries : served'[q] = {}
  /\ \A k \in Keys : blobs'[k] = blobs[k] \/ blobs'[k] = NoValue

(* The clock goes on, or back. *)
Passing ==
  /\ UNCHANGED <<racing, units, troubles, frames, served, passed, providerVars>>
  /\ clock' = clock + 1
  /\ \A t \in Threads : Asking(t) => clock - frames[t].since < CallSpan

Sets ==
  /\ ~racing
  /\ UNCHANGED <<racing, units, frames, served, passed, providerVars>>
  /\ troubles' = troubles \cup {"setback"}

Move ==
  \/ \E t \in Threads :
       \/ Starts(t) \/ Asks(t) \/ GoesOn(t) \/ Passes(t) \/ (\E v \in Int : Tells(t, v))
       \/ Hits(t) \/ Misses(t) \/ Writes(t) \/ Fails(t)
  \/ Stops \/ Troubles \/ Passing \/ Sets
  \/ UNCHANGED vars

(* A query that starts.  *)
LEMMA BeginStarts ==
  ASSUME TypeOK, NEW t \in Threads, NEW q \in Queries, BeginQuery(t, q)
  PROVE  TypeOK' /\ Starts(t)
  <1>1. clock \in Int /\ Seconds(clock) \in Int
    BY Numbers, Cutting DEF TypeOK
  <1>2. Frame(q, "baseline", Seconds(clock), NoValue, clock) \in
          [query : Queries, step : {"baseline", "volume", "bounds", "value"},
           now : Int, volume : Times, since : Int]
    BY <1>1 DEF Frame, Times
  <1>3. TypeOK'
    BY <1>2 DEF BeginQuery, TypeOK, Provider!TypeOK, providerVars
  <1>4. Starts(t)
    BY DEF BeginQuery, TypeOK, Starts, Elsewhere, Quiet, Asking, NoFrame, Frame, providerVars
  <1>5. QED
    BY <1>3, <1>4

(* The calls of the provider are typed after a load is asked for.  *)
LEMMA AskTyped ==
  ASSUME TypeOK, NEW t \in Threads, NEW k \in Keys, NEW b \in Bounds,
         Provider!LoadOrCreate(t, k, b)
  PROVE  /\ Provider!TypeOK'
         /\ calls' = [calls EXCEPT ![t] = Provider!Reading(k, b)]
         /\ blobs' = blobs /\ media' = media
  <1>1. calls' = [calls EXCEPT ![t] = Provider!Reading(k, b)]
    BY DEF Provider!LoadOrCreate
  <1>2. Provider!Reading(k, b) \in Provider!CallStates
    BY DEF Provider!Reading, Provider!CallStates
  <1>3. QED
    BY <1>1, <1>2 DEF Provider!LoadOrCreate, TypeOK, Provider!TypeOK

(* A query that asks for the baseline. *)
LEMMA AskVolumeAsks ==
  ASSUME TypeOK, NEW t \in Threads, AskVolume(t)
  PROVE  TypeOK' /\ Asks(t)
  <1> DEFINE b == VolumeBounds(Seconds(clock))
  <1>1. b \in Bounds
    <2>1. Seconds(clock) \in Int
      BY Numbers, Cutting DEF TypeOK
    <2>2. QED
      BY <2>1, VolumeTyped
  <1> HIDE DEF b
  <1>2. Provider!LoadOrCreate(t, "volume", b)
    BY DEF AskVolume, b
  <1>3. /\ Provider!TypeOK'
        /\ calls' = [calls EXCEPT ![t] = Provider!Reading("volume", b)]
        /\ blobs' = blobs /\ media' = media
    BY <1>1, <1>2, AskTyped, KeysOf
  <1>4. frames[t].step = "baseline" /\ frames' = [frames EXCEPT ![t].step = "volume"]
        /\ UNCHANGED <<racing, clock, units, served, passed, troubles>>
    BY DEF AskVolume
  <1>5. TypeOK'
    BY <1>3, <1>4 DEF TypeOK, NoFrame
  <1>6. Asks(t)
    BY <1>3, <1>4 DEF Asks, Elsewhere, Quiet, SameQuery, TypeOK, Provider!TypeOK,
                      Provider!Reading, NoFrame, b
  <1>7. QED
    BY <1>5, <1>6

(* A query that passes through.  *)
LEMMA PassEnds ==
  ASSUME TypeOK, NEW t \in Threads, Asking(t), PassThrough(t), Provider!TypeOK',
         calls' = [calls EXCEPT ![t] = Provider!Idle], UNCHANGED <<blobs, media>>
  PROVE  /\ TypeOK' /\ Ends(t) /\ UNCHANGED served
         /\ passed' = passed \cup {frames[t].query}
  <1>1. frames[t].query \in Queries
    BY FrameFields
  <1>2. TypeOK'
    BY <1>1 DEF PassThrough, TypeOK
  <1>3. Ends(t)
    BY DEF PassThrough, TypeOK, Ends, Elsewhere, Quiet, Provider!TypeOK
  <1>4. QED
    BY <1>2, <1>3 DEF PassThrough

(* A query that is answered.  *)
LEMMA AnswerEnds ==
  ASSUME TypeOK, NEW t \in Threads, NEW v \in Int, Asking(t), Answer(t, v), Provider!TypeOK',
         calls' = [calls EXCEPT ![t] = Provider!Idle], UNCHANGED <<blobs, media>>
  PROVE  /\ TypeOK' /\ Ends(t) /\ UNCHANGED passed
         /\ served' = IF StorageHolds
                      THEN [served EXCEPT ![frames[t].query] = @ \cup {v}] ELSE served
  <1>1. frames[t].query \in Queries
    BY FrameFields
  <1>2. TypeOK'
    BY <1>1 DEF Answer, TypeOK
  <1>3. Ends(t)
    BY DEF Answer, TypeOK, Ends, Elsewhere, Quiet, Provider!TypeOK
  <1>4. QED
    BY <1>2, <1>3 DEF Answer

(* A load that returns.  *)
LEMMA Returned ==
  ASSUME TypeOK, NEW t \in Threads, Provider!Return(t)
  PROVE  /\ Provider!TypeOK' /\ calls[t].stage = "done"
         /\ calls' = [calls EXCEPT ![t] = Provider!Idle] /\ UNCHANGED <<blobs, media>>
  BY DEF Provider!Return, TypeOK, Provider!TypeOK, Provider!CallStates

(* A query that asks for its value, or has empty bounds. *)
LEMMA AskValueAsks ==
  ASSUME FitInv, NEW t \in Threads, AskValue(t)
  PROVE  TypeOK' /\ (Asks(t) \/ Passes(t))
  <1> DEFINE q == frames[t].query
             b == ValueBounds(q, frames[t].now, frames[t].volume)
  <1>1. TypeOK /\ frames[t].step = "bounds" /\ Asking(t)
    BY DEF AskValue, FitInv, Asking
  <1>2. q \in Queries /\ b \in Bounds /\ KeyOf(q) \in Keys
    BY <1>1, FrameFields, BoundsTyped, KeysOf DEF FitInv, Fits, Based
  <1> HIDE DEF b
  <1>3. CASE b.upper > b.lower
    <2>1. /\ Provider!LoadOrCreate(t, KeyOf(q), b)
          /\ frames' = [frames EXCEPT ![t].step = "value"]
          /\ UNCHANGED <<racing, clock, units, served, passed, troubles>>
      BY <1>3 DEF AskValue, b
    <2>2. /\ Provider!TypeOK'
          /\ calls' = [calls EXCEPT ![t] = Provider!Reading(KeyOf(q), b)]
          /\ blobs' = blobs /\ media' = media
      BY <1>1, <1>2, <2>1, AskTyped
    <2>3. TypeOK'
      BY <1>1, <2>1, <2>2 DEF TypeOK, NoFrame
    <2>4. Asks(t)
      BY <1>1, <2>1, <2>2 DEF Asks, Elsewhere, Quiet, SameQuery, TypeOK, Provider!TypeOK,
                              Provider!Reading, NoFrame, b
    <2>5. QED
      BY <2>3, <2>4
  <1>4. CASE ~(b.upper > b.lower)
    <2>1. PassThrough(t) /\ UNCHANGED providerVars
      BY <1>4 DEF AskValue, b
    <2>2. calls[t] = Provider!Idle
      BY <1>1 DEF FitInv, Fits
    <2>3. calls' = [calls EXCEPT ![t] = Provider!Idle] /\ UNCHANGED <<blobs, media>>
      BY <1>1, <2>1, <2>2 DEF providerVars, TypeOK, Provider!TypeOK
    <2>4. Provider!TypeOK'
      BY <1>1, <2>1 DEF providerVars, TypeOK, Provider!TypeOK
    <2>5. TypeOK' /\ Ends(t) /\ UNCHANGED served /\ passed' = passed \cup {frames[t].query}
      BY <1>1, <2>1, <2>3, <2>4, PassEnds
    <2>6. QED
      BY <1>1, <1>4, <2>5 DEF Passes, b
  <1>5. QED
    BY <1>3, <1>4

(* A value or none is what a query passes on. *)
LEMMA TakeEnds ==
  ASSUME TypeOK, NEW t \in Threads, NEW v \in Times, Asking(t), Provider!Return(t),
         AnswerOrPass(t, v)
  PROVE  /\ TypeOK' /\ Ends(t) /\ calls[t].stage = "done"
         /\ IF v = NoValue
            THEN UNCHANGED served /\ passed' = passed \cup {frames[t].query}
            ELSE /\ UNCHANGED passed
                 /\ served' = IF StorageHolds
                              THEN [served EXCEPT ![frames[t].query] = @ \cup {v}] ELSE served
  <1>1. /\ Provider!TypeOK' /\ calls[t].stage = "done"
        /\ calls' = [calls EXCEPT ![t] = Provider!Idle] /\ UNCHANGED <<blobs, media>>
    BY Returned
  <1>2. CASE v = NoValue
    BY <1>1, <1>2, PassEnds DEF AnswerOrPass
  <1>3. CASE v # NoValue
    <2>1. v \in Int /\ Answer(t, v)
      BY <1>3 DEF Times, AnswerOrPass
    <2>2. QED
      BY <1>1, <1>3, <2>1, AnswerEnds
  <1>4. QED
    BY <1>2, <1>3

(* A query that gets the baseline. *)
LEMMA TakeVolumeMoves ==
  ASSUME FitInv, NEW t \in Threads, TakeVolume(t)
  PROVE  TypeOK' /\ (GoesOn(t) \/ Passes(t) \/ \E v \in Int : Tells(t, v))
  <1>1. TypeOK /\ frames[t].step = "volume" /\ Asking(t) /\ Provider!Return(t)
    BY DEF TakeVolume, FitInv, Asking
  <1>2. /\ Provider!TypeOK' /\ calls[t].stage = "done"
        /\ calls' = [calls EXCEPT ![t] = Provider!Idle] /\ UNCHANGED <<blobs, media>>
    BY <1>1, Returned
  <1>3. calls[t].output \in Times
    BY <1>1, <1>2, CallFields
  <1>4. CASE frames[t].query = "volume" \/ calls[t].output = NoValue
    <2>1. AnswerOrPass(t, calls[t].output)
      BY <1>4 DEF TakeVolume
    <2>2. /\ TypeOK' /\ Ends(t)
          /\ IF calls[t].output = NoValue
             THEN UNCHANGED served /\ passed' = passed \cup {frames[t].query}
             ELSE /\ UNCHANGED passed
                  /\ served' = IF StorageHolds
                               THEN [served EXCEPT ![frames[t].query] = @ \cup {calls[t].output}]
                               ELSE served
      BY <1>1, <1>3, <2>1, TakeEnds
    <2>3. CASE calls[t].output = NoValue
      BY <1>1, <1>2, <2>2, <2>3 DEF Passes
    <2>4. CASE calls[t].output # NoValue
      <3>1. calls[t].output \in Int /\ frames[t].query = "volume"
        BY <1>3, <1>4, <2>4 DEF Times
      <3>2. Tells(t, calls[t].output)
        BY <1>1, <1>2, <2>2, <2>4, <3>1 DEF Tells, Answered
      <3>3. QED
        BY <2>2, <3>1, <3>2
    <2>5. QED
      BY <2>3, <2>4
  <1>5. CASE ~(frames[t].query = "volume" \/ calls[t].output = NoValue)
    <2>1. /\ frames' = [frames EXCEPT ![t].step = "bounds", ![t].volume = calls[t].output]
          /\ UNCHANGED <<racing, clock, units, served, passed, troubles>>
      BY <1>5 DEF TakeVolume
    <2> DEFINE queries == [query : Queries, step : {"baseline", "volume", "bounds", "value"},
                           now : Int, volume : Times, since : Int]
               next == [frames[t] EXCEPT !.step = "bounds", !.volume = calls[t].output]
    <2>5. frames[t] \in queries
      BY <1>1 DEF TypeOK, NoFrame
    <2>6. next \in queries
      BY <1>3, <2>5
    <2>7. frames' = [frames EXCEPT ![t] = next]
      BY <2>1
    <2> HIDE DEF queries, next
    <2>8. frames \in [Threads -> {NoFrame} \cup queries]
      BY <1>1 DEF TypeOK, queries
    <2>9. frames' \in [Threads -> {NoFrame} \cup queries]
      BY <2>6, <2>7, <2>8
    <2>2. TypeOK'
      BY <1>1, <1>2, <2>1, <2>9 DEF TypeOK, queries
    <2>3. GoesOn(t)
      BY <1>1, <1>2, <1>5, <2>1 DEF GoesOn, Elsewhere, Quiet, SameQuery, Answered, TypeOK,
                                    Provider!TypeOK, NoFrame
    <2>4. QED
      BY <2>2, <2>3
  <1>6. QED
    BY <1>4, <1>5

(* A query that gets its install date. *)
LEMMA TakeInstallMoves ==
  ASSUME FitInv, NEW t \in Threads, TakeInstall(t)
  PROVE  TypeOK' /\ (Passes(t) \/ \E v \in Int : Tells(t, v))
  <1>1. /\ TypeOK /\ frames[t].step = "value" /\ Asking(t) /\ Provider!Return(t)
        /\ frames[t].query = "install" /\ AnswerOrPass(t, calls[t].output)
    BY DEF TakeInstall, FitInv, Asking
  <1>2. calls[t].output \in Times
    BY <1>1, Returned, CallFields
  <1>3. /\ TypeOK' /\ Ends(t) /\ calls[t].stage = "done"
        /\ IF calls[t].output = NoValue
           THEN UNCHANGED served /\ passed' = passed \cup {frames[t].query}
           ELSE /\ UNCHANGED passed
                /\ served' = IF StorageHolds
                             THEN [served EXCEPT ![frames[t].query] = @ \cup {calls[t].output}]
                             ELSE served
    BY <1>1, <1>2, TakeEnds
  <1>4. CASE calls[t].output = NoValue
    BY <1>1, <1>3, <1>4 DEF Passes
  <1>5. CASE calls[t].output # NoValue
    <2>1. calls[t].output \in Int
      BY <1>2, <1>5 DEF Times
    <2>2. Tells(t, calls[t].output)
      BY <1>1, <1>3, <1>5 DEF Tells, Answered
    <2>3. QED
      BY <1>3, <2>1, <2>2
  <1>6. QED
    BY <1>4, <1>5

(* A query that gets its boot time. *)
LEMMA TakeBootMoves ==
  ASSUME FitInv, NEW t \in Threads, TakeBoot(t)
  PROVE  TypeOK' /\ (Passes(t) \/ \E v \in Int : Tells(t, v))
  <1> DEFINE boot == Seconds(calls[t].output)
  <1>1. /\ TypeOK /\ frames[t].step = "value" /\ Asking(t) /\ Provider!Return(t)
        /\ frames[t].query \in {"boot", "uptime"}
    BY DEF TakeBoot, FitInv, Asking
  <1>2. /\ Provider!TypeOK' /\ calls[t].stage = "done"
        /\ calls' = [calls EXCEPT ![t] = Provider!Idle] /\ UNCHANGED <<blobs, media>>
    BY <1>1, Returned
  <1>3. calls[t].output \in Times
    BY <1>1, <1>2, CallFields
  <1>4. CASE /\ calls[t].output # NoValue /\ boot > frames[t].volume /\ boot < frames[t].now
             /\ frames[t].query = "uptime" => clock >= boot
    <2>1. Answer(t, boot)
      BY <1>4 DEF TakeBoot
    <2>2. boot \in Int
      BY <1>3, <1>4, Cutting DEF Times
    <2>3. /\ TypeOK' /\ Ends(t) /\ UNCHANGED passed
          /\ served' = IF StorageHolds
                       THEN [served EXCEPT ![frames[t].query] = @ \cup {boot}] ELSE served
      BY <1>1, <1>2, <2>1, <2>2, AnswerEnds
    <2>4. Tells(t, boot)
      BY <1>1, <1>2, <1>4, <2>3 DEF Tells, Answered
    <2>5. QED
      BY <2>2, <2>3, <2>4
  <1>5. CASE ~(/\ calls[t].output # NoValue /\ boot > frames[t].volume /\ boot < frames[t].now
               /\ frames[t].query = "uptime" => clock >= boot)
    <2>1. PassThrough(t)
      BY <1>5 DEF TakeBoot
    <2>2. TypeOK' /\ Ends(t) /\ UNCHANGED served /\ passed' = passed \cup {frames[t].query}
      BY <1>1, <1>2, <2>1, PassEnds
    <2>3. Passes(t)
      BY <1>1, <1>2, <1>5, <2>2 DEF Passes, Answered
    <2>4. QED
      BY <2>2, <2>3
  <1>6. QED
    BY <1>4, <1>5

(* A file that is read or written. *)
LEMMA FileMoves ==
  ASSUME FitInv, NEW t \in Threads, FileStep(t)
  PROVE  TypeOK' /\ (Hits(t) \/ Misses(t) \/ Writes(t) \/ Fails(t))
  <1>1. TypeOK /\ UNCHANGED queryVars
    BY DEF FitInv, FileStep
  <1>2. CASE Provider!ReadHit(t)
    <2> DEFINE c == Provider!Done(calls[t].path, blobs[calls[t].path], TRUE, FALSE)
    <2>4. calls[t].path \in Keys
      BY <1>1, <1>2, CallFields DEF Provider!ReadHit
    <2>5. c \in Provider!CallStates
      BY <1>1, <2>4 DEF TypeOK, Provider!TypeOK, Provider!CallStates, Provider!Done
    <2>6. calls' = [calls EXCEPT ![t] = c] /\ UNCHANGED <<blobs, media, settled>>
      BY <1>2 DEF Provider!ReadHit
    <2> HIDE DEF c
    <2>1. Provider!TypeOK'
      BY <1>1, <2>5, <2>6 DEF TypeOK, Provider!TypeOK
    <2>2. Hits(t)
      BY <1>1, <1>2 DEF Provider!ReadHit, TypeOK, Provider!TypeOK, Provider!Done,
                        Hits, Elsewhere, queryVars
    <2>3. QED
      BY <1>1, <2>1, <2>2 DEF TypeOK, queryVars
  <1>3. CASE Provider!ReadMiss(t)
    <2> DEFINE p == calls[t].path
               a == calls[t].arg
               v == GenerateStableTimeInterval(p, a)
               c == IF v = NoValue THEN Provider!Done(p, NoValue, FALSE, FALSE)
                    ELSE Provider!Writing(p, a, v)
    <2>1. p \in Keys /\ a \in Bounds /\ calls[t].stage = "read"
      BY <1>1, <1>3, CallFields DEF Provider!ReadMiss, Loading
    <2>2. v = NoValue \/ v \in Int
      BY <2>1, Generated
    <2>3. calls' = [calls EXCEPT ![t] = c] /\ UNCHANGED <<blobs, media, settled>>
      BY <1>3 DEF Provider!ReadMiss, Provider!GenerateEmbedded
    <2>4. c \in Provider!CallStates
      BY <2>1, <2>2 DEF Provider!CallStates, Provider!Done, Provider!Writing
    <2>5. Provider!TypeOK'
      BY <1>1, <2>3, <2>4 DEF TypeOK, Provider!TypeOK
    <2>6. /\ c.path = p /\ c.output = v
          /\ IF v = NoValue THEN c.stage = "done" ELSE c.stage = "write" /\ c.arg = a
      BY DEF Provider!Done, Provider!Writing
    <2> HIDE DEF c, v
    <2>7. calls'[t] = c /\ \A u \in Threads : u # t => calls'[u] = calls[u]
      BY <1>1, <2>3 DEF TypeOK, Provider!TypeOK
    <2>8. Misses(t)
      BY <1>1, <1>3, <2>1, <2>3, <2>6, <2>7
         DEF Misses, Elsewhere, queryVars, Provider!ReadMiss, v
    <2>9. QED
      BY <1>1, <2>5, <2>8 DEF TypeOK, queryVars
  <1>4. CASE Provider!WriteBlob(t)
    <2>1. calls[t].path \in Keys /\ calls[t].output \in Int
      BY <1>1, <1>4, CallFields DEF Provider!WriteBlob
    <2>2. Provider!TypeOK'
      BY <1>1, <1>4, <2>1 DEF Provider!WriteBlob, TypeOK, Provider!TypeOK, Provider!CallStates,
                              Provider!Done
    <2>3. Writes(t)
      BY <1>1, <1>4 DEF Provider!WriteBlob, TypeOK, Provider!TypeOK, Provider!Done,
                        Writes, Elsewhere, queryVars
    <2>4. QED
      BY <1>1, <2>2, <2>3 DEF TypeOK, queryVars
  <1>5. CASE Provider!WriteFails(t)
    <2> DEFINE p == calls[t].path
               v == GenerateStableTimeInterval(p, calls[t].arg)
               c == Provider!Done(p, v, FALSE, v # NoValue)
    <2>1. p \in Keys /\ calls[t].arg \in Bounds
      BY <1>1, <1>5, CallFields DEF Provider!WriteFails, Loading
    <2>2. v = NoValue \/ v \in Int
      BY <2>1, Generated
    <2>3. calls' = [calls EXCEPT ![t] = c] /\ UNCHANGED <<blobs, media, settled>>
      BY <1>5 DEF Provider!WriteFails, Provider!GenerateEmbedded
    <2>4. c \in Provider!CallStates
      BY <2>1, <2>2 DEF Provider!CallStates, Provider!Done
    <2>5. Provider!TypeOK'
      BY <1>1, <2>3, <2>4 DEF TypeOK, Provider!TypeOK
    <2>6. c.path = p /\ c.output = v /\ c.stage = "done"
      BY DEF Provider!Done
    <2> HIDE DEF c, v
    <2>7. calls'[t] = c /\ \A u \in Threads : u # t => calls'[u] = calls[u]
      BY <1>1, <2>3 DEF TypeOK, Provider!TypeOK
    <2>8. Fails(t)
      BY <1>1, <1>5, <2>3, <2>6, <2>7 DEF Fails, Elsewhere, queryVars, Provider!WriteFails, v
    <2>9. QED
      BY <1>1, <2>5, <2>8 DEF TypeOK, queryVars
  <1>6. QED
    BY <1>2, <1>3, <1>4, <1>5 DEF FileStep, Provider!Step

(* A kill stops the threads of one process. *)
LEMMA KillStops ==
  ASSUME TypeOK, NEW proc \in Processes, KillProcess(proc)
  PROVE  TypeOK' /\ Stops
  <1> DEFINE dead == {t \in Threads : ProcessOf[t] = proc}
  <1>1. /\ calls' = [t \in Threads |-> IF t \in dead THEN Provider!Idle ELSE calls[t]]
        /\ settled' = [t \in Threads |-> IF t \in dead THEN NoValue ELSE settled[t]]
        /\ UNCHANGED <<blobs, media>>
    BY DEF KillProcess, Provider!KillProcess
  <1>2. /\ frames' = [t \in Threads |-> IF ProcessOf[t] = proc THEN NoFrame ELSE frames[t]]
        /\ UNCHANGED <<racing, clock, units, served, passed, troubles>>
    BY DEF KillProcess
  <1>3. Provider!TypeOK'
    BY <1>1 DEF TypeOK, Provider!TypeOK, Provider!CallStates
  <1>4. TypeOK'
    BY <1>2, <1>3 DEF TypeOK
  <1>5. Stops
    BY <1>1, <1>2 DEF Stops, Quiet
  <1>6. QED
    BY <1>4, <1>5

(* Storage fails, or state is removed. *)
LEMMA StorageTroubles ==
  ASSUME TypeOK
  PROVE  /\ \A m \in {"ok"} \cup Media : MediaChanges(m) => TypeOK' /\ Troubles
         /\ \A k \in Keys : RemoveBlob(k) => TypeOK' /\ Troubles
  <1>1. ASSUME NEW m \in {"ok"} \cup Media, MediaChanges(m)
        PROVE  TypeOK' /\ Troubles
    <2>1. /\ ~racing /\ troubles' = troubles \cup {"media"}
          /\ served' = [q \in Queries |-> {}] /\ media' = m
          /\ UNCHANGED <<racing, clock, units, frames, passed, blobs, calls>>
          /\ settled' = IF m = "locked" THEN [t \in Threads |-> NoValue] ELSE settled
      BY <1>1 DEF MediaChanges, Trouble, Provider!MediaChanges
    <2>2. Provider!TypeOK'
      BY <2>1 DEF TypeOK, Provider!TypeOK
    <2>3. TypeOK'
      BY <2>1, <2>2 DEF TypeOK
    <2>4. Troubles
      BY <2>1 DEF Troubles
    <2>5. QED
      BY <2>3, <2>4
  <1>2. ASSUME NEW k \in Keys, RemoveBlob(k)
        PROVE  TypeOK' /\ Troubles
    <2>1. /\ ~racing /\ troubles' = troubles \cup {"removed"}
          /\ served' = [q \in Queries |-> {}] /\ blobs' = [blobs EXCEPT ![k] = NoValue]
          /\ UNCHANGED <<racing, clock, units, frames, passed, media, calls>>
          /\ settled' = [t \in Threads |->
               IF calls[t].stage # "idle" /\ calls[t].path = k THEN NoValue ELSE settled[t]]
      BY <1>2 DEF RemoveBlob, Trouble, Provider!RemoveBlob
    <2>2. Provider!TypeOK'
      BY <2>1 DEF TypeOK, Provider!TypeOK
    <2>3. TypeOK'
      BY <2>1, <2>2 DEF TypeOK
    <2>4. Troubles
      BY <2>1 DEF Troubles, TypeOK, Provider!TypeOK
    <2>5. QED
      BY <2>3, <2>4
  <1>3. QED
    BY <1>1, <1>2

(* The clock moves. *)
LEMMA ClockMoves ==
  ASSUME TypeOK
  PROVE  /\ Tick => TypeOK' /\ Passing
         /\ \A c \in Start..MaxClock : SetBack(c) => TypeOK' /\ Sets
  <1>1. ASSUME Tick PROVE TypeOK' /\ Passing
    <2>1. /\ clock' = clock + 1 /\ clock < IF racing THEN RaceClock ELSE MaxClock
          /\ \A t \in Threads : frames[t] # NoFrame => clock - frames[t].since < CallSpan
          /\ UNCHANGED <<racing, units, frames, served, passed, troubles>>
          /\ UNCHANGED providerVars
      BY <1>1 DEF Tick
    <2>2. clock' \in Start..MaxClock
      BY <2>1, Numbers DEF TypeOK
    <2>3. TypeOK'
      BY <2>1, <2>2 DEF TypeOK, Provider!TypeOK, providerVars
    <2>4. Passing
      BY <2>1, FrameFields DEF Passing
    <2>5. QED
      BY <2>3, <2>4
  <1>2. ASSUME NEW c \in Start..MaxClock, SetBack(c) PROVE TypeOK' /\ Sets
    BY <1>2 DEF SetBack, Trouble, Sets, TypeOK, Provider!TypeOK, providerVars
  <1>3. QED
    BY <1>1, <1>2

(* Every step keeps the types and is one of these moves. *)
LEMMA EveryMove ==
  ASSUME FitInv, [Next]_vars
  PROVE  TypeOK' /\ Move
  <1>1. TypeOK
    BY DEF FitInv
  <1>2. ASSUME NEW t \in Threads, NEW q \in IF racing THEN RaceAsked ELSE Asked, BeginQuery(t, q)
        PROVE  TypeOK' /\ Move
    <2>1. q \in Queries
      BY <1>2, TemporalAssumption DEF TemporalAssumption
    <2>2. QED
      BY <1>1, <1>2, <2>1, BeginStarts DEF Move
  <1>3. ASSUME NEW t \in Threads, QueryStep(t)
        PROVE  TypeOK' /\ Move
    BY <1>1, <1>3, AskVolumeAsks, TakeVolumeMoves, AskValueAsks, TakeInstallMoves,
       TakeBootMoves, FileMoves DEF QueryStep, Move
  <1>4. ASSUME NEW proc \in Processes, KillProcess(proc)
        PROVE  TypeOK' /\ Move
    BY <1>1, <1>4, KillStops DEF Move
  <1>5. ASSUME \/ \E m \in {"ok"} \cup Media : MediaChanges(m)
               \/ \E k \in Keys : RemoveBlob(k)
        PROVE  TypeOK' /\ Move
    BY <1>1, <1>5, StorageTroubles DEF Move
  <1>6. ASSUME Tick \/ \E c \in Start..MaxClock : SetBack(c)
        PROVE  TypeOK' /\ Move
    BY <1>1, <1>6, ClockMoves DEF Move
  <1>7. CASE UNCHANGED vars
    BY <1>1, <1>7 DEF vars, queryVars, providerVars, TypeOK, Provider!TypeOK, Move
  <1>8. QED
    BY <1>2, <1>3, <1>4, <1>5, <1>6, <1>7 DEF Next

-----------------------------------------------------------------------------
(* The bounds of a query do not change while the seed does not. *)
LEMMA SameBounds ==
  ASSUME units' = units
  PROVE  /\ \A n : VolumeBounds(n)' = VolumeBounds(n)
         /\ \A q, n, v : ValueBounds(q, n, v)' = ValueBounds(q, n, v)
  BY DEF VolumeBounds, ValueBounds, BootBounds, InstallBounds

(* A load nobody touches stays as it was asked for. *)
LEMMA FitKept ==
  ASSUME NEW t \in Threads, Fits(t), frames'[t] = frames[t], calls'[t] = calls[t],
         units' = units, clock' = clock, troubles' = troubles
  PROVE  Fits(t)'
  <1>1. /\ \A n \in Int : VolumeBounds(n)' = VolumeBounds(n)
        /\ \A q, n, v : ValueBounds(q, n, v)' = ValueBounds(q, n, v)
    BY SameBounds
  <1>2. Steady' = Steady
    BY DEF Steady
  <1>3. QED
    BY <1>2 DEF Fits, Based, Loading, Asking, VolumeBounds, ValueBounds, BootBounds, InstallBounds

(* A thread that has stopped asks for nothing. *)
LEMMA FitStopped ==
  ASSUME NEW t \in Threads, frames'[t] = NoFrame, calls'[t] = Provider!Idle
  PROVE  Fits(t)'
  BY DEF Fits, Based, Loading, Asking, NoFrame, Provider!Idle

(* A query that starts or asks has bounds of the moment. *)
LEMMA FitAsks ==
  ASSUME TypeOK, TypeOK', NEW t \in Threads, Fits(t), Starts(t) \/ Asks(t) \/ GoesOn(t)
  PROVE  Fits(t)'
  <1>1. clock \in Int /\ CallSpan \in Nat
    BY Numbers DEF TypeOK
  <1>2. CASE Starts(t)
    <2>1. frames'[t].step = "baseline" /\ calls'[t] = Provider!Idle
      BY <1>2 DEF Starts, Fits, Asking
    <2>2. /\ frames'[t].now = Seconds(frames'[t].since)
          /\ clock' \in frames'[t].since..frames'[t].since + CallSpan
      BY <1>1, <1>2 DEF Starts, Quiet
    <2>3. QED
      BY <2>1, <2>2 DEF Fits, Based, Loading, Asking, Provider!Idle
  <1>3. CASE Asks(t)
    <2>1. /\ frames'[t].query = frames[t].query /\ frames'[t].now = frames[t].now
          /\ frames'[t].since = frames[t].since /\ frames'[t].volume = frames[t].volume
          /\ clock' = clock /\ troubles' = troubles /\ units' = units
          /\ calls'[t].stage = "read" /\ Asking(t)
      BY <1>3 DEF Asks, SameQuery, Quiet, Asking
    <2>2. /\ frames[t].now = Seconds(frames[t].since)
          /\ Steady => clock \in frames[t].since..frames[t].since + CallSpan
          /\ frames[t].since \in Int
      BY <2>1, FrameFields DEF Fits
    <2>3. CASE frames[t].step = "baseline"
      <3>1. /\ frames'[t].step = "volume" /\ calls'[t].path = "volume"
            /\ calls'[t].arg = VolumeBounds(Seconds(clock))
        BY <1>3, <2>3 DEF Asks
      <3>2. /\ VolumeBounds(Seconds(clock))' = VolumeBounds(Seconds(clock))
            /\ \A c \in Int : VolumeBounds(Seconds(c))' = VolumeBounds(Seconds(c))
        BY <2>1 DEF VolumeBounds
      <3>3. Steady' = Steady
        BY <2>1 DEF Steady
      <3>4. Loading(t)' /\ frames'[t].step = "volume" =>
              \E c \in Int : /\ calls'[t].arg = VolumeBounds(Seconds(c))'
                             /\ Steady' => c \in frames'[t].since..clock'
        BY <1>1, <2>1, <2>2, <3>1, <3>2, <3>3
      <3>5. QED
        BY <2>1, <2>2, <3>1, <3>3, <3>4 DEF Fits, Based, Loading, Asking
    <2>4. CASE frames[t].step = "bounds"
      <3>1. /\ frames'[t].step = "value" /\ calls'[t].path = KeyOf(frames[t].query)
            /\ calls'[t].arg = ValueBounds(frames[t].query, frames[t].now, frames[t].volume)
        BY <1>3, <2>4 DEF Asks
      <3>2. ValueBounds(frames[t].query, frames[t].now, frames[t].volume)'
              = ValueBounds(frames[t].query, frames[t].now, frames[t].volume)
        BY <2>1 DEF ValueBounds, BootBounds, InstallBounds
      <3>3. frames[t].query # "volume" /\ frames[t].volume \in Int
        BY <2>4 DEF Fits, Based
      <3>4. QED
        BY <2>1, <2>2, <3>1, <3>2, <3>3 DEF Fits, Based, Loading, Asking, Steady
    <2>5. QED
      BY <1>3, <2>3, <2>4 DEF Asks
  <1>4. CASE GoesOn(t)
    <2>1. /\ frames'[t].query = frames[t].query /\ frames'[t].now = frames[t].now
          /\ frames'[t].since = frames[t].since /\ frames'[t].volume = calls[t].output
          /\ clock' = clock /\ troubles' = troubles /\ frames'[t].step = "bounds"
          /\ calls'[t] = Provider!Idle /\ Answered(t) /\ frames[t].query # "volume"
          /\ frames[t].step = "volume"
      BY <1>4 DEF GoesOn, SameQuery, Quiet
    <2>2. calls[t].output \in Int
      BY <2>1, CallFields DEF Answered, Times
    <2>3. QED
      BY <2>1, <2>2 DEF Fits, Based, Loading, Asking, Provider!Idle, Steady
  <1>5. QED
    BY <1>2, <1>3, <1>4

(* A load whose file is read or written stays what was asked for. *)
LEMMA FitLoads ==
  ASSUME TypeOK, NEW t \in Threads, Fits(t), Hits(t) \/ Misses(t) \/ Writes(t) \/ Fails(t)
  PROVE  Fits(t)'
  <1>1. /\ frames' = frames /\ clock' = clock /\ troubles' = troubles /\ units' = units
        /\ calls[t].stage \in {"read", "write"} /\ calls'[t].stage \in {"write", "done"}
        /\ calls'[t].path = calls[t].path
        /\ calls'[t].stage = "write" =>
             /\ calls'[t].arg = calls[t].arg
             /\ calls'[t].output = GenerateStableTimeInterval(calls[t].path, calls[t].arg)
    BY DEF Hits, Misses, Writes, Fails, queryVars
  <1>2. \A c \in Int : VolumeBounds(Seconds(c))' = VolumeBounds(Seconds(c))
    BY <1>1 DEF VolumeBounds
  <1>3. ValueBounds(frames[t].query, frames[t].now, frames[t].volume)'
          = ValueBounds(frames[t].query, frames[t].now, frames[t].volume)
    BY <1>1 DEF ValueBounds, BootBounds, InstallBounds
  <1>4. Steady' = Steady
    BY <1>1 DEF Steady
  <1>5. frames[t].step \in {"volume", "value"}
    BY <1>1, FrameFields DEF Fits, Provider!Idle
  <1>6. calls'[t].stage = "write" /\ frames'[t].step = "volume" =>
          \E c \in Int : /\ calls'[t].arg = VolumeBounds(Seconds(c))'
                         /\ Steady' => c \in frames'[t].since..clock'
    BY <1>1, <1>2, <1>4 DEF Fits, Loading
  <1>7. calls'[t].stage = "write" =>
          calls'[t].output = GenerateStableTimeInterval(calls'[t].path, calls'[t].arg)
    BY <1>1
  <1>8. QED
    BY <1>1, <1>3, <1>4, <1>5, <1>6, <1>7 DEF Fits, Based, Loading, Asking

(* So it stays while time passes and the clock is set back. *)
LEMMA FitClock ==
  ASSUME TypeOK, TypeOK', NEW t \in Threads, Fits(t), Troubles \/ Passing \/ Sets
  PROVE  Fits(t)'
  <1>1. /\ frames' = frames /\ calls' = calls /\ units' = units /\ (Steady' => Steady)
        /\ clock \in Int /\ clock' \in Int /\ CallSpan \in Nat
    BY Numbers DEF Troubles, Passing, Sets, Steady, providerVars, TypeOK
  <1>2. \A c \in Int : VolumeBounds(Seconds(c))' = VolumeBounds(Seconds(c))
    BY <1>1 DEF VolumeBounds
  <1>3. ValueBounds(frames[t].query, frames[t].now, frames[t].volume)'
          = ValueBounds(frames[t].query, frames[t].now, frames[t].volume)
    BY <1>1 DEF ValueBounds, BootBounds, InstallBounds
  <1>4. Steady' => clock' = clock \/ (clock' = clock + 1 /\ (Asking(t) => clock - frames[t].since < CallSpan))
    BY DEF Troubles, Passing, Sets, Steady
  <1>5. Asking(t) => frames[t].since \in Int
    BY FrameFields
  <1>6. Asking(t)' /\ Steady' => clock' \in frames'[t].since..frames'[t].since + CallSpan
    BY <1>1, <1>4, <1>5 DEF Fits, Asking
  <1>7. Loading(t)' /\ frames'[t].step = "volume" =>
          \E c \in Int : /\ calls'[t].arg = VolumeBounds(Seconds(c))'
                         /\ Steady' => c \in frames'[t].since..clock'
    <2>1. SUFFICES ASSUME Loading(t), frames[t].step = "volume"
          PROVE  \E c \in Int : /\ calls[t].arg = VolumeBounds(Seconds(c))
                                /\ Steady' => c \in frames[t].since..clock'
      BY <1>1, <1>2 DEF Loading
    <2>2. PICK c \in Int : /\ calls[t].arg = VolumeBounds(Seconds(c))
                           /\ Steady => c \in frames[t].since..clock
      BY <2>1 DEF Fits
    <2>3. Steady' => c \in frames[t].since..clock'
      BY <1>1, <1>4, <1>5, <2>1, <2>2 DEF Asking
    <2>4. QED
      BY <2>2, <2>3
  <1>8. QED
    BY <1>1, <1>3, <1>6, <1>7 DEF Fits, Based, Loading, Asking

(* Every load fits its query after every step. *)
LEMMA FitStep ==
  ASSUME FitInv, [Next]_vars
  PROVE  FitInv'
  <1>1. TypeOK /\ TypeOK' /\ Move /\ \A t \in Threads : Fits(t)
    BY EveryMove DEF FitInv
  <1>2. SUFFICES ASSUME NEW u \in Threads PROVE Fits(u)'
    BY <1>1 DEF FitInv
  <1>3. ASSUME NEW t \in Threads,
               \/ Starts(t) \/ Asks(t) \/ GoesOn(t) \/ Passes(t) \/ (\E v \in Int : Tells(t, v))
               \/ Hits(t) \/ Misses(t) \/ Writes(t) \/ Fails(t)
        PROVE  Fits(u)'
    <2>1. CASE u # t
      <3>1. Elsewhere(t) /\ units' = units /\ clock' = clock /\ troubles' = troubles
        BY <1>3 DEF Starts, Asks, GoesOn, Passes, Tells, Ends, Hits, Misses, Writes, Fails,
                    Quiet, queryVars
      <3>2. QED
        BY <1>1, <2>1, <3>1, FitKept DEF Elsewhere
    <2>2. CASE u = t
      <3>1. Ends(t) => Fits(t)'
        BY FitStopped DEF Ends
      <3>2. QED
        BY <1>1, <1>3, <2>2, <3>1, FitAsks, FitLoads DEF Passes, Tells
    <2>3. QED
      BY <2>1, <2>2
  <1>4. CASE Stops
    <2>1. units' = units /\ clock' = clock /\ troubles' = troubles
      BY <1>4 DEF Stops, Quiet
    <2>2. QED
      BY <1>1, <1>4, <2>1, FitKept, FitStopped DEF Stops
  <1>5. CASE Troubles \/ Passing \/ Sets
    BY <1>1, <1>5, FitClock
  <1>6. CASE UNCHANGED vars
    BY <1>1, <1>6, FitKept DEF vars, queryVars, providerVars
  <1>7. QED
    BY <1>1, <1>3, <1>4, <1>5, <1>6 DEF Move

-----------------------------------------------------------------------------
(* Callers stay alone, or without trouble. *)
LEMMA AloneStep ==
  ASSUME FitInv, AloneInv, [Next]_vars
  PROVE  AloneInv'
  <1>1. Move
    BY EveryMove
  <1>2. racing' = racing /\ (racing => troubles' = troubles)
    BY <1>1 DEF Move, Starts, Asks, GoesOn, Passes, Tells, Ends, Hits, Misses, Writes, Fails,
                Stops, Troubles, Passing, Sets, Quiet, vars, queryVars
  <1>3. SUFFICES ASSUME ~racing, NEW u \in Threads, NEW w \in Threads, Asking(u)', Asking(w)'
        PROVE  u = w
    BY <1>2 DEF AloneInv
  <1>4. \A a, b \in Threads : Asking(a) /\ Asking(b) => a = b
    BY <1>3 DEF AloneInv
  <1>5. ASSUME NEW t \in Threads, Starts(t)
        PROVE  u = w
    BY <1>3, <1>5 DEF Starts, Elsewhere, Asking
  <1>6. ASSUME \A a \in Threads : Asking(a)' => Asking(a)
        PROVE  u = w
    BY <1>3, <1>4, <1>6
  <1>7. ASSUME NEW t \in Threads,
               \/ Asks(t) \/ GoesOn(t) \/ Passes(t) \/ (\E v \in Int : Tells(t, v))
        PROVE  \A a \in Threads : Asking(a)' => Asking(a)
    BY <1>7 DEF Asks, GoesOn, Passes, Tells, Ends, Elsewhere, Asking
  <1>8. ASSUME NEW t \in Threads, Hits(t) \/ Misses(t) \/ Writes(t) \/ Fails(t)
        PROVE  \A a \in Threads : Asking(a)' => Asking(a)
    BY <1>8 DEF Hits, Misses, Writes, Fails, queryVars, Asking
  <1>9. ASSUME Stops \/ Troubles \/ Passing \/ Sets \/ UNCHANGED vars
        PROVE  \A a \in Threads : Asking(a)' => Asking(a)
    BY <1>9 DEF Stops, Troubles, Passing, Sets, vars, queryVars, Asking, NoFrame
  <1>10. QED
    BY <1>1, <1>5, <1>6, <1>7, <1>8, <1>9 DEF Move

-----------------------------------------------------------------------------
(* A value that is generated lies before the clock, as its bounds do. *)
LEMMA GeneratedInPast ==
  ASSUME FitInv, Steady, NEW t \in Threads, Loading(t),
         GenerateStableTimeInterval(calls[t].path, calls[t].arg) # NoValue
  PROVE  GenerateStableTimeInterval(calls[t].path, calls[t].arg) < clock - Age(calls[t].path)
  <1> DEFINE b == calls[t].arg
             v == GenerateStableTimeInterval(calls[t].path, b)
  <1>1. /\ TypeOK /\ Fits(t) /\ calls[t].stage \in {"read", "write"} /\ b \in Bounds
        /\ clock \in Int
    BY CallFields DEF FitInv, Loading, TypeOK
  <1>2. v \in Int /\ v < b.upper /\ b.upper \in Int
    BY <1>1, Generated DEF Bounds
  <1>3. frames[t].step \in {"volume", "value"} /\ Asking(t)
    BY <1>1, FrameFields DEF Fits, Provider!Idle, Asking
  <1>4. frames[t].since \in Int /\ frames[t].since <= clock /\ frames[t].now = Seconds(frames[t].since)
    BY <1>1, <1>3, FrameFields DEF Fits
  <1>5. CASE frames[t].step = "volume"
    <2>1. PICK c \in Int : b = VolumeBounds(Seconds(c)) /\ c <= clock
      BY <1>1, <1>4, <1>5 DEF Fits, Loading
    <2>2. Seconds(c) \in Int /\ Seconds(c) <= c
      BY Cutting
    <2>3. b.upper = Seconds(c) - VolumeMinAge /\ calls[t].path = "volume"
      BY <1>1, <1>5, <2>1 DEF VolumeBounds, Fits
    <2>4. QED
      BY <1>1, <1>2, <2>1, <2>2, <2>3, Numbers DEF Age
  <1>6. CASE frames[t].step = "value"
    <2>1. /\ b = ValueBounds(frames[t].query, frames[t].now, frames[t].volume)
          /\ calls[t].path = KeyOf(frames[t].query) /\ frames[t].query # "volume"
      BY <1>1, <1>6 DEF Fits, Loading, Based
    <2>2. Seconds(frames[t].since) \in Int /\ Seconds(frames[t].since) <= frames[t].since
      BY <1>4, Cutting
    <2>3. frames[t].query \in Queries
      BY <1>1, <1>3, FrameFields
    <2>4. b.upper = frames[t].now - Age(calls[t].path)
      BY <2>1, <2>3 DEF ValueBounds, InstallBounds, BootBounds, Age, KeyOf, Queries, Keys
    <2>5. QED
      <3>1. Age(calls[t].path) \in Int
        BY Numbers DEF Age
      <3>2. QED
        BY <1>1, <1>2, <1>4, <2>2, <2>4, <3>1
  <1>7. QED
    BY <1>3, <1>5, <1>6

(* What is known of one thread. *)
PastOf(t) ==
  /\ Answered(t) => calls[t].output < clock - Age(calls[t].path)
  /\ Based(t) => frames[t].volume < clock - VolumeMinAge

(* The past is passed on from one step to the next. *)
LEMMA PastStep ==
  ASSUME FitInv, PastInv, [Next]_vars
  PROVE  PastInv'
  <1>1. Move /\ TypeOK /\ TypeOK' /\ \A t \in Threads : Fits(t)
    BY EveryMove DEF FitInv
  <1>2. SUFFICES ASSUME Steady'
        PROVE  /\ \A k \in Keys : blobs'[k] # NoValue => blobs'[k] < clock' - Age(k)
               /\ \A t \in Threads : PastOf(t)'
    BY DEF PastInv, PastOf, Age
  <1>3. Steady
    BY <1>1, <1>2 DEF Steady, Move, Starts, Asks, GoesOn, Passes, Tells, Ends, Hits, Misses,
                      Writes, Fails, Stops, Troubles, Passing, Sets, Quiet, vars, queryVars
  <1>4. /\ \A k \in Keys : blobs[k] # NoValue => blobs[k] < clock - Age(k)
        /\ \A t \in Threads : PastOf(t)
    BY <1>3 DEF PastInv, PastOf
  <1>5. /\ clock \in Int /\ clock' \in Int /\ \A k : Age(k) \in Int
        /\ \A k \in Keys : blobs[k] = NoValue \/ blobs[k] \in Int
    BY <1>1, Numbers DEF TypeOK, Provider!TypeOK, Age
  <1>6. ASSUME NEW t \in Threads,
               Starts(t) \/ Asks(t) \/ GoesOn(t) \/ Passes(t) \/ (\E v \in Int : Tells(t, v))
        PROVE  /\ \A k \in Keys : blobs'[k] # NoValue => blobs'[k] < clock' - Age(k)
               /\ \A u \in Threads : PastOf(u)'
    <2>1. clock' = clock /\ blobs' = blobs /\ Elsewhere(t)
      BY <1>6 DEF Starts, Asks, GoesOn, Passes, Tells, Ends, Quiet
    <2>2. \A u \in Threads : u # t => PastOf(u)'
      BY <1>4, <2>1 DEF Elsewhere, PastOf, Answered, Based
    <2>3. PastOf(t)'
      <3>1. CASE Starts(t)
        BY <1>1, <3>1 DEF Starts, PastOf, Answered, Based, Asking, Fits, Provider!Idle
      <3>2. CASE Asks(t)
        BY <1>4, <2>1, <3>2 DEF Asks, PastOf, Answered, Based
      <3>3. CASE GoesOn(t)
        <4>1. calls[t].path = "volume"
          BY <1>1, <3>3 DEF GoesOn, Fits
        <4>2. QED
          BY <1>4, <2>1, <3>3, <4>1 DEF GoesOn, PastOf, Answered, Based, Age, Provider!Idle
      <3>4. CASE Ends(t)
        BY <3>4 DEF Ends, PastOf, Answered, Based, NoFrame, Provider!Idle
      <3>5. QED
        BY <1>6, <3>1, <3>2, <3>3, <3>4 DEF Passes, Tells
    <2>4. QED
      BY <1>4, <2>1, <2>2, <2>3
  <1>7. ASSUME NEW t \in Threads, Hits(t) \/ Misses(t) \/ Writes(t) \/ Fails(t)
        PROVE  /\ \A k \in Keys : blobs'[k] # NoValue => blobs'[k] < clock' - Age(k)
               /\ \A u \in Threads : PastOf(u)'
    <2>1. /\ clock' = clock /\ frames' = frames /\ Elsewhere(t) /\ Loading(t)
          /\ calls'[t].path = calls[t].path
      BY <1>7 DEF Hits, Misses, Writes, Fails, queryVars, Loading
    <2>2. \A u \in Threads : u # t => PastOf(u)'
      BY <1>4, <2>1 DEF Elsewhere, PastOf, Answered, Based
    <2>3. calls[t].path \in Keys
      BY <1>1, <2>1, CallFields DEF Loading
    <2>4. calls[t].stage = "write" =>
            /\ calls[t].output = GenerateStableTimeInterval(calls[t].path, calls[t].arg)
            /\ calls[t].output \in Int
      BY <1>1, CallFields DEF Fits
    <2>5. GenerateStableTimeInterval(calls[t].path, calls[t].arg) # NoValue =>
            GenerateStableTimeInterval(calls[t].path, calls[t].arg) < clock - Age(calls[t].path)
      BY <1>3, <2>1, GeneratedInPast
    <2>6. Answered(t)' => calls'[t].output < clock - Age(calls[t].path)
      BY <1>4, <1>7, <2>1, <2>3, <2>4, <2>5 DEF Answered, Hits, Misses, Writes, Fails
    <2>7. PastOf(t)'
      BY <1>4, <2>1, <2>6 DEF PastOf, Based
    <2>8. \A k \in Keys : blobs'[k] # NoValue => blobs'[k] < clock' - Age(k)
      <3>1. CASE blobs' = blobs
        BY <1>4, <2>1, <3>1
      <3>2. CASE Writes(t)
        <4>1. blobs' = [blobs EXCEPT ![calls[t].path] = calls[t].output]
          BY <3>2 DEF Writes
        <4>2. calls[t].output < clock - Age(calls[t].path)
          BY <2>4, <2>5, <3>2, KeysOf DEF Writes
        <4>3. QED
          BY <1>1, <1>4, <2>1, <4>1, <4>2 DEF TypeOK, Provider!TypeOK
      <3>3. QED
        BY <1>7, <3>1, <3>2 DEF Hits, Misses, Fails
    <2>9. QED
      BY <2>2, <2>7, <2>8
  <1>8. CASE Stops
    BY <1>4, <1>8 DEF Stops, Quiet, PastOf, Answered, Based, NoFrame, Provider!Idle
  <1>9. CASE Troubles
    BY <1>4, <1>9 DEF Troubles, PastOf, Answered, Based
  <1>10. CASE Passing
    <2>1. /\ clock' = clock + 1 /\ blobs' = blobs /\ calls' = calls /\ frames' = frames
      BY <1>10 DEF Passing, providerVars
    <2>2. \A t \in Threads : /\ Answered(t) => calls[t].output \in Int
                             /\ Based(t) => frames[t].volume \in Int
      BY <1>1, CallFields DEF Answered, Fits, Times
    <2>3. \A t \in Threads : PastOf(t)'
      <3>1. SUFFICES ASSUME NEW t \in Threads PROVE PastOf(t)'
        OBVIOUS
      <3>2. Age(calls[t].path) \in Int /\ VolumeMinAge \in Int
        BY <1>5, Numbers
      <3>3. QED
        BY <1>4, <1>5, <2>1, <2>2, <3>2 DEF PastOf, Answered, Based
    <2>4. \A k \in Keys : blobs'[k] # NoValue => blobs'[k] < clock' - Age(k)
      BY <1>4, <1>5, <2>1
    <2>5. QED
      BY <2>3, <2>4
  <1>11. CASE Sets
    BY <1>2, <1>11 DEF Sets, Steady
  <1>12. CASE UNCHANGED vars
    BY <1>4, <1>12 DEF vars, queryVars, providerVars, PastOf, Answered, Based
  <1>13. QED
    BY <1>1, <1>6, <1>7, <1>8, <1>9, <1>10, <1>11, <1>12 DEF Move

-----------------------------------------------------------------------------
(* How far callers that race are apart is a number below the margins. *)
LEMMA SkewSmall ==
  /\ Skew \in Nat
  /\ racing => Skew = CallSpan + Second - 1
  /\ ~racing => Skew = 0
  /\ Skew + Second <= BootAfterVolume /\ Skew < InstallAfterVolume
  BY Numbers, SpanAssumption, MarginAssumption DEF Skew, SpanAssumption, MarginAssumption

(* A load that is to write has been asked for by a query. *)
LEMMA WriterAsks ==
  ASSUME FitInv, NEW t \in Threads, calls[t].stage = "write"
  PROVE  /\ Asking(t) /\ frames[t].step \in {"volume", "value"}
         /\ calls[t].path \in Keys /\ calls[t].output \in Int /\ calls[t].arg \in Bounds
         /\ calls[t].path = "volume" => frames[t].step = "volume"
         /\ calls[t].path # "volume" => frames[t].step = "value"
         /\ calls[t].output = DeriveTimeIntervalBetween(calls[t].arg.unit, calls[t].arg.lower,
                                                        calls[t].arg.upper)
         /\ calls[t].arg.lower <= calls[t].output
  <1>1. TypeOK /\ Fits(t)
    BY DEF FitInv
  <1>2. calls[t].path \in Keys /\ calls[t].output \in Int /\ calls[t].arg \in Bounds
    BY <1>1, CallFields DEF Loading
  <1>3. frames[t].step \in {"volume", "value"} /\ Asking(t)
    BY <1>1, FrameFields DEF Fits, Provider!Idle, Asking
  <1>4. calls[t].output = GenerateStableTimeInterval(calls[t].path, calls[t].arg)
    BY <1>1 DEF Fits
  <1>5. frames[t].step = "value" => calls[t].path # "volume"
    BY <1>1, <1>3, FrameFields, KeysOf DEF Fits, Based
  <1>6. frames[t].step = "volume" => calls[t].path = "volume"
    BY <1>1 DEF Fits
  <1>7. calls[t].output # NoValue
    BY <1>2, KeysOf
  <1>8. /\ calls[t].output = DeriveTimeIntervalBetween(calls[t].arg.unit, calls[t].arg.lower,
                                                       calls[t].arg.upper)
        /\ calls[t].arg.lower <= calls[t].output
    BY <1>2, <1>4, <1>7, Generated
  <1>9. QED
    BY <1>2, <1>3, <1>5, <1>6, <1>8

(* The bounds of a load behind the baseline. *)
LEMMA WriterBounds ==
  ASSUME FitInv, NEW t \in Threads, calls[t].stage = "write", calls[t].path # "volume"
  PROVE  LET k == calls[t].path
             b == calls[t].arg
             lookback == IF k = "boot" THEN BootLookback ELSE InstallLookback
         IN /\ k \in {"boot", "install"} /\ Based(t) /\ frames[t].volume \in Int
            /\ frames[t].now \in Int /\ frames[t].now = Seconds(frames[t].since)
            /\ b.unit = units[k]
            /\ b.lower = Larger(frames[t].now - lookback, frames[t].volume + After(k))
            /\ b.upper = frames[t].now - Age(k)
  <1>1. TypeOK /\ Fits(t) /\ frames[t].step = "value" /\ Asking(t) /\ calls[t].path \in Keys
    BY WriterAsks DEF FitInv
  <1>2. Based(t) /\ frames[t].volume \in Int /\ frames[t].query \in Queries /\ frames[t].now \in Int
    BY <1>1, FrameFields DEF Fits, Based
  <1>3. frames[t].now = Seconds(frames[t].since) /\ calls[t].path = KeyOf(frames[t].query)
    BY <1>1 DEF Fits
  <1>4. calls[t].arg = ValueBounds(frames[t].query, frames[t].now, frames[t].volume)
    BY <1>1 DEF Fits, Loading
  <1>5. CASE frames[t].query = "install"
    BY <1>2, <1>3, <1>4, <1>5 DEF ValueBounds, InstallBounds, KeyOf, After, Age
  <1>6. CASE frames[t].query # "install"
    <2>1. calls[t].path = "boot"
      BY <1>1, <1>2, <1>3, <1>6, KeysOf DEF Keys, Queries, KeyOf
    <2>2. QED
      BY <1>2, <1>3, <1>4, <1>6, <2>1 DEF ValueBounds, BootBounds, After, Age
  <1>7. QED
    BY <1>5, <1>6

(* What a load behind the baseline is to write lies behind the window of   *)
(* the baseline.                                                           *)
LEMMA WriterBehind ==
  ASSUME FitInv, NEW t \in Threads, calls[t].stage = "write", calls[t].path # "volume",
         NEW v \in Int, frames[t].volume >= v
  PROVE  calls[t].output >= v + After(calls[t].path)
  <1>1. calls[t].output \in Int /\ calls[t].arg \in Bounds /\ calls[t].arg.lower <= calls[t].output
    BY WriterAsks
  <1>2. /\ frames[t].volume \in Int /\ frames[t].now \in Int
        /\ calls[t].arg.lower =
             Larger(frames[t].now - (IF calls[t].path = "boot" THEN BootLookback ELSE InstallLookback),
                    frames[t].volume + After(calls[t].path))
    BY WriterBounds
  <1>3. After(calls[t].path) \in Int
    BY Numbers DEF After
  <1>4. calls[t].arg.lower >= frames[t].volume + After(calls[t].path)
    BY <1>2, <1>3, Numbers DEF Larger
  <1>5. calls[t].arg.lower \in Int
    BY <1>1 DEF Bounds
  <1>6. QED
    BY <1>1, <1>2, <1>3, <1>4, <1>5

(* The clock that racing callers cut to seconds. *)
LEMMA RacingClock ==
  ASSUME FitInv, AloneInv, racing, NEW t \in Threads, Asking(t), NEW c \in frames[t].since..clock
  PROVE  LET first == clock - CallSpan - (Second - 1)
         IN /\ first \in Int /\ Seconds(c) \in first..first + Skew
            /\ Seconds(frames[t].since) \in first..first + Skew
  <1>1. TypeOK /\ Fits(t) /\ Steady
    BY DEF FitInv, AloneInv, Steady
  <1>2. frames[t].since \in Int /\ clock \in frames[t].since..frames[t].since + CallSpan /\ clock \in Int
    BY <1>1, FrameFields DEF Fits, TypeOK
  <1>3. /\ Seconds(c) \in Int /\ Seconds(c) \in c - (Second - 1)..c
        /\ Seconds(frames[t].since) \in Int
        /\ Seconds(frames[t].since) \in frames[t].since - (Second - 1)..frames[t].since
    BY <1>2, Cutting
  <1>4. QED
    BY <1>2, <1>3, Numbers, SkewSmall

(* Racing callers that are to write the baseline are close. *)
LEMMA VolumesClose ==
  ASSUME FitInv, AloneInv, racing
  PROVE  \E m \in Int : \A u \in Threads :
           calls[u].stage = "write" /\ calls[u].path = "volume" => calls[u].output \in m..m + Skew
  <1> DEFINE first == clock - CallSpan - (Second - 1)
             m == DeriveTimeIntervalBetween(units["volume"], first - VolumeMaxAge,
                                            first - VolumeMinAge)
  <1>1. TypeOK /\ Steady /\ first \in Int /\ Skew \in Nat
    BY Numbers, SkewSmall DEF FitInv, AloneInv, Steady, TypeOK
  <1>2. units["volume"] \in 0..UnitCount
    BY <1>1, Units, KeysOf
  <1>3. first - VolumeMaxAge \in Int /\ first - VolumeMinAge \in Int
    BY <1>1, Numbers
  <1>4. m \in Int
    BY <1>2, <1>3, Mean
  <1>5. ASSUME NEW u \in Threads, calls[u].stage = "write", calls[u].path = "volume"
        PROVE  calls[u].output \in m..m + Skew
    <2>1. /\ Asking(u) /\ frames[u].step = "volume" /\ Fits(u)
          /\ calls[u].output = DeriveTimeIntervalBetween(calls[u].arg.unit, calls[u].arg.lower,
                                                         calls[u].arg.upper)
      BY <1>5, WriterAsks DEF FitInv
    <2>2. PICK c \in Int : calls[u].arg = VolumeBounds(Seconds(c)) /\ c \in frames[u].since..clock
      BY <1>1, <1>5, <2>1 DEF Fits, Loading
    <2>3. Seconds(c) \in first..first + Skew
      BY ONLY FitInv, AloneInv, racing, u \in Threads, <2>1, <2>2, RacingClock
    <2>4. /\ calls[u].arg.unit = units["volume"]
          /\ calls[u].arg.lower = Seconds(c) - VolumeMaxAge
          /\ calls[u].arg.upper = Seconds(c) - VolumeMinAge
      BY <2>2 DEF VolumeBounds
    <2> HIDE DEF first
    <2>5. /\ calls[u].arg.lower \in first - VolumeMaxAge..(first - VolumeMaxAge) + Skew
          /\ calls[u].arg.upper \in first - VolumeMinAge..(first - VolumeMinAge) + Skew
      BY <1>1, <2>3, <2>4, Numbers
    <2> DEFINE l == first - VolumeMaxAge
               h == first - VolumeMinAge
               ll == calls[u].arg.lower
               hh == calls[u].arg.upper
    <2>6. l \in Int /\ h \in Int /\ ll \in l..l + Skew /\ hh \in h..h + Skew
      BY <1>3, <2>5
    <2> HIDE DEF l, h, ll, hh
    <2>7. DeriveTimeIntervalBetween(units["volume"], ll, hh) \in
            DeriveTimeIntervalBetween(units["volume"], l, h)
              ..DeriveTimeIntervalBetween(units["volume"], l, h) + Skew
      BY ONLY <1>1, <1>2, <2>6, Shift
    <2>8. QED
      BY <2>1, <2>4, <2>7 DEF l, h, ll, hh
  <1> HIDE DEF m
  <1>6. QED
    BY <1>4, <1>5

(* So are those that are to write a value behind it. *)
LEMMA ValuesClose ==
  ASSUME FitInv, AloneInv, racing, NEW k \in {"boot", "install"}, NEW v \in Int,
         \A u \in Threads : Based(u) => frames[u].volume \in v..v + Skew
  PROVE  \E m \in Int : \A u \in Threads :
           calls[u].stage = "write" /\ calls[u].path = k => calls[u].output \in m..m + Skew
  <1> DEFINE first == clock - CallSpan - (Second - 1)
             lookback == IF k = "boot" THEN BootLookback ELSE InstallLookback
             low == Larger(first - lookback, v + After(k))
             m == DeriveTimeIntervalBetween(units[k], low, first - Age(k))
  <1>1. TypeOK /\ Steady /\ first \in Int /\ Skew \in Nat
    BY Numbers, SkewSmall DEF FitInv, AloneInv, Steady, TypeOK
  <1>2. units[k] \in 0..UnitCount
    BY <1>1, Units, KeysOf
  <1>3. lookback \in Int /\ After(k) \in Int /\ Age(k) \in Int
    BY Numbers DEF After, Age
  <1> HIDE DEF first, lookback
  <1>4. low \in Int /\ first - Age(k) \in Int
    BY <1>1, <1>3 DEF Larger
  <1>5. m \in Int
    BY <1>2, <1>4, Mean
  <1>6. ASSUME NEW u \in Threads, calls[u].stage = "write", calls[u].path = k
        PROVE  calls[u].output \in m..m + Skew
    <2>1. /\ Asking(u) /\ Fits(u)
          /\ calls[u].output = DeriveTimeIntervalBetween(calls[u].arg.unit, calls[u].arg.lower,
                                                         calls[u].arg.upper)
      BY <1>6, WriterAsks DEF FitInv
    <2>2. /\ Based(u) /\ frames[u].volume \in Int
          /\ frames[u].now \in Int /\ frames[u].now = Seconds(frames[u].since)
          /\ calls[u].arg.unit = units[k]
          /\ calls[u].arg.lower = Larger(frames[u].now - lookback, frames[u].volume + After(k))
          /\ calls[u].arg.upper = frames[u].now - Age(k)
      BY <1>6, WriterBounds DEF lookback
    <2>3. frames[u].since \in frames[u].since..clock
      BY <1>1, <2>1, FrameFields DEF Fits, TypeOK
    <2>4. frames[u].now \in first..first + Skew
      BY <2>1, <2>2, <2>3, RacingClock DEF first
    <2>5. frames[u].volume \in v..v + Skew
      BY <2>2
    <2>6. /\ calls[u].arg.lower \in low..low + Skew
          /\ calls[u].arg.upper \in first - Age(k)..(first - Age(k)) + Skew
      BY <1>1, <1>3, <2>2, <2>4, <2>5 DEF Larger
    <2> DEFINE h == first - Age(k)
               ll == calls[u].arg.lower
               hh == calls[u].arg.upper
    <2>7. h \in Int /\ ll \in low..low + Skew /\ hh \in h..h + Skew
      BY <1>4, <2>6
    <2> HIDE DEF low, h, ll, hh
    <2>8. DeriveTimeIntervalBetween(units[k], ll, hh) \in
            DeriveTimeIntervalBetween(units[k], low, h)
              ..DeriveTimeIntervalBetween(units[k], low, h) + Skew
      BY ONLY <1>1, <1>2, <1>4, <2>7, Shift
    <2>9. QED
      BY <2>1, <2>2, <2>8 DEF h, ll, hh
  <1> HIDE DEF m
  <1>7. QED
    BY <1>5, <1>6

(* Where nobody races there is one value to write. *)
LEMMA AloneClose ==
  ASSUME FitInv, AloneInv, ~racing, NEW t \in Threads, calls[t].stage = "write"
  PROVE  \A u \in Threads : calls[u].stage = "write" =>
           /\ u = t /\ calls[t].output \in Int
           /\ calls[u].output \in calls[t].output..calls[t].output + Skew
  BY WriterAsks, SkewSmall DEF AloneInv

-----------------------------------------------------------------------------
(* A thread has nothing new after a step: what it is to write, it was to   *)
(* write before or nothing is on file, what it answers or is based on it   *)
(* had, or found on file.                                                  *)
Same(u) == calls'[u].path = calls[u].path /\ calls'[u].output = calls[u].output

NothingNew(u) ==
  /\ calls'[u].stage = "write" =>
       (calls[u].stage = "write" /\ Same(u)) \/ blobs[calls'[u].path] = NoValue
  /\ Answered(u)' =>
       \/ Answered(u) /\ Same(u)
       \/ calls'[u].path \in Keys /\ calls'[u].output = blobs[calls'[u].path]
  /\ Based(u)' =>
       \/ Based(u) /\ frames'[u].volume = frames[u].volume
       \/ Answered(u) /\ calls[u].path = "volume" /\ frames'[u].volume = calls[u].output

(* What is served of a key has its window. *)
ServedIn(k, m) ==
  \A q \in Queries : KeyOf(q) = k =>
    \A x \in served[q] : blobs[k] # NoValue /\ \E y \in m..m + Skew : x = Cut(q, y)

(* Nothing new leaves a window as it is. *)
LEMMA WindowKept ==
  ASSUME NEW k \in Keys, NEW m \in Int, Window(k, m), racing' = racing, blobs' = blobs,
         \A u \in Threads : NothingNew(u), ServedIn(k, m)'
  PROVE  Window(k, m)'
  <1>1. Skew' = Skew
    BY DEF Skew
  <1>2. ASSUME NEW u \in Threads, calls'[u].stage = "write", calls'[u].path = k, blobs[k] # NoValue
        PROVE  calls'[u].output \in m..m + Skew
    BY <1>2 DEF NothingNew, Same, Window
  <1>3. ASSUME NEW u \in Threads, Answered(u)', calls'[u].path = k
        PROVE  blobs[k] # NoValue /\ calls'[u].output \in m..m + Skew
    BY <1>3 DEF NothingNew, Same, Window, Answered
  <1>4. QED
    BY <1>1, <1>2, <1>3 DEF Window, ServedIn

(* It leaves it behind the window of the baseline, too. *)
LEMMA BehindKept ==
  ASSUME NEW k \in Keys, NEW v \in Int, BehindVolume(k, v), racing' = racing, blobs' = blobs,
         \A u \in Threads : NothingNew(u),
         \A q \in Queries : KeyOf(q) = k => \A x \in served'[q] : x > v + Skew
  PROVE  BehindVolume(k, v)'
  <1>1. Skew' = Skew
    BY DEF Skew
  <1>2. ASSUME NEW u \in Threads, Answered(u)', calls'[u].path = k
        PROVE  calls'[u].output >= v + After(k)
    BY <1>2 DEF NothingNew, Same, BehindVolume, Answered
  <1>3. QED
    BY <1>1, <1>2 DEF BehindVolume, After

(* What is based on a baseline stays in its window. *)
LEMMA BasedKept ==
  ASSUME NEW v \in Int, Windows(v), racing' = racing, blobs' = blobs,
         NEW u \in Threads, NothingNew(u), Based(u)'
  PROVE  blobs["volume"] # NoValue /\ frames'[u].volume \in v..v + Skew
  BY DEF Windows, Window, NothingNew

(* The windows stay where nothing is new nor served. *)
LEMMA WindowsKept ==
  ASSUME NEW v \in Int, Windows(v), racing' = racing, blobs' = blobs, served' = served,
         \A u \in Threads : NothingNew(u)
  PROVE  Windows(v)'
  <1>1. Skew' = Skew
    BY DEF Skew
  <1>2. ASSUME NEW k \in Keys, NEW m \in Int, Window(k, m)
        PROVE  Window(k, m)'
    <2>1. ServedIn(k, m)'
      BY <1>1, <1>2 DEF ServedIn, Window, Cut, Seconds
    <2>2. QED
      BY <1>2, <2>1, WindowKept
  <1>3. Window("volume", v)'
    BY <1>2, KeysOf DEF Windows
  <1>4. ASSUME NEW u \in Threads, Based(u)'
        PROVE  blobs'["volume"] # NoValue /\ frames'[u].volume \in v..v + Skew'
    BY <1>1, <1>4, BasedKept
  <1>5. ASSUME NEW k \in {"boot", "install"}
        PROVE  BehindVolume(k, v)' /\ \E m \in Int : Window(k, m)'
    <2>1. k \in Keys /\ BehindVolume(k, v)
      BY <1>5, KeysOf DEF Windows
    <2>2. BehindVolume(k, v)'
      BY <2>1, BehindKept DEF BehindVolume
    <2>3. PICK m \in Int : Window(k, m)
      BY <1>5 DEF Windows
    <2>4. QED
      BY <1>2, <2>1, <2>2, <2>3
  <1>6. QED
    BY <1>3, <1>4, <1>5 DEF Windows

(* A value that is served was answered in the window of its key. *)
LEMMA WindowsTold ==
  ASSUME FitInv, NEW t \in Threads, NEW x \in Int, Tells(t, x), StorageHolds,
         NEW v \in Int, Windows(v)
  PROVE  Windows(v)'
  <1> DEFINE q == frames[t].query
             o == calls[t].output
  <1>1. /\ racing' = racing /\ blobs' = blobs /\ Elsewhere(t) /\ Answered(t) /\ TypeOK /\ Fits(t)
        /\ served' = [served EXCEPT ![q] = @ \cup {x}] /\ Asking(t)
        /\ frames'[t] = NoFrame /\ calls'[t] = Provider!Idle
    BY DEF Tells, Ends, Quiet, FitInv
  <1>2. q \in Queries /\ served \in [Queries -> SUBSET Int] /\ o \in Int
    BY <1>1, FrameFields, CallFields DEF TypeOK, Answered, Times
  <1>3. calls[t].path = KeyOf(q) /\ x = Cut(q, o)
    BY <1>1, <1>2 DEF Tells, Fits, Cut, KeyOf
  <1>4. \A u \in Threads : NothingNew(u)
    BY <1>1 DEF Elsewhere, NothingNew, Same, Answered, Based, NoFrame, Provider!Idle
  <1>5. Skew' = Skew /\ Skew \in Nat
    BY <1>1, SkewSmall DEF Skew
  <1>6. \A r \in Queries : served'[r] = IF r = q THEN served[r] \cup {x} ELSE served[r]
    BY <1>1, <1>2
  <1>7. ASSUME NEW k \in Keys, NEW m \in Int, Window(k, m)
        PROVE  Window(k, m)'
    <2>1. ASSUME NEW r \in Queries, KeyOf(r) = k, NEW y \in served'[r]
          PROVE  blobs[k] # NoValue /\ \E z \in m..m + Skew : y = Cut(r, z)
      <3>1. CASE y \in served[r]
        BY <1>7, <2>1, <3>1 DEF Window
      <3>2. CASE y \notin served[r]
        <4>1. r = q /\ y = x
          BY <1>6, <2>1, <3>2
        <4>2. blobs[k] # NoValue /\ o \in m..m + Skew
          BY <1>1, <1>3, <1>7, <2>1, <4>1 DEF Window
        <4>3. QED
          BY <1>3, <4>1, <4>2
      <3>3. QED
        BY <3>1, <3>2
    <2>2. ServedIn(k, m)'
      BY <1>1, <1>5, <2>1 DEF ServedIn, Cut, Seconds
    <2>3. QED
      BY <1>1, <1>4, <1>7, <2>2, WindowKept
  <1>8. Window("volume", v)'
    BY <1>7, KeysOf DEF Windows
  <1>9. ASSUME NEW u \in Threads, Based(u)'
        PROVE  blobs'["volume"] # NoValue /\ frames'[u].volume \in v..v + Skew'
    BY <1>1, <1>4, <1>5, <1>9, BasedKept
  <1>10. ASSUME NEW k \in {"boot", "install"}
         PROVE  BehindVolume(k, v)' /\ \E m \in Int : Window(k, m)'
    <2>1. k \in Keys /\ BehindVolume(k, v)
      BY <1>10, KeysOf DEF Windows
    <2>2. ASSUME NEW r \in Queries, KeyOf(r) = k, NEW y \in served'[r]
          PROVE  y > v + Skew
      <3>1. CASE y \in served[r]
        BY <2>1, <2>2, <3>1 DEF BehindVolume
      <3>2. CASE y \notin served[r]
        <4>1. r = q /\ y = x
          BY <1>6, <2>2, <3>2
        <4>2. o >= v + After(k)
          BY <1>1, <1>3, <2>1, <2>2, <4>1 DEF BehindVolume
        <4>3. CASE k = "boot"
          <5>1. x = Seconds(o) /\ Seconds(o) \in Int /\ Seconds(o) >= o - (Second - 1)
            BY <1>2, <1>3, <2>2, <4>1, <4>3, KeysOf, Cutting DEF Cut
          <5>2. QED
            BY <1>2, <4>1, <4>2, <4>3, <5>1, SkewSmall, Numbers DEF After
        <4>4. CASE k = "install"
          <5>1. x = o
            BY <1>2, <1>3, <2>2, <4>1, <4>4, KeysOf DEF Cut
          <5>2. QED
            BY <1>2, <4>1, <4>2, <4>4, <5>1, SkewSmall, Numbers DEF After
        <4>5. QED
          BY <1>10, <4>3, <4>4
      <3>3. QED
        BY <3>1, <3>2
    <2>3. BehindVolume(k, v)'
      BY <1>1, <1>4, <2>1, <2>2, BehindKept
    <2>4. PICK m \in Int : Window(k, m)
      BY <1>10 DEF Windows
    <2>5. QED
      BY <1>7, <2>1, <2>3, <2>4
  <1>11. QED
    BY <1>8, <1>9, <1>10 DEF Windows

(* What a write leaves: one more answer, one writer less. *)
LEMMA Written ==
  ASSUME FitInv, NEW t \in Threads, Writes(t)
  PROVE  /\ racing' = racing /\ frames' = frames /\ served' = served /\ Skew' = Skew
         /\ calls[t].path \in Keys /\ calls[t].output \in Int
         /\ \A k \in Keys : blobs'[k] = IF k = calls[t].path THEN calls[t].output ELSE blobs[k]
         /\ \A u \in Threads : calls'[u].stage = "write" => calls[u].stage = "write" /\ Same(u)
         /\ \A u \in Threads : Answered(u)' =>
              \/ Answered(u) /\ Same(u)
              \/ calls'[u].path = calls[t].path /\ calls'[u].output = calls[t].output
  <1>1. calls[t].path \in Keys /\ calls[t].output \in Int
    BY WriterAsks DEF Writes
  <1>2. /\ racing' = racing /\ frames' = frames /\ served' = served /\ Skew' = Skew
    BY DEF Writes, queryVars, Skew
  <1>3. \A k \in Keys : blobs'[k] = IF k = calls[t].path THEN calls[t].output ELSE blobs[k]
    BY <1>1 DEF Writes, FitInv, TypeOK, Provider!TypeOK
  <1>4. \A u \in Threads : calls'[u].stage = "write" => calls[u].stage = "write" /\ Same(u)
    BY DEF Writes, Elsewhere, Same
  <1>5. \A u \in Threads : Answered(u)' =>
          \/ Answered(u) /\ Same(u)
          \/ calls'[u].path = calls[t].path /\ calls'[u].output = calls[t].output
    BY DEF Writes, Elsewhere, Same, Answered
  <1>6. QED
    BY <1>1, <1>2, <1>3, <1>4, <1>5

(* The other windows stay. *)
LEMMA WindowElsewhere ==
  ASSUME FitInv, NEW t \in Threads, Writes(t), NEW k \in Keys, NEW m \in Int, Window(k, m),
         k # calls[t].path
  PROVE  Window(k, m)'
  <1>1. blobs'[k] = blobs[k] /\ served' = served /\ Skew' = Skew
    BY Written
  <1>2. \A u \in Threads : calls'[u].stage = "write" => calls[u].stage = "write" /\ Same(u)
    BY Written
  <1>3. \A u \in Threads : Answered(u)' /\ calls'[u].path = k => Answered(u) /\ Same(u)
    BY Written
  <1>4. QED
    BY <1>1, <1>2, <1>3 DEF Window, Same, Cut, Seconds

(* The window of the key that is written is the one it had, or the first,  *)
(* with all that are still to be written.                                  *)
LEMMA WindowWritten ==
  ASSUME FitInv, NEW t \in Threads, Writes(t), NEW p \in Keys, p = calls[t].path,
         NEW m \in Int, NEW l \in Int, Window(p, l), l = m \/ blobs[p] = NoValue,
         \A u \in Threads : calls[u].stage = "write" /\ calls[u].path = p =>
           calls[u].output \in m..m + Skew
  PROVE  Window(p, m)'
  <1> DEFINE o == calls[t].output
  <1>0. /\ blobs'[p] = o /\ o \in Int /\ served' = served /\ Skew' = Skew
        /\ calls[t].stage = "write" /\ calls[t].path = p
    <2>1. blobs'[p] = IF p = calls[t].path THEN calls[t].output ELSE blobs[p]
      BY Written
    <2>2. o \in Int /\ served' = served /\ Skew' = Skew
      BY Written
    <2>3. QED
      BY <2>1, <2>2 DEF Writes
  <1>1. /\ blobs'[p] = o /\ served' = served /\ Skew' = Skew
        /\ o # NoValue /\ o \in m..m + Skew
    BY <1>0, KeysOf
  <1>2. ASSUME NEW u \in Threads, calls'[u].stage = "write", calls'[u].path = p
        PROVE  calls'[u].output \in m..m + Skew
    BY <1>2, Written DEF Same
  <1>3. ASSUME NEW u \in Threads, Answered(u)', calls'[u].path = p
        PROVE  calls'[u].output \in m..m + Skew
    <2>1. CASE Answered(u) /\ Same(u)
      BY <1>3, <2>1 DEF Window, Same
    <2>2. CASE calls'[u].output = o
      BY <1>1, <2>2
    <2>3. QED
      BY <1>3, <2>1, <2>2, Written
  <1>4. ASSUME NEW q \in Queries, KeyOf(q) = p, NEW x \in served'[q]
        PROVE  \E y \in m..m + Skew : x = Cut(q, y)
    BY <1>1, <1>4 DEF Window
  <1>5. QED
    BY <1>1, <1>2, <1>3, <1>4 DEF Window, Cut, Seconds

(* What is to be written of a key shares the window it has, or one is      *)
(* chosen for it.                                                          *)
LEMMA WindowChosen ==
  ASSUME FitInv, AloneInv, NEW t \in Threads, calls[t].stage = "write", NEW v \in Int, Windows(v),
         NEW l \in Int, Window(calls[t].path, l)
  PROVE  \E m \in Int : /\ l = m \/ blobs[calls[t].path] = NoValue
                        /\ \A u \in Threads :
                             calls[u].stage = "write" /\ calls[u].path = calls[t].path =>
                               calls[u].output \in m..m + Skew
  <1> DEFINE p == calls[t].path
             Near(m) == \A u \in Threads : calls[u].stage = "write" /\ calls[u].path = p =>
                          calls[u].output \in m..m + Skew
  <1> SUFFICES \E m \in Int : (l = m \/ blobs[p] = NoValue) /\ Near(m)
    OBVIOUS
  <1>1. p \in Keys
    BY WriterAsks
  <1>2. CASE blobs[p] # NoValue
    BY <1>2 DEF Window
  <1>3. CASE blobs[p] = NoValue
    <2>1. CASE racing /\ p = "volume"
      BY <1>3, <2>1, VolumesClose
    <2>2. CASE racing /\ p # "volume"
      <3>1. p \in {"boot", "install"}
        BY <1>1, <2>2 DEF Keys
      <3>2. \A u \in Threads : Based(u) => frames[u].volume \in v..v + Skew
        BY DEF Windows
      <3> HIDE DEF p
      <3>3. \E m \in Int : Near(m)
        BY <2>2, <3>1, <3>2, ValuesClose
      <3>4. QED
        BY <1>3, <3>3
    <2>3. CASE ~racing
      <3>1. calls[t].output \in Int /\ Near(calls[t].output)
        BY <2>3, AloneClose, WriterAsks
      <3> HIDE DEF Near
      <3>2. QED
        BY <1>3, <3>1
    <2>4. QED
      BY <2>1, <2>2, <2>3
  <1>4. QED
    BY <1>2, <1>3

(* A value that is written is behind the baseline its load was bounded by. *)
LEMMA WrittenBehind ==
  ASSUME FitInv, NEW t \in Threads, Writes(t), calls[t].path # "volume", NEW v \in Int,
         Windows(v), NEW k \in {"boot", "install"}
  PROVE  BehindVolume(k, v)'
  <1> DEFINE p == calls[t].path
             o == calls[t].output
  <1>1. calls[t].stage = "write"
    BY DEF Writes
  <1>2. Based(t) /\ p \in Keys /\ o \in Int
    BY <1>1, WriterBounds, WriterAsks
  <1>3. blobs["volume"] # NoValue /\ frames[t].volume >= v
    <2>1. blobs["volume"] # NoValue /\ frames[t].volume \in v..v + Skew
      BY <1>2 DEF Windows
    <2>2. frames[t].volume \in Int
      BY <1>1, WriterBounds
    <2>3. QED
      BY <2>1, <2>2, SkewSmall
  <1>4. o >= v + After(p)
    BY <1>1, <1>3, WriterBehind
  <1>5. BehindVolume(k, v) /\ k \in Keys
    BY KeysOf DEF Windows
  <1>6. /\ blobs'["volume"] = blobs["volume"]
        /\ blobs'[k] = IF k = p THEN o ELSE blobs[k]
        /\ served' = served /\ Skew' = Skew
    BY <1>5, Written, KeysOf
  <1>7. ASSUME NEW u \in Threads, Answered(u)', calls'[u].path = k
        PROVE  calls'[u].output >= v + After(k)
    <2>1. CASE Answered(u) /\ Same(u)
      BY <1>5, <1>7, <2>1 DEF BehindVolume, Same
    <2>2. CASE calls'[u].path = p /\ calls'[u].output = o
      BY <1>4, <1>7, <2>2
    <2>3. QED
      BY <1>7, <2>1, <2>2, Written
  <1>8. blobs'[k] # NoValue => blobs'["volume"] # NoValue /\ blobs'[k] >= v + After(k)
    BY <1>3, <1>4, <1>5, <1>6 DEF BehindVolume
  <1>9. \A q \in Queries : KeyOf(q) = k => \A x \in served'[q] : x > v + Skew'
    BY <1>5, <1>6 DEF BehindVolume
  <1>10. QED
    BY <1>7, <1>8, <1>9 DEF BehindVolume, After

(* While there is no baseline nothing lies behind it. *)
LEMMA BaselineWritten ==
  ASSUME FitInv, NEW t \in Threads, Writes(t), calls[t].path = "volume", NEW v \in Int,
         Windows(v), NEW w \in Int, w = v \/ blobs["volume"] = NoValue,
         NEW k \in {"boot", "install"}
  PROVE  BehindVolume(k, w)'
  <1>1. BehindVolume(k, v) /\ k \in Keys /\ k # calls[t].path
    BY KeysOf DEF Windows
  <1>2. PICK m \in Int : Window(k, m)
    BY DEF Windows
  <1>3. /\ blobs'["volume"] = calls[t].output /\ blobs'[k] = blobs[k]
        /\ served' = served /\ Skew' = Skew /\ calls[t].output # NoValue
    BY <1>1, Written, KeysOf
  <1>4. \A u \in Threads : Answered(u)' /\ calls'[u].path = k => Answered(u) /\ Same(u)
    BY <1>1, Written
  <1>5. CASE w = v
    BY <1>1, <1>3, <1>4, <1>5 DEF BehindVolume, Same, After
  <1>6. CASE blobs["volume"] = NoValue
    <2>1. blobs[k] = NoValue
      BY <1>1, <1>6 DEF BehindVolume
    <2>2. \A u \in Threads : ~(Answered(u) /\ calls[u].path = k)
      BY <1>2, <2>1 DEF Window
    <2>3. \A q \in Queries : KeyOf(q) = k => \A x \in served[q] : FALSE
      BY <1>2, <2>1 DEF Window
    <2>4. QED
      BY <1>3, <1>4, <2>1, <2>2, <2>3 DEF BehindVolume, Same
  <1>7. QED
    BY <1>5, <1>6

(* A write leaves the windows, or opens the first of its key. *)
LEMMA WindowsWritten ==
  ASSUME FitInv, AloneInv, NEW t \in Threads, Writes(t), NEW v \in Int, Windows(v)
  PROVE  \E w \in Int : Windows(w)'
  <1>0. calls[t].path \in Keys /\ calls[t].stage = "write" /\ frames' = frames /\ Skew' = Skew
    BY Written DEF Writes
  <1>p. PICK p \in Keys : p = calls[t].path
    BY <1>0
  <1>1. p \in Keys /\ calls[t].stage = "write" /\ frames' = frames /\ Skew' = Skew
    BY <1>0
  <1>2. \A k \in Keys, m \in Int : Window(k, m) /\ k # p => Window(k, m)'
    BY <1>p, WindowElsewhere
  <1>3. ASSUME NEW l \in Int, Window(p, l)
        PROVE  \E m \in Int : (l = m \/ blobs[p] = NoValue) /\ Window(p, m)'
    <2>1. PICK m \in Int : /\ l = m \/ blobs[p] = NoValue
                           /\ \A u \in Threads : calls[u].stage = "write" /\ calls[u].path = p =>
                                calls[u].output \in m..m + Skew
      BY <1>1, <1>3, <1>p, WindowChosen
    <2>2. Window(p, m)'
      BY <1>1, <1>3, <1>p, <2>1, WindowWritten
    <2>3. QED
      BY <2>1, <2>2
  <1>4. /\ Window("volume", v)
        /\ \A k \in {"boot", "install"} : \E m \in Int : Window(k, m)
        /\ \A u \in Threads : Based(u) =>
             blobs["volume"] # NoValue /\ frames[u].volume \in v..v + Skew
    BY DEF Windows
  <1>5. \A k \in {"boot", "install"} : \E m \in Int : Window(k, m)'
    <2>1. SUFFICES ASSUME NEW k \in {"boot", "install"} PROVE \E m \in Int : Window(k, m)'
      OBVIOUS
    <2>2. PICK l \in Int : Window(k, l)
      BY <1>4
    <2>3. CASE k = p
      BY <1>3, <2>2, <2>3
    <2>4. CASE k # p
      BY <1>2, <2>2, <2>4, KeysOf
    <2>5. QED
      BY <2>3, <2>4
  <1>6. CASE p # "volume"
    <2>1. Window("volume", v)'
      BY <1>2, <1>4, <1>6, KeysOf
    <2>2. blobs'["volume"] = blobs["volume"]
      BY <1>6, <1>p, Written, KeysOf
    <2>3. \A u \in Threads : Based(u)' =>
            blobs'["volume"] # NoValue /\ frames'[u].volume \in v..v + Skew'
      BY <1>1, <1>4, <2>2 DEF Based
    <2>4. \A k \in {"boot", "install"} : BehindVolume(k, v)'
      BY <1>6, <1>p, WrittenBehind
    <2>5. Windows(v)'
      BY <1>5, <2>1, <2>3, <2>4 DEF Windows
    <2>6. QED
      BY <2>5
  <1>7. CASE p = "volume"
    <2>1. PICK w \in Int : (w = v \/ blobs["volume"] = NoValue) /\ Window("volume", w)'
      BY <1>3, <1>4, <1>7
    <2>2. blobs'["volume"] # NoValue
      BY <1>7, <1>p, Written, KeysOf
    <2>3. \A u \in Threads : Based(u)' =>
            blobs'["volume"] # NoValue /\ frames'[u].volume \in w..w + Skew'
      BY <1>1, <1>4, <2>1, <2>2 DEF Based
    <2>4. \A k \in {"boot", "install"} : BehindVolume(k, w)'
      BY <1>7, <1>p, <2>1, BaselineWritten
    <2>5. Windows(w)'
      BY <1>5, <2>1, <2>3, <2>4 DEF Windows
    <2>6. QED
      BY <2>5
  <1>8. QED
    BY <1>6, <1>7

(* A query that does not answer, and a read, bring nothing new. *)
LEMMA NothingNewMoves ==
  ASSUME FitInv, media = "ok", NEW t \in Threads,
         Starts(t) \/ Asks(t) \/ GoesOn(t) \/ Passes(t) \/ Hits(t) \/ Misses(t)
  PROVE  /\ racing' = racing /\ blobs' = blobs /\ served' = served
         /\ \A u \in Threads : NothingNew(u)
  <1>1. TypeOK /\ Fits(t)
    BY DEF FitInv
  <1>2. racing' = racing /\ blobs' = blobs /\ served' = served /\ Elsewhere(t)
    BY DEF Starts, Asks, GoesOn, Passes, Ends, Hits, Misses, Quiet, queryVars
  <1>3. \A u \in Threads : u # t => NothingNew(u)
    BY <1>2 DEF Elsewhere, NothingNew, Same, Answered, Based
  <1>4. NothingNew(t)
    <2>1. CASE Starts(t)
      BY <1>1, <2>1 DEF Starts, Asking, Fits, NothingNew, Same, Answered, Based, Provider!Idle
    <2>2. CASE Asks(t)
      BY <2>2 DEF Asks, NothingNew, Same, Answered, Based
    <2>3. CASE GoesOn(t)
      BY <1>1, <2>3 DEF GoesOn, Fits, NothingNew, Same, Answered, Based, Provider!Idle
    <2>4. CASE Passes(t)
      BY <2>4 DEF Passes, Ends, NothingNew, Same, Answered, Based, Provider!Idle, NoFrame
    <2>5. CASE Hits(t)
      <3>1. calls[t].path \in Keys
        BY <1>1, <2>5, CallFields DEF Hits
      <3>2. QED
        BY <2>5, <3>1 DEF Hits, queryVars, NothingNew, Same, Answered, Based
    <2>6. CASE Misses(t)
      BY <2>6 DEF Misses, queryVars, NothingNew, Same, Answered, Based
    <2>7. QED
      BY <2>1, <2>2, <2>3, <2>4, <2>5, <2>6
  <1>5. QED
    BY <1>2, <1>3, <1>4

(* The windows are passed on from one step to the next. *)
LEMMA WindowStep ==
  ASSUME FitInv, AloneInv, WindowInv, [Next]_vars
  PROVE  WindowInv'
  <1>1. Move /\ TypeOK
    BY EveryMove DEF FitInv
  <1>2. CASE ~StorageHolds'
    <2>1. CASE Troubles
      BY <1>2, <2>1 DEF Troubles, WindowInv
    <2>2. CASE ~Troubles
      <3>1. ~StorageHolds
        BY <1>1, <1>2, <2>2
           DEF StorageHolds, Move, Starts, Asks, GoesOn, Passes, Tells, Ends, Hits, Misses, Writes,
               Fails, Stops, Passing, Sets, Quiet, vars, queryVars
      <3>2. served' = served
        BY <1>1, <2>2, <3>1
           DEF Move, Starts, Asks, GoesOn, Passes, Tells, Hits, Misses, Writes, Fails, Stops,
               Passing, Sets, vars, queryVars
      <3>3. QED
        BY <1>2, <3>1, <3>2 DEF WindowInv
    <2>3. QED
      BY <2>1, <2>2
  <1>3. CASE StorageHolds'
    <2>1. StorageHolds /\ ~Troubles
      BY <1>1, <1>3
         DEF StorageHolds, Move, Starts, Asks, GoesOn, Passes, Tells, Ends, Hits, Misses, Writes,
             Fails, Stops, Troubles, Passing, Sets, Quiet, vars, queryVars
    <2>2. media = "ok" /\ \E v \in Int : Windows(v)
      BY <2>1 DEF WindowInv
    <2>3. PICK v \in Int : Windows(v)
      BY <2>2
    <2>4. media' = "ok"
      BY <1>1, <2>1, <2>2
         DEF Move, Starts, Asks, GoesOn, Passes, Tells, Ends, Hits, Misses, Writes, Fails, Stops,
             Passing, Sets, vars, providerVars
    <2>5. ASSUME NEW t \in Threads,
                 Starts(t) \/ Asks(t) \/ GoesOn(t) \/ Passes(t) \/ Hits(t) \/ Misses(t)
          PROVE  \E w \in Int : Windows(w)'
      BY <2>2, <2>3, <2>5, NothingNewMoves, WindowsKept
    <2>6. ASSUME NEW t \in Threads, NEW x \in Int, Tells(t, x)
          PROVE  \E w \in Int : Windows(w)'
      BY <2>1, <2>3, <2>6, WindowsTold
    <2>7. ASSUME NEW t \in Threads, Writes(t)
          PROVE  \E w \in Int : Windows(w)'
      BY <2>3, <2>7, WindowsWritten
    <2>8. ASSUME NEW t \in Threads, Fails(t)
          PROVE  FALSE
      BY <2>2, <2>8 DEF Fails
    <2>9. ASSUME Stops \/ Passing \/ Sets \/ UNCHANGED vars
          PROVE  \E w \in Int : Windows(w)'
      <3>1. racing' = racing /\ blobs' = blobs /\ served' = served
        BY <2>9 DEF Stops, Passing, Sets, Quiet, vars, queryVars, providerVars
      <3>2. \A u \in Threads : \/ frames'[u] = frames[u] /\ calls'[u] = calls[u]
                               \/ frames'[u] = NoFrame /\ calls'[u] = Provider!Idle
        BY <2>9 DEF Stops, Passing, Sets, vars, queryVars, providerVars
      <3>3. \A u \in Threads : NothingNew(u)
        BY <3>2 DEF NothingNew, Same, Answered, Based, NoFrame, Provider!Idle
      <3>4. QED
        BY <2>3, <3>1, <3>3, WindowsKept
    <2>10. \E w \in Int : Windows(w)'
      BY <1>1, <2>1, <2>5, <2>6, <2>7, <2>8, <2>9 DEF Move
    <2>11. QED
      BY <1>3, <2>4, <2>10 DEF WindowInv
  <1>4. QED
    BY <1>2, <1>3

-----------------------------------------------------------------------------
(* A baseline on file leaves room for the values behind it.                *)
LEMMA Roomy ==
  ASSUME FitInv, PastInv, Steady, NEW t \in Threads, Based(t)
  PROVE  LET b == ValueBounds(frames[t].query, frames[t].now, frames[t].volume)
         IN b.upper > b.lower /\ b.unit = units[KeyOf(frames[t].query)]
  <1> DEFINE q == frames[t].query
             n == frames[t].now
             v == frames[t].volume
             k == KeyOf(q)
             lookback == IF k = "boot" THEN BootLookback ELSE InstallLookback
             b == ValueBounds(q, n, v)
  <1>1. TypeOK /\ Fits(t) /\ Asking(t) /\ clock \in Int
    BY DEF FitInv, Based, Asking, TypeOK
  <1>2. q \in Queries /\ q # "volume" /\ n \in Int /\ v \in Int /\ frames[t].since \in Int
    BY <1>1, FrameFields DEF Fits
  <1>3. k \in {"boot", "install"} /\ b.unit = units[k]
        /\ b.lower = Larger(n - lookback, v + After(k)) /\ b.upper = n - Age(k)
    BY <1>2 DEF Queries, Keys, KeyOf, ValueBounds, BootBounds, InstallBounds, After, Age
  <1>4. v < clock - VolumeMinAge
    BY DEF PastInv
  <1>5. n \in frames[t].since - (Second - 1)..frames[t].since /\ clock <= frames[t].since + CallSpan
    BY <1>1, <1>2, Cutting DEF Fits
  <1>6. After(k) + Age(k) + (CallSpan + Second - 1) <= VolumeMinAge
    BY <1>3, SpanAssumption, Numbers DEF SpanAssumption, After, Age
  <1>7. After(k) \in Int /\ Age(k) \in Int /\ lookback \in Int
    BY Numbers DEF After, Age
  <1>8. lookback > Age(k)
    BY <1>3, MarginAssumption DEF MarginAssumption, Age
  <1> HIDE DEF q, n, v, k, lookback, b
  <1>9. v + After(k) < n - Age(k)
    BY <1>1, <1>2, <1>4, <1>5, <1>6, <1>7, Numbers DEF v, n
  <1>10. n - lookback < n - Age(k)
    BY <1>2, <1>7, <1>8
  <1>11. b.upper > b.lower
    BY <1>2, <1>3, <1>7, <1>9, <1>10 DEF Larger
  <1>12. QED
    BY <1>3, <1>11 DEF b, q, n, v, k

(* Only the seed leaves a load without a value.                            *)
LEMMA SeedAlone ==
  ASSUME FitInv, PastInv, Steady, NEW t \in Threads, Loading(t),
         GenerateStableTimeInterval(calls[t].path, calls[t].arg) = NoValue
  PROVE  units[calls[t].path] = UnitCount
  <1>1. TypeOK /\ Fits(t) /\ calls[t].arg \in Bounds
    BY CallFields DEF FitInv
  <1>2. calls[t].arg.unit = UnitCount \/ calls[t].arg.upper <= calls[t].arg.lower
    BY <1>1, Generated
  <1>3. frames[t].step \in {"volume", "value"}
    BY <1>1, FrameFields DEF Fits, Provider!Idle, Loading
  <1>4. CASE frames[t].step = "volume"
    <2>1. PICK c \in Int : calls[t].arg = VolumeBounds(Seconds(c))
      BY <1>1, <1>4 DEF Fits
    <2>2. Seconds(c) \in Int
      BY Cutting
    <2>3. /\ calls[t].arg.unit = units["volume"] /\ calls[t].path = "volume"
          /\ calls[t].arg.lower = Seconds(c) - VolumeMaxAge
          /\ calls[t].arg.upper = Seconds(c) - VolumeMinAge
      BY <1>1, <1>4, <2>1 DEF VolumeBounds, Fits
    <2>4. Seconds(c) - VolumeMaxAge < Seconds(c) - VolumeMinAge
      BY <2>2, Numbers, MarginAssumption DEF MarginAssumption
    <2>5. QED
      BY <1>2, <2>2, <2>3, <2>4, Numbers
  <1>5. CASE frames[t].step = "value"
    <2>1. /\ calls[t].arg = ValueBounds(frames[t].query, frames[t].now, frames[t].volume)
          /\ calls[t].path = KeyOf(frames[t].query) /\ Based(t)
      BY <1>1, <1>5 DEF Fits, Based
    <2>2. calls[t].arg.upper > calls[t].arg.lower /\ calls[t].arg.unit = units[calls[t].path]
      BY <2>1, Roomy
    <2>3. calls[t].arg.upper \in Int /\ calls[t].arg.lower \in Int
      BY <1>1 DEF Bounds
    <2>4. QED
      BY <1>2, <2>2, <2>3
  <1>6. QED
    BY <1>3, <1>4, <1>5

(* A boot time that is loaded passes its checks.                           *)
LEMMA BootPasses ==
  ASSUME FitInv, PastInv, WindowInv, troubles = {}, NEW t \in Threads, frames[t].step = "value",
         frames[t].query \in {"boot", "uptime"}, Answered(t)
  PROVE  LET boot == Seconds(calls[t].output)
         IN boot > frames[t].volume /\ boot < frames[t].now /\ clock >= boot
  <1> DEFINE r == calls[t].output
             n == frames[t].now
             s == frames[t].since
  <1>1. TypeOK /\ Fits(t) /\ Asking(t) /\ Based(t) /\ clock \in Int /\ Steady /\ StorageHolds
    BY DEF FitInv, Based, Asking, TypeOK, Steady, StorageHolds
  <1>2. calls[t].path = "boot" /\ r \in Int /\ frames[t].volume \in Int
    BY <1>1, CallFields DEF Fits, KeyOf, Answered, Times
  <1>3. n \in s - (Second - 1)..s /\ s \in Int /\ clock <= s + CallSpan
    BY <1>1, FrameFields, Cutting DEF Fits
  <1>4. r < clock - BootMinAge
    BY <1>1, <1>2 DEF PastInv, Age
  <1>5. CallSpan + Second - 1 <= BootMinAge
    BY SpanAssumption DEF SpanAssumption
  <1>6. PICK v \in Int : Windows(v)
    BY <1>1 DEF WindowInv
  <1>7. r >= v + BootAfterVolume
    BY <1>2, <1>6 DEF Windows, BehindVolume, After
  <1>8. frames[t].volume \in v..v + Skew
    BY <1>1, <1>6 DEF Windows
  <1>9. Seconds(r) \in Int /\ Seconds(r) \in r - (Second - 1)..r
    BY <1>2, Cutting
  <1> HIDE DEF r, n, s
  <1>10. Seconds(r) > frames[t].volume
    BY <1>2, <1>7, <1>8, <1>9, SkewSmall, Numbers
  <1>11. Seconds(r) < n
    BY <1>1, <1>2, <1>3, <1>4, <1>5, <1>9, Numbers
  <1>12. clock >= Seconds(r)
    BY <1>1, <1>2, <1>4, <1>9, Numbers
  <1>13. QED
    BY <1>10, <1>11, <1>12 DEF r, n

(* A query passes through for want of a value only. *)
LEMMA PassesUnanswerable ==
  ASSUME FitInv, PastInv, WindowInv, NoneInv, troubles = {}, NEW t \in Threads, Passes(t)
  PROVE  ~Answerable(frames[t].query)
  <1>1. TypeOK /\ Fits(t) /\ Steady
    BY DEF FitInv, Steady
  <1>2. CASE frames[t].step = "bounds"
    <2>1. LET b == ValueBounds(frames[t].query, frames[t].now, frames[t].volume)
          IN b.upper > b.lower
      BY <1>1, <1>2, Roomy DEF Based
    <2>2. QED
      BY <1>2, <2>1 DEF Passes
  <1>3. CASE calls[t].stage = "done" /\ calls[t].output = NoValue
    <2>1. units[calls[t].path] = UnitCount
      BY <1>3 DEF NoneInv
    <2>2. calls[t].path = "volume" \/ calls[t].path = KeyOf(frames[t].query)
      BY <1>1, <1>3 DEF Passes, Fits, Provider!Idle
    <2>3. QED
      BY <2>1, <2>2, Numbers DEF Answerable
  <1>4. CASE frames[t].step = "value" /\ frames[t].query \in {"boot", "uptime"} /\ Answered(t)
    BY <1>4, BootPasses DEF Passes, Answered
  <1>5. QED
    BY <1>2, <1>3, <1>4 DEF Passes

(* That the seed alone leaves a query unanswered is passed on.             *)
LEMMA NoneStep ==
  ASSUME FitInv, PastInv, WindowInv, NoneInv, [Next]_vars
  PROVE  NoneInv'
  <1>1. Move /\ TypeOK /\ \A t \in Threads : Fits(t)
    BY EveryMove DEF FitInv
  <1>2. SUFFICES ASSUME troubles' = {} PROVE NoneInv'
    BY DEF NoneInv
  <1>3. troubles = {} /\ units' = units /\ Steady /\ StorageHolds
    BY <1>1, <1>2
       DEF Move, Starts, Asks, GoesOn, Passes, Tells, Ends, Hits, Misses, Writes, Fails, Stops,
           Troubles, Passing, Sets, Quiet, vars, queryVars, Steady, StorageHolds
  <1>4. media = "ok"
    BY <1>3 DEF WindowInv
  <1>5. \A u \in Threads : calls[u].stage = "done" /\ calls[u].output = NoValue =>
          units[calls[u].path] = UnitCount
    BY <1>3 DEF NoneInv
  <1>6. ASSUME NEW u \in Threads, calls'[u].stage = "done", calls'[u].output = NoValue
        PROVE  units[calls'[u].path] = UnitCount
    <2>1. CASE calls'[u] = calls[u]
      BY <1>5, <1>6, <2>1
    <2>2. CASE calls'[u] # calls[u]
      <3>1. PICK t \in Threads :
              \/ Starts(t) \/ Asks(t) \/ GoesOn(t) \/ Passes(t) \/ (\E v \in Int : Tells(t, v))
              \/ Hits(t) \/ Misses(t) \/ Writes(t) \/ Fails(t)
        BY <1>1, <1>6, <2>2
           DEF Move, Stops, Troubles, Passing, Sets, vars, providerVars, Provider!Idle
      <3>2. Elsewhere(t)
        BY <3>1 DEF Starts, Asks, GoesOn, Passes, Tells, Ends, Hits, Misses, Writes, Fails
      <3>3. u = t
        BY <2>2, <3>2 DEF Elsewhere
      <3>4. Misses(t)
        <4>1. ~Starts(t) /\ ~Asks(t) /\ ~GoesOn(t) /\ ~Ends(t) /\ ~Hits(t) /\ ~Fails(t)
          BY <1>4, <1>6, <2>2, <3>3
             DEF Starts, Asks, GoesOn, Ends, Hits, Fails, Provider!Idle
        <4>2. ~Writes(t)
          BY <1>1, <1>6, <3>3, CallFields, KeysOf DEF Writes
        <4>3. QED
          BY <3>1, <4>1, <4>2 DEF Passes, Tells
      <3>5. QED
        BY <1>1, <1>3, <1>6, <3>3, <3>4, SeedAlone DEF Misses, Loading, FitInv
    <2>3. QED
      BY <2>1, <2>2
  <1>7. ASSUME NEW q \in passed'
        PROVE  ~Answerable(q)
    <2>1. CASE q \in passed
      BY <1>3, <2>1 DEF NoneInv
    <2>2. CASE q \notin passed
      <3>1. PICK t \in Threads : Passes(t)
        BY <1>1, <1>7, <2>2
           DEF Move, Starts, Asks, GoesOn, Tells, Hits, Misses, Writes, Fails, Stops, Troubles,
               Passing, Sets, vars, queryVars
      <3>2. q = frames[t].query
        BY <1>7, <2>2, <3>1 DEF Passes
      <3>3. QED
        BY <1>3, <3>1, <3>2, PassesUnanswerable
    <2>3. QED
      BY <2>1, <2>2
  <1>8. QED
    BY <1>3, <1>6, <1>7 DEF NoneInv, Answerable

-----------------------------------------------------------------------------
(* The invariant holds at the start, when nothing is on file. *)
LEMMA TimesInit ==
  ASSUME Init
  PROVE  TimesInv
  <1>1. /\ racing \in BOOLEAN /\ clock = Start /\ units \in Seeds \cup RaceSeeds
        /\ frames = [t \in Threads |-> NoFrame] /\ served = [q \in Queries |-> {}]
        /\ passed = {} /\ troubles = {}
    BY DEF Init
  <1>2. /\ blobs = [k \in Keys |-> NoValue] /\ media = "ok"
        /\ calls = [t \in Threads |-> Provider!Idle] /\ settled = [t \in Threads |-> NoValue]
    BY DEF Init, Provider!Init
  <1>3. Start \in Start..MaxClock
    BY TemporalAssumption DEF TemporalAssumption
  <1>4. Provider!TypeOK
    BY <1>2 DEF Provider!TypeOK, Provider!CallStates
  <1>5. TypeOK
    BY <1>1, <1>3, <1>4 DEF TypeOK
  <1>6. \A t \in Threads : /\ frames[t].step = "idle" /\ calls[t] = Provider!Idle
                           /\ calls[t].stage = "idle"
    BY <1>1, <1>2 DEF NoFrame, Provider!Idle
  <1>7. FitInv
    BY <1>5, <1>6 DEF FitInv, Fits, Asking, Based, Loading
  <1>8. AloneInv
    BY <1>1, <1>6 DEF AloneInv, Asking
  <1>9. PastInv
    BY <1>2, <1>6 DEF PastInv, Answered, Based
  <1>10. \A k \in Keys, m \in Int : Window(k, m) /\ BehindVolume(k, m)
    BY <1>1, <1>2, <1>6 DEF Window, BehindVolume, Answered
  <1>11. Windows(0)
    BY <1>6, <1>10, KeysOf DEF Windows, Based
  <1>12. WindowInv
    BY <1>1, <1>2, <1>11 DEF WindowInv, StorageHolds
  <1>13. NoneInv
    BY <1>1, <1>6 DEF NoneInv
  <1>14. QED
    BY <1>7, <1>8, <1>9, <1>12, <1>13 DEF TimesInv

(* It holds for ever. *)
LEMMA TimesHold ==
  Spec => []TimesInv
  <1>1. Init => TimesInv
    BY TimesInit
  <1>2. TimesInv /\ [Next]_vars => TimesInv'
    BY FitStep, AloneStep, PastStep, WindowStep, NoneStep DEF TimesInv
  <1>3. QED
    BY <1>1, <1>2, PTL DEF Spec

(* Every variable keeps its type, for any margins, seeds, callers and      *)
(* troubles.                                                               *)
THEOREM TimesTypeCorrect == Spec => []TypeOK
  <1>1. TimesInv => TypeOK
    BY DEF TimesInv, FitInv
  <1>2. QED
    BY <1>1, TimesHold, PTL

(* Without trouble no hook shows the real value unless the seed has no     *)
(* answer: the margins never leave an interval empty, and a persisted boot *)
(* time passes its checks for ever.                                        *)
THEOREM NeverReal == Spec => []AlwaysSynthetic
  <1>1. TimesInv => AlwaysSynthetic
    BY DEF TimesInv, NoneInv, AlwaysSynthetic
  <1>2. QED
    BY <1>1, TimesHold, PTL

(* What is served of a key lies in its window, cut to the second or not.   *)
LEMMA ServedWindow ==
  ASSUME TimesInv, NEW q \in Queries, NEW x \in served[q], NEW r \in Queries, NEW y \in served[r],
         KeyOf(q) = KeyOf(r)
  PROVE  \E m \in Int : \E a \in m..m + Skew, b \in m..m + Skew : x = Cut(q, a) /\ y = Cut(q, b)
  <1>1. StorageHolds
    BY DEF TimesInv, WindowInv
  <1>2. PICK v \in Int : Windows(v)
    BY <1>1 DEF TimesInv, WindowInv
  <1>3. KeyOf(q) \in Keys
    BY KeysOf
  <1>4. PICK m \in Int : Window(KeyOf(q), m)
    BY <1>2, <1>3 DEF Windows, Keys
  <1>5. \E a \in m..m + Skew : x = Cut(q, a)
    BY <1>4 DEF Window
  <1>6. \E b \in m..m + Skew : y = Cut(r, b)
    BY <1>4 DEF Window
  <1>7. \A b : Cut(r, b) = Cut(q, b)
    BY KeysOf DEF Cut
  <1>8. QED
    BY <1>5, <1>6, <1>7

(* Where callers do not race, a value once served never changes while the  *)
(* storage holds, and sysctl and systemUptime tell one boot time.          *)
THEOREM AnswersStay == Spec => []StableAnswers
  <1>1. ASSUME TimesInv, ~racing, NEW q \in Queries, NEW r \in Queries, KeyOf(q) = KeyOf(r),
               NEW x \in served[q], NEW y \in served[r]
        PROVE  x = y
    <2>1. PICK m \in Int : \E a \in m..m + Skew, b \in m..m + Skew : x = Cut(q, a) /\ y = Cut(q, b)
      BY <1>1, ServedWindow
    <2>2. QED
      BY <1>1, <2>1, SkewSmall
  <1>2. TimesInv => StableAnswers
    BY <1>1 DEF StableAnswers
  <1>3. QED
    BY <1>2, TimesHold, PTL

(* Racing first callers never answer values further apart than their clock *)
(* readings, each cut to seconds.                                          *)
THEOREM RacesStayClose == Spec => []AnswersClose
  <1>1. ASSUME TimesInv, NEW q \in Queries, NEW r \in Queries, KeyOf(q) = KeyOf(r),
               NEW x \in served[q], NEW y \in served[r]
        PROVE  x - y <= CallSpan + 2 * (Second - 1)
    <2>1. PICK m \in Int : \E a \in m..m + Skew, b \in m..m + Skew : x = Cut(q, a) /\ y = Cut(q, b)
      BY <1>1, ServedWindow
    <2>2. PICK a \in m..m + Skew, b \in m..m + Skew : x = Cut(q, a) /\ y = Cut(q, b)
      BY <2>1
    <2>3. a \in Int /\ b \in Int /\ a - b <= Skew
      BY <2>2, SkewSmall
    <2>4. Cut(q, a) \in Int /\ Cut(q, a) <= a
      BY <2>3, Cutting, Numbers DEF Cut
    <2>5. Cut(q, b) \in Int /\ Cut(q, b) >= b - (Second - 1)
      BY <2>3, Cutting, Numbers DEF Cut
    <2>6. Skew <= CallSpan + Second - 1
      BY SkewSmall, Numbers
    <2>7. QED
      BY <2>2, <2>3, <2>4, <2>5, <2>6, SkewSmall, Numbers
  <1>2. TimesInv => AnswersClose
    BY <1>1 DEF AnswersClose
  <1>3. QED
    BY <1>2, TimesHold, PTL

(* In every pair of answers the volume is older than the install date and  *)
(* the boot time, whichever hook ran first and whatever the clock did.     *)
THEOREM VolumeIsOldest == Spec => []VolumeFirst
  <1>1. ASSUME TimesInv, NEW q \in {"install", "boot", "uptime"}, NEW x \in served["volume"],
               NEW y \in served[q]
        PROVE  x < y
    <2>1. q \in Queries /\ "volume" \in Queries /\ KeyOf(q) \in {"boot", "install"}
          /\ KeyOf("volume") = "volume" /\ served \in [Queries -> SUBSET Int]
      BY <1>1 DEF Queries, Keys, KeyOf, TimesInv, FitInv, TypeOK
    <2>2. StorageHolds
      BY <1>1, <2>1 DEF TimesInv, WindowInv
    <2>3. PICK v \in Int : Windows(v)
      BY <1>1, <2>2 DEF TimesInv, WindowInv
    <2>4. PICK z \in v..v + Skew : x = Cut("volume", z)
      BY <2>1, <2>3 DEF Windows, Window
    <2>5. y > v + Skew /\ y \in Int
      BY <2>1, <2>3 DEF Windows, BehindVolume
    <2>6. x = z
      BY <2>4 DEF Cut
    <2>7. QED
      BY <2>4, <2>5, <2>6, SkewSmall
  <1>2. TimesInv => VolumeFirst
    BY <1>1 DEF VolumeFirst
  <1>3. QED
    BY <1>2, TimesHold, PTL

(* What a hook takes lies before the clock while that never goes back,     *)
(* whatever happens to the storage.                                        *)
THEOREM TakenInPast == Spec => []AnsweredInPast
  <1>1. ASSUME TimesInv, Steady, NEW t \in Threads, Taking(t), calls[t].output # NoValue
        PROVE  calls[t].output < clock
    <2>1. calls[t].stage = "done" /\ Answered(t) /\ TypeOK /\ clock \in Int
      BY <1>1, Numbers DEF Taking, Answered, TimesInv, FitInv, TypeOK
    <2>2. calls[t].output < clock - Age(calls[t].path)
      BY <1>1, <2>1 DEF TimesInv, PastInv
    <2>3. calls[t].output \in Int
      BY <2>1, CallFields DEF Answered, Times
    <2>4. Age(calls[t].path) \in Nat
      BY Numbers DEF Age
    <2>5. QED
      BY <2>1, <2>2, <2>3, <2>4
  <1>2. TimesInv => AnsweredInPast
    BY <1>1 DEF AnsweredInPast, Steady
  <1>3. QED
    BY <1>2, TimesHold, PTL
=============================================================================
