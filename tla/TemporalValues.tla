--------------------------- MODULE TemporalValues ---------------------------
(***************************************************************************)
(* The three synthetic timestamps of one active seed and scope: volume     *)
(* creation, app install and boot (with uptime, which is derived from      *)
(* boot).  Each query composes one or two loads of the state provider:     *)
(* install and boot first load the volume creation baseline, then their    *)
(* own blob inside bounds that follow the clock and the baseline           *)
(* (VolumeCreationTimeValues.c, AppInstallDateValues.c, BootTimeValues.c,  *)
(* LHMitigationValues.c:137-249).  A query that cannot answer lets the     *)
(* hook pass through to the real value.  Times are ticks, Second of them   *)
(* in a second; the clock is read as whole seconds, blobs hold ticks.      *)
(***************************************************************************)
EXTENDS Integers, FiniteSets

CONSTANTS
  Threads, Processes, ProcessOf,  \* as in StateProvider
  Media, Removable,               \* as in StateProvider
  NoValue,
  Start, MaxClock,                \* first and last clock value (bound)
  ClockStepsBack,                 \* may the clock be set back (BOOLEAN)
  MaxTroubles,                    \* kinds of trouble one behaviour meets (bound)
  CallSpan,                       \* ticks a query may last (bound on overlaps)
  Second,                         \* ticks in a second
  UnitCount,                      \* positions of a derived value in its interval;
                                  \* the last one is a quotient that rounds to 1
  Seeds,                          \* positions the seed may give the three values
  Asked,                          \* queries the apps make
  RaceClock, RaceSeeds, RaceAsked,\* the last three where callers race
  VolumeMinAge, VolumeMaxAge,     \* volume creation: age at first generation
  BootMinAge, BootLookback,       \* boot: age at first generation
  BootAfterVolume,                \* boot: distance from the volume baseline
  InstallMinAge, InstallLookback,
  InstallAfterVolume

Keys == {"volume", "install", "boot"}
Queries == Keys \cup {"uptime"}
Bounds == [unit : 0..UnitCount, lower : Int, upper : Int]

ASSUME TemporalAssumption ==
  /\ Start \in Nat /\ MaxClock \in Nat /\ Start <= MaxClock
  /\ RaceClock \in Start..MaxClock
  /\ Second \in Nat \ {0} /\ Start > Second
  /\ UnitCount \in Nat \ {0}
  /\ Seeds \cup RaceSeeds \subseteq [Keys -> 0..UnitCount]
  /\ Asked \cup RaceAsked \subseteq Queries
  /\ CallSpan \in Nat
  /\ ClockStepsBack \in BOOLEAN /\ MaxTroubles \in Nat
  /\ {VolumeMinAge, VolumeMaxAge, BootMinAge, BootLookback, BootAfterVolume,
      InstallMinAge, InstallLookback, InstallAfterVolume} \subseteq Nat \ {0}

(* The constants of the sources, in ticks, leave room between the values:  *)
(* 30 days, 730 days, 6 hours, 14 days, 7 days, 1 hour, 90 days and 1 day. *)
ASSUME MarginAssumption ==
  /\ VolumeMinAge < VolumeMaxAge
  /\ BootMinAge < BootLookback
  /\ BootAfterVolume + BootMinAge < VolumeMinAge
  /\ InstallMinAge < InstallLookback
  /\ InstallAfterVolume + InstallMinAge < VolumeMinAge
  /\ Second <= BootMinAge
  /\ Second <= BootAfterVolume

(* No query lasts as long as the margins: 6 hours is the shortest of them. *)
ASSUME SpanAssumption ==
  LET skew == CallSpan + Second - 1
  IN /\ skew <= BootMinAge
     /\ skew + Second <= BootAfterVolume
     /\ skew < InstallAfterVolume
     /\ BootAfterVolume + BootMinAge + skew <= VolumeMinAge
     /\ InstallAfterVolume + InstallMinAge + skew <= VolumeMinAge

ASSUME SurroundingsAssumption ==
  /\ ProcessOf \in [Threads -> Processes]
  /\ NoValue \notin Int
  /\ Media \subseteq {"readonly", "locked"}
  /\ Removable \in BOOLEAN

VARIABLES
  racing,   \* do callers overlap?  Where they do, the clock and the storage
            \* behave; where they do not, nothing is spared; never changes
  clock,    \* the wall clock, in ticks
  units,    \* units[k]: where the seed puts k in its interval; never changes
  frames,   \* frames[t]: the query in progress on t
  served,   \* history: served[q], the values q has answered while storage held
  passed,   \* history: the queries that passed through to the real value
  troubles, \* history: "media", "removed", "setback", those that occurred
  blobs, media, calls, settled   \* the state provider

queryVars == <<racing, clock, units, frames, served, passed, troubles>>
providerVars == <<blobs, media, calls, settled>>
vars == <<queryVars, providerVars>>

-----------------------------------------------------------------------------
(* A reading of time(0), or of the seconds of a timeval. *)
Seconds(x) == x - (x % Second)

Larger(x, y) == IF x < y THEN y ELSE x

(* LHMitigationDeriveTimeIntervalBetween: a point of the interval that only *)
(* depends on the seed; the bounds scale it.                               *)
DeriveTimeIntervalBetween(unit, lower, upper) ==
  lower + (((upper - lower) * unit) \div UnitCount)

(* LHMitigationGenerateStableTimeInterval: the generator of all three.     *)
(* Empty bounds are refused, and so is a value rounded up to the end.      *)
GenerateStableTimeInterval(k, bounds) ==
  LET timestamp == DeriveTimeIntervalBetween(bounds.unit, bounds.lower, bounds.upper)
  IN IF bounds.upper > bounds.lower /\ timestamp < bounds.upper
     THEN timestamp ELSE NoValue

Provider == INSTANCE StateProvider WITH
  Paths <- Keys, StoredPaths <- Keys, Serialised <- FALSE, Args <- Bounds, Values <- Int,
  Generate <- GenerateStableTimeInterval

(* LHMitigationCopyStablePastTime, as volume creation uses it. *)
VolumeBounds(now) ==
  [unit |-> units["volume"], lower |-> now - VolumeMaxAge, upper |-> now - VolumeMinAge]

BootBounds(now, volume) ==
  [unit |-> units["boot"],
   lower |-> Larger(now - BootLookback, volume + BootAfterVolume),
   upper |-> now - BootMinAge]

MutantInstallWithoutBaseline(now, volume) ==
  [unit |-> units["install"], lower |-> now - InstallLookback, upper |-> now - InstallMinAge]

MutantInstallAhead(now, volume) ==
  [unit |-> units["install"],
   lower |-> Larger(now + InstallMinAge, volume + InstallAfterVolume),
   upper |-> now + InstallLookback]

InstallBounds(now, volume) ==
  [unit |-> units["install"],
   lower |-> Larger(now - InstallLookback, volume + InstallAfterVolume),
   upper |-> now - InstallMinAge]

KeyOf(q) == IF q = "uptime" THEN "boot" ELSE q

ValueBounds(q, now, volume) ==
  IF q = "install" THEN InstallBounds(now, volume) ELSE BootBounds(now, volume)

-----------------------------------------------------------------------------
NoFrame == [step |-> "idle"]
Frame(q, step, now, volume, since) ==
  [query |-> q, step |-> step, now |-> now, volume |-> volume, since |-> since]

Init ==
  /\ racing \in BOOLEAN
  /\ clock = Start
  /\ units \in IF racing THEN RaceSeeds ELSE Seeds
  /\ frames = [t \in Threads |-> NoFrame]
  /\ served = [q \in Queries |-> {}]
  /\ passed = {}
  /\ troubles = {}
  /\ Provider!Init

(* A hook is called: boot and install read the clock before anything else. *)
BeginQuery(t, q) ==
  /\ frames[t] = NoFrame
  /\ racing \/ \A u \in Threads : frames[u] = NoFrame
  /\ frames' = [frames EXCEPT ![t] =
       Frame(q, "baseline", Seconds(clock), NoValue, clock)]
  /\ UNCHANGED <<racing, clock, units, served, passed, troubles>>
  /\ UNCHANGED providerVars

(* LHMitigationCopyStablePastTime reads the clock again and asks for the   *)
(* volume blob.                                                            *)
AskVolume(t) ==
  /\ frames[t].step = "baseline"
  /\ Provider!LoadOrCreate(t, "volume", VolumeBounds(Seconds(clock)))
  /\ frames' = [frames EXCEPT ![t].step = "volume"]
  /\ UNCHANGED <<racing, clock, units, served, passed, troubles>>

(* The blobs once written stay, and can be read and written. *)
StorageHolds == troubles \cap {"media", "removed"} = {}

Answer(t, v) ==
  /\ served' = IF StorageHolds
               THEN [served EXCEPT ![frames[t].query] = @ \cup {v}] ELSE served
  /\ frames' = [frames EXCEPT ![t] = NoFrame]
  /\ UNCHANGED <<racing, clock, units, passed, troubles>>

PassThrough(t) ==
  /\ passed' = passed \cup {frames[t].query}
  /\ frames' = [frames EXCEPT ![t] = NoFrame]
  /\ UNCHANGED <<racing, clock, units, served, troubles>>

MutantAnswerEvenNone(t, v) == Answer(t, v)

AnswerOrPass(t, v) == IF v = NoValue THEN PassThrough(t) ELSE Answer(t, v)

(* The volume load answers: a volume query is served, the others go on     *)
(* with the baseline, and each passes through when there is none.          *)
TakeVolume(t) ==
  /\ frames[t].step = "volume"
  /\ Provider!Return(t)
  /\ IF frames[t].query = "volume" \/ calls[t].output = NoValue
     THEN AnswerOrPass(t, calls[t].output)
     ELSE /\ frames' = [frames EXCEPT ![t].step = "bounds",
                                      ![t].volume = calls[t].output]
          /\ UNCHANGED <<racing, clock, units, served, passed, troubles>>

(* The value is asked for inside its bounds; empty bounds pass through,    *)
(* even when the blob exists.                                              *)
AskValue(t) ==
  /\ frames[t].step = "bounds"
  /\ LET q == frames[t].query
         b == ValueBounds(q, frames[t].now, frames[t].volume)
     IN IF b.upper > b.lower
        THEN /\ Provider!LoadOrCreate(t, KeyOf(q), b)
             /\ frames' = [frames EXCEPT ![t].step = "value"]
             /\ UNCHANGED <<racing, clock, units, served, passed, troubles>>
        ELSE /\ PassThrough(t)
             /\ UNCHANGED providerVars

(* An install date is served as loaded. *)
TakeInstall(t) ==
  /\ frames[t].step = "value"
  /\ frames[t].query = "install"
  /\ Provider!Return(t)
  /\ AnswerOrPass(t, calls[t].output)

(* Mutants: uptime does not cut; the age is checked against its bounds.    *)
MutantTakeBootUncut(t) ==
  /\ frames[t].step = "value"
  /\ frames[t].query \in {"boot", "uptime"}
  /\ Provider!Return(t)
  /\ LET boot == calls[t].output
     IN IF boot # NoValue /\ boot > frames[t].volume /\ boot < frames[t].now
        THEN Answer(t, IF frames[t].query = "uptime" THEN boot ELSE Seconds(boot))
        ELSE PassThrough(t)

MutantTakeBootRechecked(t) ==
  /\ frames[t].step = "value"
  /\ frames[t].query \in {"boot", "uptime"}
  /\ Provider!Return(t)
  /\ IF /\ calls[t].output # NoValue
        /\ Seconds(calls[t].output) >= frames[t].now - BootLookback
     THEN Answer(t, Seconds(calls[t].output))
     ELSE PassThrough(t)

(* A boot time is cut to whole seconds and checked against the baseline    *)
(* and the clock read at the start; uptime reads the clock once more.      *)
TakeBoot(t) ==
  /\ frames[t].step = "value"
  /\ frames[t].query \in {"boot", "uptime"}
  /\ Provider!Return(t)
  /\ LET boot == Seconds(calls[t].output)
     IN IF /\ calls[t].output # NoValue
           /\ boot > frames[t].volume
           /\ boot < frames[t].now
           /\ frames[t].query = "uptime" => clock >= boot
        THEN Answer(t, boot)
        ELSE PassThrough(t)

(* File operations of the provider, one at a time. *)
FileStep(t) ==
  /\ Provider!Step(t)
  /\ UNCHANGED queryVars

KillProcess(proc) ==
  /\ Provider!KillProcess(proc)
  /\ frames' = [t \in Threads |-> IF ProcessOf[t] = proc THEN NoFrame ELSE frames[t]]
  /\ UNCHANGED <<racing, clock, units, served, passed, troubles>>

(* What may go wrong around the queries is recorded, each kind once; what  *)
(* was served before is compared no longer once the storage fails.         *)
Trouble(kind) ==
  /\ ~racing
  /\ troubles' = troubles \cup {kind}
  /\ Cardinality(troubles') <= MaxTroubles

MediaChanges(m) ==
  /\ Provider!MediaChanges(m)
  /\ Trouble("media")
  /\ served' = [q \in Queries |-> {}]
  /\ UNCHANGED <<racing, clock, units, frames, passed>>

RemoveBlob(k) ==
  /\ Provider!RemoveBlob(k)
  /\ Trouble("removed")
  /\ served' = [q \in Queries |-> {}]
  /\ UNCHANGED <<racing, clock, units, frames, passed>>

(* Time passes; no query outlives CallSpan ticks. *)
Tick ==
  /\ clock < IF racing THEN RaceClock ELSE MaxClock
  /\ \A t \in Threads : frames[t] # NoFrame => clock - frames[t].since < CallSpan
  /\ clock' = clock + 1
  /\ UNCHANGED <<racing, units, frames, served, passed, troubles>>
  /\ UNCHANGED providerVars

(* The user or the network sets the clock back. *)
SetBack(c) ==
  /\ ClockStepsBack
  /\ c < clock
  /\ clock' = c
  /\ Trouble("setback")
  /\ UNCHANGED <<racing, units, frames, served, passed>>
  /\ UNCHANGED providerVars

QueryStep(t) ==
  \/ AskVolume(t) \/ TakeVolume(t) \/ AskValue(t)
  \/ TakeInstall(t) \/ TakeBoot(t) \/ FileStep(t)

Next ==
  \/ \E t \in Threads, q \in IF racing THEN RaceAsked ELSE Asked : BeginQuery(t, q)
  \/ \E t \in Threads : QueryStep(t)
  \/ \E proc \in Processes : KillProcess(proc)
  \/ \E m \in {"ok"} \cup Media : MediaChanges(m)
  \/ \E k \in Keys : RemoveBlob(k)
  \/ Tick
  \/ \E c \in Start..MaxClock : SetBack(c)

Spec == Init /\ [][Next]_vars

-----------------------------------------------------------------------------
Times == Int \cup {NoValue}

TypeOK ==
  /\ racing \in BOOLEAN
  /\ clock \in Start..MaxClock
  /\ units \in Seeds \cup RaceSeeds
  /\ frames \in [Threads ->
       {NoFrame} \cup [query : Queries, step : {"baseline", "volume", "bounds", "value"},
                       now : Int, volume : Times, since : Int]]
  /\ served \in [Queries -> SUBSET Int]
  /\ passed \subseteq Queries
  /\ troubles \subseteq {"media", "removed", "setback"}
  /\ Provider!TypeOK

(* The seed has an answer: the only seeds without one are those whose      *)
(* quotient rounds to 1 (LHMitigationValues.c:152-154).                    *)
Answerable(q) == units["volume"] < UnitCount /\ units[KeyOf(q)] < UnitCount

(* While storage works and the clock never goes back, no hook ever shows   *)
(* the real value: the bounds of install and boot are never empty around   *)
(* the persisted baseline, however old both are, and a persisted boot time *)
(* passes its checks for ever (BootTimeValues.c:61).                       *)
AlwaysSynthetic == troubles = {} => \A q \in passed : ~Answerable(q)

(* Loads that do not race never change a value once served while storage   *)
(* holds, across threads, processes, kills, relaunches and a clock set     *)
(* back, and sysctl and systemUptime tell one boot time.                   *)
StableAnswers ==
  ~racing => \A q, r \in Queries : KeyOf(q) = KeyOf(r) =>
    \A x \in served[q], y \in served[r] : x = y

(* While storage holds, the synthetic volume is created before the app is  *)
(* installed and before the device boots, in every pair of answers ever    *)
(* given, whichever hook ran first and whatever the clock did              *)
(* (the volumeBound of BootTimeValues.c:45 and AppInstallDateValues.c:42). *)
VolumeFirst ==
  \A q \in {"install", "boot", "uptime"} :
    \A v \in served["volume"], x \in served[q] : v < x

(* A query of t is about to take what its load answers. *)
Taking(t) == frames[t].step \in {"volume", "value"} /\ calls[t].stage = "done"

(* What a hook answers lies before the clock it answers at, whatever       *)
(* happens to the storage, while the clock never goes back ("the current   *)
(* time" ends the documented chain, docs/concepts/randomization.md).       *)
AnsweredInPast ==
  "setback" \notin troubles =>
    \A t \in Threads : Taking(t) => calls[t].output = NoValue \/ calls[t].output < clock

(* First callers that race may answer different values, but while storage  *)
(* works one query never answers two values further apart than the clock   *)
(* readings of callers that overlap, each cut to seconds: the race does    *)
(* not outlive the first call (LHStateProvider.m:177-189).                 *)
AnswersClose ==
  \A q, r \in Queries : KeyOf(q) = KeyOf(r) =>
    \A x \in served[q], y \in served[r] : x - y <= CallSpan + 2 * (Second - 1)

(* "The value is later than the synthetic volume creation date and earlier *)
(* than the current wall clock" (docs/mitigations/                         *)
(* app-bundle-install-date.md:68).                                         *)
InstallBeforeNow ==
  \A t \in Threads :
    (Taking(t) /\ frames[t].query = "install" /\ frames[t].step = "value") =>
      calls[t].output = NoValue \/ calls[t].output < clock
=============================================================================
