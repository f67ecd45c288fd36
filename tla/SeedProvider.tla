---------------------------- MODULE SeedProvider ----------------------------
(***************************************************************************)
(* How the injected runtime comes to its active seed when an app starts    *)
(* (src/runtime/engine/LHPolicyEngine.c, LHAppContext.m, LHScope.c,        *)
(* LHSeedProvider.m).  The policy of the app picks a scope; the practical  *)
(* seed is the custom seed, the package root seed, which the first process *)
(* that misses it creates, or the seed of the build; the install scope     *)
(* mixes in a marker kept in the container of the app.  Derivation is      *)
(* HMAC-SHA256: here a seed is the term of what was hashed.  Every launch, *)
(* every reset and every reinstallation may fall between two file          *)
(* operations of another process; files are read and written without locks.*)
(***************************************************************************)
EXTENDS Naturals, FiniteSets

CONSTANTS
  Apps,            \* bundles the loader injects, one process each
  Untargetable,    \* those that are no third-party main app
  LongNamed,       \* those whose bundle identifier does not fit the context
  Vendors,
  VendorOf,        \* the vendor of an app
  Customs,         \* custom seeds
  Policies,        \* policies the stored settings may give an app
  Kinds,           \* which runtimes the apps may carry: "package", the one the
                   \* package injects, or "local", a dylib of their own
  LocalMode,       \* the scope mode compiled into a standalone dylib
  NoSeed,
  BuildSeed,       \* the seed of the build
  StaticId,        \* the scope identifier of a manual group
  Devices,         \* the devices: TRUE has a root seed and storage that works,
                   \* FALSE has neither
  MaxDraws,        \* random draws of a behaviour (bound)
  MaxInstalls,     \* reinstallations of one app (bound)
  MaxSeen          \* outcomes remembered from before (bound)

Modes == {"install", "app", "vendor", "manual"}
Random == 1..MaxDraws

ASSUME SeedAssumption ==
  /\ Untargetable \subseteq Apps
  /\ LongNamed \subseteq Apps
  /\ VendorOf \in [Apps -> Vendors]
  /\ Policies \subseteq [enabled : BOOLEAN, mode : Modes, custom : Customs \cup {NoSeed}]
  /\ \A policy \in Policies : policy.mode = "manual" => policy.custom # NoSeed
  /\ Kinds \subseteq {"package", "local"}
  /\ LocalMode \in Modes
  /\ NoSeed \notin Customs \cup Random \cup {BuildSeed}
  /\ BuildSeed \notin Customs \cup Random
  /\ Customs \cap Random = {}
  /\ StaticId \notin Apps \cup Vendors \cup Random
  /\ (Apps \cup Vendors) \cap Random = {}
  /\ Apps \cap Vendors = {}
  /\ Devices \subseteq BOOLEAN
  /\ MaxDraws \in Nat \ {0}
  /\ MaxInstalls \in Nat
  /\ MaxSeen \in Nat

Roots == Random \cup Customs \cup {BuildSeed}
Scopes == [mode : Modes, id : Apps \cup Vendors \cup Random \cup {StaticId}]
DerivedSeeds == [root : Roots, scope : Scopes, marker : Random \cup {NoSeed}]

(* No hash comes out as a seed the user typed in. *)
ASSUME FreeAssumption == Customs \cap DerivedSeeds = {}

VARIABLES
  settled,    \* the device; never changes
  kind,       \* kind[a]: the runtime of a; never changes
  rootFile,   \* the package root seed on file, or NoSeed
  markers,    \* markers[a][r]: the install marker of a under practical seed r
  procs,      \* procs[a]: the process of a, how far its runtime has started
  drawn,      \* random values drawn so far
  installs,   \* history: installs[a], how often a was reinstalled
  resets,     \* history: how often the root seed was reset
  seen        \* history: what processes that came up before were given

seedVars == <<settled, kind, rootFile, markers, procs, drawn, installs, resets, seen>>

(* LocalMode stands for the compiled-in default, which no file overrides. *)
LocalPolicy == [enabled |-> TRUE, mode |-> LocalMode, custom |-> NoSeed]

EffectivePolicy(a, stored) == IF kind[a] = "package" THEN stored ELSE LocalPolicy

(* Does a policy bring its own seed, as a manual group may?                *)
Own(policy) == policy.mode = "manual" /\ policy.custom # NoSeed

-----------------------------------------------------------------------------
(* LHAppContextResolveScope and LHScopeInit: an identifier that is missing *)
(* is replaced by a random one, drawn by this launch.                      *)
BundleId(a) == IF a \in LongNamed THEN drawn + 1 ELSE a

MutantScopeIdNoFallback(a, mode, vendorKnown) ==
  CASE mode = "manual" -> StaticId
    [] mode = "vendor" -> IF vendorKnown THEN VendorOf[a] ELSE NoSeed
    [] OTHER -> BundleId(a)

MutantScopeIdStatic(a, mode, vendorKnown) ==
  IF mode = "vendor" /\ vendorKnown THEN VendorOf[a] ELSE StaticId

ScopeId(a, mode, vendorKnown) ==
  CASE mode = "manual" -> StaticId
    [] mode = "vendor" /\ vendorKnown -> VendorOf[a]
    [] OTHER -> BundleId(a)

Scope(mode, id) == [mode |-> mode, id |-> id]

(* LHSeedDeriveBytes over the practical seed, the scope and the marker. *)
Derived(practical, scope, marker) ==
  [root |-> practical, scope |-> scope, marker |-> marker]

Down == [stage |-> "down"]
Off == [stage |-> "off"]
Starting(step, policy, scope) == [stage |-> step, policy |-> policy, scope |-> scope]
Up(policy, scope, active, since) ==
  [stage |-> "up", policy |-> policy, scope |-> scope, active |-> active, since |-> since]

(* Mutants: every scope gets a marker, or none does. *)
MutantWithPracticalMarked(policy, scope, practical) ==
  IF scope.mode = "manual" /\ policy.custom # NoSeed
  THEN Up(policy, scope, practical, 0)
  ELSE [stage |-> "marker", policy |-> policy, scope |-> scope,
        practical |-> practical, since |-> resets]

MutantWithPracticalUnmarked(policy, scope, practical) ==
  IF scope.mode = "manual" /\ policy.custom # NoSeed
  THEN Up(policy, scope, practical, 0)
  ELSE Up(policy, scope, Derived(practical, scope, NoSeed), resets)

(* LHSeedProviderResolveActiveSeed once the practical seed is known: the   *)
(* install scope goes on to its marker, a manual group with a custom seed  *)
(* uses it as it is, the others derive.  "since" is a history field: the   *)
(* resets a root seed has seen.                                            *)
WithPractical(policy, scope, practical) ==
  CASE scope.mode = "install" ->
         [stage |-> "marker", policy |-> policy, scope |-> scope,
          practical |-> practical, since |-> resets]
    [] scope.mode = "manual" /\ policy.custom # NoSeed ->
         Up(policy, scope, practical, 0)
    [] OTHER -> Up(policy, scope, Derived(practical, scope, NoSeed), resets)

(* Any MaxSeen of the processes that come up are remembered. *)
Record(a, proc) ==
  [app |-> a, kind |-> kind[a], install |-> installs[a], since |-> proc.since,
   policy |-> proc.policy, scope |-> proc.scope, active |-> proc.active]

Note(a) ==
  \/ seen' = seen
  \/ /\ procs'[a].stage = "up"
     /\ Cardinality(seen) < MaxSeen
     /\ seen' = seen \cup {Record(a, procs'[a])}

Init ==
  /\ settled \in Devices
  /\ kind \in [Apps -> Kinds]
  /\ rootFile = IF settled THEN 1 ELSE NoSeed
  /\ drawn = IF settled THEN 1 ELSE 0
  /\ markers = [a \in Apps |-> [r \in Roots |-> NoSeed]]
  /\ procs = [a \in Apps |-> Down]
  /\ installs = [a \in Apps |-> 0]
  /\ resets = 0
  /\ seen = {}

-----------------------------------------------------------------------------
(* LHPolicyEngineInit leaves the process alone. *)
Excluded(a, policy) ==
  \/ kind[a] = "package" /\ a \in Untargetable
  \/ ~policy.enabled

(* LHPolicyEngineInit up to the seed: the bundle, targetability, the       *)
(* policy, the scope.  The identifier of the vendor may be unavailable.    *)
Launch(a, stored, vendorKnown) ==
  LET policy == EffectivePolicy(a, stored)
      scope == Scope(policy.mode, ScopeId(a, policy.mode, vendorKnown))
  IN /\ procs[a] = Down
     /\ IF Excluded(a, policy)
        THEN /\ procs' = [procs EXCEPT ![a] = Off]
             /\ UNCHANGED drawn
        ELSE /\ scope.id = drawn + 1 => drawn < MaxDraws
             /\ drawn' = IF scope.id = drawn + 1 THEN drawn + 1 ELSE drawn
             /\ procs' = [procs EXCEPT ![a] =
                  IF Own(policy) THEN WithPractical(policy, scope, policy.custom)
                  ELSE IF kind[a] = "package" THEN Starting("root", policy, scope)
                  ELSE WithPractical(policy, scope, BuildSeed)]
     /\ Note(a)
     /\ UNCHANGED <<settled, kind, rootFile, markers, installs, resets>>

(* LHSeedProviderLoadOrCreateRootSeed finds the root seed. *)
ReadRoot(a) ==
  /\ procs[a].stage = "root"
  /\ rootFile # NoSeed
  /\ procs' = [procs EXCEPT ![a] = WithPractical(@.policy, @.scope, rootFile)]
  /\ Note(a)
  /\ UNCHANGED <<settled, kind, rootFile, markers, drawn, installs, resets>>

(* It does not, and draws one. *)
DrawRoot(a) ==
  /\ procs[a].stage = "root"
  /\ rootFile = NoSeed
  /\ drawn < MaxDraws
  /\ drawn' = drawn + 1
  /\ procs' = [procs EXCEPT ![a] =
       [stage |-> "saveRoot", policy |-> @.policy, scope |-> @.scope, root |-> drawn + 1]]
  /\ UNCHANGED <<settled, kind, rootFile, markers, installs, resets, seen>>

(* The atomic write replaces a root seed that appeared meanwhile. *)
SaveRoot(a) ==
  /\ procs[a].stage = "saveRoot"
  /\ rootFile' = procs[a].root
  /\ procs' = [procs EXCEPT ![a] = WithPractical(@.policy, @.scope, @.root)]
  /\ Note(a)
  /\ UNCHANGED <<settled, kind, markers, drawn, installs, resets>>

(* A root seed that cannot be saved fails the start for good: LHRuntime.m   *)
(* starts once per process.                                                *)
SaveRootFails(a) ==
  /\ ~settled
  /\ procs[a].stage = "saveRoot"
  /\ procs' = [procs EXCEPT ![a] = Off]
  /\ UNCHANGED <<settled, kind, rootFile, markers, drawn, installs, resets, seen>>

-----------------------------------------------------------------------------
(* LHSeedProviderResolveAppInstallSeed: the marker lies in the container   *)
(* of the app at a path derived from practical seed and scope; a random    *)
(* identifier makes it a path nobody finds again.                          *)
MarkerOf(a) ==
  IF procs[a].scope.id = a THEN markers[a][procs[a].practical] ELSE NoSeed

ComeUp(a, marker) ==
  /\ procs' = [procs EXCEPT ![a] =
       Up(@.policy, @.scope, Derived(@.practical, @.scope, marker), @.since)]
  /\ Note(a)

ReadMarker(a) ==
  /\ procs[a].stage = "marker"
  /\ MarkerOf(a) # NoSeed
  /\ ComeUp(a, MarkerOf(a))
  /\ UNCHANGED <<settled, kind, rootFile, markers, drawn, installs, resets>>

MutantDrawMarkerAlways(a) ==
  /\ procs[a].stage = "marker"
  /\ drawn < MaxDraws
  /\ drawn' = drawn + 1
  /\ procs' = [procs EXCEPT ![a] =
       [stage |-> "saveMarker", policy |-> @.policy, scope |-> @.scope,
        practical |-> @.practical, since |-> @.since, marker |-> drawn + 1]]
  /\ UNCHANGED <<settled, kind, rootFile, markers, installs, resets, seen>>

DrawMarker(a) ==
  /\ procs[a].stage = "marker"
  /\ MarkerOf(a) = NoSeed
  /\ drawn < MaxDraws
  /\ drawn' = drawn + 1
  /\ procs' = [procs EXCEPT ![a] =
       [stage |-> "saveMarker", policy |-> @.policy, scope |-> @.scope,
        practical |-> @.practical, since |-> @.since, marker |-> drawn + 1]]
  /\ UNCHANGED <<settled, kind, rootFile, markers, installs, resets, seen>>

SaveMarker(a) ==
  /\ procs[a].stage = "saveMarker"
  /\ markers' = IF procs[a].scope.id = a
                THEN [markers EXCEPT ![a][procs[a].practical] = procs[a].marker]
                ELSE markers
  /\ ComeUp(a, procs[a].marker)
  /\ UNCHANGED <<settled, kind, rootFile, drawn, installs, resets>>

(* A marker need not persist (requirePersistence is false). *)
SaveMarkerFails(a) ==
  /\ ~settled
  /\ procs[a].stage = "saveMarker"
  /\ ComeUp(a, procs[a].marker)
  /\ UNCHANGED <<settled, kind, rootFile, markers, drawn, installs, resets>>

-----------------------------------------------------------------------------
Quit(a) ==
  /\ procs[a] # Down
  /\ procs' = [procs EXCEPT ![a] = Down]
  /\ UNCHANGED <<settled, kind, rootFile, markers, drawn, installs, resets, seen>>

(* The app is deleted with its container and installed again. *)
Reinstall(a) ==
  /\ installs[a] < MaxInstalls
  /\ procs' = [procs EXCEPT ![a] = Down]
  /\ markers' = [markers EXCEPT ![a] = [r \in Roots |-> NoSeed]]
  /\ installs' = [installs EXCEPT ![a] = @ + 1]
  /\ UNCHANGED <<settled, kind, rootFile, drawn, resets, seen>>

MutantResetKeepsFile ==
  /\ drawn < MaxDraws
  /\ drawn' = drawn + 1
  /\ resets' = resets + 1
  /\ UNCHANGED <<settled, kind, rootFile, markers, procs, installs, seen>>

(* resetRootSeedWithError: of the preferences pane. *)
ResetRootSeed ==
  /\ drawn < MaxDraws
  /\ drawn' = drawn + 1
  /\ rootFile' = drawn + 1
  /\ resets' = resets + 1
  /\ UNCHANGED <<settled, kind, markers, procs, installs, seen>>

StartStep(a) ==
  \/ ReadRoot(a) \/ DrawRoot(a) \/ SaveRoot(a) \/ SaveRootFails(a)
  \/ ReadMarker(a) \/ DrawMarker(a) \/ SaveMarker(a) \/ SaveMarkerFails(a)

Next ==
  \/ \E a \in Apps, stored \in Policies, known \in BOOLEAN : Launch(a, stored, known)
  \/ \E a \in Apps : StartStep(a)
  \/ \E a \in Apps : Quit(a)
  \/ \E a \in Apps : Reinstall(a)
  \/ ResetRootSeed

Spec == Init /\ [][Next]_seedVars

-----------------------------------------------------------------------------
AnyPolicy == Policies \cup {LocalPolicy}
Actives == Customs \cup DerivedSeeds

ProcStates ==
  {Down, Off}
    \cup [stage : {"root"}, policy : AnyPolicy, scope : Scopes]
    \cup [stage : {"saveRoot"}, policy : AnyPolicy, scope : Scopes, root : Random]
    \cup [stage : {"marker"}, policy : AnyPolicy, scope : Scopes,
          practical : Roots, since : Nat]
    \cup [stage : {"saveMarker"}, policy : AnyPolicy, scope : Scopes,
          practical : Roots, since : Nat, marker : Random]
    \cup [stage : {"up"}, policy : AnyPolicy, scope : Scopes,
          active : Actives, since : Nat]

TypeOK ==
  /\ settled \in Devices
  /\ kind \in [Apps -> Kinds]
  /\ rootFile \in Random \cup {NoSeed}
  /\ drawn \in 0..MaxDraws
  /\ markers \in [Apps -> [Roots -> Random \cup {NoSeed}]]
  /\ procs \in [Apps -> ProcStates]
  /\ installs \in [Apps -> 0..MaxInstalls]
  /\ resets \in 0..MaxDraws

(* What was remembered, and what those that are up now were given. *)
Observed == seen \cup {Record(a, procs[a]) : a \in {b \in Apps : procs[b].stage = "up"}}

SamePolicy(x, y) ==
  /\ x.policy.mode = y.policy.mode
  /\ x.policy.mode = "manual" => x.policy.custom = y.policy.custom

(* Every start of an app under the same scope gives it the same active     *)
(* seed, until the root seed is reset or, in the install scope, the app is *)
(* reinstalled: whatever was killed or raced in between (scopes.md, the    *)
(* rotation events of docs/concepts/seeds.md).  It asks for seed files     *)
(* that can be written, a root seed that was settled before, a bundle      *)
(* identifier that fits, and the same answer about the vendor.             *)
RelaunchStable ==
  settled => \A x, y \in Observed :
    ( /\ x.app = y.app /\ x.app \notin LongNamed
      /\ SamePolicy(x, y)
      /\ x.scope.id = y.scope.id
      /\ x.since = y.since
      /\ x.policy.mode = "install" => x.install = y.install )
    => x.active = y.active

(* A reinstalled app in the install scope shares no seed with any of its   *)
(* former installations ("reset when that app is reinstalled",             *)
(* LHPreferenceStore.m:129), not even after failed writes or a race.       *)
ReinstallUnlinks ==
  \A x, y \in Observed :
    ( /\ x.app = y.app /\ x.install # y.install
      /\ x.policy.mode = "install" /\ y.policy.mode = "install" )
    => x.active # y.active

(* Two apps share an active seed only where the user or the vendor links   *)
(* them: in a manual group with one custom seed, or in a vendor group      *)
(* (docs/concepts/scopes.md).                                              *)
OnlyLinkedAppsShare ==
  \A x, y \in Observed :
    (x.app # y.app /\ x.active = y.active) =>
      \/ /\ x.policy.mode = "manual" /\ y.policy.mode = "manual"
         /\ x.policy.custom = y.policy.custom
      \/ /\ x.policy.mode = "vendor" /\ y.policy.mode = "vendor"
         /\ VendorOf[x.app] = VendorOf[y.app]

(* Apps of one custom seed share the active seed through resets and        *)
(* reinstallations, and so do apps of one vendor, as long as both know the *)
(* vendor and neither start saw a reset the other did not; where the root  *)
(* seed is missing, two first starts may each keep their own.              *)
LinkedAppsShare ==
  \A x, y \in Observed :
    ( \/ /\ x.policy.mode = "manual" /\ y.policy.mode = "manual"
         /\ x.policy.custom = y.policy.custom
      \/ /\ settled
         /\ x.policy.mode = "vendor" /\ y.policy.mode = "vendor"
         /\ x.kind = y.kind /\ x.since = y.since /\ x.scope.id = y.scope.id )
    => x.active = y.active

(* A reset of the root seed rotates every active seed but custom ones and  *)
(* those of standalone dylibs: no start that read the root after the reset *)
(* repeats a seed from before, even when a first run that missed the root  *)
(* writes over the reset one (resetRootSeedWithError:).                    *)
ResetRotates ==
  \A x, y \in Observed :
    (x.since # y.since /\ x.kind = "package" /\ y.kind = "package" /\ x.policy.mode # "manual")
      => x.active # y.active
=============================================================================
