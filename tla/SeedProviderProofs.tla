------------------------- MODULE SeedProviderProofs -------------------------
(***************************************************************************)
(* What holds of the active seeds for any apps, vendors and policies, any  *)
(* number of launches, resets and reinstallations, and any file operation  *)
(* of one process between two of another.  Every argument is one about     *)
(* draws: a number drawn at random is new to whatever uses it.             *)
(***************************************************************************)
EXTENDS SeedProvider, TLAPS

Running(p) == p.stage \notin {"down", "off"}

(* The policies, identifiers, roots and active seeds that may be found     *)
(* with an app of kind k after d draws.                                    *)
PolicyFor(k, policy) ==
  IF k = "package" THEN policy \in Policies ELSE policy = LocalPolicy

NamedFor(a, mode, id, d) ==
  \/ mode = "manual" /\ id = StaticId
  \/ mode = "vendor" /\ id = VendorOf[a]
  \/ mode # "manual" /\ a \notin LongNamed /\ id = a
  \/ mode # "manual" /\ a \in LongNamed /\ id \in 1..d

RootFor(k, root, d) == IF k = "package" THEN root \in 1..d ELSE root = BuildSeed

SeedFor(k, policy, scope, active, d) ==
  IF Own(policy) THEN active = policy.custom
  ELSE /\ active = Derived(active.root, scope, active.marker)
       /\ RootFor(k, active.root, d)
       /\ IF policy.mode = "install" THEN active.marker \in 1..d
          ELSE active.marker = NoSeed

(* What a process has got so far fits its app and its policy, after d      *)
(* draws and s resets.                                                     *)
ProcOK(a, k, d, s, p) ==
  Running(p) =>
    /\ p.scope.mode = p.policy.mode
    /\ PolicyFor(k, p.policy)
    /\ NamedFor(a, p.policy.mode, p.scope.id, d)
    /\ p.stage \in {"root", "saveRoot"} => k = "package" /\ p.policy.mode # "manual"
    /\ p.stage = "saveRoot" => p.root \in 1..d
    /\ p.stage \in {"marker", "saveMarker"} =>
         p.policy.mode = "install" /\ RootFor(k, p.practical, d) /\ p.since \in 0..s
    /\ p.stage = "saveMarker" => p.marker \in 1..d
    /\ p.stage = "up" => SeedFor(k, p.policy, p.scope, p.active, d) /\ p.since \in 0..s

(* So does what was remembered of an app that was installed i times.       *)
OutcomeOK(x, k, i, d, s) ==
  /\ x.kind = k
  /\ x.install \in 0..i /\ x.since \in 0..s
  /\ x.scope \in Scopes /\ x.scope.mode = x.policy.mode
  /\ PolicyFor(k, x.policy)
  /\ NamedFor(x.app, x.policy.mode, x.scope.id, d)
  /\ SeedFor(k, x.policy, x.scope, x.active, d)

FitInv ==
  /\ TypeOK
  /\ resets <= drawn
  /\ rootFile # NoSeed => rootFile \in 1..drawn
  /\ \A a \in Apps, r \in Roots : markers[a][r] # NoSeed => markers[a][r] \in 1..drawn
  /\ \A a \in Apps : ProcOK(a, kind[a], drawn, resets, procs[a])
  /\ \A x \in seen :
       x.app \in Apps /\ OutcomeOK(x, kind[x.app], installs[x.app], drawn, resets)

(* A number drawn for the identifier of an app is no other app's.          *)
Named(a, id) ==
  \/ Running(procs[a]) /\ procs[a].scope.id = id
  \/ \E x \in seen : x.app = a /\ x.scope.id = id

IdsInv ==
  \A a, b \in Apps, id \in Random : Named(a, id) /\ Named(b, id) => a = b

(* A marker belongs to one installation of one app.                        *)
Holds(p, m) ==
  \/ p.stage = "saveMarker" /\ p.marker = m
  \/ p.stage = "up" /\ p.policy.mode = "install" /\ p.active.marker = m

Held(a, n, m) ==
  \/ n = installs[a] /\ (Holds(procs[a], m) \/ \E r \in Roots : markers[a][r] = m)
  \/ \E x \in seen : /\ x.app = a /\ x.install = n
                     /\ x.policy.mode = "install" /\ x.active.marker = m

MarkersInv ==
  \A a \in Apps, n, k \in Nat, m \in Random : Held(a, n, m) /\ Held(a, k, m) => n = k

(* A root seed is taken up between two resets, and never again: nobody can *)
(* have used one that is still to be saved.                                *)
Uses(p, r, s) ==
  \/ p.stage \in {"marker", "saveMarker"} /\ p.practical = r /\ p.since = s
  \/ /\ p.stage = "up" /\ p.policy.mode # "manual"
     /\ p.active.root = r /\ p.since = s

Used(r, s) ==
  \/ \E a \in Apps : Uses(procs[a], r, s)
  \/ \E x \in seen : x.policy.mode # "manual" /\ x.active.root = r /\ x.since = s

Saving(a, r) == procs[a].stage = "saveRoot" /\ procs[a].root = r

RootsInv ==
  /\ \A r \in Random, s, t \in Nat : Used(r, s) /\ Used(r, t) => s = t
  /\ \A s \in Nat : rootFile # NoSeed /\ Used(rootFile, s) => s = resets
  /\ \A a \in Apps, r \in Random, s \in Nat : Saving(a, r) => rootFile # r /\ ~Used(r, s)
  /\ \A a, b \in Apps, r \in Random : Saving(a, r) /\ Saving(b, r) => a = b

(* Where the root seed was settled, it only changes with a reset, and a    *)
(* marker of an app is the one on file for as long as it is installed.     *)
Marked(a, n, r, m) ==
  \/ /\ n = installs[a]
     /\ procs[a].stage = "up" /\ procs[a].policy.mode = "install" /\ procs[a].scope.id = a
     /\ procs[a].active.root = r /\ procs[a].active.marker = m
  \/ \E x \in seen : /\ x.app = a /\ x.install = n
                     /\ x.policy.mode = "install" /\ x.scope.id = a
                     /\ x.active.root = r /\ x.active.marker = m

SettledInv ==
  settled =>
    /\ rootFile # NoSeed
    /\ \A a \in Apps : procs[a].stage # "saveRoot"
    /\ \A r \in Random : Used(r, resets) => r = rootFile
    /\ \A r, q \in Random, s \in Nat : Used(r, s) /\ Used(q, s) => r = q
    /\ \A a \in Apps : procs[a].stage = "saveMarker" => MarkerOf(a) = NoSeed
    /\ \A a \in Apps, r \in Roots, m \in Random :
         Marked(a, installs[a], r, m) => markers[a][r] = m
    /\ \A a \in Apps, n \in Nat, r \in Roots, l, m \in Random :
         Marked(a, n, r, l) /\ Marked(a, n, r, m) => l = m

SeedsInv == FitInv /\ IdsInv /\ MarkersInv /\ RootsInv /\ SettledInv

-----------------------------------------------------------------------------
(* The constants and what is drawn do not meet.                            *)
LEMMA Apart ==
  /\ \A a \in Apps : a \notin Random /\ VendorOf[a] \in Vendors /\ VendorOf[a] \notin Random
  /\ \A a, b \in Apps : a # VendorOf[b]
  /\ StaticId \notin Random /\ NoSeed \notin Random /\ BuildSeed \notin Random
  /\ NoSeed # BuildSeed
  /\ \A c \in Customs : c \notin Random /\ c # BuildSeed /\ c # NoSeed
  /\ \A d \in 0..MaxDraws : 1..d \subseteq Random
  /\ MaxDraws \in Nat \ {0} /\ MaxInstalls \in Nat
  BY SeedAssumption DEF SeedAssumption, Random

(* What the stage of a process says about its record.                      *)
LEMMA ProcFields ==
  ASSUME NEW p \in ProcStates
  PROVE  /\ p.stage \in {"down", "off", "root", "saveRoot", "marker", "saveMarker", "up"}
         /\ p.stage = "down" => p = Down
         /\ p.stage = "off" => p = Off
         /\ Running(p) => p.policy \in AnyPolicy /\ p.scope \in Scopes
         /\ p.stage = "saveRoot" => p.root \in Random
         /\ p.stage \in {"marker", "saveMarker"} => p.practical \in Roots /\ p.since \in Nat
         /\ p.stage = "saveMarker" => p.marker \in Random
         /\ p.stage = "up" => p.active \in Actives /\ p.since \in Nat
  BY DEF ProcStates, Down, Off, Running

(* More draws and more resets take nothing away.                           *)
LEMMA Lasts ==
  ASSUME NEW a \in Apps, NEW k, NEW p, NEW d \in Nat, NEW e \in Nat, d <= e,
         NEW s \in Nat, NEW t \in Nat, s <= t, ProcOK(a, k, d, s, p)
  PROVE  ProcOK(a, k, e, t, p)
  <1>1. 1..d \subseteq 1..e /\ 0..s \subseteq 0..t
    OBVIOUS
  <1>2. \A mode, id : NamedFor(a, mode, id, d) => NamedFor(a, mode, id, e)
    BY <1>1 DEF NamedFor
  <1>3. \A root : RootFor(k, root, d) => RootFor(k, root, e)
    BY <1>1 DEF RootFor
  <1>4. \A policy, scope, active :
          SeedFor(k, policy, scope, active, d) => SeedFor(k, policy, scope, active, e)
    BY <1>1, <1>3 DEF SeedFor
  <1>5. QED
    BY <1>1, <1>2, <1>3, <1>4 DEF ProcOK

(* Nor do they, or a reinstallation, take anything from an outcome.        *)
LEMMA OutcomeLasts ==
  ASSUME NEW x, NEW k, NEW d \in Nat, NEW e \in Nat, d <= e,
         NEW s \in Nat, NEW t \in Nat, s <= t, NEW i \in Nat, NEW j \in Nat, i <= j,
         OutcomeOK(x, k, i, d, s)
  PROVE  OutcomeOK(x, k, j, e, t)
  <1>1. 1..d \subseteq 1..e /\ 0..s \subseteq 0..t /\ 0..i \subseteq 0..j
    OBVIOUS
  <1>2. \A a, mode, id : NamedFor(a, mode, id, d) => NamedFor(a, mode, id, e)
    BY <1>1 DEF NamedFor
  <1>3. \A root : RootFor(k, root, d) => RootFor(k, root, e)
    BY <1>1 DEF RootFor
  <1>4. \A policy, scope, active :
          SeedFor(k, policy, scope, active, d) => SeedFor(k, policy, scope, active, e)
    BY <1>1, <1>3 DEF SeedFor
  <1>5. QED
    BY <1>1, <1>2, <1>3, <1>4 DEF OutcomeOK

-----------------------------------------------------------------------------
(* Whatever is observed fits its app, and is among the uses of its         *)
(* identifier, its root and its marker.                                    *)
LEMMA ObservedOK ==
  ASSUME FitInv, NEW x \in Observed
  PROVE  /\ x.app \in Apps /\ OutcomeOK(x, kind[x.app], installs[x.app], drawn, resets)
         /\ Named(x.app, x.scope.id)
         /\ x.policy.mode # "manual" => Used(x.active.root, x.since)
         /\ x.policy.mode = "install" => Held(x.app, x.install, x.active.marker)
         /\ x.policy.mode = "install" /\ x.scope.id = x.app =>
              Marked(x.app, x.install, x.active.root, x.active.marker)
  <1>1. CASE x \in seen
    <2>1. x.app \in Apps /\ OutcomeOK(x, kind[x.app], installs[x.app], drawn, resets)
      BY <1>1 DEF FitInv
    <2>2. QED
      BY <1>1, <2>1 DEF Named, Used, Held, Marked
  <1>2. CASE x \notin seen
    <2>1. PICK a \in Apps : procs[a].stage = "up" /\ x = Record(a, procs[a])
      BY <1>2 DEF Observed
    <2>2. PICK p : p = procs[a]
      OBVIOUS
    <2>3. p \in ProcStates /\ p.stage = "up" /\ Running(p)
      BY <2>1, <2>2 DEF FitInv, TypeOK, Running
    <2>4. /\ x.app = a /\ x.kind = kind[a] /\ x.install = installs[a] /\ x.since = p.since
          /\ x.policy = p.policy /\ x.scope = p.scope /\ x.active = p.active
      BY <2>1, <2>2 DEF Record
    <2>5. p.scope \in Scopes
      BY <2>3, ProcFields
    <2>6. ProcOK(a, kind[a], drawn, resets, p)
      BY <2>2 DEF FitInv
    <2>7. installs[a] \in 0..installs[a]
      BY DEF FitInv, TypeOK
    <2>8. OutcomeOK(x, kind[a], installs[a], drawn, resets)
      BY <2>3, <2>4, <2>5, <2>6, <2>7 DEF OutcomeOK, ProcOK
    <2>9. QED
      BY <2>2, <2>3, <2>4, <2>8 DEF Named, Used, Uses, Held, Holds, Marked
  <1>3. QED
    BY <1>1, <1>2

(* A seed is one that was typed in, or one that was derived.               *)
LEMMA TwoKinds ==
  ASSUME FitInv, NEW x \in Observed
  PROVE  /\ Own(x.policy) => x.active = x.policy.custom /\ x.active \in Customs
         /\ ~Own(x.policy) =>
              /\ x.active = Derived(x.active.root, x.scope, x.active.marker)
              /\ RootFor(kind[x.app], x.active.root, drawn)
              /\ x.active \in DerivedSeeds
         /\ x.policy.mode = "manual" /\ kind[x.app] = "package" => Own(x.policy)
         /\ x.policy.mode \in Modes
  <1>1. x.app \in Apps /\ OutcomeOK(x, kind[x.app], installs[x.app], drawn, resets)
    BY ObservedOK
  <1>2. x.policy.mode \in Modes /\ x.policy.custom \in Customs \cup {NoSeed}
    BY <1>1, SeedAssumption DEF SeedAssumption, OutcomeOK, PolicyFor, LocalPolicy
  <1>3. x.policy.mode = "manual" /\ kind[x.app] = "package" => Own(x.policy)
    BY <1>1, SeedAssumption DEF SeedAssumption, OutcomeOK, PolicyFor, Own
  <1>4. CASE Own(x.policy)
    BY <1>1, <1>2, <1>3, <1>4 DEF OutcomeOK, SeedFor, Own
  <1>5. CASE ~Own(x.policy)
    <2>1. /\ x.active = Derived(x.active.root, x.scope, x.active.marker)
          /\ RootFor(kind[x.app], x.active.root, drawn)
          /\ x.active.marker \in 1..drawn \cup {NoSeed}
          /\ x.scope \in Scopes
      BY <1>1, <1>5 DEF OutcomeOK, SeedFor
    <2>2. 1..drawn \subseteq Random
      BY Apart DEF FitInv, TypeOK
    <2>3. x.active.root \in Roots
      BY <2>1, <2>2 DEF RootFor, Roots
    <2>4. x.active \in DerivedSeeds
      BY <2>1, <2>2, <2>3 DEF DerivedSeeds, Derived
    <2>5. QED
      BY <1>2, <1>3, <1>5, <2>1, <2>4
  <1>6. QED
    BY <1>4, <1>5

(* Equal seeds have equal roots, scopes and markers.                       *)
LEMMA SameSeed ==
  ASSUME NEW r, NEW q, NEW x, NEW y, NEW m, NEW n, Derived(r, x, m) = Derived(q, y, n)
  PROVE  r = q /\ x = y /\ m = n
  BY DEF Derived

(* Equal seeds have one scope, and a scope has one app, vendor or group.   *)
LEMMA OnlyLinked == FitInv /\ IdsInv => OnlyLinkedAppsShare
  <1> SUFFICES ASSUME FitInv, IdsInv, NEW x \in Observed, NEW y \in Observed,
                      x.app # y.app, x.active = y.active
               PROVE  \/ /\ x.policy.mode = "manual" /\ y.policy.mode = "manual"
                         /\ x.policy.custom = y.policy.custom
                      \/ /\ x.policy.mode = "vendor" /\ y.policy.mode = "vendor"
                         /\ VendorOf[x.app] = VendorOf[y.app]
    BY DEF OnlyLinkedAppsShare
  <1>1. Own(x.policy) <=> Own(y.policy)
    BY TwoKinds, FreeAssumption DEF FreeAssumption
  <1>2. CASE Own(x.policy)
    BY <1>1, <1>2, TwoKinds DEF Own
  <1>3. CASE ~Own(x.policy)
    <2>1. x.scope = y.scope
      BY <1>1, <1>3, TwoKinds, SameSeed
    <2>2. /\ x.app \in Apps /\ y.app \in Apps
          /\ OutcomeOK(x, kind[x.app], installs[x.app], drawn, resets)
          /\ OutcomeOK(y, kind[y.app], installs[y.app], drawn, resets)
          /\ Named(x.app, x.scope.id) /\ Named(y.app, x.scope.id)
      BY <2>1, ObservedOK
    <2>3. /\ x.policy.mode = y.policy.mode
          /\ NamedFor(x.app, x.policy.mode, x.scope.id, drawn)
          /\ NamedFor(y.app, x.policy.mode, x.scope.id, drawn)
      BY <2>1, <2>2 DEF OutcomeOK
    <2>4. x.scope.id \notin Random
      BY <2>2 DEF IdsInv
    <2>5. 1..drawn \subseteq Random
      BY Apart DEF FitInv, TypeOK
    <2>6. CASE x.policy.mode = "manual"
      <3>1. x.policy.custom = NoSeed /\ y.policy.custom = NoSeed
        BY <1>1, <1>3, <2>3, <2>6 DEF Own
      <3>2. QED
        BY <2>3, <2>6, <3>1
    <2>7. CASE x.policy.mode # "manual"
      <3>1. \/ x.policy.mode = "vendor" /\ x.scope.id = VendorOf[x.app]
            \/ x.scope.id = x.app
        BY <2>3, <2>4, <2>5, <2>7 DEF NamedFor
      <3>2. \/ x.policy.mode = "vendor" /\ x.scope.id = VendorOf[y.app]
            \/ x.scope.id = y.app
        BY <2>3, <2>4, <2>5, <2>7 DEF NamedFor
      <3>3. QED
        BY <2>2, <2>3, <3>1, <3>2, Apart
    <2>8. QED
      BY <2>6, <2>7
  <1>4. QED
    BY <1>2, <1>3

(* Equal seeds have one marker, and a marker one installation.             *)
LEMMA Unlinks == FitInv /\ MarkersInv => ReinstallUnlinks
  <1> SUFFICES ASSUME FitInv, MarkersInv, NEW x \in Observed, NEW y \in Observed,
                      x.app = y.app, x.policy.mode = "install", y.policy.mode = "install",
                      x.active = y.active
               PROVE  x.install = y.install
    BY DEF ReinstallUnlinks
  <1>1. /\ x.app \in Apps
        /\ OutcomeOK(x, kind[x.app], installs[x.app], drawn, resets)
        /\ OutcomeOK(y, kind[x.app], installs[x.app], drawn, resets)
        /\ Held(x.app, x.install, x.active.marker) /\ Held(x.app, y.install, x.active.marker)
    BY ObservedOK
  <1>2. x.active.marker \in 1..drawn /\ x.install \in Nat /\ y.install \in Nat
    <2>1. ~Own(x.policy)
      BY DEF Own
    <2>2. QED
      BY <1>1, <2>1 DEF OutcomeOK, SeedFor
  <1>3. 1..drawn \subseteq Random
    BY Apart DEF FitInv, TypeOK
  <1>4. QED
    BY <1>1, <1>2, <1>3 DEF MarkersInv

(* Equal seeds have one root, and a root one time between two resets.      *)
LEMMA Rotates == FitInv /\ RootsInv => ResetRotates
  <1> SUFFICES ASSUME FitInv, RootsInv, NEW x \in Observed, NEW y \in Observed,
                      x.kind = "package", y.kind = "package", x.policy.mode # "manual",
                      x.active = y.active
               PROVE  x.since = y.since
    BY DEF ResetRotates
  <1>1. /\ x.app \in Apps /\ y.app \in Apps
        /\ OutcomeOK(x, kind[x.app], installs[x.app], drawn, resets)
        /\ OutcomeOK(y, kind[y.app], installs[y.app], drawn, resets)
    BY ObservedOK
  <1>2. /\ kind[x.app] = "package" /\ kind[y.app] = "package"
        /\ x.since \in Nat /\ y.since \in Nat
    BY <1>1 DEF OutcomeOK
  <1>3. ~Own(x.policy) /\ ~Own(y.policy)
    BY TwoKinds, FreeAssumption DEF FreeAssumption, Own
  <1>4. y.policy.mode # "manual"
    BY <1>2, <1>3, TwoKinds
  <1>5. x.active.root \in 1..drawn
    BY <1>2, <1>3, TwoKinds DEF RootFor
  <1>6. 1..drawn \subseteq Random
    BY Apart DEF FitInv, TypeOK
  <1>7. Used(x.active.root, x.since) /\ Used(x.active.root, y.since)
    BY <1>4, ObservedOK
  <1>8. QED
    BY <1>2, <1>5, <1>6, <1>7 DEF RootsInv

(* Where the root was settled, starts between the same resets share it.    *)
LEMMA SameRoot ==
  ASSUME FitInv, SettledInv, settled, NEW x \in Observed, NEW y \in Observed,
         ~Own(x.policy), ~Own(y.policy),
         kind[x.app] = kind[y.app], x.since = y.since
  PROVE  x.active.root = y.active.root
  <1>1. /\ x.app \in Apps /\ y.app \in Apps
        /\ OutcomeOK(x, kind[x.app], installs[x.app], drawn, resets)
    BY ObservedOK
  <1>2. /\ RootFor(kind[x.app], x.active.root, drawn)
        /\ RootFor(kind[x.app], y.active.root, drawn)
    BY TwoKinds
  <1>3. CASE kind[x.app] = "package"
    <2>1. x.policy.mode # "manual" /\ y.policy.mode # "manual"
      BY <1>3, TwoKinds
    <2>2. Used(x.active.root, x.since) /\ Used(y.active.root, x.since)
      BY <2>1, ObservedOK
    <2>3. x.active.root \in Random /\ y.active.root \in Random
      BY <1>2, <1>3, Apart DEF RootFor, FitInv, TypeOK
    <2>4. x.since \in Nat
      BY <1>1 DEF OutcomeOK
    <2>5. QED
      BY <2>2, <2>3, <2>4 DEF SettledInv
  <1>4. CASE kind[x.app] # "package"
    BY <1>2, <1>4 DEF RootFor
  <1>5. QED
    BY <1>3, <1>4

(* Same root, same scope, same marker on file: the same seed.              *)
LEMMA Stable == FitInv /\ SettledInv => RelaunchStable
  <1> SUFFICES ASSUME FitInv, SettledInv, settled, NEW x \in Observed, NEW y \in Observed,
                      x.app = y.app, x.app \notin LongNamed, SamePolicy(x, y),
                      x.scope.id = y.scope.id, x.since = y.since,
                      x.policy.mode = "install" => x.install = y.install
               PROVE  x.active = y.active
    BY DEF RelaunchStable
  <1>1. /\ x.app \in Apps
        /\ OutcomeOK(x, kind[x.app], installs[x.app], drawn, resets)
        /\ OutcomeOK(y, kind[x.app], installs[x.app], drawn, resets)
    BY ObservedOK
  <1>2. Own(x.policy) <=> Own(y.policy)
    BY DEF SamePolicy, Own
  <1>3. CASE Own(x.policy)
    BY <1>2, <1>3, TwoKinds DEF SamePolicy, Own
  <1>4. CASE ~Own(x.policy)
    <2>1. x.active.root = y.active.root
      BY <1>2, <1>4, SameRoot
    <2>2. x.scope = y.scope
      <3>1. x.scope \in Scopes /\ y.scope \in Scopes /\ x.scope.mode = y.scope.mode
        BY <1>1 DEF OutcomeOK, SamePolicy
      <3>2. QED
        BY <3>1 DEF Scopes
    <2>3. x.active.marker = y.active.marker
      <3>1. CASE x.policy.mode = "install"
        <4>1. /\ y.policy.mode = "install"
              /\ x.active.marker \in Random /\ y.active.marker \in Random
          BY <1>1, <1>2, <1>4, <3>1, Apart DEF SamePolicy, OutcomeOK, SeedFor, FitInv, TypeOK
        <4>2. x.scope.id = x.app
          BY <1>1, <3>1 DEF OutcomeOK, NamedFor
        <4>3. /\ Marked(x.app, x.install, x.active.root, x.active.marker)
              /\ Marked(x.app, x.install, x.active.root, y.active.marker)
          BY <2>1, <3>1, <4>1, <4>2, ObservedOK
        <4>4. x.install \in Nat /\ x.active.root \in Roots
          <5>1. x.active.root \in Roots
            BY <1>4, TwoKinds DEF DerivedSeeds
          <5>2. QED
            BY <1>1, <5>1 DEF OutcomeOK
        <4>5. QED
          BY <1>1, <4>1, <4>3, <4>4 DEF SettledInv
      <3>2. CASE x.policy.mode # "install"
        BY <1>1, <1>2, <1>4, <3>2 DEF SamePolicy, OutcomeOK, SeedFor
      <3>3. QED
        BY <3>1, <3>2
    <2>4. QED
      BY <1>2, <1>4, <2>1, <2>2, <2>3, TwoKinds
  <1>5. QED
    BY <1>3, <1>4

(* Same root and same scope, without a marker: the same seed.              *)
LEMMA Linked == FitInv /\ SettledInv => LinkedAppsShare
  <1> SUFFICES ASSUME FitInv, SettledInv, NEW x \in Observed, NEW y \in Observed,
                      \/ /\ x.policy.mode = "manual" /\ y.policy.mode = "manual"
                         /\ x.policy.custom = y.policy.custom
                      \/ /\ settled
                         /\ x.policy.mode = "vendor" /\ y.policy.mode = "vendor"
                         /\ x.kind = y.kind /\ x.since = y.since /\ x.scope.id = y.scope.id
               PROVE  x.active = y.active
    BY DEF LinkedAppsShare
  <1>1. /\ x.app \in Apps /\ y.app \in Apps
        /\ OutcomeOK(x, kind[x.app], installs[x.app], drawn, resets)
        /\ OutcomeOK(y, kind[y.app], installs[y.app], drawn, resets)
    BY ObservedOK
  <1>2. CASE Own(x.policy)
    BY <1>2, TwoKinds DEF Own
  <1>3. CASE ~Own(x.policy)
    <2>1. ~Own(y.policy)
      BY <1>3 DEF Own
    <2>2. x.policy.mode = y.policy.mode /\ x.policy.mode # "install"
      OBVIOUS
    <2>3. x.active.root = y.active.root
      <3>1. CASE x.policy.mode = "manual"
        <4>1. kind[x.app] # "package" /\ kind[y.app] # "package"
          BY <1>3, <2>1, <2>2, <3>1, TwoKinds
        <4>2. QED
          BY <1>3, <2>1, <4>1, TwoKinds DEF RootFor
      <3>2. CASE x.policy.mode # "manual"
        <4>1. settled /\ x.since = y.since /\ kind[x.app] = kind[y.app]
          BY <1>1, <3>2 DEF OutcomeOK
        <4>2. QED
          BY <1>3, <2>1, <4>1, SameRoot
      <3>3. QED
        BY <3>1, <3>2
    <2>4. x.scope = y.scope
      <3>1. x.scope \in Scopes /\ y.scope \in Scopes /\ x.scope.mode = y.scope.mode
        BY <1>1, <2>2 DEF OutcomeOK
      <3>2. x.scope.id = y.scope.id
        BY <1>1 DEF OutcomeOK, NamedFor
      <3>3. QED
        BY <3>1, <3>2 DEF Scopes
    <2>5. x.active.marker = y.active.marker
      BY <1>1, <1>3, <2>1, <2>2 DEF OutcomeOK, SeedFor
    <2>6. QED
      BY <1>3, <2>1, <2>3, <2>4, <2>5, TwoKinds
  <1>4. QED
    BY <1>2, <1>3

-----------------------------------------------------------------------------
(* A step in which the process of a becomes p, which may be remembered.    *)
Moved(a, p) ==
  /\ procs' = [procs EXCEPT ![a] = p]
  /\ seen' = seen \/ (p.stage = "up" /\ seen' = seen \cup {Record(a, p)})
  /\ UNCHANGED <<settled, kind, installs>>

(* Note remembers nothing but what came up.                                *)
LEMMA Noted ==
  ASSUME TypeOK, NEW a \in Apps, NEW p, procs' = [procs EXCEPT ![a] = p], Note(a),
         UNCHANGED <<settled, kind, installs>>
  PROVE  Moved(a, p)
  <1>1. procs'[a] = p
    BY DEF TypeOK
  <1>2. QED
    BY <1>1 DEF Note, Moved

(* What such a step changes, field by field.                               *)
LEMMA MovedFields ==
  ASSUME TypeOK, NEW a \in Apps, NEW p, Moved(a, p)
  PROVE  /\ procs'[a] = p
         /\ \A b \in Apps : b # a => procs'[b] = procs[b]
         /\ \A x \in seen' :
              \/ x \in seen
              \/ /\ p.stage = "up" /\ x.app = a /\ x.kind = kind[a] /\ x.install = installs[a]
                 /\ x.since = p.since /\ x.policy = p.policy /\ x.scope = p.scope
                 /\ x.active = p.active
         /\ UNCHANGED <<settled, kind, installs>>
  BY DEF TypeOK, Moved, Record

(* What such a step adds to the uses is what p uses.                       *)
LEMMA MovedNamed ==
  ASSUME TypeOK, NEW a \in Apps, NEW p, Moved(a, p), NEW b \in Apps, NEW id, Named(b, id)'
  PROVE  Named(b, id) \/ (b = a /\ Running(p) /\ p.scope.id = id)
  BY MovedFields DEF Named, Running

(* The same of roots.                                                      *)
LEMMA MovedUsed ==
  ASSUME TypeOK, NEW a \in Apps, NEW p, Moved(a, p), NEW r, NEW s, Used(r, s)'
  PROVE  Used(r, s) \/ Uses(p, r, s)
  BY MovedFields DEF Used, Uses

(* The same of markers, which may also come to be on file.                 *)
LEMMA MovedHeld ==
  ASSUME TypeOK, NEW a \in Apps, NEW p, Moved(a, p), NEW b \in Apps, NEW n, NEW m, Held(b, n, m)'
  PROVE  \/ Held(b, n, m)
         \/ b = a /\ n = installs[a] /\ Holds(p, m)
         \/ n = installs[b] /\ \E r \in Roots : markers'[b][r] = m
  BY MovedFields DEF Held, Holds

(* The same of the markers of an app's own path.                           *)
LEMMA MovedMarked ==
  ASSUME TypeOK, NEW a \in Apps, NEW p, Moved(a, p), NEW b \in Apps, NEW n, NEW r, NEW m,
         Marked(b, n, r, m)'
  PROVE  \/ Marked(b, n, r, m)
         \/ /\ b = a /\ n = installs[a]
            /\ p.stage = "up" /\ p.policy.mode = "install" /\ p.scope.id = a
            /\ p.active.root = r /\ p.active.marker = m
  BY MovedFields DEF Marked

(* Such a step keeps everything fitting when p fits.                       *)
LEMMA MovedFits ==
  ASSUME FitInv, NEW a \in Apps, NEW p \in ProcStates, Moved(a, p), resets' = resets,
         drawn' \in {drawn, drawn + 1}, drawn' <= MaxDraws,
         ProcOK(a, kind[a], drawn', resets, p),
         rootFile' = rootFile \/ rootFile' \in 1..drawn',
         \/ markers' = markers
         \/ /\ markers' \in [Apps -> [Roots -> Random \cup {NoSeed}]]
            /\ \A b \in Apps, r \in Roots :
                 markers'[b][r] = markers[b][r] \/ markers'[b][r] \in 1..drawn'
  PROVE  FitInv'
  <1>1. /\ drawn \in Nat /\ drawn' \in 0..MaxDraws /\ drawn <= drawn' /\ resets \in Nat
        /\ resets <= drawn' /\ 1..drawn \subseteq 1..drawn' /\ 1..drawn' \subseteq Random
    <2>1. /\ drawn \in 0..MaxDraws /\ resets \in 0..MaxDraws /\ resets <= drawn
          /\ MaxDraws \in Nat
      BY Apart DEF FitInv, TypeOK
    <2>2. drawn \in Nat /\ drawn' \in 0..MaxDraws /\ drawn <= drawn' /\ resets \in Nat
      BY <2>1
    <2>3. QED
      BY <2>1, <2>2, Apart
  <1>2. TypeOK /\ UNCHANGED <<settled, kind, installs>>
    BY MovedFields DEF FitInv
  <1>3. TypeOK'
    <2>1. procs' \in [Apps -> ProcStates]
      BY <1>2 DEF TypeOK, Moved
    <2>2. rootFile' \in Random \cup {NoSeed}
      BY <1>1, <1>2 DEF TypeOK
    <2>3. markers' \in [Apps -> [Roots -> Random \cup {NoSeed}]]
      BY <1>2 DEF TypeOK
    <2>4. QED
      BY <1>1, <1>2, <2>1, <2>2, <2>3 DEF TypeOK
  <1>4. rootFile' # NoSeed => rootFile' \in 1..drawn'
    BY <1>1 DEF FitInv
  <1>5. \A b \in Apps, r \in Roots : markers'[b][r] # NoSeed => markers'[b][r] \in 1..drawn'
    BY <1>1 DEF FitInv
  <1>6. ASSUME NEW b \in Apps
        PROVE  ProcOK(b, kind'[b], drawn', resets', procs'[b])
    <2>1. CASE b = a
      BY <1>2, <2>1, MovedFields
    <2>2. CASE b # a
      <3>1. ProcOK(b, kind[b], drawn', resets, procs[b])
        BY <1>1, Lasts DEF FitInv
      <3>2. QED
        BY <1>2, <2>2, <3>1, MovedFields
    <2>3. QED
      BY <2>1, <2>2
  <1>7. ASSUME NEW x \in seen'
        PROVE  x.app \in Apps /\ OutcomeOK(x, kind'[x.app], installs'[x.app], drawn', resets')
    <2>1. CASE x \in seen
      <3>1. x.app \in Apps /\ OutcomeOK(x, kind[x.app], installs[x.app], drawn, resets)
        BY <2>1 DEF FitInv
      <3>2. installs[x.app] \in Nat
        BY <1>2, <3>1 DEF TypeOK
      <3>3. OutcomeOK(x, kind[x.app], installs[x.app], drawn', resets)
        BY <1>1, <3>1, <3>2, OutcomeLasts
      <3>4. QED
        BY <1>2, <3>1, <3>3
    <2>2. CASE x \notin seen
      <3>1. /\ p.stage = "up" /\ x.app = a /\ x.kind = kind[a] /\ x.install = installs[a]
            /\ x.since = p.since /\ x.policy = p.policy /\ x.scope = p.scope
            /\ x.active = p.active
        BY <1>2, <2>2, MovedFields
      <3>2. Running(p)
        BY <3>1 DEF Running
      <3>3. p.scope \in Scopes
        BY <3>2, ProcFields
      <3>4. installs[a] \in 0..installs[a]
        BY <1>2 DEF TypeOK
      <3>5. OutcomeOK(x, kind[a], installs[a], drawn', resets)
        BY <3>1, <3>2, <3>3, <3>4 DEF OutcomeOK, ProcOK
      <3>6. QED
        BY <1>2, <3>1, <3>5
    <2>3. QED
      BY <2>1, <2>2
  <1>8. QED
    BY <1>1, <1>3, <1>4, <1>5, <1>6, <1>7 DEF FitInv

(* What is in use was drawn before.                                        *)
LEMMA Earlier ==
  ASSUME FitInv
  PROVE  /\ \A a \in Apps, id \in Random : Named(a, id) => id \in 1..drawn
         /\ \A r \in Random : \A s : Used(r, s) => r \in 1..drawn /\ s \in 0..resets
         /\ \A a \in Apps, m \in Random : \A n : Held(a, n, m) => m \in 1..drawn
         /\ \A a \in Apps : \A r : Saving(a, r) => r \in 1..drawn
         /\ drawn + 1 \notin 1..drawn /\ drawn \in Nat /\ resets \in Nat
  <1>1. /\ \A a \in Apps : procs[a] \in ProcStates /\ ProcOK(a, kind[a], drawn, resets, procs[a])
        /\ \A x \in seen :
             x.app \in Apps /\ OutcomeOK(x, kind[x.app], installs[x.app], drawn, resets)
        /\ drawn \in Nat /\ resets \in Nat
    BY DEF FitInv, TypeOK
  <1>2. ASSUME NEW a \in Apps, NEW mode, NEW id \in Random, NamedFor(a, mode, id, drawn)
        PROVE  id \in 1..drawn
    BY <1>2, Apart DEF NamedFor
  <1>3. ASSUME NEW a \in Apps, NEW id \in Random, Named(a, id)
        PROVE  id \in 1..drawn
    <2>1. CASE Running(procs[a]) /\ procs[a].scope.id = id
      BY <1>1, <1>2, <2>1 DEF ProcOK
    <2>2. CASE \E x \in seen : x.app = a /\ x.scope.id = id
      BY <1>1, <1>2, <2>2 DEF OutcomeOK
    <2>3. QED
      BY <1>3, <2>1, <2>2 DEF Named
  <1>4. ASSUME NEW r \in Random, NEW s, Used(r, s)
        PROVE  r \in 1..drawn /\ s \in 0..resets
    <2>1. ASSUME NEW k, RootFor(k, r, drawn)
          PROVE  r \in 1..drawn
      BY <2>1, Apart DEF RootFor
    <2>2. ASSUME NEW a \in Apps, Uses(procs[a], r, s)
          PROVE  r \in 1..drawn /\ s \in 0..resets
      <3>1. PICK p : p = procs[a]
        OBVIOUS
      <3>2. ProcOK(a, kind[a], drawn, resets, p) /\ Uses(p, r, s)
        BY <1>1, <2>2, <3>1
      <3>3. QED
        BY <2>1, <3>2 DEF ProcOK, Uses, Running, SeedFor, Own
    <2>3. ASSUME NEW x \in seen, x.policy.mode # "manual", x.active.root = r, x.since = s
          PROVE  r \in 1..drawn /\ s \in 0..resets
      BY <1>1, <2>1, <2>3 DEF OutcomeOK, SeedFor, Own
    <2>4. QED
      BY <1>4, <2>2, <2>3 DEF Used
  <1>5. ASSUME NEW a \in Apps, NEW n, NEW m \in Random, Held(a, n, m)
        PROVE  m \in 1..drawn
    <2>1. ASSUME Holds(procs[a], m)
          PROVE  m \in 1..drawn
      <3>1. PICK p : p = procs[a]
        OBVIOUS
      <3>2. ProcOK(a, kind[a], drawn, resets, p) /\ Holds(p, m)
        BY <1>1, <2>1, <3>1
      <3>3. QED
        BY <3>2 DEF ProcOK, Holds, Running, SeedFor, Own
    <2>2. ASSUME NEW r \in Roots, markers[a][r] = m
          PROVE  m \in 1..drawn
      BY <2>2, Apart DEF FitInv
    <2>3. ASSUME NEW x \in seen, x.policy.mode = "install", x.active.marker = m
          PROVE  m \in 1..drawn
      BY <1>1, <2>3 DEF OutcomeOK, SeedFor, Own
    <2>4. QED
      BY <1>5, <2>1, <2>2, <2>3 DEF Held
  <1>6. ASSUME NEW a \in Apps, NEW r, Saving(a, r)
        PROVE  r \in 1..drawn
    BY <1>1, <1>6 DEF Saving, ProcOK, Running
  <1>7. QED
    BY <1>1, <1>3, <1>4, <1>5, <1>6

(* An identifier is kept, no number, or newly drawn.                       *)
LEMMA MovedIds ==
  ASSUME FitInv, IdsInv, NEW a \in Apps, NEW p, Moved(a, p),
         Running(p) => \/ Running(procs[a]) /\ procs[a].scope.id = p.scope.id
                       \/ p.scope.id \notin Random
                       \/ p.scope.id = drawn + 1
  PROVE  IdsInv'
  <1> SUFFICES ASSUME NEW b \in Apps, NEW c \in Apps, NEW id \in Random,
                      Named(b, id)', Named(c, id)'
               PROVE  b = c
    BY DEF IdsInv
  <1>1. TypeOK
    BY DEF FitInv
  <1>2. ASSUME NEW e \in Apps, Named(e, id)'
        PROVE  Named(e, id) \/ (e = a /\ id = drawn + 1)
    <2>1. Named(e, id) \/ (e = a /\ Running(p) /\ p.scope.id = id)
      BY <1>1, <1>2, MovedNamed
    <2>2. Running(procs[a]) /\ procs[a].scope.id = id => Named(a, id)
      BY DEF Named
    <2>3. QED
      BY <2>1, <2>2
  <1>3. Named(b, id) \/ (b = a /\ id = drawn + 1)
    BY <1>2
  <1>4. Named(c, id) \/ (c = a /\ id = drawn + 1)
    BY <1>2
  <1>5. QED
    BY <1>3, <1>4, Earlier DEF IdsInv

(* A marker is kept, found on file, or newly drawn.                        *)
LEMMA MovedMarkers ==
  ASSUME FitInv, MarkersInv, NEW a \in Apps, NEW p, Moved(a, p),
         \A m \in Random : Holds(p, m) => \/ Holds(procs[a], m) \/ m = drawn + 1
                                          \/ \E r \in Roots : markers[a][r] = m,
         \A b \in Apps, r \in Roots, m \in Random :
           markers'[b][r] = m => markers[b][r] = m \/ (b = a /\ Holds(procs[a], m))
  PROVE  MarkersInv'
  <1> SUFFICES ASSUME NEW b \in Apps, NEW n \in Nat, NEW k \in Nat, NEW m \in Random,
                      Held(b, n, m)', Held(b, k, m)'
               PROVE  n = k
    BY DEF MarkersInv
  <1>1. TypeOK
    BY DEF FitInv
  <1>2. ASSUME NEW i, Held(b, i, m)'
        PROVE  Held(b, i, m) \/ (b = a /\ i = installs[a] /\ m = drawn + 1)
    <2>1. CASE b = a /\ i = installs[a] /\ Holds(p, m)
      BY <2>1 DEF Held
    <2>2. CASE i = installs[b] /\ \E r \in Roots : markers'[b][r] = m
      BY <2>2 DEF Held
    <2>3. QED
      BY <1>1, <1>2, <2>1, <2>2, MovedHeld
  <1>3. QED
    BY <1>2, Earlier DEF MarkersInv

(* A root that is read, or that nobody else knows and is saved.            *)
LEMMA MovedRoots ==
  ASSUME FitInv, RootsInv, NEW a \in Apps, NEW p, Moved(a, p), resets' = resets,
         p.stage = "saveRoot" => p.root = drawn + 1,
         \/ /\ rootFile' = rootFile
            /\ \A r \in Random, s \in Nat :
                 Uses(p, r, s) => Used(r, s) \/ (rootFile # NoSeed /\ r = rootFile /\ s = resets)
         \/ /\ Saving(a, rootFile') /\ rootFile' \in Random /\ p.stage # "saveRoot"
            /\ \A r \in Random, s \in Nat : Uses(p, r, s) => r = rootFile' /\ s = resets
  PROVE  RootsInv'
  <1>1. TypeOK /\ (rootFile # NoSeed => rootFile \in Random)
    BY DEF FitInv, TypeOK
  <1>2. ASSUME NEW b \in Apps, NEW r \in Random, Saving(b, r)'
        PROVE  \/ Saving(b, r) /\ b # a
               \/ b = a /\ r = drawn + 1 /\ p.stage = "saveRoot"
    <2>1. CASE b = a
      BY <1>1, <1>2, <2>1, MovedFields DEF Saving
    <2>2. CASE b # a
      BY <1>1, <1>2, <2>2, MovedFields DEF Saving
    <2>3. QED
      BY <2>1, <2>2
  <1>3. \A b, c \in Apps, r \in Random : Saving(b, r)' /\ Saving(c, r)' => b = c
    BY <1>2, Earlier DEF RootsInv
  <1>4. CASE /\ rootFile' = rootFile
             /\ \A r \in Random, s \in Nat :
                  Uses(p, r, s) => Used(r, s) \/ (rootFile # NoSeed /\ r = rootFile /\ s = resets)
    <2>1. ASSUME NEW r \in Random, NEW s \in Nat, Used(r, s)'
          PROVE  Used(r, s) \/ (rootFile # NoSeed /\ r = rootFile /\ s = resets)
      BY <1>1, <1>4, <2>1, MovedUsed
    <2>2. \A r \in Random, s, t \in Nat : Used(r, s)' /\ Used(r, t)' => s = t
      BY <2>1 DEF RootsInv
    <2>3. \A s \in Nat : rootFile' # NoSeed /\ Used(rootFile, s)' => s = resets'
      BY <1>1, <1>4, <2>1 DEF RootsInv
    <2>4. ASSUME NEW b \in Apps, NEW r \in Random, NEW s \in Nat, Saving(b, r)'
          PROVE  rootFile' # r /\ ~Used(r, s)'
      <3>1. CASE Saving(b, r)
        BY <1>4, <2>1, <3>1 DEF RootsInv
      <3>2. CASE r = drawn + 1
        <4>1. rootFile # r
          BY <3>2, Earlier, Apart DEF FitInv
        <4>2. QED
          BY <1>4, <2>1, <3>2, <4>1, Earlier
      <3>3. QED
        BY <1>2, <2>4, <3>1, <3>2
    <2>5. QED
      BY <1>3, <2>2, <2>3, <2>4 DEF RootsInv
  <1>5. CASE /\ Saving(a, rootFile') /\ rootFile' \in Random /\ p.stage # "saveRoot"
             /\ \A r \in Random, s \in Nat : Uses(p, r, s) => r = rootFile' /\ s = resets
    <2>1. ASSUME NEW r \in Random, NEW s \in Nat, Used(r, s)'
          PROVE  Used(r, s) \/ (r = rootFile' /\ s = resets)
      BY <1>1, <1>5, <2>1, MovedUsed
    <2>2. PICK root \in Random : root = rootFile' /\ Saving(a, root)
      BY <1>5
    <2>3. \A s \in Nat : ~Used(root, s)
      BY <2>2 DEF RootsInv
    <2>4. \A r \in Random, s, t \in Nat : Used(r, s)' /\ Used(r, t)' => s = t
      BY <2>1, <2>2, <2>3 DEF RootsInv
    <2>5. \A s \in Nat : Used(root, s)' => s = resets
      BY <2>1, <2>3
    <2>6. ASSUME NEW b \in Apps, NEW r \in Random, NEW s \in Nat, Saving(b, r)'
          PROVE  root # r /\ ~Used(r, s)'
      <3>1. Saving(b, r) /\ b # a
        BY <1>2, <1>5, <2>6
      <3>2. root # r
        BY <2>2, <3>1 DEF RootsInv
      <3>3. QED
        BY <2>1, <2>2, <3>1, <3>2 DEF RootsInv
    <2>7. \A s \in Nat : rootFile' # NoSeed /\ Used(rootFile, s)' => s = resets'
      BY <2>2, <2>5 DEF Used
    <2>8. QED
      BY <1>3, <2>2, <2>4, <2>6, <2>7 DEF RootsInv
  <1>6. QED
    BY <1>4, <1>5

(* On a device with a settled root, one that is read from file, and a      *)
(* marker that is on file from when it is used.                            *)
LEMMA MovedSettled ==
  ASSUME FitInv, SettledInv, NEW a \in Apps, NEW p, Moved(a, p), resets' = resets,
         settled =>
           /\ rootFile' = rootFile /\ p.stage # "saveRoot"
           /\ \A r \in Random, s \in Nat :
                Uses(p, r, s) => Used(r, s) \/ (r = rootFile /\ s = resets)
           /\ p.stage = "saveMarker" /\ p.scope.id = a => markers'[a][p.practical] = NoSeed
           /\ p.stage = "up" /\ p.policy.mode = "install" /\ p.scope.id = a =>
                markers'[a][p.active.root] = p.active.marker
           /\ \A b \in Apps, r \in Roots :
                markers'[b][r] = markers[b][r] \/ (b = a /\ markers[b][r] = NoSeed)
  PROVE  SettledInv'
  <1>1. TypeOK /\ UNCHANGED <<settled, installs>>
    BY MovedFields DEF FitInv
  <1> SUFFICES ASSUME settled
               PROVE  /\ rootFile' # NoSeed
                      /\ \A b \in Apps : procs'[b].stage # "saveRoot"
                      /\ \A r \in Random : Used(r, resets)' => r = rootFile'
                      /\ \A r, q \in Random, s \in Nat : Used(r, s)' /\ Used(q, s)' => r = q
                      /\ \A b \in Apps : procs'[b].stage = "saveMarker" => MarkerOf(b)' = NoSeed
                      /\ \A b \in Apps, r \in Roots, m \in Random :
                           Marked(b, installs[b], r, m)' => markers'[b][r] = m
                      /\ \A b \in Apps, n \in Nat, r \in Roots, l, m \in Random :
                           Marked(b, n, r, l)' /\ Marked(b, n, r, m)' => l = m
    BY <1>1 DEF SettledInv
  <1>2. rootFile' = rootFile /\ rootFile # NoSeed
    BY DEF SettledInv
  <1>3. \A b \in Apps : procs'[b].stage # "saveRoot"
    BY <1>1, MovedFields DEF SettledInv
  <1>4. ASSUME NEW r \in Random, NEW s \in Nat, Used(r, s)'
        PROVE  Used(r, s) \/ (r = rootFile /\ s = resets)
    BY <1>1, <1>4, MovedUsed
  <1>5. resets \in Nat
    BY <1>1 DEF TypeOK
  <1>6. \A r \in Random : Used(r, resets)' => r = rootFile'
    <2>1. PICK s \in Nat : s = resets /\ s = resets'
      BY <1>5
    <2>2. \A r \in Random : Used(r, s) => r = rootFile
      BY <2>1 DEF SettledInv
    <2>3. \A r \in Random : Used(r, s)' => r = rootFile
      BY <1>4, <2>2
    <2>4. QED
      BY <1>2, <2>1, <2>3 DEF Used
  <1>7. \A r, q \in Random, s \in Nat : Used(r, s)' /\ Used(q, s)' => r = q
    BY <1>4 DEF SettledInv
  <1>8. ASSUME NEW b \in Apps, procs'[b].stage = "saveMarker"
        PROVE  MarkerOf(b)' = NoSeed
    <2>1. CASE b = a
      BY <1>1, <1>8, <2>1, MovedFields DEF MarkerOf
    <2>2. CASE b # a
      <3>1. PICK q : q = procs[b] /\ q = procs'[b]
        BY <1>1, <2>2, MovedFields
      <3>2. q.stage = "saveMarker" /\ q.practical \in Roots
        BY <1>1, <1>8, <3>1, ProcFields DEF TypeOK
      <3>3. MarkerOf(b) = NoSeed
        BY <3>1, <3>2 DEF SettledInv
      <3>4. QED
        BY <2>2, <3>1, <3>2, <3>3 DEF MarkerOf
    <2>3. QED
      BY <2>1, <2>2
  <1>9. ASSUME NEW b \in Apps, NEW r \in Roots, NEW m \in Random, Marked(b, installs[b], r, m)'
        PROVE  markers'[b][r] = m
    <2>1. PICK n \in Nat : n = installs[b] /\ n = installs'[b]
      BY <1>1 DEF TypeOK
    <2>2. Marked(b, n, r, m)'
      BY <1>1, <1>9, <2>1 DEF Marked
    <2>3. CASE Marked(b, n, r, m)
      <3>1. Marked(b, installs[b], r, m)
        BY <2>1, <2>3
      <3>2. markers[b][r] = m
        BY <3>1 DEF SettledInv
      <3>3. QED
        BY <3>2, Apart
    <2>4. CASE ~Marked(b, n, r, m)
      BY <1>1, <2>2, <2>4, MovedMarked
    <2>5. QED
      BY <2>3, <2>4
  <1>10. ASSUME NEW b \in Apps, NEW n \in Nat, NEW r \in Roots, NEW l \in Random,
                NEW m \in Random, Marked(b, n, r, l)', Marked(b, n, r, m)'
         PROVE  l = m
    <2>1. CASE n = installs[b]
      <3>1. Marked(b, installs[b], r, l)' /\ Marked(b, installs[b], r, m)'
        BY <1>1, <1>10, <2>1 DEF Marked
      <3>2. QED
        BY <1>9, <3>1
    <2>2. CASE n # installs[b]
      <3>1. Marked(b, n, r, l) /\ Marked(b, n, r, m)
        BY <1>1, <1>10, <2>2, MovedMarked
      <3>2. QED
        BY <3>1 DEF SettledInv
    <2>3. QED
      BY <2>1, <2>2
  <1>11. QED
    BY <1>2, <1>3, <1>6, <1>7, <1>8, <1>9, <1>10

-----------------------------------------------------------------------------
(* What a process is once its practical seed r is known.                   *)
LEMMA Practical ==
  ASSUME NEW a \in Apps, NEW k, NEW d \in 0..MaxDraws, resets \in Nat,
         NEW policy \in AnyPolicy, NEW scope \in Scopes, scope.mode = policy.mode,
         PolicyFor(k, policy), NamedFor(a, policy.mode, scope.id, d),
         NEW r \in Roots, IF Own(policy) THEN r = policy.custom ELSE RootFor(k, r, d),
         NEW p, p = WithPractical(policy, scope, r)
  PROVE  /\ p \in ProcStates /\ ProcOK(a, k, d, resets, p)
         /\ Running(p) /\ p.scope = scope /\ p.stage \in {"marker", "up"}
         /\ \A q, s : Uses(p, q, s) => q = r /\ s = resets
         /\ \A m : ~Holds(p, m)
         /\ p.stage = "up" => p.policy.mode # "install"
  <1>1. /\ policy.mode = "install" =>
             p = [stage |-> "marker", policy |-> policy, scope |-> scope,
                  practical |-> r, since |-> resets]
        /\ Own(policy) => p = Up(policy, scope, r, 0)
        /\ policy.mode # "install" /\ ~Own(policy) =>
             p = Up(policy, scope, Derived(r, scope, NoSeed), resets)
    BY Zenon DEF WithPractical, Own
  <1>2. policy.custom \in Customs \cup {NoSeed} /\ resets \in 0..resets /\ 0 \in 0..resets
    BY SeedAssumption DEF SeedAssumption, AnyPolicy, LocalPolicy
  <1>3. CASE policy.mode = "install"
    <2>1. p = [stage |-> "marker", policy |-> policy, scope |-> scope,
               practical |-> r, since |-> resets]
      BY <1>1, <1>3
    <2>2. p \in ProcStates
      BY <2>1 DEF ProcStates
    <2>3. QED
      BY <1>2, <1>3, <2>1, <2>2 DEF ProcOK, Running, Uses, Holds, Own
  <1>4. CASE Own(policy)
    <2>1. p = Up(policy, scope, r, 0) /\ r \in Customs /\ r = policy.custom
      BY <1>1, <1>2, <1>4 DEF Own
    <2>2. p \in ProcStates
      BY <2>1 DEF ProcStates, Up, Actives
    <2>3. QED
      BY <1>2, <1>4, <2>1, <2>2 DEF ProcOK, Running, Uses, Holds, Own, Up, SeedFor
  <1>5. CASE policy.mode # "install" /\ ~Own(policy)
    <2>1. p = Up(policy, scope, Derived(r, scope, NoSeed), resets)
      BY <1>1, <1>5
    <2>2. p \in ProcStates
      BY <2>1 DEF ProcStates, Up, Actives, DerivedSeeds, Derived
    <2>3. QED
      BY <1>2, <1>5, <2>1, <2>2 DEF ProcOK, Running, Uses, Holds, Up, SeedFor, Derived
  <1>6. QED
    BY <1>3, <1>4, <1>5 DEF Own

(* What it is once its marker m is.                                        *)
CameUp(old, m) ==
  Up(old.policy, old.scope, Derived(old.practical, old.scope, m), old.since)

(* It fits, uses no other root, and holds this marker.                     *)
LEMMA Marking ==
  ASSUME NEW a \in Apps, NEW k, NEW d \in 0..MaxDraws, NEW s \in Nat,
         NEW old \in ProcStates, old.stage \in {"marker", "saveMarker"}, ProcOK(a, k, d, s, old),
         NEW m \in 1..d,
         NEW p, p = CameUp(old, m)
  PROVE  /\ p \in ProcStates /\ ProcOK(a, k, d, s, p)
         /\ \A r, t : Uses(p, r, t) => Uses(old, r, t)
         /\ \A n : Holds(p, n) => n = m
  <1>1. Running(old) /\ m \in Random
    BY Apart DEF Running
  <1>2. /\ old.policy \in AnyPolicy /\ old.scope \in Scopes
        /\ old.practical \in Roots /\ old.since \in Nat
    BY <1>1, ProcFields
  <1>3. p \in ProcStates
    BY <1>1, <1>2 DEF ProcStates, CameUp, Up, Actives, DerivedSeeds, Derived
  <1>4. QED
    BY <1>1, <1>3 DEF ProcOK, Running, CameUp, Up, Derived, SeedFor, Own, Uses, Holds

-----------------------------------------------------------------------------
(* The identifier a launch comes to: the one number it may draw is for it. *)
LEMMA Identified ==
  ASSUME FitInv, NEW a \in Apps, NEW mode \in Modes, NEW known \in BOOLEAN,
         NEW id, id = ScopeId(a, mode, known), id = drawn + 1 => drawn < MaxDraws,
         NEW d, d = IF id = drawn + 1 THEN drawn + 1 ELSE drawn
  PROVE  /\ d \in {drawn, drawn + 1} /\ d \in 0..MaxDraws
         /\ NamedFor(a, mode, id, d)
         /\ id \in Apps \cup Vendors \cup Random \cup {StaticId}
         /\ id \notin Random \/ id = drawn + 1
  <1>1. drawn \in 0..MaxDraws /\ MaxDraws \in Nat
    BY Apart DEF FitInv, TypeOK
  <1>2. d \in {drawn, drawn + 1} /\ d \in 0..MaxDraws
    BY <1>1
  <1>3. \/ mode = "manual" /\ id = StaticId
        \/ mode = "vendor" /\ id = VendorOf[a]
        \/ mode # "manual" /\ id = BundleId(a)
    BY Zenon DEF ScopeId
  <1>4. CASE mode # "manual" /\ id = BundleId(a) /\ a \in LongNamed
    <2>1. id = drawn + 1 /\ d = drawn + 1
      BY <1>4 DEF BundleId
    <2>2. id \in 1..d /\ id \in Random
      BY <1>1, <1>2, <2>1 DEF Random
    <2>3. QED
      BY <1>2, <1>4, <2>1, <2>2 DEF NamedFor
  <1>5. CASE mode # "manual" /\ id = BundleId(a) /\ a \notin LongNamed
    BY <1>2, <1>5, Apart DEF BundleId, NamedFor
  <1>6. CASE mode \in {"manual", "vendor"} /\ id = IF mode = "manual" THEN StaticId ELSE VendorOf[a]
    BY <1>2, <1>6, Apart DEF NamedFor
  <1>7. QED
    BY <1>3, <1>4, <1>5, <1>6

(* A launch keeps everything, whatever the policy asks for.                *)
LEMMA LaunchStep ==
  ASSUME SeedsInv, NEW a \in Apps, NEW stored \in Policies, NEW known \in BOOLEAN,
         Launch(a, stored, known)
  PROVE  SeedsInv'
  <1>1. /\ FitInv /\ TypeOK /\ drawn \in 0..MaxDraws /\ drawn \in Nat /\ resets \in Nat
        /\ MaxDraws \in Nat
    BY Apart DEF SeedsInv, FitInv, TypeOK
  <1>2. PICK policy \in AnyPolicy : policy = EffectivePolicy(a, stored)
    BY DEF EffectivePolicy, AnyPolicy
  <1>3. PolicyFor(kind[a], policy) /\ policy.mode \in Modes /\ policy.custom \in Customs \cup {NoSeed}
    BY <1>2, SeedAssumption DEF SeedAssumption, EffectivePolicy, PolicyFor, LocalPolicy
  <1>4. PICK id : id = ScopeId(a, policy.mode, known)
    OBVIOUS
  <1>5. PICK scope : scope = Scope(policy.mode, id)
    OBVIOUS
  <1>6. scope.mode = policy.mode /\ scope.id = id
    BY <1>5 DEF Scope
  <1>7. /\ procs[a] = Down /\ Note(a)
        /\ UNCHANGED <<settled, kind, rootFile, markers, installs, resets>>
    BY Zenon DEF Launch
  <1>8. CASE Excluded(a, policy)
    <2>1. procs' = [procs EXCEPT ![a] = Off] /\ drawn' = drawn
      BY <1>2, <1>4, <1>5, <1>8, Zenon DEF Launch
    <2>2. Moved(a, Off)
      BY <1>1, <1>7, <2>1, Noted
    <2>3. Off \in ProcStates /\ Off.stage = "off" /\ ~Running(Off)
      BY DEF Off, ProcStates, Running
    <2>4. /\ ProcOK(a, kind[a], drawn', resets, Off)
          /\ \A q, s : ~Uses(Off, q, s)
          /\ \A m : ~Holds(Off, m)
      BY <2>3 DEF ProcOK, Uses, Holds
    <2>5. FitInv'
      BY <1>1, <1>7, <2>1, <2>2, <2>3, <2>4, MovedFits
    <2>6. IdsInv'
      BY <2>2, <2>3, MovedIds DEF SeedsInv
    <2>7. MarkersInv'
      BY <1>7, <2>2, <2>4, MovedMarkers DEF SeedsInv
    <2>8. RootsInv'
      BY <1>7, <2>2, <2>3, <2>4, MovedRoots DEF SeedsInv
    <2>9. SettledInv'
      BY <1>7, <2>2, <2>3, <2>4, MovedSettled DEF SeedsInv
    <2>10. QED
      BY <2>5, <2>6, <2>7, <2>8, <2>9 DEF SeedsInv
  <1>9. CASE ~Excluded(a, policy)
    <2>1. PICK p : p = procs'[a]
      OBVIOUS
    <2>2. /\ id = drawn + 1 => drawn < MaxDraws
          /\ drawn' = IF id = drawn + 1 THEN drawn + 1 ELSE drawn
      <3>1. scope.id = drawn + 1 => drawn < MaxDraws
        BY <1>2, <1>4, <1>5, <1>9, Zenon DEF Launch
      <3>2. drawn' = IF scope.id = drawn + 1 THEN drawn + 1 ELSE drawn
        BY <1>2, <1>4, <1>5, <1>9, Zenon DEF Launch
      <3>3. QED
        BY <1>6, <3>1, <3>2
    <2>3. procs' = [procs EXCEPT ![a] = p]
      <3>1. \E q : procs' = [procs EXCEPT ![a] = q]
        BY <1>2, <1>4, <1>5, <1>9, Zenon DEF Launch
      <3>2. QED
        BY <1>1, <2>1, <3>1 DEF TypeOK
    <2>4. /\ Own(policy) => p = WithPractical(policy, scope, policy.custom)
          /\ ~Own(policy) /\ kind[a] = "package" => p = Starting("root", policy, scope)
          /\ ~Own(policy) /\ kind[a] # "package" => p = WithPractical(policy, scope, BuildSeed)
      <3>1. procs \in [Apps -> ProcStates]
        BY <1>1 DEF TypeOK
      <3>2. Own(policy) => procs' = [procs EXCEPT ![a] = WithPractical(policy, scope, policy.custom)]
        BY <1>2, <1>4, <1>5, <1>9, Zenon DEF Launch
      <3>3. ~Own(policy) /\ kind[a] = "package" =>
              procs' = [procs EXCEPT ![a] = Starting("root", policy, scope)]
        BY <1>2, <1>4, <1>5, <1>9, Zenon DEF Launch
      <3>4. ~Own(policy) /\ kind[a] # "package" =>
              procs' = [procs EXCEPT ![a] = WithPractical(policy, scope, BuildSeed)]
        BY <1>2, <1>4, <1>5, <1>9, Zenon DEF Launch
      <3>5. QED
        BY <2>1, <3>1, <3>2, <3>3, <3>4
    <2>5. Moved(a, p)
      BY <1>1, <1>7, <2>3, Noted
    <2>6. PICK d : d = drawn'
      OBVIOUS
    <2>7. /\ d \in {drawn, drawn + 1} /\ d \in 0..MaxDraws
          /\ NamedFor(a, policy.mode, id, d)
          /\ id \in Apps \cup Vendors \cup Random \cup {StaticId}
          /\ id \notin Random \/ id = drawn + 1
      BY <1>1, <1>3, <1>4, <2>2, <2>6, Identified
    <2>8. scope \in Scopes
      BY <1>3, <1>5, <2>7 DEF Scope, Scopes
    <2>9. /\ p \in ProcStates /\ ProcOK(a, kind[a], d, resets, p)
          /\ Running(p) /\ p.scope = scope /\ p.stage \in {"root", "marker", "up"}
          /\ \A q, s : ~(q \in Random /\ Uses(p, q, s))
          /\ \A m : ~Holds(p, m)
          /\ p.stage = "up" => p.policy.mode # "install"
      <3>1. CASE Own(policy)
        <4>1. PICK r \in Roots : r = policy.custom /\ r \notin Random
          BY <1>3, <3>1, Apart DEF Own, Roots
        <4>2. p = WithPractical(policy, scope, r)
          BY <2>4, <3>1, <4>1
        <4>3. IF Own(policy) THEN r = policy.custom ELSE RootFor(kind[a], r, d)
          BY <3>1, <4>1
        <4>4. QED
          BY <1>1, <1>3, <1>6, <2>7, <2>8, <4>1, <4>2, <4>3, Practical
      <3>2. CASE ~Own(policy) /\ kind[a] = "package"
        <4>1. p = Starting("root", policy, scope)
          BY <2>4, <3>2
        <4>2. p \in ProcStates
          BY <2>8, <4>1 DEF Starting, ProcStates
        <4>3. policy.mode # "manual"
          BY <1>3, <3>2, SeedAssumption DEF SeedAssumption, PolicyFor, Own
        <4>4. QED
          BY <1>3, <1>6, <2>7, <3>2, <4>1, <4>2, <4>3
             DEF Starting, ProcOK, Running, Uses, Holds
      <3>3. CASE ~Own(policy) /\ kind[a] # "package"
        <4>1. BuildSeed \in Roots /\ BuildSeed \notin Random /\ RootFor(kind[a], BuildSeed, d)
          BY <3>3, Apart DEF Roots, RootFor
        <4>2. QED
          BY <1>1, <1>3, <1>6, <2>4, <2>7, <2>8, <3>3, <4>1, Practical
      <3>4. QED
        BY <3>1, <3>2, <3>3
    <2>10. FitInv'
      BY <1>1, <1>7, <2>5, <2>6, <2>7, <2>9, MovedFits
    <2>11. IdsInv'
      BY <1>6, <2>5, <2>7, <2>9, MovedIds DEF SeedsInv
    <2>12. MarkersInv'
      BY <1>7, <2>5, <2>9, MovedMarkers DEF SeedsInv
    <2>13. RootsInv'
      BY <1>7, <2>5, <2>9, MovedRoots DEF SeedsInv
    <2>14. SettledInv'
      BY <1>7, <2>5, <2>9, MovedSettled DEF SeedsInv
    <2>15. QED
      BY <2>10, <2>11, <2>12, <2>13, <2>14 DEF SeedsInv
  <1>10. QED
    BY <1>8, <1>9

-----------------------------------------------------------------------------
(* The facts every step starts from.                                       *)
LEMMA Before ==
  ASSUME SeedsInv, NEW a \in Apps
  PROVE  /\ FitInv /\ TypeOK /\ drawn \in 0..MaxDraws /\ drawn \in Nat
         /\ resets \in Nat /\ MaxDraws \in Nat
         /\ procs[a] \in ProcStates /\ ProcOK(a, kind[a], drawn, resets, procs[a])
  BY Apart DEF SeedsInv, FitInv, TypeOK

(* A process that stops.                                                   *)
LEMMA StopStep ==
  ASSUME SeedsInv, NEW a \in Apps, NEW p \in {Down, Off}, procs' = [procs EXCEPT ![a] = p],
         UNCHANGED <<settled, kind, rootFile, markers, drawn, installs, resets, seen>>
  PROVE  SeedsInv'
  <1>1. Moved(a, p)
    BY DEF Moved
  <1>2. p \in ProcStates /\ p.stage \notin {"up", "saveRoot", "saveMarker"} /\ ~Running(p)
    BY DEF Down, Off, ProcStates, Running
  <1>3. /\ ProcOK(a, kind[a], drawn', resets, p)
        /\ \A q, s : ~Uses(p, q, s)
        /\ \A m : ~Holds(p, m)
    BY <1>2 DEF ProcOK, Uses, Holds, Down, Off
  <1>4. FitInv'
    BY <1>1, <1>2, <1>3, Before, MovedFits
  <1>5. IdsInv'
    BY <1>1, <1>2, MovedIds DEF SeedsInv
  <1>6. MarkersInv'
    BY <1>1, <1>3, MovedMarkers DEF SeedsInv
  <1>7. RootsInv'
    BY <1>1, <1>2, <1>3, MovedRoots DEF SeedsInv
  <1>8. SettledInv'
    BY <1>1, <1>2, <1>3, MovedSettled DEF SeedsInv
  <1>9. QED
    BY <1>4, <1>5, <1>6, <1>7, <1>8 DEF SeedsInv

(* A process that takes up the root r.                                     *)
LEMMA TakeUp ==
  ASSUME SeedsInv, NEW a \in Apps, procs[a].stage \in {"root", "saveRoot"},
         NEW r \in 1..drawn,
         NEW p, p = WithPractical(procs[a].policy, procs[a].scope, r)
  PROVE  /\ p \in ProcStates /\ ProcOK(a, kind[a], drawn, resets, p)
         /\ Running(procs[a]) /\ p.scope = procs[a].scope /\ p.stage \in {"marker", "up"}
         /\ \A q, s : Uses(p, q, s) => q = r /\ s = resets
         /\ \A m : ~Holds(p, m)
         /\ p.stage = "up" => p.policy.mode # "install"
  <1>1. PICK old : old = procs[a]
    OBVIOUS
  <1>2. /\ old \in ProcStates /\ ProcOK(a, kind[a], drawn, resets, old) /\ Running(old)
        /\ drawn \in 0..MaxDraws /\ resets \in Nat
    BY <1>1, Before DEF Running
  <1>3. /\ old.policy \in AnyPolicy /\ old.scope \in Scopes
        /\ old.scope.mode = old.policy.mode /\ PolicyFor(kind[a], old.policy)
        /\ NamedFor(a, old.policy.mode, old.scope.id, drawn)
        /\ kind[a] = "package" /\ ~Own(old.policy)
    BY <1>1, <1>2, ProcFields DEF ProcOK, Own
  <1>4. r \in Roots /\ RootFor(kind[a], r, drawn)
    BY <1>2, <1>3, Apart DEF Roots, RootFor
  <1>5. PICK policy, scope, k, d : /\ policy = old.policy /\ scope = old.scope
                                   /\ k = kind[a] /\ d = drawn
    OBVIOUS
  <1>6. /\ p = WithPractical(policy, scope, r)
        /\ policy \in AnyPolicy /\ scope \in Scopes /\ scope.mode = policy.mode
        /\ PolicyFor(k, policy) /\ NamedFor(a, policy.mode, scope.id, d)
        /\ d \in 0..MaxDraws /\ resets \in Nat /\ r \in Roots
    BY <1>1, <1>2, <1>3, <1>4, <1>5
  <1>7. IF Own(policy) THEN r = policy.custom ELSE RootFor(k, r, d)
    BY <1>3, <1>4, <1>5
  <1>8. /\ p \in ProcStates /\ ProcOK(a, k, d, resets, p)
        /\ p.scope = scope /\ p.stage \in {"marker", "up"}
        /\ \A q, s : Uses(p, q, s) => q = r /\ s = resets
        /\ \A m : ~Holds(p, m)
        /\ p.stage = "up" => p.policy.mode # "install"
    BY ONLY a \in Apps, <1>6, <1>7, Practical
  <1>9. QED
    BY <1>1, <1>2, <1>5, <1>8

(* The root on file is taken up since the last reset.                      *)
LEMMA ReadRootStep ==
  ASSUME SeedsInv, NEW a \in Apps, ReadRoot(a)
  PROVE  SeedsInv'
  <1>1. PICK r \in 1..drawn : r = rootFile
    BY Before DEF ReadRoot, FitInv
  <1>2. PICK p : p = WithPractical(procs[a].policy, procs[a].scope, r)
    OBVIOUS
  <1>3. procs' = [procs EXCEPT ![a] = p]
    BY <1>1, <1>2 DEF ReadRoot
  <1>4. Moved(a, p)
    BY <1>3, Before, Noted DEF ReadRoot
  <1>5. /\ p \in ProcStates /\ ProcOK(a, kind[a], drawn, resets, p)
        /\ Running(procs[a]) /\ p.scope = procs[a].scope /\ p.stage \in {"marker", "up"}
        /\ \A q, s : Uses(p, q, s) => q = r /\ s = resets
        /\ \A m : ~Holds(p, m)
        /\ p.stage = "up" => p.policy.mode # "install"
    BY <1>2, TakeUp DEF ReadRoot
  <1>6. UNCHANGED <<rootFile, markers, drawn, resets>> /\ rootFile # NoSeed
    BY DEF ReadRoot
  <1>7. FitInv'
    BY <1>4, <1>5, <1>6, Before, MovedFits
  <1>8. IdsInv'
    BY <1>4, <1>5, MovedIds DEF SeedsInv
  <1>9. MarkersInv'
    BY <1>4, <1>5, <1>6, MovedMarkers DEF SeedsInv
  <1>10. RootsInv'
    BY <1>1, <1>4, <1>5, <1>6, MovedRoots DEF SeedsInv
  <1>11. SettledInv'
    BY <1>1, <1>4, <1>5, <1>6, MovedSettled DEF SeedsInv
  <1>12. QED
    BY <1>7, <1>8, <1>9, <1>10, <1>11 DEF SeedsInv

(* The one that is saved was nobody's before.                              *)
LEMMA SaveRootStep ==
  ASSUME SeedsInv, NEW a \in Apps, SaveRoot(a)
  PROVE  SeedsInv'
  <1>1. PICK r \in 1..drawn : r = procs[a].root /\ Saving(a, r)
    BY Before DEF SaveRoot, ProcOK, Running, Saving
  <1>2. PICK p : p = WithPractical(procs[a].policy, procs[a].scope, r)
    OBVIOUS
  <1>3. procs' = [procs EXCEPT ![a] = p]
    BY <1>1, <1>2 DEF SaveRoot
  <1>4. Moved(a, p)
    BY <1>3, Before, Noted DEF SaveRoot
  <1>5. /\ p \in ProcStates /\ ProcOK(a, kind[a], drawn, resets, p)
        /\ Running(procs[a]) /\ p.scope = procs[a].scope /\ p.stage \in {"marker", "up"}
        /\ \A q, s : Uses(p, q, s) => q = r /\ s = resets
        /\ \A m : ~Holds(p, m)
        /\ p.stage = "up" => p.policy.mode # "install"
    BY <1>2, TakeUp DEF SaveRoot
  <1>6. /\ UNCHANGED <<markers, drawn, resets>> /\ rootFile' = r
        /\ ~settled /\ r \in Random
    <2>1. ~settled
      BY DEF SaveRoot, SeedsInv, SettledInv
    <2>2. r \in Random
      BY Before, Apart
    <2>3. QED
      BY <1>1, <2>1, <2>2 DEF SaveRoot
  <1>7. FitInv'
    BY <1>4, <1>5, <1>6, Before, MovedFits
  <1>8. IdsInv'
    BY <1>4, <1>5, MovedIds DEF SeedsInv
  <1>9. MarkersInv'
    BY <1>4, <1>5, <1>6, MovedMarkers DEF SeedsInv
  <1>10. RootsInv'
    BY <1>1, <1>4, <1>5, <1>6, MovedRoots DEF SeedsInv
  <1>11. SettledInv'
    BY <1>4, <1>6, MovedSettled DEF SeedsInv
  <1>12. QED
    BY <1>7, <1>8, <1>9, <1>10, <1>11 DEF SeedsInv

(* The one that is drawn is nobody's yet.                                  *)
LEMMA DrawRootStep ==
  ASSUME SeedsInv, NEW a \in Apps, DrawRoot(a)
  PROVE  SeedsInv'
  <1>1. PICK old : old = procs[a]
    OBVIOUS
  <1>2. /\ old \in ProcStates /\ ProcOK(a, kind[a], drawn, resets, old)
        /\ old.stage = "root" /\ Running(old) /\ Running(procs[a])
        /\ old.policy \in AnyPolicy /\ old.scope \in Scopes
    BY <1>1, Before, ProcFields DEF DrawRoot, Running
  <1>3. PICK d : d = drawn + 1
    OBVIOUS
  <1>4. /\ drawn' = d /\ d \in 1..d /\ d \in Nat /\ d \in Random /\ d <= MaxDraws
        /\ UNCHANGED <<rootFile, markers, resets>> /\ rootFile = NoSeed /\ drawn <= d
        /\ drawn \in Nat /\ resets \in Nat
    BY <1>3, Before DEF DrawRoot, Random
  <1>5. PICK p : p = [stage |-> "saveRoot", policy |-> old.policy, scope |-> old.scope, root |-> d]
    OBVIOUS
  <1>6. procs' = [procs EXCEPT ![a] = p] /\ Moved(a, p)
    BY <1>1, <1>3, <1>5 DEF DrawRoot, Moved
  <1>7. p \in ProcStates
    BY <1>2, <1>4, <1>5 DEF ProcStates
  <1>8. ProcOK(a, kind[a], d, resets, old)
    BY <1>2, <1>4, Lasts
  <1>9. /\ ProcOK(a, kind[a], d, resets, p) /\ p.scope = old.scope /\ p.stage = "saveRoot"
        /\ \A q, s : ~Uses(p, q, s)
        /\ \A m : ~Holds(p, m)
    BY <1>2, <1>4, <1>5, <1>8 DEF ProcOK, Running, Uses, Holds
  <1>10. FitInv'
    BY <1>3, <1>4, <1>6, <1>7, <1>9, Before, MovedFits
  <1>11. IdsInv'
    BY <1>1, <1>2, <1>6, <1>9, MovedIds DEF SeedsInv
  <1>12. MarkersInv'
    BY <1>4, <1>6, <1>9, MovedMarkers DEF SeedsInv
  <1>13. RootsInv'
    BY <1>3, <1>4, <1>5, <1>6, <1>9, MovedRoots DEF SeedsInv
  <1>14. ~settled
    BY <1>4 DEF SeedsInv, SettledInv
  <1>15. SettledInv'
    BY <1>4, <1>6, <1>14, MovedSettled DEF SeedsInv
  <1>16. QED
    BY <1>10, <1>11, <1>12, <1>13, <1>15 DEF SeedsInv

(* A process that comes up with the marker m, which is on file by then     *)
(* unless it could not be written.                                         *)
LEMMA ComeUpStep ==
  ASSUME SeedsInv, NEW a \in Apps, procs[a].stage \in {"marker", "saveMarker"},
         NEW m \in 1..drawn, ComeUp(a, m),
         UNCHANGED <<settled, kind, rootFile, drawn, installs, resets>>,
         Holds(procs[a], m) \/ \E r \in Roots : markers[a][r] = m,
         \/ markers' = markers /\ ~settled
         \/ /\ markers' = markers
            /\ procs[a].scope.id = a => markers[a][procs[a].practical] = m
         \/ /\ Holds(procs[a], m) /\ procs[a].stage = "saveMarker"
            /\ markers' = IF procs[a].scope.id = a
                          THEN [markers EXCEPT ![a][procs[a].practical] = m]
                          ELSE markers
  PROVE  SeedsInv'
  <1>1. PICK old : old = procs[a]
    OBVIOUS
  <1>2. /\ old \in ProcStates /\ ProcOK(a, kind[a], drawn, resets, old)
        /\ old.stage \in {"marker", "saveMarker"} /\ Running(old) /\ Running(procs[a])
        /\ old.practical \in Roots
        /\ drawn \in 0..MaxDraws /\ resets \in Nat /\ TypeOK
    BY <1>1, Before, ProcFields DEF Running
  <1>3. PICK p : p = CameUp(old, m)
    OBVIOUS
  <1>4. procs' = [procs EXCEPT ![a] = p] /\ Moved(a, p)
    <2>1. procs' = [procs EXCEPT ![a] = p]
      BY <1>1, <1>3 DEF ComeUp, CameUp
    <2>2. QED
      BY <1>2, <2>1, Noted DEF ComeUp
  <1>5. /\ p \in ProcStates /\ ProcOK(a, kind[a], drawn, resets, p)
        /\ p.scope = old.scope /\ p.stage = "up"
        /\ p.active.root = old.practical /\ p.active.marker = m
        /\ \A r, t : Uses(p, r, t) => Uses(old, r, t)
        /\ \A n : Holds(p, n) => n = m
    <2>1. PICK k, d, s : k = kind[a] /\ d = drawn /\ s = resets
      OBVIOUS
    <2>2. d \in 0..MaxDraws
      BY <1>2, <2>1
    <2>3. s \in Nat
      BY <1>2, <2>1
    <2>4. m \in 1..d
      BY <2>1
    <2>5. ProcOK(a, k, d, s, old)
      BY <1>2, <2>1
    <2>6. old \in ProcStates
      BY <1>2
    <2>7. old.stage \in {"marker", "saveMarker"}
      BY <1>2
    <2>8. /\ p \in ProcStates /\ ProcOK(a, k, d, s, p)
          /\ \A r, t : Uses(p, r, t) => Uses(old, r, t)
          /\ \A n : Holds(p, n) => n = m
      BY ONLY a \in Apps, <1>3, <2>2, <2>3, <2>4, <2>5, <2>6, <2>7, Marking
    <2>9. /\ p.scope = old.scope /\ p.stage = "up"
          /\ p.active.root = old.practical /\ p.active.marker = m
      BY <1>3 DEF CameUp, Up, Derived
    <2>10. QED
      BY <2>1, <2>8, <2>9
  <1>6. m \in Random
    BY <1>2, Apart
  <1>7. /\ markers' \in [Apps -> [Roots -> Random \cup {NoSeed}]]
        /\ \A b \in Apps, r \in Roots :
             \/ markers'[b][r] = markers[b][r]
             \/ /\ b = a /\ r = old.practical /\ old.scope.id = a /\ markers'[b][r] = m
                /\ Holds(procs[a], m) /\ old.stage = "saveMarker"
        /\ settled /\ old.scope.id = a => markers'[a][old.practical] = m
    <2>1. markers \in [Apps -> [Roots -> Random \cup {NoSeed}]]
      BY <1>2 DEF TypeOK
    <2>2. QED
      BY <1>1, <1>2, <1>6, <2>1
  <1>8. FitInv'
    <2>1. \A b \in Apps, r \in Roots :
            markers'[b][r] = markers[b][r] \/ markers'[b][r] \in 1..drawn'
      BY <1>7
    <2>2. QED
      BY <1>2, <1>4, <1>5, <1>7, <2>1, Before, MovedFits
  <1>9. IdsInv'
    BY <1>1, <1>2, <1>4, <1>5, MovedIds DEF SeedsInv
  <1>10. MarkersInv'
    BY <1>4, <1>5, <1>7, MovedMarkers DEF SeedsInv
  <1>11. \A r \in Random, s \in Nat : Uses(p, r, s) => Used(r, s)
    BY <1>1, <1>5 DEF Used
  <1>12. RootsInv'
    BY <1>4, <1>5, <1>11, MovedRoots DEF SeedsInv
  <1>13. SettledInv'
    <2>1. ASSUME settled, NEW b \in Apps, NEW r \in Roots
          PROVE  markers'[b][r] = markers[b][r] \/ (b = a /\ markers[b][r] = NoSeed)
      <3>1. old.stage = "saveMarker" /\ old.scope.id = a => markers[a][old.practical] = NoSeed
        BY <1>1, <2>1 DEF SeedsInv, SettledInv, MarkerOf
      <3>2. QED
        BY <1>7, <3>1
    <2>2. settled => markers'[a][p.active.root] = p.active.marker \/ p.scope.id # a
      BY <1>5, <1>7
    <2>3. QED
      BY <1>4, <1>5, <1>11, <2>1, <2>2, MovedSettled DEF SeedsInv
  <1>14. QED
    BY <1>8, <1>9, <1>10, <1>12, <1>13 DEF SeedsInv

(* The marker that is found is of this installation.                       *)
LEMMA ReadMarkerStep ==
  ASSUME SeedsInv, NEW a \in Apps, ReadMarker(a)
  PROVE  SeedsInv'
  <1>1. procs[a].scope.id = a /\ markers[a][procs[a].practical] # NoSeed
    BY DEF ReadMarker, MarkerOf
  <1>2. procs[a].practical \in Roots
    BY Before, ProcFields DEF ReadMarker
  <1>3. PICK m \in 1..drawn : m = markers[a][procs[a].practical] /\ m = MarkerOf(a)
    BY <1>1, <1>2 DEF SeedsInv, FitInv, MarkerOf
  <1>4. ComeUp(a, m)
    BY <1>3 DEF ReadMarker, ComeUp
  <1>5. QED
    BY <1>1, <1>2, <1>3, <1>4, ComeUpStep DEF ReadMarker

(* The one that is saved, or fails to be, was drawn by it.                 *)
LEMMA SaveMarkerStep ==
  ASSUME SeedsInv, NEW a \in Apps, SaveMarker(a) \/ SaveMarkerFails(a)
  PROVE  SeedsInv'
  <1>1. procs[a].stage = "saveMarker"
    BY DEF SaveMarker, SaveMarkerFails
  <1>2. PICK m \in 1..drawn : m = procs[a].marker
    BY <1>1, Before DEF ProcOK, Running
  <1>3. ComeUp(a, m) /\ Holds(procs[a], m)
    BY <1>1, <1>2 DEF SaveMarker, SaveMarkerFails, ComeUp, Holds
  <1>4. CASE SaveMarker(a)
    BY <1>1, <1>2, <1>3, <1>4, ComeUpStep DEF SaveMarker
  <1>5. CASE SaveMarkerFails(a)
    BY <1>1, <1>2, <1>3, <1>5, ComeUpStep DEF SaveMarkerFails
  <1>6. QED
    BY <1>4, <1>5

(* The one that is drawn is nobody's yet.                                  *)
LEMMA DrawMarkerStep ==
  ASSUME SeedsInv, NEW a \in Apps, DrawMarker(a)
  PROVE  SeedsInv'
  <1>1. PICK old : old = procs[a]
    OBVIOUS
  <1>2. /\ old \in ProcStates /\ ProcOK(a, kind[a], drawn, resets, old)
        /\ old.stage = "marker" /\ Running(old) /\ Running(procs[a])
        /\ old.policy \in AnyPolicy /\ old.scope \in Scopes
        /\ old.practical \in Roots /\ old.since \in Nat
    BY <1>1, Before, ProcFields DEF DrawMarker, Running
  <1>3. PICK d : d = drawn + 1
    OBVIOUS
  <1>4. /\ drawn' = d /\ d \in 1..d /\ d \in Nat /\ d \in Random /\ d <= MaxDraws
        /\ UNCHANGED <<rootFile, markers, resets>> /\ drawn <= d
        /\ drawn \in Nat /\ resets \in Nat
    BY <1>3, Before DEF DrawMarker, Random
  <1>5. PICK p : p = [stage |-> "saveMarker", policy |-> old.policy, scope |-> old.scope,
                      practical |-> old.practical, since |-> old.since, marker |-> d]
    OBVIOUS
  <1>6. procs' = [procs EXCEPT ![a] = p] /\ Moved(a, p)
    BY <1>1, <1>3, <1>5 DEF DrawMarker, Moved
  <1>7. p \in ProcStates
    BY <1>2, <1>4, <1>5 DEF ProcStates
  <1>8. ProcOK(a, kind[a], d, resets, old)
    BY <1>2, <1>4, Lasts
  <1>9. /\ ProcOK(a, kind[a], d, resets, p) /\ p.scope = old.scope /\ p.stage = "saveMarker"
        /\ \A q, s : Uses(p, q, s) => Uses(old, q, s)
        /\ \A m : Holds(p, m) => m = d
    BY <1>2, <1>4, <1>5, <1>8 DEF ProcOK, Running, Uses, Holds
  <1>10. FitInv'
    BY <1>3, <1>4, <1>6, <1>7, <1>9, Before, MovedFits
  <1>11. IdsInv'
    BY <1>1, <1>2, <1>6, <1>9, MovedIds DEF SeedsInv
  <1>12. MarkersInv'
    BY <1>3, <1>4, <1>6, <1>9, MovedMarkers DEF SeedsInv
  <1>13. \A r \in Random, s \in Nat : Uses(p, r, s) => Used(r, s)
    BY <1>1, <1>9 DEF Used
  <1>14. RootsInv'
    BY <1>4, <1>6, <1>9, <1>13, MovedRoots DEF SeedsInv
  <1>15. SettledInv'
    <2>1. p.scope.id = a => markers'[a][p.practical] = NoSeed
      BY <1>1, <1>4, <1>5 DEF DrawMarker, MarkerOf
    <2>2. QED
      BY <1>4, <1>6, <1>9, <1>13, <2>1, MovedSettled DEF SeedsInv
  <1>16. QED
    BY <1>10, <1>11, <1>12, <1>14, <1>15 DEF SeedsInv

(* Only what is remembered is left of an installation.                     *)
LEMMA ReinstallStep ==
  ASSUME SeedsInv, NEW a \in Apps, Reinstall(a)
  PROVE  SeedsInv'
  <1>1. /\ TypeOK /\ FitInv /\ UNCHANGED <<settled, kind, rootFile, drawn, resets, seen>>
        /\ installs[a] < MaxInstalls /\ installs[a] \in 0..MaxInstalls /\ MaxInstalls \in Nat
    BY Apart DEF SeedsInv, FitInv, TypeOK, Reinstall
  <1>2. /\ procs' \in [Apps -> ProcStates] /\ procs'[a] = Down
        /\ \A b \in Apps : b # a => procs'[b] = procs[b]
    BY <1>1 DEF TypeOK, Reinstall, ProcStates
  <1>3. /\ markers' \in [Apps -> [Roots -> Random \cup {NoSeed}]]
        /\ \A r \in Roots : markers'[a][r] = NoSeed
        /\ \A b \in Apps : b # a => markers'[b] = markers[b]
    BY <1>1 DEF TypeOK, Reinstall
  <1>4. /\ installs' \in [Apps -> 0..MaxInstalls] /\ installs'[a] = installs[a] + 1
        /\ \A b \in Apps : b # a => installs'[b] = installs[b]
    BY <1>1 DEF TypeOK, Reinstall
  <1>5. /\ Down.stage = "down" /\ ~Running(Down) /\ \A k, d, s : ProcOK(a, k, d, s, Down)
        /\ \A r, s : ~Uses(Down, r, s)
        /\ \A m : ~Holds(Down, m)
    BY DEF Down, Running, ProcOK, Uses, Holds
  <1>6. FitInv'
    <2>1. TypeOK'
      BY <1>1, <1>2, <1>3, <1>4 DEF TypeOK
    <2>2. \A b \in Apps : ProcOK(b, kind'[b], drawn', resets', procs'[b])
      BY <1>1, <1>2, <1>5 DEF FitInv
    <2>3. ASSUME NEW x \in seen
          PROVE  x.app \in Apps /\ OutcomeOK(x, kind'[x.app], installs'[x.app], drawn', resets')
      <3>1. x.app \in Apps /\ OutcomeOK(x, kind[x.app], installs[x.app], drawn, resets)
        BY <1>1 DEF FitInv
      <3>2. /\ installs[x.app] \in Nat /\ installs'[x.app] \in Nat
            /\ installs[x.app] <= installs'[x.app]
        <4>1. \A b \in Apps : installs[b] \in Nat /\ installs'[b] \in Nat
          BY <1>1, <1>4 DEF TypeOK
        <4>2. \A b \in Apps : installs[b] <= installs'[b]
          BY <1>4, <4>1
        <4>3. QED
          BY <3>1, <4>1, <4>2
      <3>3. drawn \in Nat /\ resets \in Nat
        BY <1>1 DEF TypeOK
      <3>4. OutcomeOK(x, kind[x.app], installs'[x.app], drawn, resets)
        BY <3>1, <3>2, <3>3, OutcomeLasts
      <3>5. QED
        BY <1>1, <3>1, <3>4
    <2>4. \A b \in Apps, r \in Roots : markers'[b][r] # NoSeed => markers'[b][r] \in 1..drawn'
      BY <1>1, <1>3 DEF FitInv
    <2>5. QED
      BY <1>1, <2>1, <2>2, <2>3, <2>4 DEF FitInv
  <1>7. ASSUME NEW b \in Apps, NEW id, Named(b, id)'
        PROVE  Named(b, id)
    BY <1>1, <1>2, <1>5, <1>7 DEF Named
  <1>8. ASSUME NEW r, NEW s, Used(r, s)'
        PROVE  Used(r, s)
    BY <1>1, <1>2, <1>5, <1>8 DEF Used
  <1>9. ASSUME NEW b \in Apps, NEW n, NEW m \in Random, Held(b, n, m)'
        PROVE  Held(b, n, m)
    BY <1>1, <1>2, <1>3, <1>4, <1>5, <1>9, Apart DEF Held
  <1>10. ASSUME NEW b \in Apps, NEW n, NEW r, NEW m, Marked(b, n, r, m)'
         PROVE  Marked(b, n, r, m) /\ (b = a => n # installs'[a])
    <2>1. ASSUME NEW x \in seen, x.app = a
          PROVE  x.install # installs'[a]
      BY <1>1, <1>4, <2>1 DEF FitInv, OutcomeOK
    <2>2. CASE b = a
      <3>1. procs'[b].stage # "up"
        BY <1>2, <1>5, <2>2
      <3>2. \E x \in seen : /\ x.app = b /\ x.install = n
                            /\ x.policy.mode = "install" /\ x.scope.id = b
                            /\ x.active.root = r /\ x.active.marker = m
        BY <1>1, <1>10, <3>1 DEF Marked
      <3>3. QED
        BY <2>1, <2>2, <3>2 DEF Marked
    <2>3. CASE b # a
      <3>1. procs'[b] = procs[b] /\ installs'[b] = installs[b]
        BY <1>2, <1>4, <2>3
      <3>2. QED
        BY <1>1, <1>10, <2>3, <3>1 DEF Marked
    <2>4. QED
      BY <2>2, <2>3
  <1>11. IdsInv'
    BY <1>7 DEF SeedsInv, IdsInv
  <1>12. MarkersInv'
    BY <1>9 DEF SeedsInv, MarkersInv
  <1>13. RootsInv'
    <2>1. ASSUME NEW b \in Apps, NEW r, Saving(b, r)'
          PROVE  Saving(b, r)
      BY <1>2, <1>5, <2>1 DEF Saving
    <2>2. ASSUME NEW s, Used(rootFile, s)'
          PROVE  Used(rootFile, s)
      <3>1. PICK r : r = rootFile /\ r = rootFile'
        BY <1>1
      <3>2. Used(r, s)'
        BY <1>1, <2>2, <3>1 DEF Used
      <3>3. QED
        BY <1>8, <3>1, <3>2
    <2>3. QED
      BY <1>1, <1>8, <2>1, <2>2 DEF SeedsInv, RootsInv
  <1>14. SettledInv'
    <2>1. ASSUME settled
          PROVE  /\ rootFile' # NoSeed
                 /\ \A b \in Apps : procs'[b].stage # "saveRoot"
      BY <1>1, <1>2, <1>5, <2>1 DEF SeedsInv, SettledInv
    <2>2. ASSUME settled, NEW r \in Random, Used(r, resets)'
          PROVE  r = rootFile'
      <3>1. PICK s : s = resets /\ s = resets'
        BY <1>1
      <3>2. Used(r, s)'
        BY <2>2, <3>1 DEF Used
      <3>3. Used(r, resets)
        BY <1>8, <3>1, <3>2
      <3>4. QED
        BY <1>1, <2>2, <3>3 DEF SeedsInv, SettledInv
    <2>3. ASSUME settled, NEW r \in Random, NEW q \in Random, NEW s \in Nat, Used(r, s)', Used(q, s)'
          PROVE  r = q
      BY <1>8, <2>3 DEF SeedsInv, SettledInv
    <2>4. ASSUME settled, NEW b \in Apps, procs'[b].stage = "saveMarker"
          PROVE  MarkerOf(b)' = NoSeed
      <3>1. b # a
        BY <1>2, <1>5, <2>4
      <3>2. procs'[b] = procs[b] /\ markers'[b] = markers[b]
        BY <1>2, <1>3, <3>1
      <3>3. MarkerOf(b) = NoSeed
        BY <2>4, <3>2 DEF SeedsInv, SettledInv
      <3>4. QED
        BY <3>2, <3>3 DEF MarkerOf
    <2>5. ASSUME settled, NEW b \in Apps, NEW r \in Roots, NEW m \in Random,
                 Marked(b, installs[b], r, m)'
          PROVE  markers'[b][r] = m
      <3>1. PICK n : n = installs'[b]
        OBVIOUS
      <3>2. Marked(b, n, r, m)'
        BY <2>5, <3>1 DEF Marked
      <3>3. b # a /\ Marked(b, installs[b], r, m)
        BY <1>4, <1>10, <3>1, <3>2
      <3>4. QED
        BY <1>3, <2>5, <3>3 DEF SeedsInv, SettledInv
    <2>6. ASSUME settled, NEW b \in Apps, NEW n \in Nat, NEW r \in Roots, NEW l \in Random,
                 NEW m \in Random, Marked(b, n, r, l)', Marked(b, n, r, m)'
          PROVE  l = m
      BY <1>10, <2>6 DEF SeedsInv, SettledInv
    <2>7. QED
      BY <1>1, <2>1, <2>2, <2>3, <2>4, <2>5, <2>6 DEF SettledInv
  <1>15. QED
    BY <1>6, <1>11, <1>12, <1>13, <1>14 DEF SeedsInv

(* The new root is nobody's yet.                                           *)
LEMMA ResetStep ==
  ASSUME SeedsInv, ResetRootSeed
  PROVE  SeedsInv'
  <1>1. /\ TypeOK /\ FitInv /\ UNCHANGED <<settled, kind, markers, procs, installs, seen>>
        /\ drawn \in Nat /\ resets \in Nat /\ MaxDraws \in Nat
        /\ resets <= drawn /\ drawn < MaxDraws
    BY Apart DEF SeedsInv, FitInv, TypeOK, ResetRootSeed
  <1>2. PICK d \in Nat, s \in Nat :
             /\ d = drawn + 1 /\ s = resets + 1
             /\ drawn' = d /\ resets' = s /\ rootFile' = d
    BY <1>1 DEF ResetRootSeed
  <1>3. /\ d \in 1..d /\ d \in Random /\ d # NoSeed /\ d \in 0..MaxDraws /\ s \in 0..MaxDraws
        /\ s <= d /\ drawn <= d /\ resets <= s /\ d \notin 1..drawn /\ s \notin 0..resets
        /\ 1..drawn \subseteq 1..d
    BY <1>1, <1>2, Apart DEF Random
  <1>4. FitInv'
    <2>1. TypeOK'
      BY <1>1, <1>2, <1>3 DEF TypeOK
    <2>2. ASSUME NEW b \in Apps
          PROVE  ProcOK(b, kind'[b], drawn', resets', procs'[b])
      <3>1. ProcOK(b, kind[b], drawn, resets, procs[b])
        BY <1>1 DEF FitInv
      <3>2. ProcOK(b, kind[b], d, s, procs[b])
        BY <1>1, <1>3, <3>1, Lasts
      <3>3. QED
        BY <1>1, <1>2, <3>2
    <2>3. ASSUME NEW x \in seen
          PROVE  x.app \in Apps /\ OutcomeOK(x, kind'[x.app], installs'[x.app], drawn', resets')
      <3>1. x.app \in Apps /\ OutcomeOK(x, kind[x.app], installs[x.app], drawn, resets)
        BY <1>1 DEF FitInv
      <3>2. installs[x.app] \in Nat
        BY <1>1, <3>1 DEF TypeOK
      <3>3. OutcomeOK(x, kind[x.app], installs[x.app], d, s)
        BY <1>1, <1>3, <3>1, <3>2, OutcomeLasts
      <3>4. QED
        BY <1>1, <1>2, <3>1, <3>3
    <2>4. \A b \in Apps, r \in Roots : markers'[b][r] # NoSeed => markers'[b][r] \in 1..drawn'
      BY <1>1, <1>2, <1>3 DEF FitInv
    <2>5. QED
      BY <1>1, <1>2, <1>3, <2>1, <2>2, <2>3, <2>4 DEF FitInv
  <1>5. /\ \A b \in Apps : \A id : Named(b, id)' <=> Named(b, id)
        /\ \A r, t : Used(r, t)' <=> Used(r, t)
        /\ \A b \in Apps : \A n, m : Held(b, n, m)' <=> Held(b, n, m)
        /\ \A b \in Apps : \A n, r, m : Marked(b, n, r, m)' <=> Marked(b, n, r, m)
        /\ \A b \in Apps : \A r : Saving(b, r)' <=> Saving(b, r)
    BY <1>1 DEF Named, Used, Held, Marked, Saving
  <1>6. IdsInv'
    BY <1>5 DEF SeedsInv, IdsInv
  <1>7. MarkersInv'
    BY <1>5 DEF SeedsInv, MarkersInv
  <1>8. (\A t : ~Used(d, t)) /\ (\A r \in Random : ~Used(r, s))
    BY <1>1, <1>3, Earlier
  <1>9. RootsInv'
    <2>1. \A r \in Random, i, j \in Nat : Used(r, i)' /\ Used(r, j)' => i = j
      BY <1>5 DEF SeedsInv, RootsInv
    <2>2. ASSUME NEW t \in Nat
          PROVE  ~Used(rootFile, t)'
      <3>1. ~Used(d, t)'
        BY <1>5, <1>8
      <3>2. QED
        BY <1>2, <3>1 DEF Used
    <2>3. ASSUME NEW b \in Apps, NEW r \in Random, NEW t \in Nat, Saving(b, r)'
          PROVE  rootFile' # r /\ ~Used(r, t)'
      <3>1. Saving(b, r)
        BY <1>5, <2>3
      <3>2. rootFile' # r
        BY <1>1, <1>2, <1>3, <3>1, Earlier
      <3>3. QED
        BY <1>5, <3>1, <3>2 DEF SeedsInv, RootsInv
    <2>4. \A b, c \in Apps, r \in Random : Saving(b, r)' /\ Saving(c, r)' => b = c
      BY <1>5 DEF SeedsInv, RootsInv
    <2>5. QED
      BY <2>1, <2>2, <2>3, <2>4 DEF RootsInv
  <1>10. SettledInv'
    <2>1. ASSUME NEW r \in Random
          PROVE  ~Used(r, resets)'
      <3>1. ~Used(r, s)'
        BY <1>5, <1>8
      <3>2. QED
        BY <1>2, <3>1 DEF Used
    <2>2. ASSUME settled
          PROVE  /\ rootFile' # NoSeed
                 /\ \A b \in Apps : procs'[b].stage # "saveRoot"
                 /\ \A r, q \in Random, t \in Nat : Used(r, t)' /\ Used(q, t)' => r = q
      BY <1>1, <1>2, <1>3, <1>5, <2>2 DEF SeedsInv, SettledInv
    <2>3. ASSUME settled, NEW b \in Apps
          PROVE  /\ procs'[b].stage = "saveMarker" => MarkerOf(b)' = NoSeed
                 /\ \A r \in Roots, m \in Random : Marked(b, installs[b], r, m)' => markers'[b][r] = m
                 /\ \A n \in Nat, r \in Roots, l, m \in Random :
                      Marked(b, n, r, l)' /\ Marked(b, n, r, m)' => l = m
      <3>1. MarkerOf(b)' = MarkerOf(b)
        BY <1>1 DEF MarkerOf
      <3>2. \A r, m : Marked(b, installs[b], r, m)' <=> Marked(b, installs[b], r, m)
        BY <1>1 DEF Marked
      <3>3. QED
        BY <1>1, <1>5, <2>3, <3>1, <3>2 DEF SeedsInv, SettledInv
    <2>4. QED
      BY <1>1, <2>1, <2>2, <2>3 DEF SettledInv
  <1>11. QED
    BY <1>4, <1>6, <1>7, <1>9, <1>10 DEF SeedsInv

-----------------------------------------------------------------------------
(* Nothing is in use at first; a settled root is the first number drawn.   *)
LEMMA SeedsInit == Init => SeedsInv
  <1> SUFFICES ASSUME Init
               PROVE  SeedsInv
    OBVIOUS
  <1>1. Down.stage = "down" /\ Down \in ProcStates
    BY DEF Down, ProcStates
  <1>2. /\ \A a \in Apps : procs[a] = Down /\ installs[a] = 0
        /\ \A a \in Apps, r \in Roots : markers[a][r] = NoSeed
        /\ seen = {} /\ resets = 0 /\ drawn \in {0, 1} /\ 1 \in Random
        /\ rootFile = (IF settled THEN 1 ELSE NoSeed) /\ drawn = IF settled THEN 1 ELSE 0
    BY Apart DEF Init, Random
  <1>3. FitInv
    <2>1. TypeOK
      BY <1>1, <1>2, Apart DEF Init, TypeOK
    <2>2. \A a \in Apps : ProcOK(a, kind[a], drawn, resets, procs[a])
      BY <1>1, <1>2 DEF ProcOK, Running
    <2>3. resets <= drawn /\ (rootFile # NoSeed => rootFile \in 1..drawn)
      BY <1>2
    <2>4. QED
      BY <1>2, <2>1, <2>2, <2>3 DEF FitInv
  <1>4. /\ \A a \in Apps : ~Running(procs[a]) /\ procs[a].stage = "down"
        /\ \A a \in Apps : \A r, s, m : ~Uses(procs[a], r, s) /\ ~Holds(procs[a], m)
    BY <1>1, <1>2 DEF Running, Uses, Holds
  <1>5. IdsInv
    BY <1>2, <1>4 DEF IdsInv, Named
  <1>6. MarkersInv
    BY <1>2, <1>4, Apart DEF MarkersInv, Held
  <1>7. \A r, s : ~Used(r, s)
    BY <1>2, <1>4 DEF Used
  <1>8. RootsInv
    BY <1>4, <1>7 DEF RootsInv, Saving
  <1>9. SettledInv
    <2>1. \A a \in Apps : \A n, r, m : ~Marked(a, n, r, m)
      BY <1>2, <1>4 DEF Marked
    <2>2. settled => rootFile # NoSeed
      BY <1>2, Apart
    <2>3. QED
      BY <1>4, <1>7, <2>1, <2>2 DEF SettledInv
  <1>10. QED
    BY <1>3, <1>5, <1>6, <1>8, <1>9 DEF SeedsInv

(* Every step keeps what the seeds rest on.                                *)
LEMMA SeedsStep == SeedsInv /\ [Next]_seedVars => SeedsInv'
  <1> SUFFICES ASSUME SeedsInv, [Next]_seedVars
               PROVE  SeedsInv'
    OBVIOUS
  <1>1. ASSUME NEW a \in Apps, NEW stored \in Policies, NEW known \in BOOLEAN,
               Launch(a, stored, known)
        PROVE  SeedsInv'
    BY <1>1, LaunchStep
  <1>2. ASSUME NEW a \in Apps, StartStep(a)
        PROVE  SeedsInv'
    <2>1. CASE ReadRoot(a)
      BY <2>1, ReadRootStep
    <2>2. CASE DrawRoot(a)
      BY <2>2, DrawRootStep
    <2>3. CASE SaveRoot(a)
      BY <2>3, SaveRootStep
    <2>4. CASE SaveRootFails(a)
      BY <2>4, StopStep DEF SaveRootFails
    <2>5. CASE ReadMarker(a)
      BY <2>5, ReadMarkerStep
    <2>6. CASE DrawMarker(a)
      BY <2>6, DrawMarkerStep
    <2>7. CASE SaveMarker(a) \/ SaveMarkerFails(a)
      BY <2>7, SaveMarkerStep
    <2>8. QED
      BY <1>2, <2>1, <2>2, <2>3, <2>4, <2>5, <2>6, <2>7 DEF StartStep
  <1>3. ASSUME NEW a \in Apps, Quit(a)
        PROVE  SeedsInv'
    BY <1>3, StopStep DEF Quit
  <1>4. ASSUME NEW a \in Apps, Reinstall(a)
        PROVE  SeedsInv'
    BY <1>4, ReinstallStep
  <1>5. CASE ResetRootSeed
    BY <1>5, ResetStep
  <1>6. CASE UNCHANGED seedVars
    <2>1. UNCHANGED <<settled, kind, rootFile, markers, procs, drawn, installs, resets, seen>>
      BY <1>6 DEF seedVars
    <2>2. FitInv'
      BY <2>1 DEF SeedsInv, FitInv, TypeOK
    <2>3. IdsInv' /\ MarkersInv'
      BY <2>1 DEF SeedsInv, IdsInv, Named, MarkersInv, Held
    <2>4. RootsInv'
      BY <2>1 DEF SeedsInv, RootsInv, Used, Saving
    <2>5. SettledInv'
      BY <2>1 DEF SeedsInv, SettledInv, Used, Marked, MarkerOf
    <2>6. QED
      BY <2>2, <2>3, <2>4, <2>5 DEF SeedsInv
  <1>7. QED
    BY <1>1, <1>2, <1>3, <1>4, <1>5, <1>6 DEF Next

(* The invariant of the seed provider.                                     *)
LEMMA SeedsHold == Spec => []SeedsInv
  <1>1. QED
    BY SeedsInit, SeedsStep, PTL DEF Spec

(* The types of the seed provider's state.                                 *)
THEOREM SeedTypeCorrect == Spec => []TypeOK
  <1>1. SeedsInv => TypeOK
    BY DEF SeedsInv, FitInv
  <1>2. QED
    BY <1>1, SeedsHold, PTL

(* Two apps share an active seed only where the user or the vendor links   *)
(* them, whatever raced or failed while they started.                      *)
THEOREM OnlyLinkedShare == Spec => []OnlyLinkedAppsShare
  <1>1. SeedsInv => OnlyLinkedAppsShare
    BY OnlyLinked DEF SeedsInv
  <1>2. QED
    BY <1>1, SeedsHold, PTL

(* Apps that are linked share the active seed, where the root is settled.  *)
THEOREM LinkedShare == Spec => []LinkedAppsShare
  <1>1. SeedsInv => LinkedAppsShare
    BY Linked DEF SeedsInv
  <1>2. QED
    BY <1>1, SeedsHold, PTL

(* A relaunch gives an app the active seed it had, where the root is       *)
(* settled and until a reset, or a reinstallation in the install scope.    *)
THEOREM RelaunchesAgree == Spec => []RelaunchStable
  <1>1. SeedsInv => RelaunchStable
    BY Stable DEF SeedsInv
  <1>2. QED
    BY <1>1, SeedsHold, PTL

(* No start after a reset repeats a seed from before it.                   *)
THEOREM ResetsRotate == Spec => []ResetRotates
  <1>1. SeedsInv => ResetRotates
    BY Rotates DEF SeedsInv
  <1>2. QED
    BY <1>1, SeedsHold, PTL

(* An installation in the install scope shares no seed with a former one.  *)
THEOREM ReinstallsUnlink == Spec => []ReinstallUnlinks
  <1>1. SeedsInv => ReinstallUnlinks
    BY Unlinks DEF SeedsInv
  <1>2. QED
    BY <1>1, SeedsHold, PTL
=============================================================================
