# Loupehole in TLA+

Models, model-checking runs and machine-checked proofs about Loupehole, the
injectable iOS runtime under `src/runtime`, `src/mitigationkit` and
`src/mitigations`, its preferences pane under `src/ui/preferences` and its
package scripts under `src/scripts/build`. Paths below are those of the
repository; `PROJECT.json` maps every definition to the lines it models.

## The system

| component | state it keeps | operations | interacts with |
| --- | --- | --- | --- |
| state provider (`LHStateProvider.m`) | one blob file per state key, active seed and scope | load or create: read, generate, write, fall back | called by mitigations on any thread; files shared by processes in package mode |
| temporal values (`LHMitigationValues.c`, volume / install / boot modules) | none of their own: three blobs | copy synthetic volume creation, install, boot, uptime | two loads of the state provider per query, several readings of the clock |
| seeds and scopes (`LHSeedProvider.m`, `LHSeed.c`, `LHScope.c`, `LHAppContext.m`, `LHPolicyEngine.c`) | root seed file of the package, install markers in app containers, the active seed in memory | start of the runtime, reset of the root seed by the pane | policy file, preferences pane, (re)installation of apps |
| runtime policy (`LHConfigProvider.m`, `LHConfig.c`) | none: reads the policy file at the start | parse, apply to the config | the file the pane writes |
| preferences (`LHPreferenceStore.m`, `LHPreferenceControllers.m`) | policy file, loader filter; the draft seed and entry policy of the scope screen | set default, set or remove override, replace a custom seed, reset; scope screen: open, pick, type, confirm, leave | the loader reads the filter, the runtime the policy |
| package (`generate-mitigation-build.py`, `Filter.plist`) | installs, upgrades and removes all files above | dpkg steps and maintainer scripts | runs beside the pane and apps |
| hook backend, module registry (`LHHookBackendTheos.c`, `LHModuleRegistry.c`) | bindings, chained originals | hook symbol or message, image callback | every mitigation |
| interface inventory (`InterfaceInventoryMitigation.c`) | table of 64 owned lists | get, free, rewrite rows; filter proxies, interfaces of a path | any thread of the app |
| value helpers (`LHValueQuantizer.c`, rest of `LHMitigationValues.c`) | none | bounded derivation, bucketing, curves | shaped values |
| shaped values (memory counters, capacity, battery, brightness, volume, latency, motion) | none | shape what the original answered | the caller's buffer; value helpers |
| other mitigations | none | answer a constant, a filtered list or a derived UUID | hook backend |

What is hard in it: nothing locks, and files are shared by threads, by
processes, by the pane and by dpkg; every file operation may fail or be the last
one of a killed process; bounds of generated values follow a clock that may jump;
two programs parse one policy file with different rules; saves update two files.
`PROJECT.json` lists these as hazards with the property that covers each.

## Modules

### StableChoice and StateProvider

`StableChoice` is the promise of a state blob: one decision per path, every
answer is the decision, only removal undoes it. `StateProvider` is the code:
`LoadOrCreate` enters `LHStateProviderLoadOrCreate`, `ReadHit`/`ReadMiss` are the
two results of `LHStateReadBytes` (a miss runs the generator), `WriteBlob` /
`WriteFails` those of `LHStateWriteBytes`, `Return` hands over the answer. `blobs`
is the directory (a file of another schema or length counts as no blob), `calls`
the loads in progress, `media` whether files can be written and read. Kills,
removal and changes of the storage happen between any two file operations.
The generator is a constant operator, so the module also serves as the provider of
`TemporalValues` and the proofs hold for any generator. `settled` is history.

* `provider_race`: three threads, two of one process, no serialisation.
  `SettledAnswer`: a load that begins with the blob on file and no earlier caller
  still to write answers that blob. `FinallyStable`: once storage works and state
  is not removed any more, each blob stops changing.
* `provider_serial`: with `Serialised` loads and working storage, the provider
  implements `StableChoice` (refinement mapping: the blob is the choice).

The two differ because the promise does not hold for racing first callers: each
answers its own value and the last write stays. `docs/concepts/randomization.md:37`
("generated once ... reused consistently") is true of the serial case only;
`AnswersClose` bounds what the race can do to times.

Fairness: `WF` on the file step and on the return of each thread. A thread
inside the provider runs straight-line code and blocks on nothing but the file
system, so it goes on unless it is killed; nothing is assumed about new calls,
kills or the storage.

### TemporalValues

Composes three blobs of one active seed, through `INSTANCE StateProvider`, into
the queries for volume creation, app install, boot and uptime. A query is a frame:
`BeginQuery` reads the clock, `AskVolume`/`TakeVolume` load the baseline with a
second reading of the clock, `AskValue` builds the bounds and passes through to
the real value when they are empty, `TakeInstall`/`TakeBoot` answer, the latter
cutting to seconds and checking against the baseline and the clock. `Tick` and
`SetBack` move the clock between any two steps. `units` is what the seed decides;
a unit of `UnitCount` stands for a quotient that rounds to 1, which the generator
refuses (`LHMitigationValues.c:152-154`).

* `temporal_answers`: `AlwaysSynthetic` (no real value is ever shown in the
  absence of trouble), `StableAnswers`, `VolumeFirst`, `AnsweredInPast`, and
  `AnswersClose`, which bounds the disagreement of first callers that race. A
  behaviour is `racing` or not: either callers overlap, on a clock and a storage
  that behave, or one asks at a time and meets every trouble.
* `temporal_setback` (a violation): the install date may be served although the
  clock was set back below it; see Findings.

Bounds: `Start..MaxClock` is the clock (`RaceClock` where callers race); the
intervals are scaled down but keep the order of the sources' constants
(`MarginAssumption`), so that a few ticks after the first answer the boot blob
falls out of its own lookback, which is the interesting case.
`InstallAfterVolume` has to exceed the skew of overlapping callers, as a day does
in the code. `CallSpan` bounds how many ticks one query lasts, less than every
margin (`SpanAssumption`: six hours is the shortest one in the code),
`MaxTroubles` how many kinds of trouble (storage, removal, clock set back) one
behaviour meets, `UnitCount` the positions in an interval. `served` is kept
only while the storage holds, which is what the stability properties are about.

### SeedProvider

One process per app, from `Launch` (`LHPolicyEngineInit` up to the scope) through
`ReadRoot`/`DrawRoot`/`SaveRoot` and `ReadMarker`/`DrawMarker`/`SaveMarker` to an
active seed. HMAC-SHA256 is free: a derived seed is the term of what was
hashed. `ResetRootSeed` is the pane, `Reinstall` deletes a container. A runtime
may be the package's or a standalone dylib with its own build seed (`kind`).
`settled` is the device: one with a root seed and storage that works, or one with
neither. `seen` records what `MaxSeen` earlier processes were given; properties
compare two outcomes and hold of one that is up and one seen at the moment the
second comes up, so one is enough. `MaxDraws` bounds random draws, `MaxInstalls`
reinstallations. An app that is no target behaves as one whose policy is
disabled, so the run has none apart.

* `seeds`: `RelaunchStable` and `LinkedAppsShare` (settled devices),
  `OnlyLinkedAppsShare` and `ResetRotates`, even when a first run overwrites the
  reset root, and `ReinstallUnlinks`. Two apps of one vendor, each injected or
  standalone, one with an identifier that does not fit, all scopes.

The preconditions of `RelaunchStable` are exceptions the code really has: a first
run may replace a root seed another process has already used
(`LHSeedProvider.m:142-163`, although `docs/concepts/seeds.md:14` has it "created
once"; the installation script normally writes it before), a marker that cannot be
written is used without persisting, an identifier of 128 bytes or more
becomes a random scope (`LHScope.c:29`), and the vendor scope falls back to the
bundle while the vendor identifier is unavailable (`LHAppContext.m:169`).

### PolicyStore

The policy file is a list of numbered lines; `Serialized` is the order in which
the pane writes them, `Effective` the pane's way to read a row and `RuntimePolicy`
the runtime's. A save is `Begin` (read, edit in memory), `WritePolicy` (atomic),
`ReadBack`, then `CreateFilter` (no filter yet, atomic) or
`TruncateFilter`/`FillFilter` (written in place); `WriteFails` and `KillPane` end it
anywhere. `Offered` are the edits the screens make; `Edited` what the store does
with them. `Unpack`, `Configure`, `DisableFilter`, `DeleteFiles` are dpkg and the
maintainer scripts, at any moment of a save. `last`, `disturbed` and `unread` are history.

A read of the policy may fail (`"read"` in `Failures`). The read a save begins with
ends it with an error (`WriteFails`; `resetAllWithError:` makes none). All others
drop the error and go on without lines: in `ReadBack` the default, the rows
or both are missing (`ReadWithout`), the filter is made of what is left, and the save reports
success; a screen that misreads a row may write any (`SetsOffered`).

* `policy_saves`: `SavedMeansEffective` (a save that reports success is what the
  next launch does, whatever failed, tore the filter or was not read before it),
  `HookedAsShown` (the parsers agree at every moment), `GroupMovesTogether` (replacing a
  custom seed moves every linked row and the app on screen, which may have no row, keeps
  switches, and changes no other app).
* `policy_upgrade` (a violation): see Findings.

Two configurable apps, one of the system, two custom seeds (replacing needs an old
and a new one) and every row are enough for the interactions: rows are
independent but for the default and the shared seed. Module lists of a row are
left out. Identifiers of 128 bytes or more (`LongNamed`) are excluded from
`SavedMeansEffective` and `HookedAsShown`: the pane accepts an override for
them (`LHPreferenceStore.m:594-607`) which the runtime never matches. The runs have none.

Two kinds of saves report success and promise less, and `last` tells them apart from
`"saved"`: those a package step fell into (`"disturbed"`) and those that could not read
their policy back (`"unread"`). The filter of the latter lacks enabled apps, although the comment
at `LHPreferenceStore.m:555` has it made "from the current enabled policy set". The next
save that is read back repairs either, and `HookedAsShown`, which excepts neither, keeps
both from hooking an app shown as disabled.

### ScopeScreen

The one screen that holds state of its own: the row it was opened with and the
draft of a custom seed. Handlers are actions that begin a save of `PolicyStore`
(`SelectDerived`, `SelectManual`, `EditingEnds`, `Randomize`, `RandomizeAll`,
`ChooseExisting`, the three ways to leave) or change the draft only (`Type`,
`ComeBack`); `Saving` is the rest of the save, which runs on the main thread
before the next event, and `Settled` what the handler does with its result.
`EditElsewhere` are the other screens while this one is not open; `Killed` ends
Settings, with or without a save. A draft is a seed, or a text that is no UUID.
Handlers of the seed field need its cell on screen (`cell`), which is listed again
after a save; a save of the list of existing seeds is followed by the screen's
`viewWillAppear:`, successful or not (`back`). Each handler makes the reads of the code, one by one,
and each may give another row than the stored one (`ReadAs`): an app whose rows cannot be read
follows the default, a default that cannot be read is off. `misread` is history: some
read the screen acted on did.

* `scope_screen`: `ImplementsPolicyStore`, the refinement that carries the
  properties of `PolicyStore` over; `LeftAsShown` (what was on screen when it was
  left, or said to be restored, is stored unless a write failed or a row was misread);
  `ScopeKeepsSwitches` (no step of the screen, a whole group or a restored row
  included, turns an app on or off, unless a row was misread: a save based on a
  misread row does turn apps off).

Every write and read may fail and the pane be killed. Two apps and two seeds, alike
under symmetry. The screens the run opens are those of the two apps (`Screens`); the row of the
default profile changes through `EditElsewhere`. Its own scope screen has the
handlers of an app's but for the group and the list of seeds, and is covered by the
theorems, which leave `Screens` open.

### HookBackend

`Plan` is the list of hooks all installers ask for, in registry order. A step is
`SkipDisabled`, `HookFunction` (MobileSubstrate, also for messages) or
`HookImportedSymbol` followed by `RebindStore`/`RebindWrite` or `RebindSkip` for each image and
`RebindEnd`/`RegisterEnd` for the first registration with dyld. `LoadImage` adds an
image at any moment, `CallbackSkip`/`CallbackStore`/`CallbackWrite`/`CallbackEnd` are
the image callback going through the bindings. What a pointer to a function leads
to is its `Entry`, its `Body` or the replacement of a module; `Follow` is a
replacement passing on to the original it kept, which all replacements do for what
they do not answer. `process` fixes which modules are enabled, which symbols can be
patched, and whether another thread loads images meanwhile. `Steps` and `SysctlInstall` give the
order in which the installers ask for their hooks, `PlanAssumption` what all of them have
in common: a hook is asked for once, one module's hooks come together, and no symbol is
rebound before its patch was tried.

* `hooks_compose`: `CallsEnd` (no chain of originals is circular or ends in nothing),
  `ImagesCovered` (early and late images lead through every bound replacement),
  `EarlierReached` (patched functions: no module in front of another loses it).

The instance is `boot_time`, `hostname` of identity and of network and their real
hooks: two symbols hooked by two modules in both ways, one by two modules inline,
two modules in front of a third. Three images (one before the runtime, two later),
four bindings of five asked for, so that the table is full once; the real table
of 128 is never full with the modules there are. One cell stands for all cells of
one symbol in an image. `ImagesCovered` is limited to images of the installing
thread and writable cells. For an image of another thread, installer and callback
may rebind one cell in opposite orders: a module that binds it before and again
after another keeps the original it found first and so bypasses the other. A cell
that could not be written keeps what it had. The run may stop when everything is
installed and loaded, so it does not check for deadlock.

### InterfaceLists

`getifaddrs` is `GetIfAddrs`, then one of `CloneUnused`, `CloneEmpty` or `CloneVisible`,
then the search of the table entry by entry (`LookForSlot`), ending in `TakeSlot` or
`TableFull`; `freeifaddrs` is `FreeIfAddrs`, the search `LookForList`, ending in
`ClearSlot` or `NotOwned`. Looking at an entry and writing it are two steps, as
nothing locks. A freed address may be given to the next list at once.

* `interface_lists`: `OwnedAreClones`, for any races; `SerialKeepsTrack` while calls do
  not overlap; `TunnelsHidden` while memory and the table suffice.

Three threads (with two, no entry is freed behind one search while another thread
takes the next one), a table of two
entries for the 64 of the code, five addresses so that three lists and two clones
exist at once. `SerialKeepsTrack` needs its condition: two threads that find the same
entry empty overwrite each other, and the clone that lost its entry is later freed
by the system's deallocator, which releases one block of it and leaks the others.

### LiveAnswers and the value modules

Answers that change while the device runs are functions without state, written
as operators in modules by file: `ShapedValues` (bounded derivation, capacity buckets,
battery, brightness, volume, motion and latency curves), `MemoryCounters` (noise,
and which words of the caller's buffer are shaped), `InterfaceRows` (traffic
counters and last change), `NetworkPaths` (proxy settings with the references that
every failing allocation leaves, and the Network.framework functions: a call goes to the
replacement where the hook is `installed` and to the system where it is not (`AskName`,
`AskType`, `AskUses`, `Enumerated`), and a replacement may use the original of another hook
if that is among the `originals`, which a hook has from before its import is rebound) and `BootSysctl` (the room and length of a buffer
through the public and the private replacement and the kernel).
`LiveAnswers` is the app that reads them. A behaviour reads one `surface`, because
the hooks share nothing; `told` is the latest answer with its question. Interface
lists are read by two threads step by step (`Begin`, `ReadUptime`, one `ShapeRow`
per row, `Return`) while `Tick` moves the clock, `floors` is what returned lists
have shown. `seed` stands for active seed, policy seed and scope: `Derived` is the
same number for every context, as each property is about one context at a time.

* `live_answers`: `NeverMore` (no counter above the real one, none wrapped or
  lowered by more than a 64th or its cap; no free space above the real), `BufferKept`,
  `OrderKept` (what rises is not shown falling, full and empty are shown exactly),
  `CountersGrow` (successive lists on any threads), `LastChangeAtBoot`,
  `ProxiesBalanced` (references, whatever allocation fails), `TunnelsUntold` (each
  hook that is installed keeps its promise whichever others are not, and hiding a
  tunnel ends no enumeration; what is not hooked the system answers, tunnels included).
* `sysctl_short` (a violation): see Findings.

Bounds: all 48 (64) profiles of a curve and all hundredths of a level; sines are
rounded to 1/10000 and answers to the step of the code where it rounds. Counters
are taken around the steps of noise and caps and up to 2^30, as far as the
checker's integers go; so the 32 MiB cap of available memory, reached from 2 GiB
on, is not reached there; `NeverShownMore` proves it. Interface counters are scaled down (`ByteBase` .. `PacketSpread`) so
that the clamp, `MaxCounter` for 2^32 - 1, and the steps of the wobble are crossed
within `MaxTime`. The clock does not go back there: the counters follow it and
would. The boot time of a behaviour is unreadable, past or still to come.

## Findings

* `temporal_setback`: `docs/mitigations/app-bundle-install-date.md:68` promises a
  date "earlier than the current wall clock"; `AppInstallDateValues.c` serves a
  persisted date without the check `BootTimeValues.c:61` has.
* `policy_upgrade`: an upgrade unpacks the package's empty filter over the one
  recomputed by the last save; `postinst` keeps the policy but does not recompute
  the filter, so enabled apps are no longer injected until the next save.

* `sysctl_short`: `docs/mitigations/system-boot-time.md:40` has the boot-time hooks
  preserve the "normal `oldp`/`oldlenp` size-query pattern". For a short buffer
  `LHBootTimeCopyOut` raises the caller's length and fails, and the replacement then
  calls the original with the raised length (`BootTimeSysctlMitigation.c:40-61`), so
  that the next implementation writes a whole `timeval` and reports success.

Noted while reading, without a run: `docs/mitigations/network-interface-inventory.md:57`
has tunnel rows "absent from the returned `getifaddrs` list", but the unfiltered list
is returned when memory for the clone runs out or 64 clones are outstanding
(`InterfaceInventoryMitigation.c:533-541`; `TunnelsHidden` states both exceptions). `resetAllWithError:` leaves the root seed and
`replaceCustomSeed:...` the default profile as they are
(`LHPreferenceStore.h:52-56`); leaving the scope screen with an invalid seed writes
back the policy it was entered with (`LHPreferenceControllers.m:936-956`), which
pins an inherited row as an override, and says that it restored it even when that
write failed (`:948-955`) or a whole group was moved meanwhile; path enumeration hides
nothing when the original of `nw_interface_get_type` is missing (`:641`), and a Network.framework
function whose hook could not be installed is answered by the system; callers of
`host_statistics` with a buffer of an older, shorter revision get raw counters; `refreshFilterWithError:` drops
the errors of reading the policy back, writes a filter without what it could not
read and reports success (`LHPreferenceStore.m:346-361`, `556-558`), against the comment at
`:555`, and the screens base the rows they write on reads of the same kind.

## Proofs

A run shows a property for one small instance; a theorem below shows it for every
value of the constants that satisfies the named assumptions, which stand in the
module that declares the constants. Where a property is not inductive, the
invariant that makes it so is named with the reason for it. Every invariant was
model-checked before it was proved.

`StateProviderProofs` proves, for any threads, processes, paths, values,
generator and storage conditions that satisfy `ProviderAssumption`:

* `TypeCorrect`: `Spec => []TypeOK`, by induction over the actions; the point is
  that a pending write always carries a value of the generator.
* `SettledAnswerHolds`: `Spec => []SettledAnswer`. The property speaks of finished
  loads only and is not inductive; `SettledInv` adds what holds while the load is
  still reading: its settled blob is on file, readable, and no other load of that
  path is about to write. The last part is kept because a load that would become
  a writer must miss the blob, which is there.
* `RefinesStableChoice`: under `SerialAssumption` (loads of a path do not overlap,
  storage always works) every step is a step or a stutter of `StableChoice`. The
  invariant `SerialInv` says that at most one load of a path is in flight and
  that a pending writer's path has no blob.

`TemporalValuesProofs` proves, for any threads, seeds, clocks and lengths of the
intervals whose order is that of the source's constants (`MarginAssumption`,
`SpanAssumption`): `TimesTypeCorrect`, `NeverReal` (`AlwaysSynthetic`), `AnswersStay`
(`StableAnswers`), `RacesStayClose` (`AnswersClose`), `VolumeIsOldest` (`VolumeFirst`)
and `TakenInPast` (`AnsweredInPast`). The generator places a value at a quotient of the
interval (`LHMitigationValues.c`), so everything rests on three lemmas about it:
`Mean` (it is the weighted mean of the bounds, rounded down), `Inside` (it lies in its
interval, before the end unless the unit is `UnitCount`) and `Shift` (bounds that are moved
by up to d move it by up to d). `TimesInv` is the conjunction of

* `FitInv`: types, and how a query's frame fits the load it has begun;
* `AloneInv`: who may overlap, and what trouble there may be with it;
* `PastInv`: while the clock never goes back, a value lies before the clock by the
  least age of its interval; the property `AnsweredInPast` asks for less and is
  not inductive, as the bounds of the install date and the boot time are built on
  the volume's age;
* `WindowInv`: there is, for each blob, one moment such that whatever callers have
  generated, stored or served of it lies within the skew of overlapping callers
  after that moment, and install and boot windows lie behind the volume's by their margin.
  The moment is not in the state (it is the result for the first reading of the
  clock), so the invariant asks for its existence and each step chooses it anew or
  keeps it. `StableAnswers` and `AnswersClose` are both read off it, the skew being none
  where callers do not race;
* `NoneInv`: in the absence of trouble no value is missing but for a unit the
  generator refuses. It needs the other three: an interval is never empty because
  of how far the volume lies back, and a persisted boot time passes its checks.

`SeedProviderProofs` proves, for any apps, vendors, policies, kinds of runtime and
numbers of draws (`SeedAssumption`; `FreeAssumption`: no custom seed is a derived one):
`SeedTypeCorrect`, `OnlyLinkedShare` (`OnlyLinkedAppsShare`), `LinkedShare`
(`LinkedAppsShare`), `RelaunchesAgree` (`RelaunchStable`), `ResetsRotate` (`ResetRotates`) and
`ReinstallsUnlink` (`ReinstallUnlinks`). All of them compare outcomes of two processes,
so the invariants relate what is on file, in every start in progress, and in what
was seen. `FitInv` has every number in use drawn before and every start in the
shape its policy gives it; `IdsInv` has a drawn identifier belong to one app,
`MarkersInv` a marker to one installation of one app, `RootsInv` a root seed to the time
between two resets, with nobody using one that is still to be saved; `SettledInv` says
that on a settled device the root changes with a reset only and the marker an
active seed was built from is the one on file. That a new draw meets nothing of
this follows from `FitInv`. The proof showed that the types have to allow for the policy
of a standalone runtime, which the pane need not offer (`AnyPolicy`).

`PolicyStoreProofs` proves, for any apps, order of identifiers, seeds and failures
that satisfy `StoreAssumption` (the ranks of two apps differ):

* `HookedAsShownHolds`: `Spec => []HookedAsShown`. Where the last matching line wins
  (the runtime) and where a row of the app wins wherever it stands (the pane) agree
  only on files in order, so the invariant `OrderInv` says that the policy, and the
  one a save is about to write, is an `OrderedFile`: the default is line 0, an app
  is at its rank. `EditedRows` shows that every edit offered leaves rows of
  configurable apps only, `SerializedOrdered` that any such settings are written in
  order, `LastLine` that on such a file both parsers find the same line.
* `SavedMeansEffectiveHolds`: `Spec => []SavedMeansEffective`. The property speaks
  of finished saves and is not inductive; `SaveInv` adds that a save no package
  step has fallen into runs on an installed package and, once it has read the whole
  policy back, carries the filter of exactly that policy. `StageInv` gives the fields
  of the save at each stage, `SavedFilter` shows that the filter of a policy together
  with the runtime's own row decides as the pane shows.
* `StoreTypeCorrect`: `Spec => []TypeOK`, with `FileInv`: the policy is what the pane
  would write from some settings, or there is none. The type asks that a file
  reads back as it was written, which needs that reading and serialising are
  inverse on such files.
* `GroupsMoveTogether`: `Spec => GroupMovesTogether`, for groups of any size and an app on
  screen with or without a row.

`ScopeScreenProofs` proves, with the store's invariants and no assumption of its own:

* `ScreenImplementsStore`: `ScreenSpec => ImplementsPolicyStore`. Every handler begins
  a save with an edit the store offers, or leaves the store alone. All four theorems
  about the store thereby hold while the screen is used.
* `ScreenLeftAsShown` with the invariant `LeftInv`: the row shown is about to be
  written, or written, or a write has failed, or a row was misread.
* `SwitchesKept` (`ScopeKeepsSwitches`) with `SwitchInv`: the row to restore has the
  switch that is stored. It is not obvious because a row is restored long after
  it was read; it holds since other screens cannot edit while this one is open.
  `ReadInv` has a screen misread rows only where reads may fail.
* `ScreenTypeCorrect`.

`InterfaceListsProofs` proves, for any number of threads, any finite memory and a table
of any size (`ListsAssumption`):

* `OwnedAlwaysClones`: `Spec => []OwnedAreClones`, however calls race. `HandsInv` and
  `ApartInv` say that what a call works on is allocated and neither the app's nor another
  call's, `KeptInv` that nothing is allocated which nobody holds, `EntriesInv` that an entry is a
  live clone and the only entry with it, `PassedInv` what a search may rely on: the
  entries behind it do not have its list, although others write the table.
* `SerialNeverLoses`: `Spec => []SerialKeepsTrack`, with `SerialInv`: of calls that do
  not overlap one is running, and the entry it found is still empty.
* `TunnelsStayHidden`: `Spec => []TunnelsHidden`. The table may seem full to a search only if there
  were more clones than entries: `RoomInv` counts, for every j, the clones in entries from j
  on and those of calls that are still to search from there, which are no more
  than the entries left. A race that overwrites an entry only lowers the count.
* `ListsTypeCorrect`.

`LiveAnswersProofs` proves, for any number a seed may derive, any values of the
device, any scales of the counters and any number of threads (`LiveAssumption`,
`RowsAssumption`), and any table of sines that rises from 0, by no more than its
argument does (`SineAssumption`):

* `NeverShownMore` (`NeverMore`), `BuffersKept` (`BufferKept`), `ReferencesBalance`
  (`ProxiesBalanced`): an answer of each surface is right by itself, from lemmas on
  remainders and quotients (`Shaped`, `RoundedDown`) and on the paths of the proxy
  settings through failing allocations.
* `NoTunnelTold`: `Spec => []TunnelsUntold`, on paths of any length, whichever hooks are
  installed and whichever originals known. How many interfaces
  an enumeration gives is a fold over the path; `SeenExists` shows that the recursive
  function the fold chooses exists for any number of indices, and
  `EnumerationCounts` that after the k-th interface the app has been given as many as it wanted
  or all the ordinary ones among the first k. Both are inductions over a set of
  numbers (`Numbers`), for which no operator is needed.
* `OrderAlwaysKept`: `Spec => OrderKept`, for all levels of all surfaces and whatever
  profile is picked. `WaveSlope` bounds what a wave changes over any distance
  from its steepest step, `WaveFalls` what it takes away at an amplitude, and
  `CurveGrows` and `PerturbationGrows` that this is less than the level rises: of
  the 10000 millionths of a hundredth the two waves of a battery's curve take at most
  1896 and 1264. `InteriorGrows` says that the clamp and the rounding keep the order,
  `BucketedGrows` the same of free space where the size of the bucket changes. The
  invariant `LevelInv` is that the answer the app has is what the seed shows of some value.
* `CountersOnlyGrow`: `Spec => []CountersGrow`. What a list shows is computed row by row from
  an uptime read before, while other threads return later lists. `CallsInv`
  says that whatever returned lists have shown, the clock allows now to be shown, and that
  a call has not read its uptime before it began; the shaped counters rise with
  the uptime by their rate or stay at the clamp, whatever the wobble takes away.
* `ChangedAtBoot` (`LastChangeAtBoot`), `LiveTypeCorrect` (in particular every counter fits
  its width).

`HookBackendProofs` proves, for any modules, images and imports, any plan of the
installers that satisfies `PlanAssumption`, any size of the table and any order of loads
and refusals: `HooksTypeCorrect` (no replacement ever passes on to itself), `CallsAlwaysEnd`
(`CallsEnd`), `ImagesStayCovered` (`ImagesCovered`) and `EarlierStayReached`
(`EarlierReached`). The properties speak of where following the originals ends, a
recursive function, which one step may change for many pointers at once. The invariant
`ChainInv` therefore asks for a function D from pointers to the replacements they lead through:

* `Chained`: D of a pointer is the pointer and D of the next one, which it is not in;
* `Inlined`: who patches a function leads through those who patched it before;
* `Covering`: an import cell leads through the bindings its image no longer waits for,
  the installer's images and the callback's having their turns still to come.

D is not in the state. A step that stores an original or patches a function chooses a larger
one (`PatchingLeads`, `StoringLeads`), all others keep it. `PlaceInv` has where the installer and
the callback are, `PlanInv` that bindings, originals and cells follow the plan, `LiveInv`
that every pointer leads to something with an original, so that a new link never closes a circle.
`TraceLeads` turns D into what the recursive function visits: D loses one
element at each step, so that the trace has ended after as many steps as there are
modules. That is an induction over a set of numbers (`Counting`), for which no operator
is needed.

Only model-checked:

* `FinallyStable`: liveness under fairness is out of the prover's reach.
* The three violations, which are counterexamples and no theorems.

## Not modelled

Constant-answer mitigations (no state: each is one constant or one filter), the
generator's code emission, the verification scripts, and of the modelled parts:
`time(0) <= 0`, a null `oldlenp` and the lookup of sysctl names, module lists, UUID
parsing and the derived UUIDs of camera and vendor, the root seed's text field, app
lists, rewritten addresses, errors and baud rates of interface rows, battery
states, audio routes, the constant answers about the cost of a path, the walk through
Mach-O load commands.

## Plan

Written, in this order: `StableChoice`, `StateProvider`, `TemporalValues`,
`SeedProvider`, `PolicyStore`, `HookBackend`, `InterfaceLists`, `ScopeScreen`, the value
modules and `LiveAnswers`, each with proofs. Every
invariant and action property that a passing run checks is stated by a theorem. Next: lemmas for
all inputs about operators that the proofs did not need; audio routes, battery states and
app lists, where an answer depends on a list of the device.
