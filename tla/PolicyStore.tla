---------------------------- MODULE PolicyStore ----------------------------
(***************************************************************************)
(* The settings of the package and what they come to at the next launch.   *)
(* The preferences pane (LHPreferenceStore.m, LHPreferenceControllers.m)   *)
(* keeps two files: the policy, lines with the default row and the rows of *)
(* single apps, replaced atomically, and the filter of the loader,         *)
(* recomputed from the policy and written over in place.  A save writes    *)
(* one and then the other, and each step may fail or be the last of a      *)
(* killed pane.  A read that fails is an error to the save that begins     *)
(* with it; everywhere else the pane drops the error and goes on with an   *)
(* empty policy.  The maintainer scripts (generate-mitigation-build.py) and *)
(* dpkg install, upgrade and remove both files beside it.  An app may      *)
(* start at any moment: the loader reads the filter, and the runtime reads *)
(* the policy with a parser of its own (LHConfigProvider.m).               *)
(***************************************************************************)
EXTENDS Naturals

CONSTANTS
  Apps,        \* bundle identifiers a process may have
  System,      \* those of com.apple, neither configurable nor targetable
  LongNamed,   \* those that do not fit the 128 bytes of LHAppContext
  Rank,        \* the place of an app in localizedStandardCompare: order
  Customs,     \* custom seeds
  NoSeed,      \* the empty custom seed field
  DefaultRow,  \* the identifier of the default row
  UIKit,       \* the filter entry that matches every UIKit app
  Torn,        \* a filter that was truncated and not written
  NoFilter,    \* no filter file
  Failures,    \* what may fail: writing a file, reading the policy, the pane
  Lifecycle    \* may the package be upgraded and removed (BOOLEAN)

Configurable == Apps \ System
Entries == Configurable \cup {UIKit}

ASSUME StoreAssumption ==
  /\ System \subseteq Apps
  /\ LongNamed \subseteq Apps
  /\ Rank \in [Apps -> Nat \ {0}]
  /\ \A a, b \in Apps : Rank[a] = Rank[b] => a = b
  /\ NoSeed \notin Customs
  /\ {DefaultRow, UIKit} \cap Apps = {}
  /\ \A S \in SUBSET Entries : S # Torn /\ S # NoFilter
  /\ Torn # NoFilter
  /\ Failures \subseteq {"policy", "filter", "read", "kill"}
  /\ Lifecycle \in BOOLEAN

VARIABLES
  policy,   \* the policy file
  filter,   \* the filter file: a set of entries, Torn or NoFilter
  op,       \* the save the pane is in the middle of
  package,  \* "installed", "unpacked", "removing" or "absent"
  last      \* history: what became of the last save

storeVars == <<policy, filter, op, package, last>>

-----------------------------------------------------------------------------
(* A row validatePolicy:error: accepts; module lists are left out. *)
Rows ==
  {row \in [enabled : BOOLEAN, scope : {"derived", "manual"}, seed : Customs \cup {NoSeed}] :
     row.scope = "manual" => row.seed # NoSeed}

(* A policy file: numbered lines, each with an identifier and a row; the   *)
(* numbers matter only as the order of the lines.  No file has no lines.   *)
Missing == << >>
LineNumbers(file, ids) == {i \in DOMAIN file : file[i].id \in ids}
LastOf(numbers) == CHOOSE i \in numbers : \A j \in numbers : j <= i

(* defaultPolicy: off, a derived scope, no seed: "D|0|0|0||". *)
Disabled == [enabled |-> FALSE, scope |-> "derived", seed |-> NoSeed]

(* The row the last line for one of ids gives. *)
RowOf(file, ids) ==
  IF LineNumbers(file, ids) = {} THEN Disabled ELSE file[LastOf(LineNumbers(file, ids))].row

(* mutableOverridesFromLines:defaultPolicy: and effectivePolicy... of the  *)
(* pane: a row of the app comes before the default wherever both stand.    *)
HasRow(file, a) == LineNumbers(file, {a}) # {}
Effective(file, a) == RowOf(file, IF HasRow(file, a) THEN {a} ELSE {DefaultRow})

Settings(file) ==
  [default |-> RowOf(file, {DefaultRow}),
   rows |-> [a \in {b \in Configurable : HasRow(file, b)} |-> RowOf(file, {a})]]

(* writeDefaultPolicy:overrides:error: writes the default row first. *)
RankedRow(settings, i) ==
  LET a == CHOOSE b \in DOMAIN settings.rows : Rank[b] = i
  IN [id |-> a, row |-> settings.rows[a]]

MutantSerialized(settings) ==
  LET ranks == {Rank[a] : a \in DOMAIN settings.rows}
      end == 1 + CHOOSE i \in ranks \cup {0} : \A j \in ranks : j <= i
  IN [i \in ranks \cup {end} |->
        IF i = end THEN [id |-> DefaultRow, row |-> settings.default]
        ELSE RankedRow(settings, i)]

Serialized(settings) ==
  [i \in {0} \cup {Rank[a] : a \in DOMAIN settings.rows} |->
     IF i = 0 THEN [id |-> DefaultRow, row |-> settings.default]
     ELSE RankedRow(settings, i)]

(* LHConfigProviderApplyRuntimePolicy: every line that matches replaces    *)
(* the row; an identifier that does not fit the context matches none.      *)
RuntimePolicy(file, a) ==
  RowOf(file, IF a \in LongNamed THEN {DefaultRow} ELSE {DefaultRow, a})

MutantBundles(settings) == {a \in DOMAIN settings.rows : settings.rows[a].enabled}

(* refreshFilterWithError: the entries for a policy. *)
Bundles(settings) ==
  IF settings.default.enabled THEN {UIKit}
  ELSE {a \in DOMAIN settings.rows : settings.rows[a].enabled}

(* The loader injects what the filter names; a torn filter names nothing. *)
Covered(a) ==
  /\ package # "absent"
  /\ filter \notin {Torn, NoFilter}
  /\ {a, UIKit} \cap filter # {}

(* What LHPolicyEngineInit makes of an injected process: the row its hooks *)
(* are set up with, or no hooks.                                           *)
Hooked(a) == a \notin System /\ RuntimePolicy(policy, a).enabled

-----------------------------------------------------------------------------
(* The edits the pane offers, with the row each comes to: every controller *)
(* copies the row it has read as the effective one and changes one thing.  *)

(* setPreferenceValue: of the "enabled" switch. *)
Toggled(row) == {[row EXCEPT !.enabled = ~@]}

(* selectScope:, cycleScope:, applyCustomSeed:updateAssociatedBundles:NO,  *)
(* the list of existing seeds and the row that leaving the scope screen    *)
(* restores: each writes a row with the switch as it was.  ScopeScreen has *)
(* the draft and the entry policy that decide which row it is.             *)
Rescoped(row) == {other \in Rows : other.enabled = row.enabled}

Uses(row, seed) == row.scope = "manual" /\ row.seed = seed

(* bundleIdentifiersUsingSeed: is a seed used by another override? *)
Associated(settings, a, seed) ==
  \E b \in DOMAIN settings.rows \ {a} : Uses(settings.rows[b], seed)

SetEdits == [kind : {"set"}, target : Configurable \cup {DefaultRow}, row : Rows]
RemoveEdits == [kind : {"remove"}, target : Configurable]
ReplaceEdits == [kind : {"replace"}, target : Configurable, old : Customs, new : Customs]
ResetEdits == [kind : {"reset"}]
Edits == SetEdits \cup RemoveEdits \cup ReplaceEdits \cup ResetEdits

Changed(row) == Toggled(row) \cup Rescoped(row)

(* The reads a controller starts from drop their errors, and give another  *)
(* row than the effective one if they fail: then it may write, or restore  *)
(* later, any row.                                                         *)
SetsOffered(file) ==
  {e \in SetEdits : "read" \in Failures \/ e.row \in Changed(Effective(file, e.target))}

Offered(file) ==
  LET settings == Settings(file)
  IN SetsOffered(file)
       \cup {e \in RemoveEdits : e.target \in DOMAIN settings.rows}
       \cup {e \in ReplaceEdits : Associated(settings, e.target, e.old)}
       \cup ResetEdits

-----------------------------------------------------------------------------
(* setOverridePolicy:, setDefaultPolicy:, removeOverride..., resetAll...,  *)
(* replaceCustomSeed:...: what each makes of the settings it read.         *)
WithRow(settings, a, row) ==
  [settings EXCEPT !.rows = [b \in DOMAIN @ \cup {a} |-> IF b = a THEN row ELSE @[b]]]

WithoutRow(settings, a) ==
  [settings EXCEPT !.rows = [b \in DOMAIN @ \ {a} |-> @[b]]]

MutantRowFor(settings, a) == settings.default

RowFor(settings, a) ==
  IF a \in DOMAIN settings.rows THEN settings.rows[a] ELSE settings.default

MutantLinked(row, seed) == [row EXCEPT !.scope = "manual"]

Linked(row, seed) == [row EXCEPT !.scope = "manual", !.seed = seed]

MutantReplaced(settings, a, old, new) ==
  WithRow(settings, a, Linked(RowFor(settings, a), new))

Relinked(rows, old, new) ==
  [b \in DOMAIN rows |-> IF Uses(rows[b], old) THEN Linked(rows[b], new) ELSE rows[b]]

Replaced(settings, a, old, new) ==
  WithRow([settings EXCEPT !.rows = Relinked(settings.rows, old, new)],
          a, Linked(RowFor(settings, a), new))

Edited(settings, e) ==
  CASE e.kind = "set" /\ e.target = DefaultRow -> [settings EXCEPT !.default = e.row]
    [] e.kind = "set" /\ e.target # DefaultRow -> WithRow(settings, e.target, e.row)
    [] e.kind = "remove" -> WithoutRow(settings, e.target)
    [] e.kind = "replace" -> Replaced(settings, e.target, e.old, e.new)
    [] e.kind = "reset" -> [default |-> Disabled, rows |-> << >>]

After(file, e) == Serialized(Edited(Settings(file), e))

Fresh == Serialized([default |-> Disabled, rows |-> << >>])

Idle == [stage |-> "idle"]
Writing(e, file) ==
  [stage |-> "policy", edit |-> e, before |-> file, disturbed |-> FALSE]
Refreshing(stage, bundles, disturbed, unread) ==
  [stage |-> stage, bundles |-> bundles, disturbed |-> disturbed, unread |-> unread]

Init ==
  /\ policy = Fresh
  /\ filter = {}
  /\ op = Idle
  /\ package = "installed"
  /\ last = "none"

(* ensurePolicyWithError: *)
Ensured == IF policy = Missing THEN Fresh ELSE policy

(* The pane reads the policy and makes the edited one of it. *)
BeginWith(e) ==
  /\ op = Idle
  /\ package = "installed"
  /\ policy' = Ensured
  /\ op' = Writing(e, Ensured)
  /\ last' = "none"
  /\ UNCHANGED <<filter, package>>

Begin ==
  /\ op = Idle
  /\ \E e \in Edits : BeginWith(e) /\ e \in Offered(Ensured)

(* writeDefaultPolicy:overrides:error: replaces the file. *)
WritePolicy ==
  /\ op.stage = "policy"
  /\ policy' = After(op.before, op.edit)
  /\ op' = Refreshing("readback", {}, op.disturbed, FALSE)
  /\ UNCHANGED <<filter, package, last>>

(* What refreshFilterWithError: gets of the policy it has just written:    *)
(* defaultPolicy and overridePolicies read it one after the other, and     *)
(* drop the error of a read that fails.                                    *)
ReadWithout(file, unread) ==
  [default |-> IF "default" \in unread THEN Disabled ELSE Settings(file).default,
   rows |-> IF "rows" \in unread THEN << >> ELSE Settings(file).rows]

(* Whatever was read, the filter is made of it and the save goes on; only  *)
(* where neither read got to the file may none be made.                    *)
ReadBack ==
  /\ op.stage = "readback"
  /\ \E unread \in SUBSET (IF "read" \in Failures THEN {"default", "rows"} ELSE {}) :
       /\ policy' \in {Ensured} \cup IF unread = {"default", "rows"} THEN {policy} ELSE {}
       /\ op' = Refreshing("filter", Bundles(ReadWithout(Ensured, unread)),
                           op.disturbed, unread # {})
  /\ UNCHANGED <<filter, package, last>>

(* What is recorded of a save: those that a package step fell into or that *)
(* could not read the policy back are reported as done and kept apart.     *)
Done(outcome) ==
  /\ op' = Idle
  /\ last' = CASE outcome = "saved" /\ op.disturbed -> "disturbed"
             [] outcome = "saved" /\ ~op.disturbed /\ op.unread -> "unread"
             [] OTHER -> outcome

(* A filter that does not exist is created atomically; one that does is    *)
(* truncated first.  Only the configured package has given the file to     *)
(* the user of the pane.                                                   *)
CreateFilter ==
  /\ op.stage = "filter"
  /\ filter = NoFilter
  /\ filter' = op.bundles
  /\ Done("saved")
  /\ UNCHANGED <<policy, package>>

TruncateFilter ==
  /\ op.stage = "filter"
  /\ filter # NoFilter
  /\ package # "unpacked"
  /\ filter' = Torn
  /\ op' = Refreshing("fill", op.bundles, op.disturbed, op.unread)
  /\ UNCHANGED <<policy, package, last>>

(* An orphan is written into a file that was replaced or deleted. *)
FillFilter ==
  /\ op.stage \in {"fill", "orphan"}
  /\ filter' = IF op.stage = "fill" THEN op.bundles ELSE filter
  /\ Done("saved")
  /\ UNCHANGED <<policy, package>>

(* A write that fails ends the save with an error and no undo, and so does *)
(* the read a save begins with; resetAllWithError: reads nothing.          *)
WriteFails ==
  /\ \/ op.stage = "policy" /\ "policy" \in Failures
     \/ op.stage = "policy" /\ "read" \in Failures /\ op.edit.kind # "reset"
     \/ op.stage \in {"filter", "fill", "orphan"} /\ "filter" \in Failures
     \/ op.stage = "filter" /\ filter # NoFilter /\ package = "unpacked"
  /\ Done("failed")
  /\ UNCHANGED <<policy, filter, package>>

(* Settings is killed in the middle of a save. *)
KillPane ==
  /\ "kill" \in Failures
  /\ op # Idle
  /\ Done("failed")
  /\ UNCHANGED <<policy, filter, package>>

Save ==
  \/ Begin \/ WritePolicy \/ ReadBack
  \/ CreateFilter \/ TruncateFilter \/ FillFilter
  \/ WriteFails \/ KillPane

-----------------------------------------------------------------------------
(* A package step in the middle of a save; a filter that is replaced or    *)
(* deleted while it is written leaves the writer with the old file.        *)
Disturb(replaced) ==
  op' = IF op = Idle THEN Idle
        ELSE [op EXCEPT !.disturbed = TRUE,
                        !.stage = IF @ = "fill" /\ replaced THEN "orphan" ELSE @]

(* dpkg unpacks the package, and with it the filter of Filter.plist, which *)
(* has no entries and is no conffile.                                      *)
Unpack ==
  /\ Lifecycle
  /\ package \in {"installed", "absent"}
  /\ package' = "unpacked"
  /\ filter' = {}
  /\ last' = IF package = "installed" /\ last = "saved" THEN "upgraded" ELSE last
  /\ Disturb(TRUE)
  /\ UNCHANGED policy

(* postinst configure: a policy that exists is kept. *)
Configure ==
  /\ package = "unpacked"
  /\ package' = "installed"
  /\ policy' = Ensured
  /\ UNCHANGED <<filter, op, last>>

(* prerm remove writes a filter without entries. *)
DisableFilter ==
  /\ Lifecycle
  /\ package = "installed"
  /\ package' = "removing"
  /\ filter' = {}
  /\ last' = "none"
  /\ Disturb(FALSE)
  /\ UNCHANGED policy

(* postrm remove deletes loader, filter and the state directories. *)
DeleteFiles ==
  /\ package = "removing"
  /\ package' = "absent"
  /\ filter' = NoFilter
  /\ policy' = Missing
  /\ last' = "none"
  /\ Disturb(TRUE)

Maintain == Unpack \/ Configure \/ DisableFilter \/ DeleteFiles

Next == Save \/ Maintain

Spec == Init /\ [][Next]_storeVars

-----------------------------------------------------------------------------
(* A file the pane has written: read and written again, it is the same. *)
Written(file) ==
  /\ \A i \in DOMAIN file : file[i].row \in Rows
  /\ file = Serialized(Settings(file))

Ops ==
  {Idle} \cup [stage : {"readback", "filter", "fill", "orphan"},
               bundles : SUBSET Entries, disturbed : BOOLEAN, unread : BOOLEAN]

TypeOK ==
  /\ policy = Missing \/ Written(policy)
  /\ filter \in (SUBSET Entries) \cup {Torn, NoFilter}
  /\ op \notin Ops =>
       /\ op.stage = "policy" /\ op.disturbed \in BOOLEAN
       /\ op.edit \in SetEdits \cup RemoveEdits \cup ReplaceEdits \cup ResetEdits
       /\ Written(op.before) /\ Written(After(op.before, op.edit))
  /\ package \in {"installed", "unpacked", "removing", "absent"}
  /\ last \in {"none", "saved", "failed", "upgraded", "disturbed", "unread"}

(* "Rewrites the filter plist from the current enabled policy set"         *)
(* (LHPreferenceStore.m:555): once a save is reported as done, an app      *)
(* starts with hooks if and only if the pane shows it enabled, whatever    *)
(* failed, tore the filter, was not read or was upgraded before that save. *)
(* Two saves are reported as done and promise less: one that could not     *)
(* read back the policy it wrote, whose filter lacks what was not read,    *)
(* and one a package step fell into.  Neither, nor any later step, hooks   *)
(* an app shown as disabled: that is HookedAsShown.                        *)
SavedMeansEffective ==
  (last = "saved" /\ op = Idle) =>
    \A a \in Configurable \ LongNamed :
      (Covered(a) /\ Hooked(a)) <=> Effective(policy, a).enabled

(* The runtime hooks an app under exactly the row the pane shows, at every *)
(* moment, even when the filter is stale and injects it by mistake: "a     *)
(* per-bundle disabled row remains effective even where the filter broadly *)
(* reaches UIKit app processes" (package-architecture.md:39).  It rests on *)
(* the order of the lines: the two parsers rank a default row differently. *)
HookedAsShown ==
  \A a \in Configurable \ LongNamed : RuntimePolicy(policy, a) = Effective(policy, a)

(* Overrides linked by a custom seed stay linked when the seed is replaced *)
(* for all of them ("All Apps Using This Seed",                            *)
(* LHPreferenceControllers.m:1005); the app on screen joins them, with a   *)
(* row of its own or with the default's; and nothing else of any app       *)
(* changes, not even of one that follows the default.                      *)
GroupMovesTogether ==
  [][(op.stage = "policy" /\ op'.stage = "readback" /\ op.edit.kind = "replace") =>
       \A a \in Configurable :
         LET was == Effective(op.before, a)
             moves == \/ a = op.edit.target
                      \/ HasRow(op.before, a) /\ Uses(was, op.edit.old)
         IN Effective(policy', a) =
              IF moves THEN [enabled |-> was.enabled, scope |-> "manual", seed |-> op.edit.new]
              ELSE was]_storeVars

(* "With default policy off, the filter contains explicitly enabled bundle *)
(* IDs" (package-architecture.md:37), and a package change "must remain    *)
(* safe across clean install, upgrade" (:60): once the upgraded package is *)
(* configured, what was saved before the upgrade is still covered.         *)
EnabledStaysCovered ==
  (last \in {"saved", "upgraded"} /\ op = Idle /\ package = "installed") =>
    \A a \in Configurable : Effective(policy, a).enabled => Covered(a)
=============================================================================
