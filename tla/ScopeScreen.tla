---------------------------- MODULE ScopeScreen ----------------------------
(***************************************************************************)
(* The scope screen of an app or of the default profile                    *)
(* (LHScopeSelectionController, LHPreferenceControllers.m).  It keeps a    *)
(* draft of the custom seed beside the stored row and the row it was       *)
(* opened with, writes through the store of PolicyStore, and settles the   *)
(* draft when it is left.  Handlers run to their end on the main thread,   *)
(* so the save of one is done, or has failed, before the next event; every *)
(* read they make of the policy may fail, and then gives another row.      *)
(***************************************************************************)
EXTENDS PolicyStore

CONSTANT Screens   \* the targets whose scope screen is opened

VARIABLE screen   \* "closed"; "open" on a target; or "left", for the history

screenVars == <<policy, filter, op, package, last, screen>>

Targets == Configurable \cup {DefaultRow}
Drafts == Customs \cup {NoSeed}   \* NoSeed: a text that is no UUID

ASSUME ScreensAssumption == Screens \subseteq Targets

Closed == [stage |-> "closed"]

(* cell: the cell of the custom seed is on screen.  applied is the draft   *)
(* once the save in progress succeeds; back: that save is one of the list  *)
(* of seeds, and the screen is drafted anew when it comes back from it.    *)
(* misread is history: a read the screen has acted on has failed, and gave *)
(* another row than the stored one.                                        *)
Opened(target, entry, draft, cell, misread) ==
  [stage |-> "open", target |-> target, entry |-> entry, draft |-> draft,
   applied |-> draft, cell |-> cell, back |-> FALSE, misread |-> misread]

(* The row shown, or said to be restored, when the screen was left.        *)
Left(target, row, misread) ==
  [stage |-> "left", target |-> target, row |-> row, misread |-> misread]

(* effectivePolicyForBundleIdentifier: and defaultPolicy drop the errors   *)
(* of their reads: an app whose rows cannot be read is taken to follow the *)
(* default, and a default that cannot be read to be off.                   *)
ReadAs(file, t) ==
  {Effective(file, t)}
    \cup IF "read" \in Failures THEN {RowOf(file, {DefaultRow}), Disabled} ELSE {}

Stored == Effective(Ensured, screen.target)
Shown == ReadAs(Ensured, screen.target)    \* what [self policy] may give
Misread(rows) == screen.misread \/ rows # {Stored}
IsManual(row) == row.scope = "manual"
Manual(row, seed) == [row EXCEPT !.scope = "manual", !.seed = seed]
SetRow(row) == [kind |-> "set", target |-> screen.target, row |-> row]

Ready == screen.stage = "open" /\ op = Idle
OnManual == Ready /\ screen.cell

ScreenInit == Init /\ screen = Closed

-----------------------------------------------------------------------------
(* viewDidLoad keeps the row, viewWillAppear: drafts its seed and lists    *)
(* the cells: three reads.                                                 *)
Open(target) ==
  /\ screen.stage # "open"
  /\ op = Idle
  /\ package = "installed"
  /\ policy' = Ensured
  /\ \E entry, drafted, listed \in ReadAs(Ensured, target) :
       screen' = Opened(target, entry, drafted.seed, IsManual(listed),
                        entry # Effective(Ensured, target))
  /\ UNCHANGED <<filter, op, package, last>>

(* selectScope: of one of the derived scopes keeps seed and draft. *)
SelectDerived ==
  /\ Ready
  /\ \E row \in Shown :
       /\ BeginWith(SetRow([row EXCEPT !.scope = "derived"]))
       /\ screen' = [screen EXCEPT !.applied = screen.draft, !.misread = Misread({row})]

MutantSelectManual ==
  /\ Ready
  /\ \E row \in Shown :
       /\ BeginWith(SetRow(Manual(row, screen.draft)))
       /\ screen' = [screen EXCEPT !.applied = screen.draft, !.misread = Misread({row})]

(* selectScope: of the manual one takes the draft, or draws a seed, and    *)
(* drafts it before it writes.                                             *)
SelectManual ==
  /\ Ready
  /\ \E row \in Shown, seed \in IF screen.draft = NoSeed THEN Customs ELSE {screen.draft} :
       /\ BeginWith(SetRow(Manual(row, seed)))
       /\ screen' = [screen EXCEPT !.draft = seed, !.applied = seed, !.misread = Misread({row})]

(* customSeedTextChanged: *)
Type(draft) ==
  /\ OnManual
  /\ screen' = [screen EXCEPT !.draft = draft, !.applied = draft]
  /\ UNCHANGED storeVars

(* applyCustomSeed:updateAssociatedBundles:NO *)
ApplySeed(seed) ==
  \E row \in Shown :
    /\ BeginWith(SetRow(Manual(row, seed)))
    /\ screen' = [screen EXCEPT !.applied = seed, !.misread = Misread({row})]

(* customSeedEditingDidEnd: of a text that is a UUID. *)
EditingEnds ==
  /\ OnManual
  /\ screen.draft # NoSeed
  /\ ApplySeed(screen.draft)

OthersUse == screen.target # DefaultRow /\ Associated(Settings(Ensured), screen.target, screen.draft)

(* randomizeCustomSeed: at once, or "Only This App". *)
Randomize ==
  /\ OnManual
  /\ \E seed \in Customs : ApplySeed(seed)

(* "All Apps Using This Seed": those that use the draft, stored or not. *)
RandomizeAll ==
  /\ OnManual
  /\ screen.draft # NoSeed
  /\ OthersUse
  /\ \E seed \in Customs :
       /\ BeginWith([kind |-> "replace", target |-> screen.target,
                     old |-> screen.draft, new |-> seed])
       /\ screen' = [screen EXCEPT !.applied = seed]

(* The list of existing seeds copies the seed of another override, and the *)
(* screen comes back from it whether that was saved or not.                *)
ChooseExisting ==
  /\ OnManual
  /\ screen.target # DefaultRow
  /\ \E row \in Shown, seed \in Customs :
       /\ Associated(Settings(Ensured), screen.target, seed)
       /\ BeginWith(SetRow(Manual(row, seed)))
       /\ screen' = [screen EXCEPT !.back = TRUE, !.misread = Misread({row})]

(* viewWillAppear: again, after the list. *)
Redrafted(drafted, listed) ==
  [screen EXCEPT !.draft = drafted.seed, !.applied = drafted.seed,
                 !.cell = IsManual(listed), !.back = FALSE]

ComeBack ==
  /\ OnManual
  /\ screen.target # DefaultRow
  /\ \E drafted, listed \in Shown : screen' = Redrafted(drafted, listed)
  /\ UNCHANGED storeVars

-----------------------------------------------------------------------------
(* commitCustomSeedBeforeLeaving, in its three outcomes; the error of the  *)
(* last write is dropped and the message is shown all the same.            *)
LeaveDerived ==
  /\ Ready
  /\ \E row \in Shown :
       /\ ~IsManual(row)
       /\ screen' = Left(screen.target, row, Misread({row}))
  /\ UNCHANGED storeVars

MutantLeaveApplying ==
  /\ Ready
  /\ screen.draft # NoSeed
  /\ \E row, base \in Shown :
       /\ IsManual(row)
       /\ BeginWith(SetRow(base))
       /\ screen' = Left(screen.target, Manual(base, screen.draft), Misread({row, base}))

(* Two reads: of the scope, and in applyCustomSeed:. *)
LeaveApplying ==
  /\ Ready
  /\ screen.draft # NoSeed
  /\ \E row, base \in Shown :
       /\ IsManual(row)
       /\ BeginWith(SetRow(Manual(base, screen.draft)))
       /\ screen' = Left(screen.target, Manual(base, screen.draft), Misread({row, base}))

LeaveRestoring ==
  /\ Ready
  /\ screen.draft = NoSeed
  /\ \E row \in Shown :
       /\ IsManual(row)
       /\ BeginWith(SetRow(screen.entry))
       /\ screen' = Left(screen.target, screen.entry, Misread({row}))

(* A handler whose save failed keeps draft and cells; one whose save       *)
(* succeeded lists the cells again.                                        *)
Settled(drafted, listed, failed) ==
  CASE screen.back -> Redrafted(drafted, listed)
    [] ~screen.back /\ failed -> [screen EXCEPT !.applied = screen.draft]
    [] ~screen.back /\ ~failed ->
         [screen EXCEPT !.draft = screen.applied, !.cell = IsManual(listed)]

Saving ==
  /\ WritePolicy \/ ReadBack \/ CreateFilter \/ TruncateFilter \/ FillFilter \/ WriteFails
  /\ IF screen.stage = "open" /\ op' = Idle
     THEN \E drafted, listed \in Shown : screen' = Settled(drafted, listed, last' = "failed")
     ELSE screen' = screen

(* Settings is killed, in a save or with a draft on screen. *)
Killed ==
  /\ screen' = Closed
  /\ \/ KillPane
     \/ /\ "kill" \in Failures
        /\ op = Idle /\ screen.stage = "open"
        /\ UNCHANGED storeVars

(* The edits of the screens above; they are out of reach while this one is *)
(* open.                                                                   *)
Elsewhere(file) ==
  {e \in Offered(file) :
     e.kind = "set" =>
       \E row \in ReadAs(file, e.target) : e.row \in Toggled(row)} \ ReplaceEdits

EditElsewhere ==
  /\ screen.stage # "open"
  /\ \E e \in Elsewhere(Ensured) : BeginWith(e)
  /\ screen' = Closed

Handler ==
  \/ SelectDerived \/ SelectManual \/ EditingEnds \/ Randomize \/ RandomizeAll
  \/ ChooseExisting \/ ComeBack \/ LeaveDerived \/ LeaveApplying \/ LeaveRestoring
  \/ \E draft \in Drafts : Type(draft)

ScreenNext ==
  \/ \E target \in Screens : Open(target)
  \/ Handler \/ Saving \/ Killed \/ EditElsewhere

ScreenSpec == ScreenInit /\ [][ScreenNext]_screenVars

-----------------------------------------------------------------------------
ScreenOK ==
  \/ screen = Closed
  \/ /\ screen.stage = "open"
     /\ screen \in [stage : {"open"}, target : Targets, entry : Rows, draft : Drafts,
                    applied : Drafts, cell : BOOLEAN, back : BOOLEAN, misread : BOOLEAN]
  \/ /\ screen.stage = "left"
     /\ screen \in [stage : {"left"}, target : Targets, row : Rows, misread : BOOLEAN]

(* Whatever draft is typed, dropped, drawn or restored, and whatever reads *)
(* fail, the screen makes no save but those PolicyStore knows: so what is  *)
(* proved of the store holds with it, and no row is written that           *)
(* validatePolicy:error: refuses.                                          *)
ImplementsPolicyStore == Init /\ [][Next]_storeVars

(* What the screen showed when it was left is what is stored, unless a     *)
(* write failed: a draft typed and never applied by itself, the restored   *)
(* row, or a derived scope (commitCustomSeedBeforeLeaving).  A screen that *)
(* was given another row than the stored one by a failed read is excepted: *)
(* it may drop the draft, or restore a row the app never had.              *)
LeftAsShown ==
  (screen.stage = "left" /\ ~screen.misread /\ op = Idle /\ last # "failed") =>
    Effective(policy, screen.target) = screen.row

(* "Scope controls which apps share the same generated replacement values" *)
(* (LHPreferenceControllers.m:841): no step of the screen, the change of a *)
(* whole group or a restored row included, turns an app on or off, as long *)
(* as the rows it copies were read.                                        *)
ScopeKeepsSwitches ==
  [][(screen.stage # "closed" /\ ~screen.misread /\ op.stage = "policy" /\ op'.stage = "readback") =>
       \A a \in Configurable : Effective(policy', a).enabled = Effective(policy, a).enabled]_screenVars
=============================================================================
