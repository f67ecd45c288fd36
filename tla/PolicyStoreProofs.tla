------------------------- MODULE PolicyStoreProofs -------------------------
(***************************************************************************)
(* What holds of the settings for any apps, orders of bundle identifiers,  *)
(* seeds and failures, and whatever dpkg does in the middle of a save.     *)
(***************************************************************************)
EXTENDS PolicyStore, TLAPS

(* The default row is line 0, and the row of an app is at its rank: so no  *)
(* app has two lines and every one comes after the default.                *)
OrderedFile(file) ==
  /\ DOMAIN file \subseteq Nat
  /\ \A i \in DOMAIN file :
       /\ i = 0 => file[i].id = DefaultRow
       /\ i # 0 => file[i].id \in Apps /\ Rank[file[i].id] = i

(* Which fields the save in progress has. *)
StageInv ==
  /\ op.stage \in {"idle", "policy", "readback", "filter", "fill", "orphan"}
  /\ op.stage = "idle" => op = Idle
  /\ op.stage = "policy" =>
       op = [stage |-> "policy", edit |-> op.edit, before |-> op.before,
             disturbed |-> op.disturbed]
  /\ op.stage \in {"readback", "filter", "fill", "orphan"} =>
       op = Refreshing(op.stage, op.bundles, op.disturbed, op.unread) /\ op.unread \in BOOLEAN
  /\ op.stage # "idle" => op.disturbed \in BOOLEAN

OrderInv ==
  /\ OrderedFile(policy)
  /\ op.stage = "policy" => OrderedFile(After(op.before, op.edit))

(* An undisturbed save runs on an installed package and, if it could read  *)
(* the policy back, carries the filter of the policy it has written; a     *)
(* saved filter is that of the policy.                                     *)
SaveInv ==
  /\ (op.stage # "idle" /\ ~op.disturbed) =>
       package = "installed" /\ op.stage # "orphan"
  /\ (op.stage \in {"filter", "fill"} /\ ~op.disturbed /\ ~op.unread) =>
       op.bundles = Bundles(Settings(policy))
  /\ (op.stage = "idle" /\ last = "saved") =>
       package = "installed" /\ filter = Bundles(Settings(policy))

StoreInv == StageInv /\ OrderInv /\ SaveInv

-----------------------------------------------------------------------------
(* No file has no lines, and none out of order. *)
LEMMA MissingOrdered == OrderedFile(Missing)
  BY DEF OrderedFile, Missing

(* The line at the rank of an app is that of the app. *)
LEMMA RankedId ==
  ASSUME NEW settings, NEW a \in DOMAIN settings.rows, DOMAIN settings.rows \subseteq Apps
  PROVE  RankedRow(settings, Rank[a]).id = a
  <1> DEFINE b == CHOOSE c \in DOMAIN settings.rows : Rank[c] = Rank[a]
  <1>1. b \in DOMAIN settings.rows /\ Rank[b] = Rank[a]
    OBVIOUS
  <1>2. b = a
    BY <1>1, StoreAssumption DEF StoreAssumption
  <1>3. QED
    BY <1>2 DEF RankedRow

(* Whatever settings the pane writes, it writes them in order. *)
LEMMA SerializedOrdered ==
  ASSUME NEW settings, DOMAIN settings.rows \subseteq Apps
  PROVE  OrderedFile(Serialized(settings))
  <1> DEFINE lines == {0} \cup {Rank[a] : a \in DOMAIN settings.rows}
  <1>1. DOMAIN Serialized(settings) = lines
    BY DEF Serialized
  <1>2. lines \subseteq Nat
    BY StoreAssumption DEF StoreAssumption
  <1>3. Serialized(settings)[0].id = DefaultRow
    BY DEF Serialized
  <1>4. ASSUME NEW i \in lines, i # 0
        PROVE  Serialized(settings)[i].id \in Apps /\ Rank[Serialized(settings)[i].id] = i
    <2>1. PICK a \in DOMAIN settings.rows : Rank[a] = i
      BY <1>4
    <2>2. Serialized(settings)[i] = RankedRow(settings, i)
      BY <1>4 DEF Serialized
    <2>3. QED
      BY <2>1, <2>2, RankedId
  <1>5. QED
    BY <1>1, <1>2, <1>3, <1>4 DEF OrderedFile

(* A row the pane adds is the only new one. *)
LEMMA WithRowDomain ==
  ASSUME NEW d, NEW r, NEW a, NEW row
  PROVE  DOMAIN WithRow([default |-> d, rows |-> r], a, row).rows = DOMAIN r \cup {a}
  BY DEF WithRow

(* What the four kinds of edits are about. *)
LEMMA OfferedEdits ==
  ASSUME NEW file, NEW e \in Offered(file)
  PROVE  \/ e.kind = "set" /\ e.target \in Configurable \cup {DefaultRow}
         \/ e.kind = "remove" /\ e.target \in Configurable
         \/ e.kind = "replace" /\ e.target \in Configurable
         \/ e.kind = "reset"
  <1>1. e \in Edits
    BY DEF Offered, SetsOffered, Edits
  <1>2. QED
    BY <1>1 DEF Edits, SetEdits, RemoveEdits, ReplaceEdits, ResetEdits

(* Every edit leaves rows of configurable apps only. *)
LEMMA EditedRows ==
  ASSUME NEW file, NEW e \in Offered(file)
  PROVE  DOMAIN Edited(Settings(file), e).rows \subseteq Apps
  <1> DEFINE d == RowOf(file, {DefaultRow})
             r == [a \in {b \in Configurable : HasRow(file, b)} |-> RowOf(file, {a})]
  <1>1. Settings(file) = [default |-> d, rows |-> r]
    BY DEF Settings
  <1>2. DOMAIN r \subseteq Apps /\ Configurable \subseteq Apps
    BY DEF Configurable
  <1>3. CASE e.kind = "set" /\ e.target = DefaultRow
    <2>1. Edited(Settings(file), e) = [[default |-> d, rows |-> r] EXCEPT !.default = e.row]
      BY <1>1, <1>3 DEF Edited
    <2>2. [[default |-> d, rows |-> r] EXCEPT !.default = e.row].rows = r
      OBVIOUS
    <2>3. QED
      BY <2>1, <2>2, <1>2
  <1>4. CASE e.kind = "set" /\ e.target # DefaultRow
    <2>1. e.target \in Configurable
      BY <1>4, OfferedEdits
    <2>2. Edited(Settings(file), e) = WithRow([default |-> d, rows |-> r], e.target, e.row)
      BY <1>1, <1>4 DEF Edited
    <2>3. QED
      BY <2>1, <2>2, <1>2, WithRowDomain
  <1>5. CASE e.kind = "remove"
    <2>1. Edited(Settings(file), e) = WithoutRow([default |-> d, rows |-> r], e.target)
      BY <1>1, <1>5 DEF Edited
    <2>2. DOMAIN WithoutRow([default |-> d, rows |-> r], e.target).rows \subseteq DOMAIN r
      BY DEF WithoutRow
    <2>3. QED
      BY <2>1, <2>2, <1>2
  <1>6. CASE e.kind = "replace"
    <2>1. e.target \in Configurable
      BY <1>6, OfferedEdits
    <2> DEFINE linked == Relinked(r, e.old, e.new)
    <2>2. Edited(Settings(file), e) = Replaced([default |-> d, rows |-> r], e.target, e.old, e.new)
      BY <1>1, <1>6 DEF Edited
    <2>3. [[default |-> d, rows |-> r] EXCEPT
              !.rows = Relinked([default |-> d, rows |-> r].rows, e.old, e.new)]
          = [default |-> d, rows |-> linked]
      <3> HIDE DEF d, r
      <3>1. [default |-> d, rows |-> r].rows = r
        OBVIOUS
      <3> HIDE DEF linked
      <3>2. [[default |-> d, rows |-> r] EXCEPT !.rows = linked]
            = [default |-> d, rows |-> linked]
        OBVIOUS
      <3>3. QED
        BY <3>1, <3>2 DEF linked
    <2>4. Edited(Settings(file), e) =
            WithRow([default |-> d, rows |-> linked], e.target,
                    Linked(RowFor([default |-> d, rows |-> r], e.target), e.new))
      BY <2>2, <2>3 DEF Replaced
    <2>5. DOMAIN linked = DOMAIN r
      BY DEF Relinked
    <2> HIDE DEF linked, r, d
    <2>6. QED
      BY <2>1, <2>4, <2>5, <1>2, WithRowDomain
  <1>7. CASE e.kind = "reset"
    <2>1. Edited(Settings(file), e) = [default |-> Disabled, rows |-> << >>]
      BY <1>7 DEF Edited
    <2>2. QED
      BY <2>1
  <1>8. e.kind \in {"set", "remove", "replace", "reset"}
    BY OfferedEdits
  <1>9. QED
    BY <1>3, <1>4, <1>5, <1>6, <1>7, <1>8

(* The installed policy and the one a save makes are in order. *)
LEMMA FreshOrdered == OrderedFile(Fresh)
  <1>1. DOMAIN [default |-> Disabled, rows |-> << >>].rows \subseteq Apps
    OBVIOUS
  <1>2. QED
    BY <1>1, SerializedOrdered DEF Fresh

-----------------------------------------------------------------------------
(* Of a file in order, the last line for the default or an app is that of  *)
(* the app wherever it has one.                                            *)
LEMMA LastLine ==
  ASSUME NEW file, OrderedFile(file), NEW a \in Apps
  PROVE  RowOf(file, {DefaultRow, a}) = Effective(file, a)
  <1>0. DefaultRow \notin Apps
    BY StoreAssumption DEF StoreAssumption
  <1>1. CASE ~HasRow(file, a)
    <2>1. LineNumbers(file, {DefaultRow, a}) = LineNumbers(file, {DefaultRow})
      BY <1>1 DEF HasRow, LineNumbers
    <2>2. QED
      BY <1>1, <2>1 DEF Effective, RowOf
  <1>2. CASE HasRow(file, a)
    <2>1. Rank[a] \in Nat /\ Rank[a] # 0
      BY StoreAssumption DEF StoreAssumption
    <2>2. \A i \in LineNumbers(file, {a}) : i = Rank[a]
      BY <1>0 DEF LineNumbers, OrderedFile
    <2>3. LineNumbers(file, {a}) = {Rank[a]}
      BY <1>2, <2>2 DEF HasRow
    <2>4. \A i \in LineNumbers(file, {DefaultRow, a}) : i \in {0, Rank[a]}
      BY <1>0 DEF LineNumbers, OrderedFile
    <2>5. Rank[a] \in LineNumbers(file, {DefaultRow, a})
      BY <2>3 DEF LineNumbers
    <2>6. LastOf(LineNumbers(file, {a})) = Rank[a]
      BY <2>1, <2>3 DEF LastOf
    <2>7. LastOf(LineNumbers(file, {DefaultRow, a})) = Rank[a]
      <3> DEFINE numbers == LineNumbers(file, {DefaultRow, a})
                 last1 == CHOOSE i \in numbers : \A j \in numbers : j <= i
      <3>1. \A j \in numbers : j <= Rank[a]
        BY <2>1, <2>4
      <3>2. last1 \in numbers /\ Rank[a] <= last1
        BY <2>5, <3>1
      <3>3. last1 = Rank[a]
        BY <2>1, <2>4, <3>2
      <3>4. QED
        BY <3>3 DEF LastOf
    <2>8. QED
      BY <1>2, <2>3, <2>5, <2>6, <2>7 DEF Effective, RowOf
  <1>3. QED
    BY <1>1, <1>2

(* So the runtime reads the row the pane shows. *)
LEMMA ParsersAgree ==
  ASSUME OrderedFile(policy)
  PROVE  HookedAsShown
  BY LastLine DEF HookedAsShown, RuntimePolicy, Configurable

-----------------------------------------------------------------------------
(* The pane makes a policy where there is none, and keeps the one there is. *)
LEMMA EnsuredOrdered ==
  ASSUME OrderedFile(policy)
  PROVE  OrderedFile(Ensured)
  BY FreshOrdered DEF Ensured

(* Whatever a save is to write is in order. *)
LEMMA WritingOrdered ==
  ASSUME NEW file, NEW e \in Offered(file)
  PROVE  OrderedFile(After(file, e))
  BY EditedRows, SerializedOrdered DEF After

(* A package step marks the save it falls into and leaves its file alone. *)
LEMMA DisturbKeeps ==
  ASSUME StageInv, NEW replaced \in BOOLEAN, Disturb(replaced)
  PROVE  /\ StageInv'
         /\ op.stage = "idle" => op' = Idle
         /\ op.stage # "idle" => op'.stage # "idle" /\ op'.disturbed = TRUE
         /\ op'.stage = "policy" =>
              /\ op.stage = "policy"
              /\ op'.edit = op.edit /\ op'.before = op.before
         /\ op'.stage \in {"readback", "filter", "fill", "orphan"} =>
              /\ op.stage \in {"readback", "filter", "fill", "orphan"}
              /\ op'.bundles = op.bundles
  <1>1. CASE op.stage = "idle"
    <2>1. op = Idle /\ op' = Idle
      BY <1>1 DEF StageInv, Disturb
    <2>2. QED
      BY <2>1 DEF StageInv, Idle
  <1>2. CASE op.stage = "policy"
    <2>1. op # Idle
      BY <1>2 DEF Idle
    <2>2. op' = [stage |-> "policy", edit |-> op.edit, before |-> op.before,
                 disturbed |-> TRUE]
      BY <1>2, <2>1 DEF StageInv, Disturb
    <2>3. QED
      BY <1>2, <2>2 DEF StageInv
  <1>3. CASE op.stage \in {"readback", "filter", "fill", "orphan"}
    <2>1. op # Idle
      BY <1>3 DEF Idle
    <2>2. /\ op = [stage |-> op.stage, bundles |-> op.bundles, disturbed |-> op.disturbed,
                   unread |-> op.unread]
          /\ op.unread \in BOOLEAN
      BY <1>3 DEF StageInv, Refreshing
    <2>3. op' = [stage |-> IF op.stage = "fill" /\ replaced THEN "orphan" ELSE op.stage,
                 bundles |-> op.bundles, disturbed |-> TRUE, unread |-> op.unread]
      BY <2>1, <2>2 DEF Disturb
    <2>4. QED
      BY <1>3, <2>3 DEF StageInv, Refreshing
  <1>4. QED
    BY <1>1, <1>2, <1>3 DEF StageInv

(* A policy that is read in whole is the one that is there. *)
LEMMA ReadWhole ==
  ASSUME NEW file
  PROVE  ReadWithout(file, {}) = Settings(file)
  BY DEF ReadWithout, Settings

(* The installed package, before the first save. *)
LEMMA StoreInit == Init => StoreInv
  <1> SUFFICES ASSUME Init PROVE StoreInv
    OBVIOUS
  <1>1. StageInv
    BY DEF Init, Idle, StageInv
  <1>2. OrderInv
    BY FreshOrdered DEF Init, Idle, OrderInv
  <1>3. SaveInv
    BY DEF Init, Idle, SaveInv
  <1>4. QED
    BY <1>1, <1>2, <1>3 DEF StoreInv

(* Every step of a save and of the package keeps the invariant. *)
LEMMA StoreStep == StoreInv /\ [Next]_storeVars => StoreInv'
  <1> SUFFICES ASSUME StoreInv, [Next]_storeVars PROVE StoreInv'
    OBVIOUS
  <1> USE DEF StoreInv
  <1>1. CASE Begin
    <2>1. PICK e \in Offered(Ensured) : op' = Writing(e, Ensured)
      BY <1>1 DEF Begin, BeginWith
    <2>2. StageInv'
      BY <2>1 DEF StageInv, Writing
    <2>3. OrderInv'
      <3>1. After(op'.before, op'.edit) = After(Ensured, e)
        BY <2>1 DEF Writing
      <3>2. QED
        BY <1>1, <3>1, EnsuredOrdered, WritingOrdered DEF Begin, BeginWith, OrderInv
    <2>4. SaveInv'
      BY <1>1, <2>1 DEF Begin, BeginWith, Writing, SaveInv
    <2>5. QED
      BY <2>2, <2>3, <2>4
  <1>2. CASE WritePolicy
    <2>1. op'.stage = "readback" /\ op'.disturbed = op.disturbed
      BY <1>2 DEF WritePolicy, Refreshing
    <2>2. StageInv'
      BY <1>2, <2>1 DEF WritePolicy, StageInv, Refreshing
    <2>3. OrderInv'
      BY <1>2, <2>1 DEF WritePolicy, OrderInv
    <2>4. SaveInv'
      BY <1>2, <2>1 DEF WritePolicy, SaveInv
    <2>5. QED
      BY <2>2, <2>3, <2>4
  <1>3. CASE ReadBack
    <2>1. PICK unread \in SUBSET {"default", "rows"} :
            /\ policy' \in {Ensured} \cup IF unread = {"default", "rows"} THEN {policy} ELSE {}
            /\ op' = Refreshing("filter", Bundles(ReadWithout(Ensured, unread)),
                                op.disturbed, unread # {})
      BY <1>3 DEF ReadBack
    <2>2. /\ op'.stage = "filter" /\ op'.disturbed = op.disturbed
          /\ op'.unread = (unread # {})
          /\ op'.bundles = Bundles(ReadWithout(Ensured, unread))
      BY <2>1 DEF Refreshing
    <2>3. StageInv'
      <3>1. op' = Refreshing(op'.stage, op'.bundles, op'.disturbed, op'.unread)
        BY <2>1, <2>2
      <3>2. op'.unread \in BOOLEAN /\ op'.disturbed \in BOOLEAN
        BY <1>3, <2>2 DEF ReadBack, StageInv
      <3>3. QED
        BY <2>2, <3>1, <3>2 DEF StageInv
    <2>4. OrderInv'
      BY <1>3, <2>1, <2>2, EnsuredOrdered DEF OrderInv
    <2>5. ~op'.unread => op'.bundles = Bundles(Settings(policy'))
      BY <2>1, <2>2, ReadWhole
    <2>6. SaveInv'
      BY <1>3, <2>2, <2>5 DEF ReadBack, SaveInv
    <2>7. QED
      BY <2>3, <2>4, <2>6
  <1>4. CASE CreateFilter
    <2>1. op' = Idle /\ op'.stage = "idle" /\ op.stage = "filter"
      BY <1>4 DEF CreateFilter, Done, Idle
    <2>2. StageInv' /\ OrderInv'
      BY <1>4, <2>1 DEF CreateFilter, StageInv, OrderInv
    <2>3. SaveInv'
      BY <1>4, <2>1 DEF CreateFilter, Done, SaveInv
    <2>4. QED
      BY <2>2, <2>3
  <1>5. CASE TruncateFilter
    <2>1. /\ op'.stage = "fill" /\ op'.disturbed = op.disturbed
          /\ op'.bundles = op.bundles /\ op'.unread = op.unread /\ op.stage = "filter"
      BY <1>5 DEF TruncateFilter, Refreshing
    <2>2. StageInv'
      BY <1>5, <2>1 DEF TruncateFilter, StageInv, Refreshing
    <2>3. OrderInv' /\ SaveInv'
      BY <1>5, <2>1 DEF TruncateFilter, OrderInv, SaveInv
    <2>4. QED
      BY <2>2, <2>3
  <1>6. CASE FillFilter
    <2>1. op' = Idle /\ op'.stage = "idle" /\ op.stage \in {"fill", "orphan"}
      BY <1>6 DEF FillFilter, Done, Idle
    <2>2. StageInv' /\ OrderInv'
      BY <1>6, <2>1 DEF FillFilter, StageInv, OrderInv
    <2>3. SaveInv'
      BY <1>6, <2>1 DEF FillFilter, Done, SaveInv
    <2>4. QED
      BY <2>2, <2>3
  <1>7. CASE WriteFails \/ KillPane
    <2>1. /\ op' = Idle /\ op'.stage = "idle" /\ last' = "failed"
          /\ UNCHANGED <<policy, filter, package>>
      BY <1>7 DEF WriteFails, KillPane, Done, Idle
    <2>2. QED
      BY <2>1 DEF StageInv, OrderInv, SaveInv
  <1>8. CASE Unpack
    <2>1. Disturb(TRUE) /\ UNCHANGED policy
      BY <1>8 DEF Unpack
    <2>2. /\ StageInv'
          /\ op.stage = "idle" => op' = Idle
          /\ op.stage # "idle" => op'.stage # "idle" /\ op'.disturbed = TRUE
          /\ op'.stage = "policy" => op.stage = "policy" /\ op'.edit = op.edit /\ op'.before = op.before
      BY <2>1, DisturbKeeps
    <2>3. OrderInv'
      BY <2>1, <2>2 DEF OrderInv
    <2>4. SaveInv'
      BY <1>8, <2>2 DEF Unpack, SaveInv, Idle
    <2>5. QED
      BY <2>2, <2>3, <2>4
  <1>9. CASE Configure
    <2>1. OrderInv'
      BY <1>9, EnsuredOrdered DEF Configure, OrderInv
    <2>2. StageInv' /\ SaveInv'
      BY <1>9 DEF Configure, StageInv, SaveInv
    <2>3. QED
      BY <2>1, <2>2
  <1>10. CASE DisableFilter
    <2>1. Disturb(FALSE) /\ UNCHANGED policy
      BY <1>10 DEF DisableFilter
    <2>2. /\ StageInv'
          /\ op.stage = "idle" => op' = Idle
          /\ op.stage # "idle" => op'.stage # "idle" /\ op'.disturbed = TRUE
          /\ op'.stage = "policy" => op.stage = "policy" /\ op'.edit = op.edit /\ op'.before = op.before
      BY <2>1, DisturbKeeps
    <2>3. OrderInv'
      BY <2>1, <2>2 DEF OrderInv
    <2>4. SaveInv'
      BY <1>10, <2>2 DEF DisableFilter, SaveInv, Idle
    <2>5. QED
      BY <2>2, <2>3, <2>4
  <1>11. CASE DeleteFiles
    <2>1. Disturb(TRUE) /\ policy' = Missing
      BY <1>11 DEF DeleteFiles
    <2>2. /\ StageInv'
          /\ op.stage = "idle" => op' = Idle
          /\ op.stage # "idle" => op'.stage # "idle" /\ op'.disturbed = TRUE
          /\ op'.stage = "policy" => op.stage = "policy" /\ op'.edit = op.edit /\ op'.before = op.before
      BY <2>1, DisturbKeeps
    <2>3. OrderInv'
      BY <2>1, <2>2, MissingOrdered DEF OrderInv
    <2>4. SaveInv'
      BY <1>11, <2>2 DEF DeleteFiles, SaveInv, Idle
    <2>5. QED
      BY <2>2, <2>3, <2>4
  <1>12. CASE UNCHANGED storeVars
    BY <1>12 DEF storeVars, StageInv, OrderInv, SaveInv
  <1>13. QED
    BY <1>1, <1>2, <1>3, <1>4, <1>5, <1>6, <1>7, <1>8, <1>9, <1>10, <1>11, <1>12
    DEF Next, Save, Maintain

(* An app whose row is in the policy is one the filter of a save is about. *)
LEMMA SavedFilter ==
  ASSUME OrderedFile(policy), package = "installed",
         filter = Bundles(Settings(policy)), NEW a \in Configurable \ LongNamed
  PROVE  (Covered(a) /\ Hooked(a)) <=> Effective(policy, a).enabled
  <1> DEFINE settings == Settings(policy)
  <1>1. DOMAIN settings.rows = {b \in Configurable : HasRow(policy, b)}
    BY DEF Settings
  <1>2. settings.default = RowOf(policy, {DefaultRow})
    BY DEF Settings
  <1>3. ASSUME HasRow(policy, a) PROVE settings.rows[a] = Effective(policy, a)
    BY <1>3 DEF Settings, Effective
  <1>4. ~HasRow(policy, a) => Effective(policy, a) = settings.default
    BY <1>2 DEF Effective
  <1> HIDE DEF settings
  <1>5. filter \in SUBSET Entries
    BY <1>1 DEF Bundles, Entries, settings
  <1>6. Hooked(a) <=> Effective(policy, a).enabled
    <2>1. RuntimePolicy(policy, a) = Effective(policy, a)
      BY ParsersAgree DEF HookedAsShown
    <2>2. QED
      BY <2>1 DEF Hooked, Configurable
  <1>7. Covered(a) <=> a \in filter \/ UIKit \in filter
    <2>1. filter # Torn /\ filter # NoFilter
      BY <1>5, StoreAssumption DEF StoreAssumption
    <2>2. QED
      BY <2>1 DEF Covered
  <1>8. Effective(policy, a).enabled => a \in filter \/ UIKit \in filter
    <2>1. CASE settings.default.enabled
      BY <2>1 DEF Bundles, settings
    <2>2. CASE ~settings.default.enabled /\ HasRow(policy, a)
      BY <2>2, <1>1, <1>3 DEF Bundles, settings
    <2>3. CASE ~settings.default.enabled /\ ~HasRow(policy, a)
      BY <2>3, <1>4
    <2>4. QED
      BY <2>1, <2>2, <2>3
  <1>9. QED
    BY <1>6, <1>7, <1>8

-----------------------------------------------------------------------------
(* The invariant holds of every behaviour. *)
LEMMA StoreInvHolds == Spec => []StoreInv
  BY StoreInit, StoreStep, PTL DEF Spec

(* For every set of apps and order of their identifiers, the runtime finds *)
(* in the policy file exactly the row the pane shows, at every moment of a *)
(* save, an upgrade or a removal.                                          *)
THEOREM HookedAsShownHolds == Spec => []HookedAsShown
  <1>1. StoreInv => HookedAsShown
    BY ParsersAgree DEF StoreInv, OrderInv
  <1>2. QED
    BY <1>1, StoreInvHolds, PTL

(* Whatever failed, was killed, was not read or was upgraded before, a     *)
(* save reported as done that read back what it wrote, and that no package *)
(* step fell into, is in force: an app starts with hooks iff the pane      *)
(* shows it enabled.                                                       *)
THEOREM SavedMeansEffectiveHolds == Spec => []SavedMeansEffective
  <1>1. StoreInv => SavedMeansEffective
    <2> SUFFICES ASSUME StoreInv, last = "saved", op = Idle,
                        NEW a \in Configurable \ LongNamed
                 PROVE  (Covered(a) /\ Hooked(a)) <=> Effective(policy, a).enabled
      BY DEF SavedMeansEffective
    <2>1. package = "installed" /\ filter = Bundles(Settings(policy))
      BY DEF StoreInv, SaveInv, Idle
    <2>2. QED
      BY <2>1, SavedFilter DEF StoreInv, OrderInv
  <1>2. QED
    BY <1>1, StoreInvHolds, PTL

-----------------------------------------------------------------------------
(* The settings the pane can have: a default row, and rows of apps that    *)
(* may be configured.                                                      *)
AllRows == UNION {[D -> Rows] : D \in SUBSET Configurable}
AllSettings == [default : Rows, rows : AllRows]

(* A file is one of the pane's if it has written some settings to it. *)
OfPane(file) == \E settings \in AllSettings : file = Serialized(settings)

(* Rows are records of three fields. *)
LEMMA RowFields ==
  /\ Disabled \in Rows
  /\ \A row \in Rows : /\ row.enabled \in BOOLEAN
                       /\ row.scope \in {"derived", "manual"}
                       /\ row.seed \in Customs \cup {NoSeed}
                       /\ row = [enabled |-> row.enabled, scope |-> row.scope, seed |-> row.seed]
  /\ \A e \in BOOLEAN, sc \in {"derived", "manual"}, sd \in Customs \cup {NoSeed} :
       (sc = "manual" => sd # NoSeed) => [enabled |-> e, scope |-> sc, seed |-> sd] \in Rows
  BY DEF Rows, Disabled

(* Linking a row to a seed keeps the switch. *)
LEMMA LinkedFields ==
  ASSUME NEW e, NEW sc, NEW sd, NEW new
  PROVE  Linked([enabled |-> e, scope |-> sc, seed |-> sd], new)
           = [enabled |-> e, scope |-> "manual", seed |-> new]
  <1> DEFINE row == [enabled |-> e, scope |-> sc, seed |-> sd]
             linked == [[row EXCEPT !.scope = "manual"] EXCEPT !.seed = new]
  <1>1. [row EXCEPT !.scope = "manual"] = [enabled |-> e, scope |-> "manual", seed |-> sd]
    OBVIOUS
  <1>2. [[enabled |-> e, scope |-> "manual", seed |-> sd] EXCEPT !.seed = new]
          = [enabled |-> e, scope |-> "manual", seed |-> new]
    OBVIOUS
  <1>3. Linked(row, new) = linked
    BY DEF Linked
  <1> HIDE DEF row
  <1>4. QED
    BY <1>1, <1>2, <1>3 DEF row

(* The one line there is, is the last. *)
LEMMA LastOfOne ==
  ASSUME NEW n \in Nat
  PROVE  LastOf({n}) = n
  BY DEF LastOf

(* Which lines a file of the pane has, and what they say. *)
LEMMA SerializedLines ==
  ASSUME NEW settings \in AllSettings
  PROVE  LET file == Serialized(settings)
             rows == settings.rows
         IN /\ DOMAIN rows \in SUBSET Configurable
            /\ DOMAIN file = {0} \cup {Rank[a] : a \in DOMAIN rows}
            /\ file[0] = [id |-> DefaultRow, row |-> settings.default]
            /\ \A a \in DOMAIN rows : file[Rank[a]] = [id |-> a, row |-> rows[a]]
  <1> DEFINE file == Serialized(settings)
             rows == settings.rows
  <1>1. DOMAIN rows \in SUBSET Configurable
    BY DEF AllSettings, AllRows
  <1>2. DOMAIN file = {0} \cup {Rank[a] : a \in DOMAIN rows}
    BY DEF Serialized
  <1>3. file[0] = [id |-> DefaultRow, row |-> settings.default]
    BY DEF Serialized
  <1>4. ASSUME NEW a \in DOMAIN rows
        PROVE  file[Rank[a]] = [id |-> a, row |-> rows[a]]
    <2>1. a \in Apps /\ DOMAIN rows \subseteq Apps
      BY <1>1 DEF Configurable
    <2>2. Rank[a] # 0
      BY <2>1, StoreAssumption DEF StoreAssumption
    <2>3. file[Rank[a]] = RankedRow(settings, Rank[a])
      BY <2>2 DEF Serialized
    <2>4. (CHOOSE c \in DOMAIN rows : Rank[c] = Rank[a]) = a
      BY <2>1, StoreAssumption DEF StoreAssumption
    <2>5. QED
      BY <2>3, <2>4 DEF RankedRow
  <1>5. QED
    BY <1>1, <1>2, <1>3, <1>4

(* Settings that are written and read again are the same: the pane finds   *)
(* the default row and each app's row, and no others.                      *)
LEMMA RoundTrip ==
  ASSUME NEW settings \in AllSettings
  PROVE  LET file == Serialized(settings)
         IN /\ Settings(file) = settings
            /\ Effective(file, DefaultRow) = settings.default
            /\ \A a \in Configurable :
                 /\ HasRow(file, a) <=> a \in DOMAIN settings.rows
                 /\ Effective(file, a) = IF a \in DOMAIN settings.rows THEN settings.rows[a]
                                         ELSE settings.default
            /\ \A i \in DOMAIN file : file[i].row \in Rows
  <1> DEFINE file == Serialized(settings)
             rows == settings.rows
             D == DOMAIN settings.rows
  <1>1. /\ D \in SUBSET Configurable
        /\ DOMAIN file = {0} \cup {Rank[a] : a \in D}
        /\ file[0] = [id |-> DefaultRow, row |-> settings.default]
        /\ \A a \in D : file[Rank[a]] = [id |-> a, row |-> rows[a]]
    BY SerializedLines
  <1>2. /\ rows \in [D -> Rows] /\ settings.default \in Rows
        /\ settings = [default |-> settings.default, rows |-> rows]
    BY DEF AllSettings, AllRows
  <1>3. DefaultRow \notin Configurable /\ Configurable \subseteq Apps
    BY StoreAssumption DEF StoreAssumption, Configurable
  <1>4. \A a \in Configurable : Rank[a] \in Nat /\ Rank[a] # 0
    BY <1>3, StoreAssumption DEF StoreAssumption
  <1> HIDE DEF file, rows, D
  <1>5. /\ 0 \in DOMAIN file /\ file[0].id = DefaultRow /\ file[0].row = settings.default
        /\ \A a \in D : /\ Rank[a] \in DOMAIN file
                       /\ file[Rank[a]].id = a /\ file[Rank[a]].row = rows[a]
        /\ \A i \in DOMAIN file : i = 0 \/ \E a \in D : i = Rank[a]
    <2>1. 0 \in DOMAIN file /\ file[0].id = DefaultRow /\ file[0].row = settings.default
      BY <1>1
    <2>2. \A a \in D : Rank[a] \in DOMAIN file
      BY <1>1
    <2>3. ASSUME NEW a \in D
          PROVE  file[Rank[a]].id = a /\ file[Rank[a]].row = rows[a]
      <3>1. file[Rank[a]] = [id |-> a, row |-> rows[a]]
        BY <1>1
      <3>2. QED
        BY <3>1
    <2>4. \A i \in DOMAIN file : i = 0 \/ \E a \in D : i = Rank[a]
      BY <1>1
    <2>5. QED
      BY <2>1, <2>2, <2>3, <2>4
  <1>6. /\ LineNumbers(file, {DefaultRow}) = {0}
        /\ \A a \in D : LineNumbers(file, {a}) = {Rank[a]}
    BY <1>1, <1>3, <1>5 DEF LineNumbers
  <1>7. \A a \in Configurable \ D : LineNumbers(file, {a}) = {}
    BY <1>1, <1>3, <1>5 DEF LineNumbers
  <1>8. RowOf(file, {DefaultRow}) = settings.default
    BY <1>5, <1>6, LastOfOne DEF RowOf
  <1>9. \A a \in D : RowOf(file, {a}) = rows[a]
    <2> TAKE a \in D
    <2>1. Rank[a] \in Nat
      BY <1>1, <1>4
    <2>2. LastOf(LineNumbers(file, {a})) = Rank[a] /\ LineNumbers(file, {a}) # {}
      BY <1>6, <2>1, LastOfOne
    <2>3. QED
      BY <1>5, <2>2 DEF RowOf
  <1>10. \A a \in Configurable : HasRow(file, a) <=> a \in D
    BY <1>6, <1>7, <1>1 DEF HasRow
  <1>11. HasRow(file, DefaultRow)
    BY <1>6 DEF HasRow
  <1>12. Settings(file) = settings
    <2>1. {b \in Configurable : HasRow(file, b)} = D
      BY <1>1, <1>10
    <2>2. [a \in {b \in Configurable : HasRow(file, b)} |-> RowOf(file, {a})] = rows
      BY <1>2, <1>9, <2>1
    <2>3. QED
      BY <1>2, <1>8, <2>2 DEF Settings
  <1>13. \A i \in DOMAIN file : file[i].row \in Rows
    BY <1>2, <1>5
  <1>14. \A a \in Configurable : Effective(file, a) = IF a \in D THEN rows[a] ELSE settings.default
    BY <1>1, <1>8, <1>9, <1>10 DEF Effective
  <1>15. Effective(file, DefaultRow) = settings.default
    BY <1>8, <1>11 DEF Effective
  <1>16. QED
    BY <1>10, <1>12, <1>13, <1>14, <1>15 DEF file, D, rows

(* So a file of the pane is a written one, and every row in it a row.      *)
LEMMA PaneFile ==
  ASSUME NEW file, OfPane(file)
  PROVE  /\ Written(file)
         /\ Settings(file) \in AllSettings /\ file = Serialized(Settings(file))
         /\ \A t \in Configurable \cup {DefaultRow} : Effective(file, t) \in Rows
  <1>1. PICK settings \in AllSettings : file = Serialized(settings)
    BY DEF OfPane
  <1>2. Settings(file) = settings
    BY <1>1, RoundTrip
  <1>3. \A t \in Configurable \cup {DefaultRow} : Effective(file, t) \in Rows
    <2>1. settings.default \in Rows /\ \A a \in DOMAIN settings.rows : settings.rows[a] \in Rows
      BY DEF AllSettings, AllRows
    <2>2. QED
      BY <1>1, <2>1, RoundTrip
  <1>4. \A i \in DOMAIN file : file[i].row \in Rows
    BY <1>1, RoundTrip
  <1>5. QED
    BY <1>1, <1>2, <1>3, <1>4 DEF Written

(* Every edit makes settings of settings. *)
LEMMA EditedIn ==
  ASSUME NEW settings \in AllSettings, NEW e \in Edits
  PROVE  Edited(settings, e) \in AllSettings
  <1> DEFINE D == DOMAIN settings.rows
  <1>1. /\ D \in SUBSET Configurable /\ settings.rows \in [D -> Rows]
        /\ settings.default \in Rows
        /\ settings = [default |-> settings.default, rows |-> settings.rows]
    BY DEF AllSettings, AllRows
  <1>2. \A d \in Rows, E \in SUBSET Configurable : \A r \in [E -> Rows] :
          [default |-> d, rows |-> r] \in AllSettings
    BY DEF AllSettings, AllRows
  <1>3. ASSUME NEW d \in Rows, NEW E \in SUBSET Configurable, NEW r \in [E -> Rows],
               NEW a \in Configurable, NEW row \in Rows
        PROVE  WithRow([default |-> d, rows |-> r], a, row) \in AllSettings
    <2> DEFINE w == [b \in E \cup {a} |-> IF b = a THEN row ELSE r[b]]
    <2>1. w \in [E \cup {a} -> Rows]
      OBVIOUS
    <2>2. WithRow([default |-> d, rows |-> r], a, row) = [default |-> d, rows |-> w]
      BY DEF WithRow
    <2>3. E \cup {a} \in SUBSET Configurable
      OBVIOUS
    <2>4. QED
      BY <2>1, <2>2, <2>3, <1>2
  <1>4. ASSUME NEW row \in Rows, NEW new \in Customs
        PROVE  Linked(row, new) \in Rows
    <2>1. PICK on \in BOOLEAN, sc \in {"derived", "manual"}, sd \in Customs \cup {NoSeed} :
            row = [enabled |-> on, scope |-> sc, seed |-> sd]
      BY DEF Rows
    <2>2. Linked([enabled |-> on, scope |-> sc, seed |-> sd], new)
            = [enabled |-> on, scope |-> "manual", seed |-> new]
      BY LinkedFields
    <2>3. new # NoSeed
      BY StoreAssumption DEF StoreAssumption
    <2>4. QED
      BY <2>1, <2>2, <2>3 DEF Rows
  <1>5. CASE e \in SetEdits
    <2>1. e.kind = "set" /\ e.target \in Configurable \cup {DefaultRow} /\ e.row \in Rows
      BY <1>5 DEF SetEdits
    <2>2. CASE e.target = DefaultRow
      <3>1. Edited(settings, e) = [settings EXCEPT !.default = e.row]
        BY <2>1, <2>2 DEF Edited
      <3>2. QED
        BY <2>1, <3>1 DEF AllSettings
    <2>3. CASE e.target # DefaultRow
      <3>1. Edited(settings, e) = WithRow(settings, e.target, e.row)
        BY <2>1, <2>3 DEF Edited
      <3>2. QED
        BY <1>1, <1>3, <2>1, <2>3, <3>1
    <2>4. QED
      BY <2>2, <2>3
  <1>6. CASE e \in RemoveEdits
    <2> DEFINE w == [b \in D \ {e.target} |-> settings.rows[b]]
    <2>1. e.kind = "remove"
      BY <1>6 DEF RemoveEdits
    <2>2. Edited(settings, e) = [default |-> settings.default, rows |-> w]
      BY <1>1, <2>1 DEF Edited, WithoutRow
    <2>3. w \in [D \ {e.target} -> Rows] /\ D \ {e.target} \in SUBSET Configurable
      BY <1>1
    <2>4. QED
      BY <1>1, <1>2, <2>2, <2>3
  <1>7. CASE e \in ReplaceEdits
    <2> DEFINE w == Relinked(settings.rows, e.old, e.new)
               linked == Linked(RowFor(settings, e.target), e.new)
    <2>1. /\ e.kind = "replace" /\ e.target \in Configurable
          /\ e.old \in Customs /\ e.new \in Customs
      BY <1>7 DEF ReplaceEdits
    <2>2. w \in [D -> Rows]
      BY <1>1, <1>4, <2>1 DEF Relinked
    <2>3. linked \in Rows
      BY <1>1, <1>4, <2>1 DEF RowFor
    <2>4. [settings EXCEPT !.rows = w] = [default |-> settings.default, rows |-> w]
      BY <1>1
    <2>5. Edited(settings, e) = WithRow([default |-> settings.default, rows |-> w], e.target, linked)
      BY <2>1, <2>4 DEF Edited, Replaced
    <2> HIDE DEF w, linked
    <2>6. QED
      BY <1>1, <1>3, <2>1, <2>2, <2>3, <2>5
  <1>8. CASE e \in ResetEdits
    <2>1. Edited(settings, e) = [default |-> Disabled, rows |-> << >>]
      BY <1>8 DEF ResetEdits, Edited
    <2>2. << >> \in [{} -> Rows] /\ {} \in SUBSET Configurable
      OBVIOUS
    <2>3. << >> \in AllRows
      BY <2>2 DEF AllRows
    <2>4. QED
      BY <2>1, <2>3, RowFields DEF AllSettings
  <1>9. QED
    BY <1>5, <1>6, <1>7, <1>8 DEF Edits

-----------------------------------------------------------------------------
(* The policy is the pane's, or there is none; so are the file a save has  *)
(* read and the one it is to write, and the entries it has in hand.        *)
FileInv ==
  /\ policy = Missing \/ OfPane(policy)
  /\ filter \in (SUBSET Entries) \cup {Torn, NoFilter}
  /\ op.stage = "policy" =>
       /\ OfPane(op.before) /\ op.edit \in Edits
  /\ op.stage \in {"readback", "filter", "fill", "orphan"} => op.bundles \in SUBSET Entries
  /\ package \in {"installed", "unpacked", "removing", "absent"}
  /\ last \in {"none", "saved", "failed", "upgraded", "disturbed", "unread"}

(* The policy the package comes with is one the pane could have written. *)
LEMMA FreshOfPane == OfPane(Fresh)
  <1>1. << >> \in [{} -> Rows] /\ {} \in SUBSET Configurable
    OBVIOUS
  <1>2. << >> \in AllRows
    BY <1>1 DEF AllRows
  <1>3. [default |-> Disabled, rows |-> << >>] \in AllSettings
    BY <1>2, RowFields DEF AllSettings
  <1>4. QED
    BY <1>3 DEF OfPane, Fresh

(* So a file that is made where there was none is one of the pane. *)
LEMMA EnsuredOfPane ==
  ASSUME policy = Missing \/ OfPane(policy)
  PROVE  OfPane(Ensured)
  BY FreshOfPane DEF Ensured

(* What an edit makes of a file of the pane is one too. *)
LEMMA AfterOfPane ==
  ASSUME NEW file, OfPane(file), NEW e \in Edits
  PROVE  OfPane(After(file, e))
  <1>1. Settings(file) \in AllSettings
    BY PaneFile
  <1>2. Edited(Settings(file), e) \in AllSettings
    BY <1>1, EditedIn
  <1>3. QED
    BY <1>2 DEF OfPane, After

(* The entries for a file of the pane are apps and the one for all, and no *)
(* others however little of it was read.                                   *)
LEMMA BundlesIn ==
  ASSUME NEW file, OfPane(file), NEW unread
  PROVE  Bundles(ReadWithout(file, unread)) \in SUBSET Entries
  <1>1. DOMAIN Settings(file).rows \subseteq Configurable
    BY DEF Settings
  <1>2. DOMAIN ReadWithout(file, unread).rows \subseteq Configurable
    BY <1>1 DEF ReadWithout
  <1>3. QED
    BY <1>2 DEF Bundles, Entries

(* The files of the package are valid ones. *)
LEMMA FileInit == Init => FileInv
  <1> SUFFICES ASSUME Init PROVE FileInv
    OBVIOUS
  <1>1. op.stage = "idle"
    BY DEF Init, Idle
  <1>2. QED
    BY <1>1, FreshOfPane DEF Init, FileInv

(* A save started with a valid edit keeps all files valid. *)
LEMMA BeginFile ==
  ASSUME FileInv, NEW e \in Edits, BeginWith(e)
  PROVE  FileInv'
  <1>1. OfPane(Ensured)
    BY EnsuredOfPane DEF FileInv
  <1>2. /\ op'.stage = "policy" /\ op'.edit = e /\ op'.before = Ensured
    BY DEF BeginWith, Writing
  <1>3. QED
    BY <1>1, <1>2 DEF BeginWith, FileInv

(* Each of the other steps of a save and of the package does, too. *)
LEMMA FileStep == StoreInv /\ FileInv /\ [Next]_storeVars => FileInv'
  <1> SUFFICES ASSUME StoreInv, FileInv, [Next]_storeVars PROVE FileInv'
    OBVIOUS
  <1>0. StageInv
    BY DEF StoreInv
  <1>1. CASE Begin
    <2>1. OfPane(Ensured)
      BY EnsuredOfPane DEF FileInv
    <2>2. PICK e \in Edits : BeginWith(e)
      BY <1>1 DEF Begin
    <2>3. QED
      BY <2>1, <2>2, BeginFile
  <1>2. CASE WritePolicy
    <2>1. OfPane(After(op.before, op.edit))
      BY <1>2, AfterOfPane DEF WritePolicy, FileInv
    <2>2. op'.stage = "readback" /\ op'.bundles = {}
      BY <1>2 DEF WritePolicy, Refreshing
    <2>3. QED
      BY <1>2, <2>1, <2>2 DEF WritePolicy, FileInv
  <1>3. CASE ReadBack
    <2>1. OfPane(Ensured)
      BY EnsuredOfPane DEF FileInv
    <2>2. PICK unread \in SUBSET {"default", "rows"} :
            /\ policy' \in {Ensured} \cup IF unread = {"default", "rows"} THEN {policy} ELSE {}
            /\ op' = Refreshing("filter", Bundles(ReadWithout(Ensured, unread)),
                                op.disturbed, unread # {})
      BY <1>3 DEF ReadBack
    <2>3. op'.stage = "filter" /\ op'.bundles = Bundles(ReadWithout(Ensured, unread))
      BY <2>2 DEF Refreshing
    <2>4. policy' = policy \/ policy' = Ensured
      BY <2>2
    <2>5. UNCHANGED <<filter, package, last>>
      BY <1>3 DEF ReadBack
    <2>6. op'.bundles \in SUBSET Entries
      BY <2>1, <2>3, BundlesIn
    <2>7. QED
      BY <2>1, <2>3, <2>4, <2>5, <2>6 DEF FileInv
  <1>4. CASE CreateFilter \/ FillFilter \/ WriteFails \/ KillPane
    <2>1. op'.stage = "idle" /\ UNCHANGED <<policy, package>>
      BY <1>4 DEF CreateFilter, FillFilter, WriteFails, KillPane, Done, Idle
    <2>2. filter' \in (SUBSET Entries) \cup {Torn, NoFilter}
      BY <1>4 DEF CreateFilter, FillFilter, WriteFails, KillPane, FileInv
    <2>3. last' \in {"none", "saved", "failed", "upgraded", "disturbed", "unread"}
      BY <1>4 DEF CreateFilter, FillFilter, WriteFails, KillPane, Done
    <2>4. QED
      BY <2>1, <2>2, <2>3 DEF FileInv
  <1>5. CASE TruncateFilter
    <2>1. op'.stage = "fill" /\ op'.bundles = op.bundles
      BY <1>5 DEF TruncateFilter, Refreshing
    <2>2. op.bundles \in SUBSET Entries
      BY <1>5 DEF TruncateFilter, FileInv
    <2>3. UNCHANGED <<policy, package, last>> /\ filter' = Torn
      BY <1>5 DEF TruncateFilter
    <2>4. QED
      BY <2>1, <2>2, <2>3 DEF FileInv
  <1>6. CASE Unpack \/ DisableFilter \/ DeleteFiles
    <2>1. PICK replaced \in BOOLEAN : Disturb(replaced)
      BY <1>6 DEF Unpack, DisableFilter, DeleteFiles
    <2>2. /\ op'.stage = "policy" =>
               /\ op.stage = "policy"
               /\ op'.edit = op.edit /\ op'.before = op.before
          /\ op'.stage \in {"readback", "filter", "fill", "orphan"} =>
               /\ op.stage \in {"readback", "filter", "fill", "orphan"}
               /\ op'.bundles = op.bundles
      BY <1>0, <2>1, DisturbKeeps
    <2>3. /\ policy' = Missing \/ OfPane(policy')
          /\ filter' \in (SUBSET Entries) \cup {Torn, NoFilter}
      <3>1. policy' = policy \/ policy' = Missing
        BY <1>6 DEF Unpack, DisableFilter, DeleteFiles
      <3>2. filter' = {} \/ filter' = NoFilter
        BY <1>6 DEF Unpack, DisableFilter, DeleteFiles
      <3>3. QED
        BY <3>1, <3>2 DEF FileInv
    <2>4. /\ package' \in {"installed", "unpacked", "removing", "absent"}
          /\ last' \in {"none", "saved", "failed", "upgraded", "disturbed", "unread"}
      BY <1>6 DEF Unpack, DisableFilter, DeleteFiles, FileInv
    <2>5. QED
      BY <2>2, <2>3, <2>4 DEF FileInv
  <1>7. CASE Configure
    <2>1. OfPane(Ensured)
      BY EnsuredOfPane DEF FileInv
    <2>2. QED
      BY <1>7, <2>1 DEF Configure, FileInv
  <1>8. CASE UNCHANGED storeVars
    BY <1>8 DEF storeVars, FileInv
  <1>9. QED
    BY <1>1, <1>2, <1>3, <1>4, <1>5, <1>6, <1>7, <1>8 DEF Next, Save, Maintain

(* Both invariants hold, whatever happens to the files. *)
LEMMA FilesHold == Spec => [](StoreInv /\ FileInv)
  <1>1. Init => StoreInv /\ FileInv
    BY StoreInit, FileInit
  <1>2. StoreInv /\ FileInv /\ [Next]_storeVars => (StoreInv /\ FileInv)'
    BY StoreStep, FileStep
  <1>3. QED
    BY <1>1, <1>2, PTL DEF Spec

(* What is kept says what the files and the save in progress are. *)
LEMMA FileInvTypes == StageInv /\ FileInv => TypeOK
  <1> SUFFICES ASSUME StageInv, FileInv PROVE TypeOK
    OBVIOUS
  <1>1. policy = Missing \/ Written(policy)
    BY PaneFile DEF FileInv
  <1>2. CASE op.stage = "idle"
    <2>1. op \in Ops
      BY <1>2 DEF StageInv, Ops
    <2>2. QED
      BY <1>1, <2>1 DEF FileInv, TypeOK
  <1>3. CASE op.stage = "policy"
    <2>1. Written(op.before)
      BY <1>3, PaneFile DEF FileInv
    <2>2. Written(After(op.before, op.edit))
      BY <1>3, AfterOfPane, PaneFile DEF FileInv
    <2>3. op.disturbed \in BOOLEAN
      BY <1>3 DEF StageInv
    <2>4. QED
      BY <1>1, <1>3, <2>1, <2>2, <2>3 DEF FileInv, TypeOK, Edits
  <1>4. CASE op.stage \in {"readback", "filter", "fill", "orphan"}
    <2>1. /\ op = [stage |-> op.stage, bundles |-> op.bundles, disturbed |-> op.disturbed,
                   unread |-> op.unread]
          /\ op.disturbed \in BOOLEAN /\ op.unread \in BOOLEAN /\ op.bundles \in SUBSET Entries
      BY <1>4 DEF StageInv, FileInv, Refreshing
    <2>2. op \in Ops
      BY <1>4, <2>1 DEF Ops
    <2>3. QED
      BY <1>1, <2>2 DEF FileInv, TypeOK
  <1>5. QED
    BY <1>2, <1>3, <1>4 DEF StageInv

(* Whatever is saved, fails or is upgraded, the policy is a file that reads *)
(* back as it was written, with rows that validatePolicy:error: accepts.    *)
THEOREM StoreTypeCorrect == Spec => []TypeOK
  <1>1. StoreInv /\ FileInv => TypeOK
    BY FileInvTypes DEF StoreInv
  <1>2. QED
    BY <1>1, FilesHold, PTL

-----------------------------------------------------------------------------
(* Only the step that writes the policy comes from it to reading it back.  *)
LEMMA OnlyWrites ==
  ASSUME StageInv, [Next]_storeVars, op.stage = "policy", op'.stage = "readback"
  PROVE  WritePolicy
  <1>1. ~Begin
    BY DEF Begin, BeginWith, Writing
  <1>2. ~(CreateFilter \/ FillFilter \/ WriteFails \/ KillPane)
    BY DEF CreateFilter, FillFilter, WriteFails, KillPane, Done, Idle
  <1>3. ~(ReadBack \/ TruncateFilter)
    BY DEF ReadBack, TruncateFilter
  <1>4. ~(Unpack \/ DisableFilter \/ DeleteFiles)
    <2>1. SUFFICES ASSUME NEW replaced \in BOOLEAN, Disturb(replaced) PROVE FALSE
      BY DEF Unpack, DisableFilter, DeleteFiles
    <2>2. QED
      BY <2>1, DisturbKeeps
  <1>5. ~Configure /\ ~UNCHANGED storeVars
    BY DEF Configure, storeVars
  <1>6. QED
    BY <1>1, <1>2, <1>3, <1>4, <1>5 DEF Next, Save, Maintain

(* What the replacing of a seed makes of the row of an app, of its own or  *)
(* of the default.                                                         *)
LEMMA ReplacedRows ==
  ASSUME NEW settings \in AllSettings, NEW e \in ReplaceEdits, NEW a \in Configurable
  PROVE  LET was == RowFor(settings, a)
             moves == a = e.target \/ (a \in DOMAIN settings.rows /\ Uses(was, e.old))
         IN RowFor(Edited(settings, e), a) =
              IF moves THEN [enabled |-> was.enabled, scope |-> "manual", seed |-> e.new]
              ELSE was
  <1> DEFINE rows == settings.rows
             w == Relinked(rows, e.old, e.new)
             linked == Linked(RowFor(settings, e.target), e.new)
             D == DOMAIN rows
             after == [b \in D \cup {e.target} |-> IF b = e.target THEN linked ELSE w[b]]
  <1>1. /\ settings = [default |-> settings.default, rows |-> rows]
        /\ \A b \in D : rows[b] \in Rows
        /\ settings.default \in Rows
    BY DEF AllSettings, AllRows
  <1>2. e.kind = "replace"
    BY DEF ReplaceEdits
  <1>3. [settings EXCEPT !.rows = w] = [default |-> settings.default, rows |-> w]
    BY <1>1
  <1>4. Edited(settings, e) = WithRow([default |-> settings.default, rows |-> w], e.target, linked)
    BY <1>2, <1>3 DEF Edited, Replaced
  <1>5. D = DOMAIN w
    BY DEF Relinked
  <1>6. ASSUME NEW row \in Rows
        PROVE  Linked(row, e.new) = [enabled |-> row.enabled, scope |-> "manual", seed |-> e.new]
    <2>1. PICK en \in BOOLEAN, sc \in {"derived", "manual"}, sd \in Customs \cup {NoSeed} :
            row = [enabled |-> en, scope |-> sc, seed |-> sd]
      BY DEF Rows
    <2>2. Linked([enabled |-> en, scope |-> sc, seed |-> sd], e.new)
            = [enabled |-> en, scope |-> "manual", seed |-> e.new]
      BY LinkedFields
    <2>3. QED
      BY <2>1, <2>2
  <1>7. /\ RowFor(settings, e.target) \in Rows
        /\ RowFor(settings, a) = IF a \in D THEN rows[a] ELSE settings.default
    BY <1>1 DEF RowFor
  <1>8. linked = [enabled |-> RowFor(settings, e.target).enabled, scope |-> "manual",
                  seed |-> e.new]
    BY <1>6, <1>7
  <1>9. ASSUME a \in D
        PROVE  w[a] = IF Uses(rows[a], e.old)
                      THEN [enabled |-> rows[a].enabled, scope |-> "manual", seed |-> e.new]
                      ELSE rows[a]
    BY <1>1, <1>6, <1>9 DEF Relinked
  <1> HIDE DEF w, linked
  <1>10. WithRow([default |-> settings.default, rows |-> w], e.target, linked)
          = [default |-> settings.default, rows |-> after]
    BY <1>5 DEF WithRow
  <1>11. RowFor(Edited(settings, e), a)
           = IF a \in D \cup {e.target} THEN after[a] ELSE settings.default
    BY <1>4, <1>10 DEF RowFor
  <1>12. CASE a = e.target
    <2>1. RowFor(Edited(settings, e), a) = linked
      BY <1>11, <1>12
    <2>2. QED
      BY <1>8, <1>12, <2>1
  <1>13. CASE a # e.target /\ a \in D
    BY <1>7, <1>9, <1>11, <1>13
  <1>14. CASE a # e.target /\ a \notin D
    BY <1>7, <1>11, <1>14
  <1>15. QED
    BY <1>12, <1>13, <1>14

(* What the pane shows of an app is its row of the settings, or the        *)
(* default's.                                                              *)
LEMMA ShownRow ==
  ASSUME NEW settings \in AllSettings, NEW a \in Configurable
  PROVE  /\ Effective(Serialized(settings), a) = RowFor(settings, a)
         /\ HasRow(Serialized(settings), a) <=> a \in DOMAIN settings.rows
  BY RoundTrip DEF RowFor

(* For any number of linked apps: the seed of a group changes in all of    *)
(* them at once and in the app on screen, and nothing else of any app.     *)
THEOREM GroupsMoveTogether == Spec => GroupMovesTogether
  <1>1. StoreInv /\ FileInv /\ [Next]_storeVars =>
          [(op.stage = "policy" /\ op'.stage = "readback" /\ op.edit.kind = "replace") =>
             \A a \in Configurable :
               LET was == Effective(op.before, a)
                   moves == \/ a = op.edit.target
                            \/ HasRow(op.before, a) /\ Uses(was, op.edit.old)
               IN Effective(policy', a) =
                    IF moves
                    THEN [enabled |-> was.enabled, scope |-> "manual", seed |-> op.edit.new]
                    ELSE was]_storeVars
    <2> SUFFICES ASSUME StoreInv, FileInv, [Next]_storeVars,
                        op.stage = "policy", op'.stage = "readback", op.edit.kind = "replace",
                        NEW a \in Configurable
                 PROVE  LET was == Effective(op.before, a)
                            moves == \/ a = op.edit.target
                                     \/ HasRow(op.before, a) /\ Uses(was, op.edit.old)
                        IN Effective(policy', a) =
                             IF moves
                             THEN [enabled |-> was.enabled, scope |-> "manual", seed |-> op.edit.new]
                             ELSE was
      OBVIOUS
    <2> DEFINE settings == Settings(op.before)
               e == op.edit
    <2>1. policy' = After(op.before, op.edit)
      BY OnlyWrites DEF StoreInv, WritePolicy
    <2>2. e \in ReplaceEdits
      BY DEF FileInv, Edits, SetEdits, RemoveEdits, ResetEdits
    <2>3. settings \in AllSettings /\ op.before = Serialized(settings)
      BY PaneFile DEF FileInv
    <2>4. /\ Effective(op.before, a) = RowFor(settings, a)
          /\ HasRow(op.before, a) <=> a \in DOMAIN settings.rows
      BY <2>3, ShownRow
    <2>5. policy' = Serialized(Edited(settings, e))
      BY <2>1 DEF After
    <2>6. Edited(settings, e) \in AllSettings
      BY <2>2, <2>3, EditedIn DEF Edits
    <2>7. Effective(policy', a) = RowFor(Edited(settings, e), a)
      BY <2>5, <2>6, ShownRow
    <2> DEFINE was == RowFor(settings, a)
               moved == [enabled |-> was.enabled, scope |-> "manual", seed |-> e.new]
    <2>8. RowFor(Edited(settings, e), a) =
            IF a = e.target \/ (a \in DOMAIN settings.rows /\ Uses(was, e.old))
            THEN moved ELSE was
      BY <2>2, <2>3, ReplacedRows
    <2>9. Effective(op.before, a) = was
      BY <2>4
    <2> HIDE DEF settings, was
    <2>10. QED
      BY <2>4, <2>7, <2>8, <2>9
  <1>2. QED
    BY <1>1, FilesHold, PTL DEF Spec, GroupMovesTogether
=============================================================================
