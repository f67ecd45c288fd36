------------------------- MODULE ScopeScreenProofs -------------------------
(***************************************************************************)
(* The scope screen makes no save but those the store knows, for any apps, *)
(* seeds and order of events on the screen.                                *)
(***************************************************************************)
EXTENDS ScopeScreen, PolicyStoreProofs

(* The screens that are open, and those that were left. *)
OpenScreens ==
  [stage : {"open"}, target : Targets, entry : Rows, draft : Drafts,
   applied : Drafts, cell : BOOLEAN, back : BOOLEAN, misread : BOOLEAN]
LeftScreens == [stage : {"left"}, target : Targets, row : Rows, misread : BOOLEAN]

(* Only where reads fail does the screen act on one that has failed.       *)
ReadInv == (screen.stage # "closed" /\ screen.misread) => "read" \in Failures

(* While no read has failed, the row to restore has the switch of the      *)
(* stored one, and what a save of the screen is to write has all switches  *)
(* as they are.                                                            *)
SwitchInv ==
  /\ (screen.stage = "open" /\ ~screen.misread) =>
       screen.entry.enabled = Effective(policy, screen.target).enabled
  /\ (screen.stage # "closed" /\ ~screen.misread /\ op.stage = "policy") =>
       \A t \in Targets :
         Effective(After(op.before, op.edit), t).enabled = Effective(policy, t).enabled

(* The row shown when the screen was left is about to be written, or is    *)
(* written, or a write or a read has failed.                               *)
LeftInv ==
  (screen.stage = "left" /\ ~screen.misread) =>
    /\ op.stage = "policy" => Effective(After(op.before, op.edit), screen.target) = screen.row
    /\ (op.stage # "policy" /\ (op.stage = "idle" => last # "failed")) =>
         Effective(policy, screen.target) = screen.row

ScreenInv == ScreenOK /\ policy # Missing /\ ReadInv /\ SwitchInv /\ LeftInv

StoreOK == StoreInv /\ FileInv

-----------------------------------------------------------------------------
(* Which fields the screen has. *)
LEMMA ScreenFields ==
  /\ Closed.stage = "closed"
  /\ \A t, r, m : /\ Left(t, r, m).stage = "left" /\ Left(t, r, m).target = t
                  /\ Left(t, r, m).row = r /\ Left(t, r, m).misread = m
  /\ \A t \in Targets, r \in Rows, m \in BOOLEAN : Left(t, r, m) \in LeftScreens
  /\ \A s \in OpenScreens : /\ s.stage = "open" /\ s.target \in Targets
                            /\ s.entry \in Rows /\ s.draft \in Drafts /\ s.applied \in Drafts
                            /\ s.misread \in BOOLEAN
  /\ \A s \in LeftScreens : /\ s.stage = "left" /\ s.target \in Targets /\ s.row \in Rows
                            /\ s.misread \in BOOLEAN
  BY DEF Closed, Left, OpenScreens, LeftScreens

(* A screen that has opened on a target, with the row it has read. *)
LEMMA OpenedFields ==
  ASSUME NEW t \in Targets, NEW r \in Rows, NEW d \in Drafts, NEW c \in BOOLEAN, NEW m \in BOOLEAN
  PROVE  /\ Opened(t, r, d, c, m) \in OpenScreens
         /\ Opened(t, r, d, c, m).target = t /\ Opened(t, r, d, c, m).entry = r
         /\ Opened(t, r, d, c, m).misread = m
  BY DEF Opened, OpenScreens

(* A screen r that is s with other drafts and cells. *)
Kept(s, r, m) ==
  /\ r \in OpenScreens
  /\ r.target = s.target /\ r.entry = s.entry /\ r.misread = m

(* A screen with one field changed is open on the same target and row. *)
LEMMA FieldChanges ==
  ASSUME NEW s \in OpenScreens, NEW d \in Drafts, NEW a \in Drafts, NEW c \in BOOLEAN,
         NEW b \in BOOLEAN, NEW m \in BOOLEAN
  PROVE  /\ Kept(s, [s EXCEPT !.draft = d], s.misread)
         /\ Kept(s, [s EXCEPT !.applied = a], s.misread)
         /\ Kept(s, [s EXCEPT !.cell = c], s.misread)
         /\ Kept(s, [s EXCEPT !.back = b], s.misread)
         /\ Kept(s, [s EXCEPT !.misread = m], m)
  <1>1. PICK t \in Targets, e \in Rows, d0 \in Drafts, a0 \in Drafts, c0 \in BOOLEAN,
             b0 \in BOOLEAN, m0 \in BOOLEAN :
          s = [stage |-> "open", target |-> t, entry |-> e, draft |-> d0, applied |-> a0,
               cell |-> c0, back |-> b0, misread |-> m0]
    BY DEF OpenScreens
  <1> DEFINE R(d1, a1, c1, b1, m1) ==
               [stage |-> "open", target |-> t, entry |-> e, draft |-> d1, applied |-> a1,
                cell |-> c1, back |-> b1, misread |-> m1]
  <1>2. ASSUME NEW d1 \in Drafts, NEW a1 \in Drafts, NEW c1 \in BOOLEAN, NEW b1 \in BOOLEAN,
               NEW m1 \in BOOLEAN
        PROVE  Kept(s, R(d1, a1, c1, b1, m1), m1)
    BY <1>1 DEF Kept, OpenScreens
  <1>3. [s EXCEPT !.draft = d] = R(d, a0, c0, b0, m0)
    BY <1>1
  <1>4. [s EXCEPT !.applied = a] = R(d0, a, c0, b0, m0)
    BY <1>1
  <1>5. [s EXCEPT !.cell = c] = R(d0, a0, c, b0, m0)
    BY <1>1
  <1>6. [s EXCEPT !.back = b] = R(d0, a0, c0, b, m0)
    BY <1>1
  <1>7. [s EXCEPT !.misread = m] = R(d0, a0, c0, b0, m)
    BY <1>1
  <1>8. s.misread = m0
    BY <1>1
  <1> HIDE DEF R
  <1>9. QED
    BY <1>2, <1>3, <1>4, <1>5, <1>6, <1>7, <1>8

(* And so is one whose drafts, cells and history change together.          *)
LEMMA DraftsChange ==
  ASSUME NEW s \in OpenScreens, NEW d \in Drafts, NEW a \in Drafts, NEW c \in BOOLEAN,
         NEW b \in BOOLEAN, NEW m \in BOOLEAN
  PROVE  /\ Kept(s, [s EXCEPT !.applied = a], s.misread)
         /\ Kept(s, [s EXCEPT !.draft = d, !.applied = a], s.misread)
         /\ Kept(s, [s EXCEPT !.draft = d, !.cell = c], s.misread)
         /\ Kept(s, [s EXCEPT !.applied = a, !.misread = m], m)
         /\ Kept(s, [s EXCEPT !.draft = d, !.applied = a, !.misread = m], m)
         /\ Kept(s, [s EXCEPT !.back = b, !.misread = m], m)
         /\ Kept(s, [s EXCEPT !.draft = d, !.applied = a, !.cell = c, !.back = b], s.misread)
  <1> DEFINE r1 == [s EXCEPT !.draft = d]
             r2 == [r1 EXCEPT !.applied = a]
             r3 == [r2 EXCEPT !.cell = c]
             q1 == [s EXCEPT !.applied = a]
             q2 == [s EXCEPT !.back = b]
  <1>1. /\ [s EXCEPT !.draft = d, !.applied = a] = r2
        /\ [s EXCEPT !.draft = d, !.cell = c] = [r1 EXCEPT !.cell = c]
        /\ [s EXCEPT !.applied = a, !.misread = m] = [q1 EXCEPT !.misread = m]
        /\ [s EXCEPT !.draft = d, !.applied = a, !.misread = m] = [r2 EXCEPT !.misread = m]
        /\ [s EXCEPT !.back = b, !.misread = m] = [q2 EXCEPT !.misread = m]
        /\ [s EXCEPT !.draft = d, !.applied = a, !.cell = c, !.back = b] = [r3 EXCEPT !.back = b]
    OBVIOUS
  <1>2. Kept(s, r1, s.misread) /\ Kept(s, q1, s.misread) /\ Kept(s, q2, s.misread)
    BY FieldChanges
  <1> HIDE DEF r1, q1, q2
  <1>3. /\ Kept(r1, r2, r1.misread) /\ Kept(r1, [r1 EXCEPT !.cell = c], r1.misread)
        /\ Kept(q1, [q1 EXCEPT !.misread = m], m) /\ Kept(q2, [q2 EXCEPT !.misread = m], m)
    <2>1. r1 \in OpenScreens /\ q1 \in OpenScreens /\ q2 \in OpenScreens
      BY <1>2 DEF Kept
    <2>2. QED
      BY <2>1, FieldChanges
  <1> HIDE DEF r2
  <1>4. Kept(r2, r3, r2.misread) /\ Kept(r2, [r2 EXCEPT !.misread = m], m)
    <2>1. r2 \in OpenScreens
      BY <1>3 DEF Kept
    <2>2. QED
      BY <2>1, FieldChanges
  <1> HIDE DEF r3
  <1>5. Kept(r3, [r3 EXCEPT !.back = b], r3.misread)
    <2>1. r3 \in OpenScreens
      BY <1>4 DEF Kept
    <2>2. QED
      BY <2>1, FieldChanges
  <1>6. ASSUME NEW x, NEW y, NEW z, NEW n, Kept(x, y, x.misread), Kept(y, z, n)
        PROVE  Kept(x, z, n) /\ y.misread = x.misread
    BY <1>6 DEF Kept
  <1>7. Kept(s, r2, s.misread) /\ Kept(s, [r1 EXCEPT !.cell = c], s.misread)
    BY <1>2, <1>3, <1>6
  <1>8. Kept(s, r3, s.misread) /\ Kept(s, [r2 EXCEPT !.misread = m], m)
    BY <1>4, <1>6, <1>7
  <1>9. Kept(s, [r3 EXCEPT !.back = b], s.misread)
    BY <1>5, <1>6, <1>8
  <1>10. Kept(s, [q1 EXCEPT !.misread = m], m) /\ Kept(s, [q2 EXCEPT !.misread = m], m)
    BY <1>2, <1>3, <1>6
  <1>11. Kept(s, q1, s.misread)
    BY <1>2
  <1>12. QED
    BY <1>1, <1>7, <1>8, <1>9, <1>10, <1>11, Zenon DEF q1

(* What is known of the screen at each stage. *)
LEMMA ScreenStages ==
  ASSUME ScreenOK
  PROVE  /\ screen.stage \in {"closed", "open", "left"}
         /\ screen.stage = "open" => screen \in OpenScreens
         /\ screen.stage = "left" => screen \in LeftScreens
  BY ScreenFields DEF ScreenOK, OpenScreens, LeftScreens

(* A screen of one of the three kinds is one that may be. *)
LEMMA ScreenIn ==
  ASSUME screen = Closed \/ screen \in OpenScreens \/ screen \in LeftScreens
  PROVE  ScreenOK
  BY ScreenFields DEF ScreenOK, OpenScreens, LeftScreens

(* A policy file that is there needs not be made. *)
LEMMA PolicyThere ==
  ASSUME FileInv, policy # Missing
  PROVE  Ensured = policy /\ OfPane(policy)
  BY DEF FileInv, Ensured

(* A file of the pane has at least the line of the default row. *)
LEMMA PaneThere ==
  ASSUME NEW file, OfPane(file)
  PROVE  file # Missing
  <1>1. PICK settings \in AllSettings : file = Serialized(settings)
    BY DEF OfPane
  <1>2. 0 \in DOMAIN file
    BY <1>1, SerializedLines
  <1>3. DOMAIN Missing = {}
    BY DEF Missing
  <1>4. QED
    BY <1>2, <1>3

(* The edits of the screen.                                                *)
SetEdit(t, row) == [kind |-> "set", target |-> t, row |-> row]

(* A row with the switch as it was is one the pane offers, and where reads *)
(* fail every row is.                                                      *)
LEMMA SetOffered ==
  ASSUME NEW file, NEW t \in Targets, NEW row \in Rows,
         "read" \notin Failures => row.enabled = Effective(file, t).enabled
  PROVE  SetEdit(t, row) \in Offered(file)
  <1>1. "read" \notin Failures => row \in Changed(Effective(file, t))
    BY DEF Changed, Rescoped
  <1>2. SetEdit(t, row) \in SetEdits /\ SetEdit(t, row).target = t /\ SetEdit(t, row).row = row
    BY DEF SetEdit, SetEdits, Targets
  <1> HIDE DEF SetEdit
  <1>3. SetEdit(t, row) \in SetsOffered(file)
    BY <1>1, <1>2 DEF SetsOffered
  <1>4. QED
    BY <1>3 DEF Offered

(* A row that is set is the target's, and if it has the target's switch    *)
(* then all switches stay as they are.                                     *)
LEMMA SetAfter ==
  ASSUME NEW file, OfPane(file), NEW t \in Targets, NEW row \in Rows
  PROVE  /\ SetEdit(t, row) \in Edits
         /\ Effective(After(file, SetEdit(t, row)), t) = row
         /\ row.enabled = Effective(file, t).enabled =>
              \A u \in Targets : Effective(After(file, SetEdit(t, row)), u).enabled
                                  = Effective(file, u).enabled
  <1> DEFINE e == SetEdit(t, row)
             settings == Settings(file)
             rows == settings.rows
             D == DOMAIN rows
  <1>1. e \in Edits /\ e.kind = "set" /\ e.target = t /\ e.row = row
    BY DEF SetEdit, Edits, SetEdits, Targets
  <1>2. settings \in AllSettings /\ file = Serialized(settings)
    BY PaneFile
  <1>3. Edited(settings, e) \in AllSettings
    BY <1>1, <1>2, EditedIn
  <1>4. settings = [default |-> settings.default, rows |-> rows]
    BY <1>2 DEF AllSettings
  <1>5. DefaultRow \notin Configurable
    BY StoreAssumption DEF StoreAssumption, Configurable
  <1>6. CASE t = DefaultRow
    <2>1. Edited(settings, e) = [default |-> row, rows |-> rows]
      <3>1. Edited(settings, e) = [settings EXCEPT !.default = row]
        BY <1>1, <1>6 DEF Edited
      <3> HIDE DEF settings, rows
      <3>2. QED
        BY <1>4, <3>1
    <2>2. /\ Effective(After(file, e), DefaultRow) = row
          /\ \A u \in Configurable :
               Effective(After(file, e), u) = IF u \in D THEN rows[u] ELSE row
      BY <1>3, <2>1, RoundTrip DEF After
    <2>3. /\ Effective(file, DefaultRow) = settings.default
          /\ \A u \in Configurable :
               Effective(file, u) = IF u \in D THEN rows[u] ELSE settings.default
      BY <1>2, RoundTrip
    <2>4. QED
      BY <1>1, <1>5, <1>6, <2>2, <2>3 DEF Targets
  <1>7. CASE t # DefaultRow
    <2> DEFINE w == [b \in D \cup {t} |-> IF b = t THEN row ELSE rows[b]]
    <2>1. Edited(settings, e) = [default |-> settings.default, rows |-> w]
      <3>1. Edited(settings, e) = WithRow(settings, t, row)
        BY <1>1, <1>7 DEF Edited
      <3> HIDE DEF settings
      <3>2. QED
        BY <1>4, <3>1 DEF WithRow
    <2>2. /\ Effective(After(file, e), DefaultRow) = settings.default
          /\ \A u \in Configurable :
               Effective(After(file, e), u) =
                 IF u \in D \cup {t} THEN w[u] ELSE settings.default
      BY <1>3, <2>1, RoundTrip DEF After
    <2>3. /\ Effective(file, DefaultRow) = settings.default
          /\ \A u \in Configurable :
               Effective(file, u) = IF u \in D THEN rows[u] ELSE settings.default
      BY <1>2, RoundTrip
    <2>4. QED
      BY <1>1, <1>7, <2>2, <2>3 DEF Targets
  <1>8. QED
    BY <1>6, <1>7

(* A seed that is replaced for a group leaves all switches as they are. *)
LEMMA ReplaceAfter ==
  ASSUME NEW file, OfPane(file), NEW e \in ReplaceEdits, NEW u \in Targets
  PROVE  Effective(After(file, e), u).enabled = Effective(file, u).enabled
  <1> DEFINE settings == Settings(file)
             rows == settings.rows
             D == DOMAIN rows
             w == Relinked(rows, e.old, e.new)
             linked == Linked(RowFor(settings, e.target), e.new)
             both == [b \in D \cup {e.target} |-> IF b = e.target THEN linked ELSE w[b]]
  <1>1. /\ e.kind = "replace" /\ e.target \in Configurable
        /\ e \in Edits
    BY DEF ReplaceEdits, Edits
  <1>2. settings \in AllSettings /\ file = Serialized(settings)
    BY PaneFile
  <1>3. Edited(settings, e) \in AllSettings
    BY <1>1, <1>2, EditedIn
  <1>4. /\ settings = [default |-> settings.default, rows |-> rows]
        /\ \A b \in D : rows[b] \in Rows
        /\ settings.default \in Rows
    BY <1>2 DEF AllSettings, AllRows
  <1>5. ASSUME NEW row \in Rows
        PROVE  Linked(row, e.new).enabled = row.enabled
    <2>1. PICK en \in BOOLEAN, sc \in {"derived", "manual"}, sd \in Customs \cup {NoSeed} :
            row = [enabled |-> en, scope |-> sc, seed |-> sd]
      BY DEF Rows
    <2>2. Linked([enabled |-> en, scope |-> sc, seed |-> sd], e.new)
            = [enabled |-> en, scope |-> "manual", seed |-> e.new]
      BY LinkedFields
    <2>3. QED
      BY <2>1, <2>2
  <1>6. linked.enabled = IF e.target \in D THEN rows[e.target].enabled ELSE settings.default.enabled
    BY <1>4, <1>5 DEF RowFor
  <1>7. DOMAIN w = D /\ \A b \in D : w[b].enabled = rows[b].enabled
    BY <1>4, <1>5 DEF Relinked
  <1>8. Edited(settings, e) = [default |-> settings.default, rows |-> both]
    <2>1. [settings EXCEPT !.rows = w] = [default |-> settings.default, rows |-> w]
      BY <1>4
    <2>2. Edited(settings, e)
            = WithRow([default |-> settings.default, rows |-> w], e.target, linked)
      BY <1>1, <2>1 DEF Edited, Replaced
    <2> HIDE DEF w, linked, settings
    <2>3. QED
      BY <1>7, <2>2 DEF WithRow
  <1>9. /\ Effective(After(file, e), DefaultRow) = settings.default
        /\ \A a \in Configurable :
             Effective(After(file, e), a) =
               IF a \in D \cup {e.target} THEN both[a] ELSE settings.default
    BY <1>3, <1>8, RoundTrip DEF After
  <1>10. /\ Effective(file, DefaultRow) = settings.default
         /\ \A a \in Configurable :
              Effective(file, a) = IF a \in D THEN rows[a] ELSE settings.default
    BY <1>2, RoundTrip
  <1> HIDE DEF w, linked, settings, rows, D
  <1>11. QED
    BY <1>6, <1>7, <1>9, <1>10 DEF Targets

-----------------------------------------------------------------------------
(* Choosing a scope keeps the switch of the row, and makes a valid row. *)
LEMMA ScopedRows ==
  ASSUME NEW row \in Rows
  PROVE  /\ \A seed \in Customs : Manual(row, seed) \in Rows /\ Manual(row, seed).enabled = row.enabled
         /\ [row EXCEPT !.scope = "derived"] \in Rows
         /\ [row EXCEPT !.scope = "derived"].enabled = row.enabled
  <1>1. PICK e \in BOOLEAN, sc \in {"derived", "manual"}, sd \in Customs \cup {NoSeed} :
          row = [enabled |-> e, scope |-> sc, seed |-> sd]
    BY DEF Rows
  <1>2. ASSUME NEW seed \in Customs
        PROVE  Manual(row, seed) \in Rows /\ Manual(row, seed).enabled = row.enabled
    <2>1. Manual(row, seed) = Linked(row, seed)
      BY DEF Manual, Linked
    <2>2. Linked([enabled |-> e, scope |-> sc, seed |-> sd], seed)
            = [enabled |-> e, scope |-> "manual", seed |-> seed]
      BY LinkedFields
    <2>3. seed # NoSeed
      BY StoreAssumption DEF StoreAssumption
    <2>4. [enabled |-> e, scope |-> "manual", seed |-> seed] \in Rows
      BY <2>3 DEF Rows
    <2>5. QED
      BY <1>1, <2>1, <2>2, <2>4
  <1>3. [row EXCEPT !.scope = "derived"] = [enabled |-> e, scope |-> "derived", seed |-> sd]
    BY <1>1
  <1>4. [enabled |-> e, scope |-> "derived", seed |-> sd] \in Rows
    BY DEF Rows
  <1>5. QED
    BY <1>1, <1>2, <1>3, <1>4

(* An edit that leaves all switches as they are; the history of a screen   *)
(* goes on; and a screen that stays open on its target.                    *)
KeepsSwitches(e) ==
  \A u \in Targets : Effective(After(policy, e), u).enabled = Effective(policy, u).enabled

Carries(m) ==
  /\ m \in BOOLEAN
  /\ screen.misread => m
  /\ m => "read" \in Failures

SameScreen ==
  /\ screen' \in OpenScreens
  /\ screen'.target = screen.target /\ screen'.entry = screen.entry
  /\ Carries(screen'.misread)

(* A row the screen sets, with the switch of the stored one, keeps all     *)
(* switches.                                                               *)
LEMMA SetKeeps ==
  ASSUME OfPane(policy), NEW t \in Targets, NEW row \in Rows,
         row.enabled = Effective(policy, t).enabled
  PROVE  KeepsSwitches(SetEdit(t, row))
  BY SetAfter DEF KeepsSwitches

(* The default row of a file of the pane is the one it shows. *)
LEMMA DefaultShown ==
  ASSUME NEW file, OfPane(file)
  PROVE  RowOf(file, {DefaultRow}) = Effective(file, DefaultRow)
  BY DEF Effective

(* Whatever an app is read as, it is a row, and the one it has if no read  *)
(* fails.                                                                  *)
LEMMA ReadIn ==
  ASSUME NEW file, OfPane(file), NEW t \in Targets, NEW row \in ReadAs(file, t)
  PROVE  /\ row \in Rows /\ row.seed \in Drafts /\ IsManual(row) \in BOOLEAN
         /\ "read" \notin Failures => row = Effective(file, t)
  <1>1. Effective(file, t) \in Rows /\ Effective(file, DefaultRow) \in Rows
    BY PaneFile DEF Targets
  <1>2. RowOf(file, {DefaultRow}) \in Rows
    BY <1>1, DefaultShown
  <1>3. row \in Rows
    BY <1>1, <1>2, RowFields DEF ReadAs
  <1>4. row.seed \in Drafts
    BY <1>3, RowFields DEF Drafts
  <1>5. "read" \notin Failures => row = Effective(file, t)
    BY DEF ReadAs
  <1>6. QED
    BY <1>3, <1>4, <1>5 DEF IsManual

(* What the rows read in a handler are, and what they leave of its history. *)
LEMMA ShownRows ==
  ASSUME FileInv, ScreenInv, screen \in OpenScreens, NEW row \in Shown, NEW base \in Shown
  PROVE  /\ row \in Rows
         /\ Carries(screen.misread)
         /\ Carries(Misread({row})) /\ (Misread({row}) \/ row = Stored)
         /\ Carries(Misread({row, base})) /\ (Misread({row, base}) \/ base = Stored)
         /\ "read" \notin Failures => ~screen.misread /\ row = Stored
  <1>1. Ensured = policy /\ OfPane(policy) /\ screen.target \in Targets /\ screen.misread \in BOOLEAN
    BY PolicyThere, ScreenFields DEF ScreenInv
  <1>2. /\ row \in Rows
        /\ "read" \notin Failures => row = Stored
        /\ "read" \notin Failures => base = Stored
    BY <1>1, ReadIn DEF Shown, Stored
  <1>3. screen.misread => "read" \in Failures
    BY ScreenFields DEF ScreenInv, ReadInv
  <1>4. /\ Misread({row}) \in BOOLEAN /\ Misread({row, base}) \in BOOLEAN
        /\ screen.misread => Misread({row}) /\ Misread({row, base})
    BY <1>1 DEF Misread
  <1>5. /\ Misread({row}) \/ row = Stored
        /\ Misread({row, base}) \/ base = Stored
    BY DEF Misread
  <1>6. "read" \notin Failures => ~Misread({row}) /\ ~Misread({row, base})
    <2>1. ASSUME "read" \notin Failures
          PROVE  row = Stored /\ base = Stored /\ ~screen.misread
      BY <1>2, <1>3, <2>1
    <2>2. row = Stored /\ base = Stored => {row} = {Stored} /\ {row, base} = {Stored}
      OBVIOUS
    <2>3. QED
      BY <2>1, <2>2 DEF Misread
  <1>7. QED
    BY <1>1, <1>2, <1>3, <1>4, <1>5, <1>6 DEF Carries

(* What a handler may do: draft something, leave with what is stored, or   *)
(* begin a save of the store, staying on the screen or leaving it.         *)
Drafted == UNCHANGED storeVars /\ SameScreen

LeftAlone ==
  /\ UNCHANGED storeVars
  /\ \E row \in Rows, m \in BOOLEAN :
       /\ Carries(m) /\ (m \/ row = Effective(policy, screen.target))
       /\ screen' = Left(screen.target, row, m)

SavedOn ==
  /\ SameScreen
  /\ \E e \in Offered(policy) : BeginWith(e) /\ (screen'.misread \/ KeepsSwitches(e))

LeftSaving ==
  \E row \in Rows, m \in BOOLEAN :
    /\ SetEdit(screen.target, row) \in Offered(policy)
    /\ BeginWith(SetEdit(screen.target, row))
    /\ Carries(m) /\ (m \/ KeepsSwitches(SetEdit(screen.target, row)))
    /\ screen' = Left(screen.target, row, m)

(* A row with the switch of one that was read is on offer, and keeps the   *)
(* switches if that was the stored one.                                    *)
LEMMA CopyOffered ==
  ASSUME FileInv, ScreenInv, screen \in OpenScreens, NEW row \in Shown,
         NEW new \in Rows, new.enabled = row.enabled
  PROVE  /\ SetEdit(screen.target, new) \in Offered(policy)
         /\ row = Stored => KeepsSwitches(SetEdit(screen.target, new))
  <1>1. Ensured = policy /\ OfPane(policy) /\ screen.target \in Targets
    BY PolicyThere, ScreenFields DEF ScreenInv
  <1>2. Stored = Effective(policy, screen.target)
    BY <1>1 DEF Stored
  <1>3. "read" \notin Failures => row = Stored
    BY ShownRows
  <1>4. QED
    BY <1>1, <1>2, <1>3, SetOffered, SetKeeps

(* A save of such a row, with the screen kept open. *)
LEMMA CopySaved ==
  ASSUME FileInv, ScreenInv, screen \in OpenScreens, NEW row \in Shown,
         NEW new \in Rows, new.enabled = row.enabled,
         BeginWith(SetRow(new)), Kept(screen, screen', Misread({row}))
  PROVE  SavedOn
  <1>1. SetRow(new) = SetEdit(screen.target, new)
    BY DEF SetRow, SetEdit
  <1>2. /\ SetEdit(screen.target, new) \in Offered(policy)
        /\ row = Stored => KeepsSwitches(SetEdit(screen.target, new))
    BY CopyOffered
  <1>3. Carries(Misread({row})) /\ (Misread({row}) \/ row = Stored)
    BY ShownRows
  <1>4. SameScreen /\ screen'.misread = Misread({row})
    BY <1>3 DEF SameScreen, Kept
  <1>5. QED
    BY <1>1, <1>2, <1>3, <1>4 DEF SavedOn

(* A handler of the open screen does one of the four. *)
LEMMA HandlerCases ==
  ASSUME FileInv, ScreenInv, Handler
  PROVE  /\ screen \in OpenScreens /\ op = Idle
         /\ Drafted \/ LeftAlone \/ SavedOn \/ LeftSaving
  <1>0. Ensured = policy /\ OfPane(policy)
    BY PolicyThere DEF ScreenInv
  <1>1. screen.stage = "open" /\ op = Idle
    BY DEF Handler, SelectDerived, SelectManual, EditingEnds, Randomize, RandomizeAll,
           ChooseExisting, ComeBack, LeaveDerived, LeaveApplying, LeaveRestoring,
           Type, OnManual, Ready
  <1>2. screen \in OpenScreens
    BY <1>1, ScreenStages DEF ScreenInv
  <1>3. /\ screen.target \in Targets /\ screen.entry \in Rows
        /\ screen.draft \in Drafts /\ screen.applied \in Drafts
    BY <1>2, ScreenFields
  <1> DEFINE t == screen.target
  <1>4. Stored = Effective(policy, t) /\ Stored \in Shown
    BY <1>0 DEF Stored, Shown, ReadAs
  <1>5. \A row : SetRow(row) = SetEdit(t, row)
    BY DEF SetRow, SetEdit
  <1>6. Carries(screen.misread)
    BY <1>2, <1>4, ShownRows
  <1>7. ASSUME NEW row \in Shown
        PROVE  row \in Rows /\ Misread({row}) \in BOOLEAN
    BY <1>2, ShownRows DEF Carries
  <1>8. Customs \subseteq Drafts /\ NoSeed \in Drafts /\ Drafts \ {NoSeed} \subseteq Customs
    BY StoreAssumption DEF Drafts, StoreAssumption
  <1>9. ASSUME NEW row \in Shown, NEW seed \in Customs
        PROVE  Manual(row, seed) \in Rows /\ Manual(row, seed).enabled = row.enabled
    BY <1>7, ScopedRows
  <1>10. CASE SelectDerived
    <2>1. PICK row \in Shown :
            /\ BeginWith(SetRow([row EXCEPT !.scope = "derived"]))
            /\ screen' = [screen EXCEPT !.applied = screen.draft, !.misread = Misread({row})]
      BY <1>10 DEF SelectDerived
    <2> DEFINE new == [row EXCEPT !.scope = "derived"]
    <2>2. new \in Rows /\ new.enabled = row.enabled
      BY <1>7, ScopedRows
    <2>3. Kept(screen, screen', Misread({row}))
      BY <1>2, <1>3, <1>7, <2>1, DraftsChange
    <2>4. BeginWith(SetRow(new))
      BY <2>1
    <2> HIDE DEF new
    <2>5. SavedOn
      BY <1>2, <2>2, <2>3, <2>4, CopySaved
    <2>6. QED
      BY <1>1, <1>2, <2>5
  <1>11. CASE SelectManual
    <2>1. PICK row \in Shown, seed \in IF screen.draft = NoSeed THEN Customs ELSE {screen.draft} :
            /\ BeginWith(SetRow(Manual(row, seed)))
            /\ screen' = [screen EXCEPT !.draft = seed, !.applied = seed, !.misread = Misread({row})]
      BY <1>11 DEF SelectManual
    <2>2. seed \in Customs /\ seed \in Drafts
      BY <1>3, <1>8
    <2>3. Kept(screen, screen', Misread({row}))
      BY <1>2, <1>7, <2>1, <2>2, DraftsChange
    <2>4. SavedOn
      BY <1>2, <1>9, <2>1, <2>2, <2>3, CopySaved
    <2>5. QED
      BY <1>1, <1>2, <2>4
  <1>12. CASE \E draft \in Drafts : Type(draft)
    <2>1. PICK draft \in Drafts : Type(draft)
      BY <1>12
    <2>2. Kept(screen, screen', screen.misread)
      BY <1>2, <1>6, <2>1, DraftsChange DEF Type, Carries
    <2>3. Drafted
      BY <1>6, <2>1, <2>2 DEF Drafted, SameScreen, Kept, Type
    <2>4. QED
      BY <1>1, <1>2, <2>3
  <1>13. CASE EditingEnds \/ Randomize
    <2>1. PICK seed \in Customs : ApplySeed(seed)
      BY <1>3, <1>8, <1>13 DEF EditingEnds, Randomize
    <2>2. PICK row \in Shown :
            /\ BeginWith(SetRow(Manual(row, seed)))
            /\ screen' = [screen EXCEPT !.applied = seed, !.misread = Misread({row})]
      BY <2>1 DEF ApplySeed
    <2>3. Kept(screen, screen', Misread({row}))
      BY <1>2, <1>7, <1>8, <2>2, DraftsChange
    <2>4. SavedOn
      BY <1>2, <1>9, <2>2, <2>3, CopySaved
    <2>5. QED
      BY <1>1, <1>2, <2>4
  <1>14. CASE RandomizeAll
    <2>1. PICK seed \in Customs :
            /\ BeginWith([kind |-> "replace", target |-> t, old |-> screen.draft, new |-> seed])
            /\ screen' = [screen EXCEPT !.applied = seed]
      BY <1>14 DEF RandomizeAll
    <2> DEFINE e == [kind |-> "replace", target |-> t, old |-> screen.draft, new |-> seed]
    <2>2. /\ t \in Configurable /\ screen.draft \in Customs
          /\ Associated(Settings(policy), t, screen.draft)
      BY <1>0, <1>3, <1>8, <1>14 DEF RandomizeAll, OthersUse, Targets
    <2>3. e \in ReplaceEdits
      BY <2>2 DEF ReplaceEdits
    <2>4. e.target = t /\ e.old = screen.draft
      OBVIOUS
    <2> HIDE DEF e
    <2>5. e \in Offered(policy)
      BY <2>2, <2>3, <2>4 DEF Offered
    <2>6. KeepsSwitches(e)
      BY <1>0, <2>3, ReplaceAfter DEF KeepsSwitches
    <2>7. Kept(screen, screen', screen.misread)
      BY <1>2, <1>6, <1>8, <2>1, DraftsChange DEF Carries
    <2>8. SameScreen
      BY <1>6, <2>7 DEF SameScreen, Kept
    <2>9. SavedOn
      BY <2>1, <2>5, <2>6, <2>8 DEF SavedOn, e
    <2>10. QED
      BY <1>1, <1>2, <2>9
  <1>15. CASE ChooseExisting
    <2>1. PICK row \in Shown, seed \in Customs :
            /\ BeginWith(SetRow(Manual(row, seed)))
            /\ screen' = [screen EXCEPT !.back = TRUE, !.misread = Misread({row})]
      BY <1>15 DEF ChooseExisting
    <2> DEFINE yes == TRUE
               m == Misread({row})
    <2>2. /\ screen' = [screen EXCEPT !.back = yes, !.misread = m]
          /\ yes \in BOOLEAN /\ m \in BOOLEAN
      BY <1>7, <2>1
    <2> HIDE DEF yes, m
    <2>3. Kept(screen, screen', m)
      BY <1>2, <1>3, <2>2, DraftsChange
    <2>4. SavedOn
      BY <1>2, <1>9, <2>1, <2>3, CopySaved DEF m
    <2>5. QED
      BY <1>1, <1>2, <2>4
  <1>16. CASE ComeBack
    <2>1. PICK drafted \in Shown, listed \in Shown : screen' = Redrafted(drafted, listed)
      BY <1>16 DEF ComeBack
    <2>2. drafted.seed \in Drafts /\ IsManual(listed) \in BOOLEAN
      BY <1>0, <1>3, ReadIn DEF Shown
    <2>3. Kept(screen, screen', screen.misread)
      BY <1>2, <1>6, <2>1, <2>2, DraftsChange DEF Redrafted, Carries
    <2>4. Drafted
      BY <1>6, <1>16, <2>3 DEF Drafted, SameScreen, Kept, ComeBack
    <2>5. QED
      BY <1>1, <1>2, <2>4
  <1>17. CASE LeaveDerived
    <2>1. PICK row \in Shown : screen' = Left(t, row, Misread({row}))
      BY <1>17 DEF LeaveDerived
    <2>2. Carries(Misread({row})) /\ (Misread({row}) \/ row = Effective(policy, t))
      BY <1>2, <1>4, ShownRows
    <2>3. LeftAlone
      BY <1>7, <1>17, <2>1, <2>2 DEF LeftAlone, LeaveDerived
    <2>4. QED
      BY <1>1, <1>2, <2>3
  <1>18. CASE LeaveApplying
    <2> DEFINE seed == screen.draft
    <2>1. PICK row \in Shown, base \in Shown :
            /\ BeginWith(SetRow(Manual(base, seed)))
            /\ screen' = Left(t, Manual(base, seed), Misread({row, base}))
      BY <1>18 DEF LeaveApplying
    <2>2. seed \in Customs
      BY <1>3, <1>8, <1>18 DEF LeaveApplying
    <2>3. Carries(Misread({row, base})) /\ (Misread({row, base}) \/ base = Stored)
      BY <1>2, ShownRows
    <2>4. Manual(base, seed) \in Rows /\ Manual(base, seed).enabled = base.enabled
      BY <1>9, <2>2
    <2>5. /\ SetEdit(t, Manual(base, seed)) \in Offered(policy)
          /\ base = Stored => KeepsSwitches(SetEdit(t, Manual(base, seed)))
      BY <1>2, <2>4, CopyOffered
    <2>6. LeftSaving
      BY <1>5, <2>1, <2>3, <2>4, <2>5 DEF LeftSaving, Carries
    <2>7. QED
      BY <1>1, <1>2, <2>6
  <1>19. CASE LeaveRestoring
    <2>1. PICK row \in Shown :
            /\ BeginWith(SetRow(screen.entry))
            /\ screen' = Left(t, screen.entry, Misread({row}))
      BY <1>19 DEF LeaveRestoring
    <2>2. Carries(Misread({row}))
      BY <1>2, ShownRows
    <2>3. ~screen.misread => screen.entry.enabled = Effective(policy, t).enabled
      BY <1>1 DEF ScreenInv, SwitchInv
    <2>4. SetEdit(t, screen.entry) \in Offered(policy)
      BY <1>3, <1>6, <2>3, SetOffered DEF Carries
    <2>5. Misread({row}) \/ KeepsSwitches(SetEdit(t, screen.entry))
      BY <1>0, <1>3, <2>2, <2>3, SetKeeps DEF Carries
    <2>6. LeftSaving
      BY <1>3, <1>5, <2>1, <2>2, <2>4, <2>5 DEF LeftSaving, Carries
    <2>7. QED
      BY <1>1, <1>2, <2>6
  <1>20. QED
    BY <1>10, <1>11, <1>12, <1>13, <1>14, <1>15, <1>16, <1>17, <1>18, <1>19 DEF Handler

-----------------------------------------------------------------------------
(* A step of a save that has begun: the one that writes takes the file the *)
(* save is to write, and the others leave the policy as it is.             *)
LEMMA SavingCases ==
  ASSUME FileInv, ScreenInv, Saving
  PROVE  /\ op.stage \in {"policy", "readback", "filter", "fill", "orphan"}
         /\ op'.stage # "policy"
         /\ \/ /\ op.stage = "policy" /\ op'.stage = "readback"
               /\ policy' = After(op.before, op.edit)
            \/ op.stage = "policy" /\ policy' = policy /\ op'.stage = "idle" /\ last' = "failed"
            \/ op.stage # "policy" /\ policy' = policy
         /\ \/ screen' = screen
            \/ screen \in OpenScreens /\ Kept(screen, screen', screen.misread)
  <1>0. Ensured = policy /\ OfPane(policy)
    BY PolicyThere DEF ScreenInv
  <1>1. screen' = screen \/ (screen \in OpenScreens /\ Kept(screen, screen', screen.misread))
    <2>1. CASE screen.stage = "open" /\ op' = Idle
      <3>1. screen \in OpenScreens /\ screen.draft \in Drafts /\ screen.applied \in Drafts
              /\ screen.target \in Targets
        BY <2>1, ScreenStages, ScreenFields DEF ScreenInv
      <3>2. PICK drafted \in Shown, listed \in Shown :
              screen' = Settled(drafted, listed, last' = "failed")
        BY <2>1 DEF Saving
      <3>3. drafted.seed \in Drafts /\ IsManual(listed) \in BOOLEAN
        BY <1>0, <3>1, ReadIn DEF Shown
      <3>4. \/ screen' = Redrafted(drafted, listed)
            \/ screen' = [screen EXCEPT !.applied = screen.draft]
            \/ screen' = [screen EXCEPT !.draft = screen.applied, !.cell = IsManual(listed)]
        BY <3>2, Zenon DEF Settled
      <3> DEFINE d == drafted.seed
                 d0 == screen.draft
                 a0 == screen.applied
                 c == IsManual(listed)
                 no == FALSE
                 m == screen.misread
      <3>5. \/ screen' = [screen EXCEPT !.draft = d, !.applied = d, !.cell = c, !.back = no]
            \/ screen' = [screen EXCEPT !.applied = d0]
            \/ screen' = [screen EXCEPT !.draft = a0, !.cell = c]
        BY <3>4 DEF Redrafted
      <3>6. d \in Drafts /\ d0 \in Drafts /\ a0 \in Drafts /\ c \in BOOLEAN /\ no \in BOOLEAN
        BY <3>1, <3>3
      <3> HIDE DEF d, d0, a0, c, no
      <3>7. /\ Kept(screen, [screen EXCEPT !.draft = d, !.applied = d, !.cell = c, !.back = no], m)
            /\ Kept(screen, [screen EXCEPT !.applied = d0], m)
            /\ Kept(screen, [screen EXCEPT !.draft = a0, !.cell = c], m)
        <4>1. screen \in OpenScreens /\ m \in BOOLEAN
          BY <3>1, ScreenFields
        <4>2. QED
          BY <3>6, <4>1, DraftsChange
      <3>8. Kept(screen, screen', m)
        BY <3>5, <3>7
      <3>9. QED
        BY <3>1, <3>8
    <2>2. QED
      BY <2>1 DEF Saving
  <1>2. CASE WritePolicy
    BY <1>1, <1>2 DEF WritePolicy, Refreshing
  <1>3. CASE ReadBack
    BY <1>0, <1>1, <1>3 DEF ReadBack, Refreshing
  <1>4. CASE TruncateFilter
    BY <1>1, <1>4 DEF TruncateFilter, Refreshing
  <1>5. CASE CreateFilter \/ FillFilter
    BY <1>1, <1>5 DEF CreateFilter, FillFilter, Done, Idle
  <1>6. CASE WriteFails
    <2>1. op' = Idle /\ op'.stage = "idle" /\ policy' = policy
      BY <1>6 DEF WriteFails, Done, Idle
    <2>2. last' = "failed"
      BY <1>6, Zenon DEF WriteFails, Done
    <2>3. op.stage \in {"policy", "filter", "fill", "orphan"}
      BY <1>6 DEF WriteFails
    <2>4. QED
      BY <1>1, <2>1, <2>2, <2>3
  <1>7. QED
    BY <1>2, <1>3, <1>4, <1>5, <1>6 DEF Saving

(* What is offered are edits, so one that begins is a step of the store. *)
LEMMA BegunOffered ==
  ASSUME NEW e \in Offered(Ensured), BeginWith(e)
  PROVE  Begin
  <1>1. e \in Edits
    BY DEF Offered, SetsOffered, Edits
  <1>2. QED
    BY <1>1 DEF Begin, BeginWith

(* What the store sees of a step of the screen is a step of the store.     *)
LEMMA StepOfStore ==
  ASSUME FileInv, ScreenInv, [ScreenNext]_screenVars
  PROVE  [Next]_storeVars
  <1>0. Ensured = policy
    BY PolicyThere DEF ScreenInv
  <1>1. CASE \E target \in Screens : Open(target)
    BY <1>0, <1>1 DEF Open, storeVars
  <1>2. CASE Handler
    <2>1. UNCHANGED storeVars \/ \E e \in Offered(policy) : BeginWith(e)
      BY <1>2, HandlerCases DEF Drafted, LeftAlone, SavedOn, LeftSaving
    <2>2. UNCHANGED storeVars \/ Begin
      BY <1>0, <2>1, BegunOffered
    <2>3. QED
      BY <2>2 DEF Next, Save
  <1>3. CASE Saving
    BY <1>3 DEF Saving, Next, Save
  <1>4. CASE Killed
    BY <1>4 DEF Killed, Next, Save
  <1>5. CASE EditElsewhere
    <2>1. Elsewhere(Ensured) \subseteq Offered(Ensured)
      BY DEF Elsewhere
    <2>2. PICK e \in Elsewhere(Ensured) : BeginWith(e)
      BY <1>5 DEF EditElsewhere
    <2>3. Begin
      BY <2>1, <2>2, BegunOffered
    <2>4. QED
      BY <2>3 DEF Next, Save
  <1>6. CASE UNCHANGED screenVars
    BY <1>6 DEF screenVars, storeVars
  <1>7. QED
    BY <1>1, <1>2, <1>3, <1>4, <1>5, <1>6 DEF ScreenNext

(* A save that begins is to write what its edit leaves in the file. *)
LEMMA BegunSave ==
  ASSUME FileInv, policy # Missing, NEW e, BeginWith(e)
  PROVE  /\ policy' = policy
         /\ op'.stage = "policy" /\ op'.before = policy /\ op'.edit = e
  BY PolicyThere DEF BeginWith, Writing

(* A screen that stays open, or was just left, is one that may be.         *)
LEMMA StaysOpen ==
  ASSUME screen \in OpenScreens, SameScreen
  PROVE  /\ ScreenOK'
         /\ screen.stage = "open" /\ screen'.stage = "open"
         /\ screen'.target = screen.target /\ screen'.entry = screen.entry
         /\ screen.misread => screen'.misread
         /\ ReadInv'
  BY ScreenFields DEF SameScreen, Carries, ReadInv, ScreenOK, OpenScreens

(* A screen that was left with a row, and what it has read.                *)
LEMMA IsLeft ==
  ASSUME NEW t \in Targets, NEW row \in Rows, NEW m \in BOOLEAN, Carries(m),
         screen' = Left(t, row, m)
  PROVE  /\ ScreenOK'
         /\ screen'.stage = "left" /\ screen'.target = t /\ screen'.row = row
         /\ screen'.misread = m
         /\ ReadInv'
  BY ScreenFields DEF Carries, ReadInv, ScreenOK, LeftScreens

(* Opening the screen reads the row it may restore.                        *)
LEMMA OpenStep ==
  ASSUME StoreOK, ScreenInv, NEW t \in Targets, Open(t)
  PROVE  ScreenInv'
  <1>0. Ensured = policy /\ OfPane(policy) /\ policy # Missing
    BY PolicyThere DEF StoreOK, ScreenInv
  <1>1. PICK entry \in ReadAs(policy, t), drafted \in ReadAs(policy, t), listed \in ReadAs(policy, t) :
          screen' = Opened(t, entry, drafted.seed, IsManual(listed),
                           entry # Effective(policy, t))
    BY <1>0 DEF Open
  <1> DEFINE d == drafted.seed
             c == IsManual(listed)
             m == (entry # Effective(policy, t))
  <1>2. entry \in Rows /\ d \in Drafts /\ c \in BOOLEAN /\ m \in BOOLEAN
    BY <1>0, ReadIn
  <1>3. m => "read" \in Failures
    BY <1>0, ReadIn
  <1>4. screen' = Opened(t, entry, d, c, m)
    BY <1>1
  <1>5. ~m => entry = Effective(policy, t)
    OBVIOUS
  <1> HIDE DEF d, c, m
  <1>6. /\ screen' \in OpenScreens /\ screen'.target = t
        /\ screen'.entry = entry /\ screen'.misread = m
    BY <1>2, <1>4, OpenedFields
  <1>7. screen'.stage = "open" /\ ScreenOK'
    BY <1>6, ScreenFields DEF ScreenOK, OpenScreens
  <1>8. policy' = policy /\ op'.stage = "idle"
    BY <1>0 DEF Open, Idle
  <1>9. ReadInv'
    BY <1>3, <1>6, <1>7 DEF ReadInv
  <1>10. SwitchInv' /\ LeftInv'
    BY <1>5, <1>6, <1>7, <1>8 DEF SwitchInv, LeftInv
  <1>11. QED
    BY <1>0, <1>7, <1>8, <1>9, <1>10 DEF ScreenInv

(* A handler drafts, leaves, or begins a save that keeps the switches.     *)
LEMMA HandlerStep ==
  ASSUME StoreOK, ScreenInv, Handler
  PROVE  ScreenInv'
  <1>0. /\ FileInv /\ policy # Missing /\ OfPane(policy)
        /\ screen \in OpenScreens /\ op = Idle
        /\ Drafted \/ LeftAlone \/ SavedOn \/ LeftSaving
    BY PolicyThere, HandlerCases DEF StoreOK, ScreenInv
  <1>1. screen.target \in Targets /\ screen.stage = "open" /\ op.stage = "idle"
    BY <1>0, ScreenFields DEF Idle
  <1>2. ~screen.misread => screen.entry.enabled = Effective(policy, screen.target).enabled
    BY <1>1 DEF ScreenInv, SwitchInv
  <1>3. CASE Drafted
    <2>1. policy' = policy /\ op' = op /\ SameScreen
      BY <1>3 DEF Drafted, storeVars
    <2>2. ScreenOK' /\ ReadInv'
      BY <1>0, <2>1, StaysOpen
    <2>3. SwitchInv' /\ LeftInv'
      BY <1>0, <1>1, <1>2, <2>1, StaysOpen DEF SwitchInv, LeftInv
    <2>4. QED
      BY <1>0, <2>1, <2>2, <2>3 DEF ScreenInv
  <1>4. CASE LeftAlone
    <2>1. PICK row \in Rows, m \in BOOLEAN :
            /\ Carries(m) /\ (m \/ row = Effective(policy, screen.target))
            /\ screen' = Left(screen.target, row, m)
      BY <1>4 DEF LeftAlone
    <2>2. policy' = policy /\ op' = op
      BY <1>4 DEF LeftAlone, storeVars
    <2>3. /\ ScreenOK' /\ ReadInv'
          /\ screen'.stage = "left" /\ screen'.target = screen.target
          /\ screen'.row = row /\ screen'.misread = m
      BY <1>1, <2>1, IsLeft
    <2>4. SwitchInv' /\ LeftInv'
      BY <1>1, <2>1, <2>2, <2>3 DEF SwitchInv, LeftInv
    <2>5. QED
      BY <1>0, <2>2, <2>3, <2>4 DEF ScreenInv
  <1>5. CASE SavedOn
    <2>1. PICK e \in Offered(policy) : BeginWith(e) /\ (screen'.misread \/ KeepsSwitches(e))
      BY <1>5 DEF SavedOn
    <2>2. /\ policy' = policy /\ op'.stage = "policy"
          /\ op'.before = policy /\ op'.edit = e
      BY <1>0, <2>1, BegunSave
    <2>3. SameScreen
      BY <1>5 DEF SavedOn
    <2>4. ScreenOK' /\ ReadInv'
      BY <1>0, <2>3, StaysOpen
    <2>5. SwitchInv'
      BY <1>0, <1>2, <2>1, <2>2, <2>3, StaysOpen DEF SwitchInv, KeepsSwitches
    <2>6. LeftInv'
      BY <1>0, <2>3, StaysOpen DEF LeftInv
    <2>7. QED
      BY <1>0, <2>2, <2>4, <2>5, <2>6 DEF ScreenInv
  <1>6. CASE LeftSaving
    <2> DEFINE t == screen.target
    <2>1. PICK row \in Rows, m \in BOOLEAN :
            /\ BeginWith(SetEdit(t, row))
            /\ Carries(m) /\ (m \/ KeepsSwitches(SetEdit(t, row)))
            /\ screen' = Left(t, row, m)
      BY <1>6 DEF LeftSaving
    <2>2. /\ policy' = policy /\ op'.stage = "policy"
          /\ op'.before = policy /\ op'.edit = SetEdit(t, row)
      BY <1>0, <2>1, BegunSave
    <2>3. Effective(After(policy, SetEdit(t, row)), t) = row
      BY <1>0, <1>1, SetAfter
    <2>4. /\ ScreenOK' /\ ReadInv'
          /\ screen'.stage = "left" /\ screen'.target = t
          /\ screen'.row = row /\ screen'.misread = m
      BY <1>1, <2>1, IsLeft
    <2>5. SwitchInv'
      BY <2>1, <2>2, <2>4 DEF SwitchInv, KeepsSwitches
    <2>6. LeftInv'
      BY <2>2, <2>3, <2>4 DEF LeftInv
    <2>7. QED
      BY <1>0, <2>2, <2>4, <2>5, <2>6 DEF ScreenInv
  <1>7. QED
    BY <1>0, <1>3, <1>4, <1>5, <1>6

(* A save under the screen writes what it was to write, or nothing.        *)
LEMMA SavingStep ==
  ASSUME StoreOK, ScreenInv, Saving
  PROVE  ScreenInv'
  <1>0. FileInv /\ ScreenOK /\ ReadInv /\ policy # Missing
    BY DEF StoreOK, ScreenInv
  <1>1. /\ op'.stage # "policy"
        /\ op.stage # "idle"
        /\ \/ /\ op.stage = "policy" /\ op'.stage = "readback"
              /\ policy' = After(op.before, op.edit)
           \/ op.stage = "policy" /\ policy' = policy /\ op'.stage = "idle" /\ last' = "failed"
           \/ op.stage # "policy" /\ policy' = policy
    BY <1>0, SavingCases
  <1>2. policy' # Missing
    <2>1. op.stage = "policy" => OfPane(After(op.before, op.edit))
      BY <1>0, AfterOfPane DEF FileInv
    <2>2. QED
      BY <1>0, <1>1, <2>1, PaneThere
  <1>3. /\ ScreenOK' /\ ReadInv'
        /\ screen'.stage = screen.stage
        /\ screen.stage # "closed" =>
             screen'.target = screen.target /\ screen'.misread = screen.misread
        /\ screen.stage = "open" => screen'.entry = screen.entry
        /\ screen.stage = "left" => screen'.row = screen.row
    <2>1. CASE screen' = screen
      BY <1>0, <2>1 DEF ScreenOK, ReadInv
    <2>2. CASE screen \in OpenScreens /\ Kept(screen, screen', screen.misread)
      <3>1. screen.stage = "open" /\ screen.misread \in BOOLEAN
        BY <2>2, ScreenFields
      <3>2. SameScreen /\ screen'.misread = screen.misread
        BY <1>0, <2>2, <3>1 DEF SameScreen, Kept, Carries, ReadInv
      <3>3. QED
        BY <2>2, <3>1, <3>2, StaysOpen
    <2>3. QED
      BY <1>0, <2>1, <2>2, SavingCases
  <1>4. screen.stage # "closed" => screen.target \in Targets
    BY <1>0, ScreenStages, ScreenFields
  <1>5. SwitchInv'
    <2>1. SUFFICES ASSUME screen.stage = "open", ~screen.misread
                   PROVE  screen'.entry.enabled = Effective(policy', screen'.target).enabled
      BY <1>1, <1>3 DEF SwitchInv
    <2>2. /\ screen.entry.enabled = Effective(policy, screen.target).enabled
          /\ op.stage = "policy" =>
               Effective(After(op.before, op.edit), screen.target).enabled
                 = Effective(policy, screen.target).enabled
      BY <1>4, <2>1 DEF ScreenInv, SwitchInv
    <2>3. QED
      BY <1>1, <1>3, <2>1, <2>2
  <1>6. LeftInv'
    <2>1. SUFFICES ASSUME screen.stage = "left", ~screen.misread,
                          op'.stage = "idle" => last' # "failed"
                   PROVE  Effective(policy', screen'.target) = screen'.row
      BY <1>1, <1>3 DEF LeftInv
    <2>2. /\ op.stage = "policy" =>
               Effective(After(op.before, op.edit), screen.target) = screen.row
          /\ op.stage # "policy" => Effective(policy, screen.target) = screen.row
      BY <1>1, <2>1 DEF ScreenInv, LeftInv
    <2>3. QED
      BY <1>1, <1>3, <2>1, <2>2
  <1>7. QED
    BY <1>2, <1>3, <1>5, <1>6 DEF ScreenInv

(* Each step of the screen, and of a save under it, keeps the invariant.   *)
LEMMA ScreenStep ==
  ASSUME StoreOK, ScreenInv, [ScreenNext]_screenVars
  PROVE  ScreenInv'
  <1>0. Ensured = policy /\ policy # Missing
    BY PolicyThere DEF StoreOK, ScreenInv
  <1>1. CASE \E target \in Screens : Open(target)
    BY <1>1, OpenStep, ScreensAssumption DEF ScreensAssumption
  <1>2. CASE Handler
    BY <1>2, HandlerStep
  <1>3. CASE Saving
    BY <1>3, SavingStep
  <1>4. CASE Killed \/ EditElsewhere
    <2>1. screen' = Closed /\ screen'.stage = "closed"
      BY <1>4 DEF Killed, EditElsewhere, Closed
    <2>2. policy' = policy
      BY <1>0, <1>4 DEF Killed, KillPane, EditElsewhere, BeginWith, storeVars
    <2>3. QED
      BY <1>0, <2>1, <2>2 DEF ScreenInv, ScreenOK, ReadInv, SwitchInv, LeftInv
  <1>5. CASE UNCHANGED screenVars
    BY <1>5 DEF screenVars, ScreenInv, ScreenOK, ReadInv, SwitchInv, LeftInv
  <1>6. QED
    BY <1>1, <1>2, <1>3, <1>4, <1>5 DEF ScreenNext

(* The package comes with a policy, and no screen is open. *)
LEMMA ScreenStart == ScreenInit => StoreOK /\ ScreenInv
  <1> SUFFICES ASSUME ScreenInit PROVE StoreOK /\ ScreenInv
    OBVIOUS
  <1>1. StoreOK
    BY StoreInit, FileInit DEF ScreenInit, StoreOK
  <1>2. policy # Missing
    BY FreshOfPane, PaneThere DEF ScreenInit, Init
  <1>3. screen = Closed /\ screen.stage = "closed"
    BY DEF ScreenInit, Closed
  <1>4. QED
    BY <1>1, <1>2, <1>3 DEF ScreenInv, ScreenOK, ReadInv, SwitchInv, LeftInv

(* The invariant of the store holds under the screen, as its steps are     *)
(* steps of the store.                                                     *)
LEMMA ScreenInvHolds == ScreenSpec => [](StoreOK /\ ScreenInv)
  <1>1. StoreOK /\ ScreenInv /\ [ScreenNext]_screenVars => (StoreOK /\ ScreenInv)'
    <2> SUFFICES ASSUME StoreOK, ScreenInv, [ScreenNext]_screenVars
                 PROVE  (StoreOK /\ ScreenInv)'
      OBVIOUS
    <2>1. [Next]_storeVars
      BY StepOfStore DEF StoreOK
    <2>2. StoreOK'
      BY <2>1, StoreStep, FileStep DEF StoreOK
    <2>3. QED
      BY <2>2, ScreenStep
  <1>2. QED
    BY <1>1, ScreenStart, PTL DEF ScreenSpec

-----------------------------------------------------------------------------
(* The screen is closed, open on a target with a row to restore, or was    *)
(* left with a row.                                                        *)
THEOREM ScreenTypeCorrect == ScreenSpec => []ScreenOK
  <1>1. ScreenInv => ScreenOK
    BY DEF ScreenInv
  <1>2. QED
    BY <1>1, ScreenInvHolds, PTL

(* Every behaviour of the screen is one of the store, so what is proved of *)
(* PolicyStore holds of it: no draft, however it came to be, and no row    *)
(* that was misread is saved but as an edit the store knows.               *)
THEOREM ScreenImplementsStore == ScreenSpec => ImplementsPolicyStore
  <1>1. ScreenInit => Init
    BY DEF ScreenInit
  <1>2. StoreOK /\ ScreenInv /\ [ScreenNext]_screenVars => [Next]_storeVars
    BY StepOfStore DEF StoreOK
  <1>3. QED
    BY <1>1, <1>2, ScreenInvHolds, PTL DEF ScreenSpec, ImplementsPolicyStore

(* What was shown when the screen was left is stored, unless the write     *)
(* failed or the screen had misread the row it acted on.                   *)
THEOREM ScreenLeftAsShown == ScreenSpec => []LeftAsShown
  <1>1. ScreenInv => LeftAsShown
    BY DEF ScreenInv, LeftInv, LeftAsShown, Idle
  <1>2. QED
    BY <1>1, ScreenInvHolds, PTL

(* A save made while the screen is open, or by leaving it, turns no app on *)
(* or off, the group change and the restored row included, as long as the  *)
(* rows it copies were read.                                               *)
THEOREM SwitchesKept == ScreenSpec => ScopeKeepsSwitches
  <1>1. StoreOK /\ ScreenInv /\ [ScreenNext]_screenVars =>
          [(screen.stage # "closed" /\ ~screen.misread /\ op.stage = "policy"
             /\ op'.stage = "readback") =>
             \A a \in Configurable :
               Effective(policy', a).enabled = Effective(policy, a).enabled]_screenVars
    <2> SUFFICES ASSUME StoreOK, ScreenInv, [ScreenNext]_screenVars,
                        screen.stage # "closed", ~screen.misread,
                        op.stage = "policy", op'.stage = "readback",
                        NEW a \in Configurable
                 PROVE  Effective(policy', a).enabled = Effective(policy, a).enabled
      OBVIOUS
    <2>1. [Next]_storeVars
      BY StepOfStore DEF StoreOK
    <2>2. policy' = After(op.before, op.edit)
      BY <2>1, OnlyWrites DEF StoreOK, StoreInv, WritePolicy
    <2>3. QED
      BY <2>2 DEF ScreenInv, SwitchInv, Targets
  <1>2. QED
    BY <1>1, ScreenInvHolds, PTL DEF ScreenSpec, ScopeKeepsSwitches
=============================================================================
