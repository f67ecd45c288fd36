------------------------- MODULE HookBackendProofs -------------------------
(***************************************************************************)
(* What holds of the hooks for any plan of the installers, any images and  *)
(* any order in which they are loaded.  The invariant relates every        *)
(* pointer to the replacements and the entry it leads through; that this   *)
(* is what following the originals visits is shown by counting the steps.  *)
(***************************************************************************)
EXTENDS HookBackend, TLAPS, NaturalsInduction, WellFoundedInduction, FiniteSetTheorems

Pointers == Modules \cup {Entry, Body}
Live(s) == {Entry, Body} \cup {m \in Modules : original[<<m, s>>] # Null}
Leads == [Symbols -> [Pointers -> SUBSET (Modules \cup {Entry})]]
InSeq(images) == {images[i] : i \in DOMAIN images}
Hook == <<Current.module, Current.symbol>>
Importer(m, s) == [module |-> m, symbol |-> s, kind |-> "import"]
Patcher(m, s) == [module |-> m, symbol |-> s, kind |-> "inline"]

(* Where the installer and the callback are. *)
Typed ==
  /\ TypeOK
  /\ installer \in [step : 1..Len(Plan) + 1, stage : {"next", "store", "write", "register"},
                    images : Seq(Images)]
  /\ callback \in [images : Seq(Images), at : Nat \ {0}, stage : {"store", "write"}]
  /\ original \in [Hooks -> Modules \cup {Entry, Body, Null}]
  /\ loaded \in Seq(Images) /\ bindings \in Seq(Hooks)

InstallerAt ==
  /\ installer.stage # "next" =>
       /\ installer.step <= Len(Plan) /\ Current.kind = "import"
       /\ Current.module \in process.enabled
       /\ bindings # << >> /\ bindings[Len(bindings)] = Hook
  /\ installer.stage = "write" => installer.images # << >> /\ Imported

CallbackAt ==
  /\ callback.at <= Len(bindings) + 1
  /\ callback.images = << >> => callback.at = 1 /\ callback.stage = "store"
  /\ callback.stage = "write" => Bound
  /\ ~registered => callback.images = << >>

PlaceInv == Typed /\ InstallerAt /\ CallbackAt

(* Only what is loaded waits to be rebound. *)
Queued == InSeq(callback.images) \cup InSeq(installer.images) \subseteq InSeq(loaded)

(* What is bound, patched and rebound follows the plan. *)
Begun(k) == k < installer.step \/ (k = installer.step /\ installer.stage # "next")

PlanInv ==
  /\ \A i \in DOMAIN bindings : \E k \in DOMAIN Plan :
       /\ Begun(k)
       /\ Plan[k] = Importer(bindings[i][1], bindings[i][2])
       /\ bindings[i][1] \in process.enabled
  /\ \A i, j \in DOMAIN bindings : bindings[i] = bindings[j] => i = j
  /\ \A m \in Modules, s \in Symbols : original[<<m, s>>] # Null =>
       \/ <<m, s>> \in InSeq(bindings)
       \/ /\ s \in process.targets /\ m \in process.enabled
          /\ \E k \in DOMAIN Plan : k < installer.step /\ Plan[k] = Patcher(m, s)
  /\ \A c \in Cells : cell[c] \in Modules => <<cell[c], c[2]>> \in InSeq(bindings)

LiveInv ==
  /\ \A c \in Cells : cell[c] \in Live(c[2])
  /\ \A s \in Symbols : code[s] \in Live(s)
  /\ \A m \in Modules, s \in Symbols : original[<<m, s>>] # Null => original[<<m, s>>] \in Live(s)
  /\ installer.stage = "write" => original[Hook] # Null
  /\ callback.stage = "write" => original[Binding] # Null

(* Every pointer leads through itself and what the next one leads through, *)
(* which it is not among: chains end.                                      *)
ChainedAt(D, s) ==
  /\ D[s][Body] = {}
  /\ D[s][Entry] = D[s][code[s]] \cup {Entry} /\ Entry \notin D[s][code[s]]
  /\ \A v \in Live(s) : D[s][v] \subseteq Live(s)
  /\ \A m \in Modules : original[<<m, s>>] # Null =>
       D[s][m] = D[s][original[<<m, s>>]] \cup {m} /\ m \notin D[s][original[<<m, s>>]]

Chained(D) == \A s \in Symbols : ChainedAt(D, s)

Patched(j) ==
  /\ Plan[j].kind = "inline" /\ j < installer.step
  /\ Plan[j].module \in process.enabled /\ Plan[j].symbol \in process.targets

(* Who patches a function leads through those who have patched it before.  *)
Inlined(D) ==
  \A j \in DOMAIN Plan : Patched(j) =>
    /\ Plan[j].module \in D[Plan[j].symbol][Entry]
    /\ \A k \in DOMAIN Plan :
         Patched(k) /\ Plan[k].symbol = Plan[j].symbol /\ j <= k =>
           Plan[j].module \in D[Plan[j].symbol][Plan[k].module]

(* The import cells of x lead through the first n bindings.  *)
Up(D, x, n) ==
  \A i \in 1..n : bindings[i][2] \in Imports[x] =>
    bindings[i][1] \in D[bindings[i][2]][cell[<<x, bindings[i][2]>>]]

(* A module bound after another leads through it. *)
Ordered(D) ==
  \A j \in DOMAIN bindings : \A i \in 1..j :
    (bindings[i][2] = bindings[j][2] /\ original[bindings[j]] # Null) =>
      bindings[i][1] \in D[bindings[j][2]][bindings[j][1]]

(* An image leads through all bindings but those it is still waiting for. *)
Busy == installer.stage \in {"store", "write"}
Waiting(x) == Busy /\ x \in InSeq(installer.images)

Covered(D, x) ==
  IF x \in InSeq(callback.images)
  THEN x = Head(callback.images) => Up(D, x, callback.at - 1)
  ELSE IF Waiting(x)
  THEN Up(D, x, Len(bindings) - 1)
  ELSE Up(D, x, Len(bindings))

Covering(D) ==
  ~process.threaded /\ ~refused =>
    /\ Busy => callback.images = << >>
    /\ ~registered /\ ~Busy => bindings = << >>
    /\ Ordered(D)
    /\ \A x \in InSeq(loaded) : Covered(D, x)

ChainInv == \E D \in Leads : Chained(D) /\ Inlined(D) /\ Covering(D)

GroundInv == PlaceInv /\ Queued /\ PlanInv /\ LiveInv

HooksInv == GroundInv /\ ChainInv
-----------------------------------------------------------------------------
(* What a sequence and its parts consist of. *)
LEMMA Elements ==
  ASSUME NEW S, NEW q \in Seq(S)
  PROVE  /\ Len(q) \in Nat /\ DOMAIN q = 1..Len(q) /\ \A i \in 1..Len(q) : q[i] \in S
         /\ q # << >> => /\ Head(q) = q[1] /\ Head(q) \in S /\ Tail(q) \in Seq(S)
                         /\ Len(q) \in Nat \ {0} /\ Len(Tail(q)) = Len(q) - 1
                         /\ \A i \in 1..Len(q) - 1 : Tail(q)[i] = q[i + 1]
         /\ q = << >> => Len(q) = 0
         /\ \A x \in S : /\ Append(q, x) \in Seq(S) /\ Len(Append(q, x)) = Len(q) + 1
                         /\ \A i \in 1..Len(q) : Append(q, x)[i] = q[i]
                         /\ Append(q, x)[Len(q) + 1] = x /\ Append(q, x) # << >>
  OBVIOUS

(* The members of a sequence when it grows at its end or loses its head. *)
LEMMA Members ==
  ASSUME NEW S, NEW q \in Seq(S)
  PROVE  /\ InSeq(q) \subseteq S /\ InSeq(q) = {q[i] : i \in 1..Len(q)}
         /\ q = << >> => InSeq(q) = {}
         /\ q # << >> => /\ Head(q) \in InSeq(q) /\ InSeq(Tail(q)) \subseteq InSeq(q)
                         /\ InSeq(q) \subseteq InSeq(Tail(q)) \cup {Head(q)}
         /\ \A x \in S : InSeq(Append(q, x)) = InSeq(q) \cup {x}
  <1>1. InSeq(q) = {q[i] : i \in 1..Len(q)} /\ InSeq(q) \subseteq S
    BY Elements DEF InSeq
  <1>2. ASSUME q = << >> PROVE InSeq(q) = {}
    BY <1>1, <1>2, Elements
  <1>3. ASSUME q # << >>
        PROVE  /\ Head(q) \in InSeq(q) /\ InSeq(Tail(q)) \subseteq InSeq(q)
               /\ InSeq(q) \subseteq InSeq(Tail(q)) \cup {Head(q)}
    <2>1. /\ Head(q) = q[1] /\ Tail(q) \in Seq(S) /\ Len(q) \in Nat \ {0}
          /\ Len(Tail(q)) = Len(q) - 1 /\ \A i \in 1..Len(q) - 1 : Tail(q)[i] = q[i + 1]
      BY <1>3, Elements
    <2>2. InSeq(Tail(q)) = {Tail(q)[i] : i \in 1..Len(q) - 1}
      BY <2>1, Elements DEF InSeq
    <2>3. \A i \in 1..Len(q) : i = 1 \/ (i - 1 \in 1..Len(q) - 1 /\ Tail(q)[i - 1] = q[i])
      BY <2>1
    <2>4. \A i \in 1..Len(q) - 1 : i + 1 \in 1..Len(q)
      BY <2>1
    <2>5. InSeq(Tail(q)) \subseteq InSeq(q)
      BY <1>1, <2>1, <2>2, <2>4
    <2>6. InSeq(q) \subseteq InSeq(Tail(q)) \cup {Head(q)}
      <3>1. ASSUME NEW i \in 1..Len(q) PROVE q[i] \in InSeq(Tail(q)) \cup {Head(q)}
        <4>1. CASE i = 1
          BY <2>1, <4>1
        <4>2. CASE i - 1 \in 1..Len(q) - 1 /\ Tail(q)[i - 1] = q[i]
          BY <2>2, <4>2
        <4>3. QED
          BY <2>3, <4>1, <4>2
      <3>2. QED
        BY <1>1, <3>1
    <2>7. 1 \in 1..Len(q)
      BY <2>1
    <2>8. QED
      BY <1>1, <2>1, <2>5, <2>6, <2>7
  <1>4. ASSUME NEW x \in S PROVE InSeq(Append(q, x)) = InSeq(q) \cup {x}
    <2>1. /\ Append(q, x) \in Seq(S) /\ Len(Append(q, x)) = Len(q) + 1 /\ Len(q) \in Nat
          /\ \A i \in 1..Len(q) : Append(q, x)[i] = q[i]
          /\ Append(q, x)[Len(q) + 1] = x
      BY <1>4, Elements
    <2>2. InSeq(Append(q, x)) = {Append(q, x)[i] : i \in 1..Len(q) + 1}
      BY <2>1, Elements DEF InSeq
    <2>3. \A i \in 1..Len(q) + 1 : i \in 1..Len(q) \/ i = Len(q) + 1
      BY <2>1
    <2>4. Len(q) + 1 \in 1..Len(q) + 1 /\ \A i \in 1..Len(q) : i \in 1..Len(q) + 1
      BY <2>1
    <2>5. QED
      BY <1>1, <2>1, <2>2, <2>3, <2>4
  <1>5. QED
    BY <1>1, <1>2, <1>3, <1>4

(* A hook of the plan has a module, a symbol and a kind. *)
LEMMA PlanTyped ==
  ASSUME NEW k \in DOMAIN Plan
  PROVE  /\ k \in 1..Len(Plan) /\ Len(Plan) \in Nat
         /\ Plan[k].module \in Modules /\ Plan[k].symbol \in Symbols
         /\ Plan[k].kind \in {"inline", "import"}
         /\ Plan[k].kind = "import" => Plan[k] = Importer(Plan[k].module, Plan[k].symbol)
         /\ Plan[k].kind = "inline" => Plan[k] = Patcher(Plan[k].module, Plan[k].symbol)
  <1> DEFINE hooks == [module : Modules, symbol : Symbols, kind : {"inline", "import"}]
  <1>1. Plan \in Seq(hooks)
    BY BackendAssumption DEF BackendAssumption
  <1> HIDE DEF hooks
  <1>2. k \in 1..Len(Plan) /\ Len(Plan) \in Nat /\ Plan[k] \in hooks
    BY <1>1, Elements
  <1>3. Plan[k] \in [module : Modules, symbol : Symbols, kind : {"inline", "import"}]
    BY <1>2 DEF hooks
  <1>4. Plan[k] = [module |-> Plan[k].module, symbol |-> Plan[k].symbol, kind |-> Plan[k].kind]
    BY <1>3
  <1>5. QED
    BY <1>2, <1>3, <1>4 DEF Importer, Patcher

(* So has the current one, while there is one. *)
LEMMA CurrentTyped ==
  ASSUME PlaceInv, installer.step <= Len(Plan)
  PROVE  /\ installer.step \in DOMAIN Plan
         /\ Current.module \in Modules /\ Current.symbol \in Symbols
         /\ Hook = <<Current.module, Current.symbol>> /\ Hook \in Hooks
         /\ Current.kind = "import" => Current = Importer(Current.module, Current.symbol)
         /\ Current.kind = "inline" => Current = Patcher(Current.module, Current.symbol)
  <1>1. installer.step \in DOMAIN Plan
    BY BackendAssumption DEF BackendAssumption, PlaceInv, Typed
  <1>2. QED
    BY <1>1, PlanTyped DEF Current, Hook, Hooks

(* The special pointers are no modules and differ. *)
LEMMA Special ==
  /\ Entry \notin Modules /\ Body \notin Modules /\ Null \notin Modules
  /\ Entry # Body /\ Entry # Null /\ Body # Null
  BY BackendAssumption DEF BackendAssumption

(* The replacement of a module for a symbol passes on to v from now on. *)
Keeps(m, s, v) == original' = [original EXCEPT ![<<m, s>>] = v]

(* Every other one passes on as before. *)
Only(m, s, v) ==
  /\ original'[<<m, s>>] = v
  /\ \A n \in Modules, r \in Symbols :
       ~(n = m /\ r = s) => original'[<<n, r>>] = original[<<n, r>>]

(* A store sets the original that is missing, or nothing. *)
LEMMA StoreEffect ==
  ASSUME PlaceInv, NEW m \in Modules, NEW s \in Symbols, NEW v \in Modules \cup {Entry},
         original' = Stored(<<m, s>>, v)
  PROVE  \/ original' = original /\ (original[<<m, s>>] # Null \/ v = m)
         \/ original[<<m, s>>] = Null /\ v # m /\ Keeps(m, s, v)
  <1>1. <<m, s>> \in Hooks /\ <<m, s>>[1] = m /\ original \in [Hooks -> Modules \cup {Entry, Body, Null}]
    BY DEF Hooks, PlaceInv, Typed
  <1>2. original' = [original EXCEPT ![<<m, s>>] =
                       IF original[<<m, s>>] = Null /\ v # m THEN v ELSE original[<<m, s>>]]
    BY <1>1 DEF Stored
  <1>3. QED
    BY <1>1, <1>2 DEF Keeps

(* The type of the originals survives what a hook keeps. *)
LEMMA OriginalTyped ==
  ASSUME PlaceInv, NEW m \in Modules, NEW s \in Symbols, NEW v \in (Modules \ {m}) \cup {Entry, Body},
         Keeps(m, s, v)
  PROVE  /\ original' \in [Hooks -> Modules \cup {Entry, Body, Null}]
         /\ \A h \in Hooks : original'[h] \in (Modules \ {h[1]}) \cup {Entry, Body, Null}
         /\ Only(m, s, v)
  <1>1. <<m, s>> \in Hooks /\ <<m, s>>[1] = m /\ original \in [Hooks -> Modules \cup {Entry, Body, Null}]
        /\ \A h \in Hooks : original[h] \in (Modules \ {h[1]}) \cup {Entry, Body, Null}
    BY DEF Hooks, PlaceInv, Typed, TypeOK
  <1>2. \A h \in Hooks : original'[h] = IF h = <<m, s>> THEN v ELSE original[h]
    BY <1>1 DEF Keeps
  <1>3. ASSUME NEW n \in Modules, NEW r \in Symbols
        PROVE  /\ n = m /\ r = s => original'[<<n, r>>] = v
               /\ ~(n = m /\ r = s) => original'[<<n, r>>] = original[<<n, r>>]
    <2>1. <<n, r>> \in Hooks /\ (<<n, r>> = <<m, s>> <=> n = m /\ r = s)
      BY DEF Hooks
    <2>2. QED
      BY <1>2, <2>1
  <1>4. /\ original' \in [Hooks -> Modules \cup {Entry, Body, Null}]
        /\ \A h \in Hooks : original'[h] \in (Modules \ {h[1]}) \cup {Entry, Body, Null}
    BY <1>1, <1>2 DEF Keeps
  <1>5. QED
    BY <1>3, <1>4 DEF Only

(* A write changes the cell, or refuses it. *)
LEMMA WriteEffect ==
  ASSUME PlaceInv, NEW m \in Modules, NEW s \in Symbols, NEW x \in Images, s \in Imports[x],
         WriteCell(<<m, s>>, x)
  PROVE  /\ <<x, s>> \in Cells
         /\ \/ cell' = [cell EXCEPT ![<<x, s>>] = m] /\ refused' = refused
            \/ cell' = cell /\ refused' = TRUE
         /\ cell' \in [Cells -> Modules \cup {Entry}] /\ refused' \in BOOLEAN
         /\ \A c \in Cells : cell'[c] # cell[c] => c = <<x, s>> /\ cell'[c] = m
  <1>1. <<x, s>> \in Cells
    BY DEF Cells
  <1>2. \/ cell' = [cell EXCEPT ![<<x, s>>] = m] /\ refused' = refused
        \/ cell' = cell /\ refused' = TRUE
    BY DEF WriteCell
  <1>3. cell \in [Cells -> Modules \cup {Entry}] /\ refused \in BOOLEAN
    BY DEF PlaceInv, Typed, TypeOK
  <1>4. QED
    BY <1>1, <1>2, <1>3

-----------------------------------------------------------------------------
(* A module that is to patch a function has kept no original of it yet. *)
LEMMA PatchFresh ==
  ASSUME PlaceInv, PlanInv, AtStep, Current.kind = "inline"
  PROVE  original[Hook] = Null /\ Hook \notin InSeq(bindings)
  <1> DEFINE m == Current.module
             s == Current.symbol
  <1>1. /\ installer.step \in DOMAIN Plan /\ m \in Modules /\ s \in Symbols
        /\ Plan[installer.step] = Patcher(m, s) /\ Hook = <<m, s>> /\ installer.step \in Nat
        /\ installer.stage = "next"
    BY CurrentTyped, PlanTyped DEF AtStep, Current, PlaceInv, Typed
  <1>2. \A k \in DOMAIN Plan : k \in Nat
    BY PlanTyped
  <1> HIDE DEF m, s
  <1>3. ASSUME NEW k \in DOMAIN Plan, k < installer.step PROVE Plan[k] # Patcher(m, s)
    BY <1>1, <1>2, <1>3, PlanAssumption DEF PlanAssumption
  <1>4. ASSUME NEW k \in DOMAIN Plan, k < installer.step PROVE Plan[k] # Importer(m, s)
    <2>1. SUFFICES ASSUME Plan[k] = Importer(m, s) PROVE FALSE
      OBVIOUS
    <2>2. PICK j \in DOMAIN Plan : j < k /\ Plan[j] = [Plan[k] EXCEPT !.kind = "inline"]
      BY <1>4, <2>1, PlanAssumption DEF PlanAssumption, Importer
    <2>3. Plan[j] = Patcher(m, s)
      BY <2>1, <2>2 DEF Importer, Patcher
    <2>4. QED
      BY <1>1, <1>2, <1>3, <1>4, <2>2, <2>3
  <1>5. <<m, s>> \notin InSeq(bindings)
    <2>1. SUFFICES ASSUME NEW i \in DOMAIN bindings, bindings[i] = <<m, s>> PROVE FALSE
      BY DEF InSeq
    <2>2. bindings[i][1] = m /\ bindings[i][2] = s
      BY <2>1
    <2>3. QED
      BY <1>1, <1>4, <2>1, <2>2 DEF PlanInv, Begun
  <1>6. QED
    BY <1>1, <1>3, <1>5 DEF PlanInv

(* No installer is done before its last cell, and each step is next. *)
LEMMA NextStepTyped ==
  ASSUME PlaceInv, installer.step <= Len(Plan)
  PROVE  /\ NextStep \in [step : 1..Len(Plan) + 1, stage : {"next", "store", "write", "register"},
                          images : Seq(Images)]
         /\ NextStep.stage = "next" /\ NextStep.step = installer.step + 1
         /\ NextStep.images = installer.images
  <1>1. Len(Plan) \in Nat /\ installer.step \in 1..Len(Plan)
    BY CurrentTyped, PlanTyped DEF Current, PlaceInv, Typed
  <1>2. installer \in [step : 1..Len(Plan) + 1, stage : {"next", "store", "write", "register"},
                       images : Seq(Images)]
    BY DEF PlaceInv, Typed
  <1>3. installer.step + 1 \in 1..Len(Plan) + 1
    BY <1>1
  <1>4. QED
    BY <1>2, <1>3 DEF NextStep

(* A module that is skipped leaves everything where it is. *)
LEMMA PlaceSkip == PlaceInv /\ SkipDisabled => PlaceInv'
  <1> SUFFICES ASSUME PlaceInv, SkipDisabled PROVE PlaceInv'
    OBVIOUS
  <1>1. installer.step <= Len(Plan) /\ installer' = NextStep
    BY DEF SkipDisabled, AtStep
  <1>2. Typed'
    BY <1>1, NextStepTyped DEF SkipDisabled, PlaceInv, Typed, TypeOK
  <1>3. InstallerAt'
    BY <1>1, NextStepTyped DEF InstallerAt
  <1>4. CallbackAt'
    BY DEF SkipDisabled, PlaceInv, CallbackAt, Bound, Binding
  <1>5. QED
    BY <1>2, <1>3, <1>4 DEF PlaceInv

(* Patching a function leaves no replacement passing on to itself. *)
LEMMA PlacePatch == PlaceInv /\ PlanInv /\ LiveInv /\ HookFunction => PlaceInv'
  <1> SUFFICES ASSUME PlaceInv, PlanInv, LiveInv, HookFunction PROVE PlaceInv'
    OBVIOUS
  <1>1. /\ installer.step <= Len(Plan) /\ installer' = NextStep /\ original[Hook] = Null
        /\ Current.module \in Modules /\ Current.symbol \in Symbols
        /\ Hook = <<Current.module, Current.symbol>>
    BY PatchFresh, CurrentTyped DEF HookFunction, AtStep
  <1> DEFINE m == Current.module
             s == Current.symbol
  <1>2. code[s] \in (Modules \ {m}) \cup {Body} /\ code \in [Symbols -> Modules \cup {Body}]
    BY <1>1, Special DEF LiveInv, Live, PlaceInv, Typed, TypeOK
  <1>3. /\ code' \in [Symbols -> Modules \cup {Body}]
        /\ original' \in [Hooks -> Modules \cup {Entry, Body, Null}]
        /\ \A h \in Hooks : original'[h] \in (Modules \ {h[1]}) \cup {Entry, Body, Null}
    <2>1. CASE s \in process.targets
      <3>1. code' = [code EXCEPT ![s] = m] /\ Keeps(m, s, code[s])
        BY <2>1 DEF HookFunction, Keeps
      <3>2. m \in Modules /\ s \in Symbols
        BY <1>1
      <3> HIDE DEF m, s
      <3>3. QED
        BY <1>2, <3>1, <3>2, OriginalTyped
    <2>2. CASE s \notin process.targets
      BY <2>2 DEF HookFunction, PlaceInv, Typed, TypeOK
    <2>3. QED
      BY <2>1, <2>2
  <1>4. Typed'
    BY <1>1, <1>3, NextStepTyped DEF HookFunction, PlaceInv, Typed, TypeOK
  <1>5. InstallerAt'
    BY <1>1, NextStepTyped DEF InstallerAt
  <1>6. CallbackAt'
    BY DEF HookFunction, PlaceInv, CallbackAt, Bound, Binding
  <1>7. QED
    BY <1>4, <1>5, <1>6 DEF PlaceInv

(* One hook more is bound, where there is room. *)
LEMMA PlaceBind == PlaceInv /\ HookImportedSymbol => PlaceInv'
  <1> SUFFICES ASSUME PlaceInv, HookImportedSymbol PROVE PlaceInv'
    OBVIOUS
  <1>1. /\ installer.step <= Len(Plan) /\ installer.stage = "next"
        /\ Hook \in Hooks /\ Hook = <<Current.module, Current.symbol>>
        /\ Current.kind = "import" /\ Current.module \in process.enabled
        /\ bindings \in Seq(Hooks) /\ Limit \in Nat
    BY CurrentTyped, BackendAssumption DEF HookImportedSymbol, AtStep, PlaceInv, Typed, BackendAssumption
  <1>2. CASE Len(bindings) < Limit
    <2>1. /\ bindings' = Append(bindings, Hook)
          /\ installer' = [installer EXCEPT !.stage = "store", !.images = loaded]
          /\ UNCHANGED <<process, code, cell, original, loaded, registered, callback, refused>>
      BY <1>1, <1>2 DEF HookImportedSymbol
    <2>2. /\ bindings' \in Seq(Hooks) /\ Len(bindings) \in Nat /\ Len(bindings') = Len(bindings) + 1
          /\ bindings'[Len(bindings')] = Hook /\ bindings' # << >>
          /\ \A i \in 1..Len(bindings) : bindings'[i] = bindings[i]
      BY <1>1, <2>1, Elements
    <2>3. /\ DOMAIN bindings' = 1..Len(bindings') /\ \A i \in DOMAIN bindings' : bindings'[i] \in Hooks
          /\ Len(bindings') <= Limit
      BY <1>1, <1>2, <2>2, Elements
    <2>4. installer' \in [step : 1..Len(Plan) + 1, stage : {"next", "store", "write", "register"},
                         images : Seq(Images)]
          /\ installer'.stage = "store" /\ installer'.step = installer.step
      BY <2>1 DEF PlaceInv, Typed
    <2>5. Typed'
      BY <2>1, <2>2, <2>3, <2>4 DEF PlaceInv, Typed, TypeOK
    <2>6. InstallerAt'
      BY <1>1, <2>1, <2>2, <2>4 DEF InstallerAt, Current, Hook
    <2>7. CallbackAt'
      BY <2>1, <2>2 DEF PlaceInv, Typed, CallbackAt, Bound, Binding
    <2>8. QED
      BY <2>5, <2>6, <2>7 DEF PlaceInv
  <1>3. CASE ~(Len(bindings) < Limit)
    <2>1. installer' = NextStep /\ bindings' = bindings
          /\ UNCHANGED <<process, code, cell, original, loaded, registered, callback, refused>>
      BY <1>3 DEF HookImportedSymbol
    <2>2. Typed'
      BY <1>1, <2>1, NextStepTyped DEF PlaceInv, Typed, TypeOK
    <2>3. InstallerAt'
      BY <1>1, <2>1, NextStepTyped DEF InstallerAt
    <2>4. CallbackAt'
      BY <2>1 DEF PlaceInv, CallbackAt, Bound, Binding
    <2>5. QED
      BY <2>2, <2>3, <2>4 DEF PlaceInv
  <1>4. QED
    BY <1>2, <1>3

(* What the installer works on while it rebinds an image. *)
LEMMA RebindingTyped ==
  ASSUME PlaceInv, installer.stage # "next", installer.images # << >>
  PROVE  /\ installer.step <= Len(Plan) /\ installer.step \in DOMAIN Plan
         /\ Current.module \in Modules /\ Current.symbol \in Symbols
         /\ Hook = <<Current.module, Current.symbol>> /\ Hook \in Hooks
         /\ Head(installer.images) \in Images /\ Tail(installer.images) \in Seq(Images)
         /\ Imported => <<Head(installer.images), Current.symbol>> \in Cells
  <1>1. installer.images \in Seq(Images)
    BY DEF PlaceInv, Typed
  <1>2. Head(installer.images) \in Images /\ Tail(installer.images) \in Seq(Images)
    BY <1>1, Elements
  <1>3. QED
    BY <1>2, CurrentTyped DEF PlaceInv, InstallerAt, Imported, Cells

(* An image without the symbol is passed over. *)
LEMMA PlacePass == PlaceInv /\ RebindSkip => PlaceInv'
  <1> SUFFICES ASSUME PlaceInv, RebindSkip PROVE PlaceInv'
    OBVIOUS
  <1>1. /\ installer' = [installer EXCEPT !.images = Tail(@)]
        /\ UNCHANGED <<process, code, cell, original, bindings, loaded, registered, callback, refused>>
        /\ installer.stage = "store" /\ Tail(installer.images) \in Seq(Images)
    BY RebindingTyped DEF RebindSkip, Rebinding
  <1>2. /\ installer' \in [step : 1..Len(Plan) + 1, stage : {"next", "store", "write", "register"},
                          images : Seq(Images)]
        /\ installer'.stage = "store" /\ installer'.step = installer.step
    BY <1>1 DEF PlaceInv, Typed
  <1>3. Typed'
    BY <1>1, <1>2 DEF PlaceInv, Typed, TypeOK
  <1>4. InstallerAt'
    BY <1>1, <1>2 DEF PlaceInv, InstallerAt, Current, Hook
  <1>5. CallbackAt'
    BY <1>1 DEF PlaceInv, CallbackAt, Bound, Binding
  <1>6. QED
    BY <1>3, <1>4, <1>5 DEF PlaceInv

(* What is stored as an original is none of the module itself. *)
LEMMA StoredTyped ==
  ASSUME PlaceInv, NEW m \in Modules, NEW s \in Symbols, NEW v \in Modules \cup {Entry},
         original' = Stored(<<m, s>>, v)
  PROVE  /\ original' \in [Hooks -> Modules \cup {Entry, Body, Null}]
         /\ \A h \in Hooks : original'[h] \in (Modules \ {h[1]}) \cup {Entry, Body, Null}
  <1>1. CASE original' = original
    BY <1>1 DEF PlaceInv, Typed, TypeOK
  <1>2. CASE v # m /\ Keeps(m, s, v)
    BY <1>2, OriginalTyped
  <1>3. QED
    BY <1>1, <1>2, StoreEffect

(* The installer keeps what it has found in a cell. *)
LEMMA PlaceStore == PlaceInv /\ RebindStore => PlaceInv'
  <1> SUFFICES ASSUME PlaceInv, RebindStore PROVE PlaceInv'
    OBVIOUS
  <1> DEFINE v == cell[<<Head(installer.images), Current.symbol>>]
  <1>1. /\ installer' = [installer EXCEPT !.stage = "write"]
        /\ UNCHANGED <<process, code, cell, bindings, loaded, registered, callback, refused>>
        /\ installer.stage = "store" /\ installer.images # << >> /\ Imported
        /\ original' = Stored(<<Current.module, Current.symbol>>, v)
        /\ Current.module \in Modules /\ Current.symbol \in Symbols
        /\ v \in Modules \cup {Entry}
    BY RebindingTyped DEF RebindStore, Rebinding, PlaceInv, Typed, TypeOK
  <1> HIDE DEF v
  <1>2. /\ installer' \in [step : 1..Len(Plan) + 1, stage : {"next", "store", "write", "register"},
                          images : Seq(Images)]
        /\ installer'.stage = "write" /\ installer'.step = installer.step
        /\ installer'.images = installer.images
    BY <1>1 DEF PlaceInv, Typed
  <1>3. Typed'
    BY <1>1, <1>2, StoredTyped DEF PlaceInv, Typed, TypeOK
  <1>4. InstallerAt'
    BY <1>1, <1>2 DEF PlaceInv, InstallerAt, Current, Hook, Imported
  <1>5. CallbackAt'
    BY <1>1 DEF PlaceInv, CallbackAt, Bound, Binding
  <1>6. QED
    BY <1>3, <1>4, <1>5 DEF PlaceInv

(* It goes on to the next image when a cell is written, or refused. *)
LEMMA PlaceWrite == PlaceInv /\ RebindWrite => PlaceInv'
  <1> SUFFICES ASSUME PlaceInv, RebindWrite PROVE PlaceInv'
    OBVIOUS
  <1>1. /\ installer' = [installer EXCEPT !.stage = "store", !.images = Tail(@)]
        /\ UNCHANGED <<process, code, original, bindings, loaded, registered, callback>>
        /\ installer.stage = "write" /\ installer.images # << >> /\ Imported
        /\ WriteCell(<<Current.module, Current.symbol>>, Head(installer.images))
    BY DEF RebindWrite, PlaceInv, InstallerAt
  <1>2. /\ Current.module \in Modules /\ Current.symbol \in Symbols
        /\ Head(installer.images) \in Images /\ Tail(installer.images) \in Seq(Images)
    BY <1>1, RebindingTyped
  <1>3. /\ installer' \in [step : 1..Len(Plan) + 1, stage : {"next", "store", "write", "register"},
                          images : Seq(Images)]
        /\ installer'.stage = "store" /\ installer'.step = installer.step
    BY <1>1, <1>2 DEF PlaceInv, Typed
  <1>4. cell' \in [Cells -> Modules \cup {Entry}] /\ refused' \in BOOLEAN
    BY <1>1, <1>2, WriteEffect DEF Imported
  <1>5. Typed'
    BY <1>1, <1>3, <1>4 DEF PlaceInv, Typed, TypeOK
  <1>6. InstallerAt'
    BY <1>1, <1>3 DEF PlaceInv, InstallerAt, Current, Hook
  <1>7. CallbackAt'
    BY <1>1 DEF PlaceInv, CallbackAt, Bound, Binding
  <1>8. QED
    BY <1>5, <1>6, <1>7 DEF PlaceInv

(* The last cell of a hook; the first hook has the callback called. *)
LEMMA PlaceEnd == PlaceInv /\ (RebindEnd \/ RegisterEnd) => PlaceInv'
  <1> SUFFICES ASSUME PlaceInv, RebindEnd \/ RegisterEnd PROVE PlaceInv'
    OBVIOUS
  <1>1. /\ UNCHANGED <<process, code, cell, original, bindings, loaded, refused>>
        /\ registered' \in BOOLEAN /\ installer.step <= Len(Plan) /\ installer.stage # "next"
        /\ \/ /\ installer' = NextStep /\ callback' = callback /\ (registered => registered')
           \/ /\ installer' = [installer EXCEPT !.stage = "register"]
              /\ callback' = [callback EXCEPT !.images = loaded] /\ ~registered /\ registered'
        /\ registered => registered'
    BY DEF RebindEnd, RegisterEnd, PlaceInv, Typed, TypeOK, InstallerAt
  <1>2. CASE installer' = NextStep /\ callback' = callback
    <2>1. Typed'
      BY <1>1, <1>2, NextStepTyped DEF PlaceInv, Typed, TypeOK
    <2>2. InstallerAt'
      BY <1>1, <1>2, NextStepTyped DEF InstallerAt
    <2>3. CallbackAt'
      BY <1>1, <1>2 DEF PlaceInv, CallbackAt, Bound, Binding
    <2>4. QED
      BY <2>1, <2>2, <2>3 DEF PlaceInv
  <1>3. CASE /\ installer' = [installer EXCEPT !.stage = "register"]
             /\ callback' = [callback EXCEPT !.images = loaded] /\ ~registered /\ registered'
    <2>1. /\ installer' \in [step : 1..Len(Plan) + 1, stage : {"next", "store", "write", "register"},
                            images : Seq(Images)]
          /\ installer'.stage = "register" /\ installer'.step = installer.step
      BY <1>1, <1>3 DEF PlaceInv, Typed
    <2>2. /\ callback' \in [images : Seq(Images), at : Nat \ {0}, stage : {"store", "write"}]
          /\ callback'.at = 1 /\ callback'.stage = "store"
      BY <1>3 DEF PlaceInv, Typed, CallbackAt
    <2>3. bindings' = bindings /\ Len(bindings) \in Nat
      BY <1>1, Elements DEF PlaceInv, Typed
    <2>4. Typed'
      BY <1>1, <2>1, <2>2 DEF PlaceInv, Typed, TypeOK
    <2>5. InstallerAt'
      BY <1>1, <2>1 DEF PlaceInv, InstallerAt, Current, Hook
    <2>6. CallbackAt'
      BY <1>3, <2>2, <2>3 DEF CallbackAt
    <2>7. QED
      BY <2>4, <2>5, <2>6 DEF PlaceInv
  <1>4. QED
    BY <1>1, <1>2, <1>3

(* What is appended comes last. *)
LEMMA HeadKept ==
  ASSUME NEW S, NEW q \in Seq(S), NEW x \in S
  PROVE  /\ Append(q, x) \in Seq(S) /\ Append(q, x) # << >>
         /\ q # << >> => Head(Append(q, x)) = Head(q)
  <1>1. Append(q, x) \in Seq(S) /\ Append(q, x) # << >>
    BY Elements
  <1>2. ASSUME q # << >> PROVE Head(Append(q, x)) = Head(q)
    <2>1. 1 \in 1..Len(q) /\ Head(q) = q[1]
      BY <1>2, Elements
    <2>2. Append(q, x)[1] = q[1]
      BY <2>1, Elements
    <2>3. Head(Append(q, x)) = Append(q, x)[1]
      BY <1>1, Elements
    <2>4. QED
      BY <2>1, <2>2, <2>3
  <1>3. QED
    BY <1>1, <1>2

(* An image more is loaded, and queued once the callback is known. *)
LEMMA PlaceLoad ==
  ASSUME PlaceInv, NEW x \in Images, LoadImage(x)
  PROVE  PlaceInv'
  <1>1. /\ loaded' \in Seq(Images) /\ UNCHANGED <<process, code, cell, original, bindings, registered, installer, refused>>
        /\ callback' = [callback EXCEPT !.images = IF registered THEN Append(@, x) ELSE @]
    BY Elements DEF LoadImage, PlaceInv, Typed
  <1>2. /\ callback.images \in Seq(Images) /\ Append(callback.images, x) \in Seq(Images)
        /\ Append(callback.images, x) # << >>
        /\ callback.images # << >> => Head(Append(callback.images, x)) = Head(callback.images)
    <2>1. callback.images \in Seq(Images)
      BY DEF PlaceInv, Typed
    <2>2. QED
      BY <2>1, HeadKept
  <1>3. /\ callback' \in [images : Seq(Images), at : Nat \ {0}, stage : {"store", "write"}]
        /\ callback'.at = callback.at /\ callback'.stage = callback.stage
        /\ callback.images # << >> => /\ callback'.images # << >>
                                     /\ Head(callback'.images) = Head(callback.images)
        /\ ~registered => callback'.images = callback.images
    <2> DEFINE q == IF registered THEN Append(callback.images, x) ELSE callback.images
    <2>1. callback \in [images : Seq(Images), at : Nat \ {0}, stage : {"store", "write"}]
          /\ callback' = [callback EXCEPT !.images = q]
      BY <1>1 DEF PlaceInv, Typed
    <2>2. q \in Seq(Images) /\ (callback.images # << >> => q # << >> /\ Head(q) = Head(callback.images))
          /\ (~registered => q = callback.images)
      BY <1>2
    <2> HIDE DEF q
    <2>3. QED
      BY <2>1, <2>2
  <1>4. Typed'
    BY <1>1, <1>3 DEF PlaceInv, Typed, TypeOK
  <1>5. InstallerAt'
    BY <1>1 DEF PlaceInv, InstallerAt, Current, Hook, Imported
  <1>6. CallbackAt'
    BY <1>1, <1>3 DEF PlaceInv, CallbackAt, Bound, Binding
  <1>7. QED
    BY <1>4, <1>5, <1>6 DEF PlaceInv

(* What the callback works on. *)
LEMMA CallbackTyped ==
  ASSUME PlaceInv, Calling
  PROVE  /\ Head(callback.images) \in Images /\ Tail(callback.images) \in Seq(Images)
         /\ callback.at <= Len(bindings) => /\ callback.at \in DOMAIN bindings /\ Binding \in Hooks
                                           /\ Binding = <<Binding[1], Binding[2]>>
                                           /\ Binding[1] \in Modules /\ Binding[2] \in Symbols
         /\ Bound => <<Head(callback.images), Binding[2]>> \in Cells
  <1>1. callback.images \in Seq(Images) /\ callback.images # << >> /\ bindings \in Seq(Hooks)
        /\ callback.at \in Nat \ {0}
    BY DEF PlaceInv, Typed, Calling
  <1>2. Head(callback.images) \in Images /\ Tail(callback.images) \in Seq(Images)
        /\ Len(bindings) \in Nat /\ DOMAIN bindings = 1..Len(bindings)
        /\ \A i \in 1..Len(bindings) : bindings[i] \in Hooks
    BY <1>1, Elements
  <1>3. callback.at <= Len(bindings) => callback.at \in DOMAIN bindings /\ Binding \in Hooks
    BY <1>1, <1>2 DEF Binding
  <1>4. QED
    BY <1>2, <1>3 DEF Hooks, Bound, Cells

(* The callback has one binding after the other. *)
LEMMA NextBindingTyped ==
  ASSUME PlaceInv, Calling
  PROVE  /\ NextBinding \in [images : Seq(Images), at : Nat \ {0}, stage : {"store", "write"}]
         /\ NextBinding.at = callback.at + 1 /\ NextBinding.stage = "store"
         /\ NextBinding.images = callback.images /\ NextBinding.images # << >>
  <1>1. callback \in [images : Seq(Images), at : Nat \ {0}, stage : {"store", "write"}]
        /\ callback.images # << >>
    BY DEF PlaceInv, Typed, Calling
  <1>2. callback.at + 1 \in Nat \ {0}
    BY <1>1
  <1>3. QED
    BY <1>1, <1>2 DEF NextBinding

(* The callback goes on to the next binding of the image, or the next image. *)
LEMMA PlaceCallback == PlaceInv /\ Callback => PlaceInv'
  <1> SUFFICES ASSUME PlaceInv, Callback PROVE PlaceInv'
    OBVIOUS
  <1>1. /\ UNCHANGED <<process, code, bindings, loaded, registered, installer>>
        /\ Calling /\ bindings \in Seq(Hooks) /\ Len(bindings) \in Nat /\ callback.at \in Nat \ {0}
        /\ Limit \in Nat
    BY Elements, BackendAssumption DEF BackendAssumption, Callback, CallbackSkip, CallbackStore, CallbackWrite, CallbackEnd, PlaceInv, Typed, Calling
  <1>2. InstallerAt'
    BY <1>1 DEF PlaceInv, InstallerAt, Current, Hook, Imported
  <1>3. registered
    BY <1>1 DEF PlaceInv, CallbackAt, Calling
  <1>4. CASE CallbackSkip
    <2>1. callback' = NextBinding /\ original' = original /\ cell' = cell /\ refused' = refused
          /\ callback.at <= Len(bindings)
      BY <1>4 DEF CallbackSkip
    <2>2. /\ callback' \in [images : Seq(Images), at : Nat \ {0}, stage : {"store", "write"}]
          /\ callback'.at = callback.at + 1 /\ callback'.stage = "store" /\ callback'.images # << >>
      BY <1>1, <2>1, NextBindingTyped
    <2>3. Typed'
      BY <1>1, <2>1, <2>2 DEF PlaceInv, Typed, TypeOK
    <2>4. CallbackAt'
      BY <1>1, <1>3, <2>1, <2>2 DEF CallbackAt
    <2>5. QED
      BY <1>2, <2>3, <2>4 DEF PlaceInv
  <1>5. CASE CallbackStore
    <2> DEFINE v == cell[<<Head(callback.images), Binding[2]>>]
    <2>1. callback' = [callback EXCEPT !.stage = "write"] /\ cell' = cell /\ refused' = refused
          /\ Bound /\ original' = Stored(Binding, v)
      BY <1>5 DEF CallbackStore
    <2>2. callback.at <= Len(bindings)
      BY <2>1 DEF Bound
    <2>3. v \in Modules \cup {Entry} /\ Binding[1] \in Modules /\ Binding[2] \in Symbols
          /\ original' = Stored(<<Binding[1], Binding[2]>>, v)
      BY <1>1, <2>1, <2>2, CallbackTyped DEF PlaceInv, Typed, TypeOK
    <2>4. /\ original' \in [Hooks -> Modules \cup {Entry, Body, Null}]
          /\ \A h \in Hooks : original'[h] \in (Modules \ {h[1]}) \cup {Entry, Body, Null}
      <3> HIDE DEF v
      <3>1. QED
        BY <2>3, StoredTyped
    <2>5. /\ callback' \in [images : Seq(Images), at : Nat \ {0}, stage : {"store", "write"}]
          /\ callback'.at = callback.at /\ callback'.stage = "write" /\ callback'.images = callback.images
      BY <2>1 DEF PlaceInv, Typed
    <2>6. Typed'
      BY <1>1, <2>1, <2>4, <2>5 DEF PlaceInv, Typed, TypeOK
    <2>7. CallbackAt'
      BY <1>1, <1>3, <2>1, <2>5 DEF PlaceInv, CallbackAt, Bound, Binding, Calling
    <2>8. QED
      BY <1>2, <2>6, <2>7 DEF PlaceInv
  <1>6. CASE CallbackWrite
    <2>1. callback' = NextBinding /\ original' = original /\ Bound
          /\ WriteCell(Binding, Head(callback.images))
      BY <1>6 DEF CallbackWrite, PlaceInv, CallbackAt
    <2>2. callback.at <= Len(bindings)
      BY <2>1 DEF Bound
    <2>3. Binding[1] \in Modules /\ Binding[2] \in Symbols /\ Head(callback.images) \in Images
          /\ WriteCell(<<Binding[1], Binding[2]>>, Head(callback.images))
          /\ Binding[2] \in Imports[Head(callback.images)]
      BY <1>1, <2>1, <2>2, CallbackTyped DEF Bound
    <2>4. cell' \in [Cells -> Modules \cup {Entry}] /\ refused' \in BOOLEAN
      BY <2>3, WriteEffect
    <2>5. /\ callback' \in [images : Seq(Images), at : Nat \ {0}, stage : {"store", "write"}]
          /\ callback'.at = callback.at + 1 /\ callback'.stage = "store" /\ callback'.images # << >>
      BY <1>1, <2>1, NextBindingTyped
    <2>6. Typed'
      BY <1>1, <2>1, <2>2, <2>4, <2>5 DEF PlaceInv, Typed, TypeOK
    <2>7. CallbackAt'
      BY <1>1, <1>3, <2>1, <2>2, <2>5 DEF CallbackAt
    <2>8. QED
      BY <1>2, <2>6, <2>7 DEF PlaceInv
  <1>7. CASE CallbackEnd
    <2>1. callback' = [images |-> Tail(callback.images), at |-> 1, stage |-> "store"]
          /\ original' = original /\ cell' = cell /\ refused' = refused
      BY <1>7 DEF CallbackEnd
    <2>2. callback' \in [images : Seq(Images), at : Nat \ {0}, stage : {"store", "write"}]
          /\ callback'.at = 1 /\ callback'.stage = "store"
      BY <1>1, <2>1, CallbackTyped
    <2>3. Typed'
      BY <1>1, <2>1, <2>2, BackendAssumption DEF PlaceInv, Typed, TypeOK, BackendAssumption
    <2>4. CallbackAt'
      BY <1>1, <1>3, <2>2 DEF CallbackAt
    <2>5. QED
      BY <1>2, <2>3, <2>4 DEF PlaceInv
  <1>8. QED
    BY <1>4, <1>5, <1>6, <1>7 DEF Callback

(* Every step keeps the types and the places. *)
LEMMA PlaceStep == PlaceInv /\ PlanInv /\ LiveInv /\ [Next]_hookVars => PlaceInv'
  <1> SUFFICES ASSUME PlaceInv, PlanInv, LiveInv, [Next]_hookVars PROVE PlaceInv'
    OBVIOUS
  <1>1. CASE Install
    BY <1>1, PlaceSkip, PlacePatch, PlaceBind, PlacePass, PlaceStore, PlaceWrite, PlaceEnd DEF Install
  <1>2. CASE \E x \in Images : LoadImage(x)
    BY <1>2, PlaceLoad
  <1>3. CASE UNCHANGED hookVars
    BY <1>3 DEF hookVars, PlaceInv, Typed, TypeOK, InstallerAt, CallbackAt, Current, Hook, Imported, Bound, Binding
  <1>4. QED
    BY <1>1, <1>2, <1>3, PlaceCallback DEF Next

-----------------------------------------------------------------------------
(* What a step does to the pointers: nothing, it patches a function, keeps *)
(* an original of a bound hook, or writes a cell that has one.             *)
Resting == UNCHANGED <<process, code, cell, original>>

Patching == HookFunction /\ Current.symbol \in process.targets

Storing(m, s, x) ==
  /\ <<m, s>> \in InSeq(bindings) /\ s \in Imports[x]
  /\ original' = Stored(<<m, s>>, cell[<<x, s>>])
  /\ UNCHANGED <<process, code, cell, bindings, refused>>

Writing(m, s, x) ==
  /\ <<m, s>> \in InSeq(bindings) /\ s \in Imports[x] /\ original[<<m, s>>] # Null
  /\ WriteCell(<<m, s>>, x)
  /\ UNCHANGED <<process, code, original, bindings>>

(* The installer's current hook, once begun, is bound. *)
LEMMA HookBound ==
  ASSUME PlaceInv, installer.stage # "next"
  PROVE  Hook \in InSeq(bindings)
  <1>1. bindings \in Seq(Hooks) /\ bindings # << >> /\ bindings[Len(bindings)] = Hook
    BY DEF PlaceInv, Typed, InstallerAt
  <1>2. Len(bindings) \in DOMAIN bindings
    BY <1>1, Elements
  <1>3. QED
    BY <1>1, <1>2 DEF InSeq

(* The installer keeps originals of the current hook. *)
LEMMA RebindStores ==
  ASSUME PlaceInv, RebindStore
  PROVE  /\ Storing(Current.module, Current.symbol, Head(installer.images))
         /\ Current.module \in Modules /\ Current.symbol \in Symbols
         /\ Head(installer.images) \in Images /\ Hook = <<Current.module, Current.symbol>>
  <1>1. Hook \in InSeq(bindings)
    BY HookBound DEF RebindStore, Rebinding
  <1>2. QED
    BY <1>1, RebindingTyped DEF RebindStore, Rebinding, Storing, Imported

(* And writes cells of the current hook. *)
LEMMA RebindWrites ==
  ASSUME PlaceInv, LiveInv, RebindWrite
  PROVE  /\ Writing(Current.module, Current.symbol, Head(installer.images))
         /\ Current.module \in Modules /\ Current.symbol \in Symbols
         /\ Head(installer.images) \in Images /\ Hook = <<Current.module, Current.symbol>>
  <1>1. Hook \in InSeq(bindings)
    BY HookBound DEF RebindWrite
  <1>2. installer.images # << >> /\ Imported /\ original[Hook] # Null
    BY DEF RebindWrite, PlaceInv, InstallerAt, LiveInv
  <1>3. QED
    BY <1>1, <1>2, RebindingTyped DEF RebindWrite, Writing, Imported

(* So does the callback of its current binding. *)
LEMMA CallbackStores ==
  ASSUME PlaceInv, CallbackStore
  PROVE  /\ Storing(Binding[1], Binding[2], Head(callback.images))
         /\ Binding[1] \in Modules /\ Binding[2] \in Symbols
         /\ Head(callback.images) \in Images /\ Binding = <<Binding[1], Binding[2]>>
  <1>1. Calling /\ Bound /\ callback.at <= Len(bindings)
    BY DEF CallbackStore, Bound
  <1>2. Binding \in InSeq(bindings)
    BY <1>1, CallbackTyped DEF InSeq, Binding
  <1>3. QED
    BY <1>1, <1>2, CallbackTyped DEF CallbackStore, Storing, Bound

(* And writes cells of it. *)
LEMMA CallbackWrites ==
  ASSUME PlaceInv, LiveInv, CallbackWrite
  PROVE  /\ Writing(Binding[1], Binding[2], Head(callback.images))
         /\ Binding[1] \in Modules /\ Binding[2] \in Symbols
         /\ Head(callback.images) \in Images /\ Binding = <<Binding[1], Binding[2]>>
  <1>1. Calling /\ Bound /\ callback.at <= Len(bindings) /\ original[Binding] # Null
    BY DEF CallbackWrite, Bound, PlaceInv, CallbackAt, LiveInv
  <1>2. Binding \in InSeq(bindings)
    BY <1>1, CallbackTyped DEF InSeq, Binding
  <1>3. QED
    BY <1>1, <1>2, CallbackTyped DEF CallbackWrite, Writing, Bound

(* There is nothing else. *)
LEMMA Moves ==
  ASSUME PlaceInv, LiveInv, [Next]_hookVars
  PROVE  \/ Resting
         \/ Patching
         \/ \E m \in Modules, s \in Symbols, x \in Images : Storing(m, s, x) \/ Writing(m, s, x)
  <1>1. CASE HookFunction
    BY <1>1 DEF HookFunction, Patching, Resting
  <1>2. CASE SkipDisabled \/ HookImportedSymbol \/ RebindSkip \/ RebindEnd \/ RegisterEnd
             \/ CallbackSkip \/ CallbackEnd \/ (\E x \in Images : LoadImage(x)) \/ UNCHANGED hookVars
    BY <1>2 DEF SkipDisabled, HookImportedSymbol, RebindSkip, RebindEnd, RegisterEnd,
                CallbackSkip, CallbackEnd, LoadImage, hookVars, Resting
  <1>3. CASE RebindStore
    BY <1>3, RebindStores
  <1>4. CASE RebindWrite
    BY <1>4, RebindWrites
  <1>5. CASE CallbackStore
    BY <1>5, CallbackStores
  <1>6. CASE CallbackWrite
    BY <1>6, CallbackWrites
  <1>7. QED
    BY <1>1, <1>2, <1>3, <1>4, <1>5, <1>6 DEF Next, Install, Callback

(* The installer stays at its step or goes to the next. *)
LEMMA StepMoves ==
  ASSUME PlaceInv, [Next]_hookVars
  PROVE  \/ installer' = NextStep /\ installer.step <= Len(Plan)
         \/ installer'.step = installer.step
  <1>1. CASE SkipDisabled \/ HookFunction \/ HookImportedSymbol \/ RegisterEnd \/ RebindEnd
    BY <1>1 DEF SkipDisabled, HookFunction, HookImportedSymbol, RegisterEnd, RebindEnd, AtStep,
                PlaceInv, InstallerAt, Typed
  <1>2. CASE RebindSkip \/ RebindStore \/ RebindWrite
    BY <1>2 DEF RebindSkip, RebindStore, RebindWrite, PlaceInv, Typed
  <1>3. CASE Callback \/ (\E x \in Images : LoadImage(x)) \/ UNCHANGED hookVars
    BY <1>3 DEF Callback, CallbackSkip, CallbackStore, CallbackWrite, CallbackEnd, LoadImage, hookVars
  <1>4. QED
    BY <1>1, <1>2, <1>3 DEF Next, Install

(* Bindings are only added, as many as hooks of the plan are begun. *)
LEMMA BindingsGrow ==
  ASSUME PlaceInv, LiveInv, [Next]_hookVars
  PROVE  /\ process' = process
         /\ \A k \in DOMAIN Plan : Begun(k) => Begun(k)'
         /\ InSeq(bindings) \subseteq InSeq(bindings)'
         /\ \/ bindings' = bindings
            \/ /\ HookImportedSymbol /\ bindings' = Append(bindings, Hook)
               /\ installer'.stage = "store" /\ installer'.step = installer.step
  <1>0. bindings \in Seq(Hooks) /\ \A k \in DOMAIN Plan : k \in Nat
    BY PlanTyped DEF PlaceInv, Typed
  <1>1. \A k \in DOMAIN Plan : k <= installer.step /\ installer.step <= Len(Plan) => k < NextStep.step
    BY NextStepTyped, PlanTyped DEF PlaceInv, Typed
  <1>a. \A k \in DOMAIN Plan : Begun(k) => k <= installer.step
    BY <1>0 DEF Begun, PlaceInv, Typed
  <1>2. CASE HookImportedSymbol /\ Len(bindings) < Limit
    <2>1. /\ bindings' = Append(bindings, Hook) /\ process' = process
          /\ installer' = [installer EXCEPT !.stage = "store", !.images = loaded]
          /\ Hook \in Hooks
      BY <1>2, CurrentTyped DEF HookImportedSymbol, AtStep, Hook
    <2>2. installer'.stage = "store" /\ installer'.step = installer.step
      BY <2>1 DEF PlaceInv, Typed
    <2>3. InSeq(bindings) \subseteq InSeq(bindings)'
      BY <1>0, <2>1, Members
    <2>4. QED
      BY <1>2, <2>1, <2>2, <2>3 DEF Begun
  <1>3. CASE bindings' = bindings /\ process' = process /\ installer' = NextStep
             /\ installer.step <= Len(Plan)
    BY <1>1, <1>a, <1>3 DEF Begun, InSeq
  <1>4. CASE /\ bindings' = bindings /\ process' = process /\ installer'.step = installer.step
             /\ installer.stage # "next" => installer'.stage # "next"
    BY <1>4 DEF Begun, InSeq
  <1>5. CASE SkipDisabled \/ HookFunction \/ (HookImportedSymbol /\ ~(Len(bindings) < Limit))
             \/ RegisterEnd \/ (RebindEnd /\ registered)
    BY <1>3, <1>5 DEF SkipDisabled, HookFunction, HookImportedSymbol, RegisterEnd, RebindEnd,
                      AtStep, PlaceInv, InstallerAt
  <1>6. CASE RebindSkip \/ RebindStore \/ RebindWrite \/ (RebindEnd /\ ~registered)
    <2>1. /\ installer'.step = installer.step /\ installer'.stage # "next"
          /\ bindings' = bindings /\ process' = process
      BY <1>6 DEF RebindSkip, RebindStore, RebindWrite, RebindEnd, Rebinding, PlaceInv, Typed
    <2>2. QED
      BY <1>4, <2>1
  <1>7. CASE Callback \/ (\E x \in Images : LoadImage(x)) \/ UNCHANGED hookVars
    BY <1>4, <1>7 DEF Callback, CallbackSkip, CallbackStore, CallbackWrite, CallbackEnd, LoadImage, hookVars
  <1>8. QED
    BY <1>2, <1>5, <1>6, <1>7 DEF Next, Install

(* What patching a function does: its first instruction now leads to the   *)
(* module, which had no original and keeps what was there.                 *)
LEMMA PatchEffect ==
  ASSUME PlaceInv, PlanInv, LiveInv, Patching
  PROVE  \E m \in Modules, s \in Symbols :
           /\ Current.module = m /\ Current.symbol = s /\ s \in process.targets
           /\ m \in process.enabled
           /\ installer.step \in DOMAIN Plan /\ Plan[installer.step] = Patcher(m, s)
           /\ installer.stage = "next" /\ installer' = NextStep /\ NextStep.step = installer.step + 1
           /\ NextStep.stage = "next" /\ NextStep.images = installer.images
           /\ original[<<m, s>>] = Null /\ <<m, s>> \notin InSeq(bindings)
           /\ code[s] \in Modules \cup {Body} /\ code[s] # m
           /\ code'[s] = m /\ \A r \in Symbols : r # s => code'[r] = code[r]
           /\ Only(m, s, code[s])
           /\ UNCHANGED <<process, cell, bindings, loaded, registered, callback, refused>>
  <1> DEFINE m == Current.module
             s == Current.symbol
  <1>1. /\ installer.step <= Len(Plan) /\ installer' = NextStep /\ original[Hook] = Null
        /\ m \in Modules /\ s \in Symbols /\ installer.stage = "next" /\ Hook \notin InSeq(bindings)
        /\ Hook = <<m, s>> /\ m \in process.enabled /\ s \in process.targets
        /\ installer.step \in DOMAIN Plan /\ Plan[installer.step] = Patcher(m, s)
        /\ code' = [code EXCEPT ![s] = m] /\ Keeps(m, s, code[s])
        /\ UNCHANGED <<process, cell, bindings, loaded, registered, callback, refused>>
    BY PatchFresh, CurrentTyped DEF Keeps, Patching, HookFunction, AtStep, Current
  <1>2. code[s] \in (Modules \ {m}) \cup {Body} /\ code \in [Symbols -> Modules \cup {Body}]
    BY <1>1, Special DEF LiveInv, Live, PlaceInv, Typed, TypeOK
  <1>3. /\ NextStep.step = installer.step + 1 /\ NextStep.stage = "next"
        /\ NextStep.images = installer.images
    BY <1>1, NextStepTyped
  <1> HIDE DEF m, s
  <1>4. code'[s] = m /\ \A r \in Symbols : r # s => code'[r] = code[r]
    BY <1>1, <1>2
  <1>5. Only(m, s, code[s])
    BY <1>1, <1>2, OriginalTyped
  <1>6. QED
    BY <1>1, <1>2, <1>3, <1>4, <1>5, Special DEF m, s

(* What keeping an original does: nothing, or it is the first one. *)
LEMMA StoringEffect ==
  ASSUME PlaceInv, LiveInv, NEW m \in Modules, NEW s \in Symbols, NEW x \in Images, Storing(m, s, x)
  PROVE  /\ UNCHANGED <<process, code, cell, bindings, refused>> /\ original'[<<m, s>>] # Null
         /\ <<x, s>> \in Cells /\ cell[<<x, s>>] \in Live(s) /\ cell[<<x, s>>] \in Modules \cup {Entry}
         /\ \/ original' = original
            \/ /\ original[<<m, s>>] = Null /\ cell[<<x, s>>] # m
               /\ Only(m, s, cell[<<x, s>>])
  <1>1. /\ UNCHANGED <<process, code, cell, bindings, refused>> /\ s \in Imports[x]
        /\ original' = Stored(<<m, s>>, cell[<<x, s>>])
    BY DEF Storing
  <1>2. <<x, s>> \in Cells
    BY <1>1 DEF Cells
  <1>3. cell[<<x, s>>] \in Live(s) /\ cell[<<x, s>>] \in Modules \cup {Entry}
    BY <1>2 DEF LiveInv, PlaceInv, Typed, TypeOK
  <1> DEFINE v == cell[<<x, s>>]
  <1>4. CASE original' = original /\ (original[<<m, s>>] # Null \/ v = m)
    BY <1>1, <1>2, <1>3, <1>4, Special DEF Live
  <1>5. CASE original[<<m, s>>] = Null /\ v # m /\ Keeps(m, s, v)
    <2>1. v \in (Modules \ {m}) \cup {Entry, Body}
      BY <1>3, <1>5
    <2> HIDE DEF v
    <2>2. Only(m, s, v)
      BY <1>5, <2>1, OriginalTyped
    <2>3. v # Null
      BY <2>1, Special
    <2>4. QED
      BY <1>1, <1>2, <1>3, <1>5, <2>2, <2>3 DEF v, Only
  <1>6. QED
    BY <1>1, <1>3, <1>4, <1>5, StoreEffect

(* What writing a cell does. *)
LEMMA WritingEffect ==
  ASSUME PlaceInv, NEW m \in Modules, NEW s \in Symbols, NEW x \in Images, Writing(m, s, x)
  PROVE  /\ UNCHANGED <<process, code, original, bindings>> /\ original[<<m, s>>] # Null
         /\ <<m, s>> \in InSeq(bindings) /\ <<x, s>> \in Cells
         /\ \A c \in Cells : cell'[c] # cell[c] => c = <<x, s>> /\ cell'[c] = m
         /\ ~refused' => ~refused /\ cell'[<<x, s>>] = m
  <1>1. /\ UNCHANGED <<process, code, original, bindings>> /\ s \in Imports[x]
        /\ WriteCell(<<m, s>>, x)
    BY DEF Writing
  <1>2. cell \in [Cells -> Modules \cup {Entry}]
    BY DEF PlaceInv, Typed, TypeOK
  <1>3. original[<<m, s>>] # Null /\ <<m, s>> \in InSeq(bindings)
    BY DEF Writing
  <1>4. /\ <<x, s>> \in Cells
        /\ \/ cell' = [cell EXCEPT ![<<x, s>>] = m] /\ refused' = refused
           \/ cell' = cell /\ refused' = TRUE
        /\ refused' \in BOOLEAN
        /\ \A c \in Cells : cell'[c] # cell[c] => c = <<x, s>> /\ cell'[c] = m
    BY <1>1, WriteEffect
  <1>5. ~refused' => ~refused /\ cell'[<<x, s>>] = m
    BY <1>2, <1>4
  <1>6. QED
    BY <1>1, <1>3, <1>4, <1>5

(* Originals are kept for good. *)
LEMMA OriginalsKept ==
  ASSUME PlaceInv, PlanInv, LiveInv, [Next]_hookVars, NEW n \in Modules, NEW q \in Symbols,
         original[<<n, q>>] # Null
  PROVE  original'[<<n, q>>] = original[<<n, q>>]
  <1>1. CASE Resting
    BY <1>1 DEF Resting
  <1>2. CASE Patching
    <2>1. PICK m \in Modules, r \in Symbols :
            original[<<m, r>>] = Null /\ Only(m, r, code[r])
      BY <1>2, PatchEffect
    <2>2. QED
      BY <2>1 DEF Only
  <1>3. ASSUME NEW m \in Modules, NEW r \in Symbols, NEW x \in Images, Storing(m, r, x)
        PROVE  original'[<<n, q>>] = original[<<n, q>>]
    <2>1. \/ original' = original
          \/ original[<<m, r>>] = Null /\ Only(m, r, cell[<<x, r>>])
      BY <1>3, StoringEffect
    <2>2. QED
      BY <2>1 DEF Only
  <1>4. ASSUME NEW m \in Modules, NEW r \in Symbols, NEW x \in Images, Writing(m, r, x)
        PROVE  original'[<<n, q>>] = original[<<n, q>>]
    BY <1>4, WritingEffect
  <1>5. QED
    BY <1>1, <1>2, <1>3, <1>4, Moves

(* So what leads on does so for good. *)
LEMMA LiveGrows ==
  ASSUME PlaceInv, PlanInv, LiveInv, [Next]_hookVars, NEW s \in Symbols
  PROVE  Live(s) \subseteq Live(s)'
  BY OriginalsKept DEF Live

(* Nor has one that is to be bound been bound before. *)
LEMMA BindFresh ==
  ASSUME PlaceInv, PlanInv, AtStep, Current.kind = "import"
  PROVE  /\ installer.step \in DOMAIN Plan /\ installer.step \in Nat /\ Hook \in Hooks
         /\ Plan[installer.step] = Importer(Hook[1], Hook[2]) /\ Hook \notin InSeq(bindings)
  <1>1. /\ installer.step \in DOMAIN Plan /\ installer.step \in Nat /\ Hook \in Hooks
        /\ Plan[installer.step] = Importer(Hook[1], Hook[2]) /\ installer.stage = "next"
    BY CurrentTyped, PlanTyped DEF AtStep, Current, PlaceInv, Typed
  <1>2. ASSUME NEW i \in DOMAIN bindings, bindings[i] = Hook PROVE FALSE
    <2>1. PICK k \in DOMAIN Plan : Begun(k) /\ Plan[k] = Importer(Hook[1], Hook[2])
      BY <1>2 DEF PlanInv
    <2>2. k = installer.step
      BY <1>1, <2>1, PlanAssumption DEF PlanAssumption
    <2>3. QED
      BY <1>1, <2>1, <2>2 DEF Begun
  <1>3. QED
    BY <1>1, <1>2 DEF InSeq

(* Bindings, originals and cells go on following the plan. *)
LEMMA PlanStep == PlaceInv /\ PlanInv /\ LiveInv /\ [Next]_hookVars => PlanInv'
  <1> SUFFICES ASSUME PlaceInv, PlanInv, LiveInv, [Next]_hookVars PROVE PlanInv'
    OBVIOUS
  <1>0. /\ process' = process /\ InSeq(bindings) \subseteq InSeq(bindings)'
        /\ \A k \in DOMAIN Plan : Begun(k) => Begun(k)'
    BY BindingsGrow
  <1>1. \A i \in DOMAIN bindings' : \E k \in DOMAIN Plan :
          /\ Begun(k)'
          /\ Plan[k] = Importer(bindings'[i][1], bindings'[i][2])
          /\ bindings'[i][1] \in process'.enabled
    <2>1. CASE bindings' = bindings
      BY <1>0, <2>1 DEF PlanInv
    <2>2. CASE /\ HookImportedSymbol /\ bindings' = Append(bindings, Hook)
               /\ installer'.stage = "store" /\ installer'.step = installer.step
      <3>1. /\ installer.step <= Len(Plan) /\ Current.kind = "import"
            /\ Current.module \in process.enabled
        BY <2>2 DEF HookImportedSymbol, AtStep
      <3>2. /\ installer.step \in DOMAIN Plan /\ Hook \in Hooks
            /\ Plan[installer.step] = Importer(Hook[1], Hook[2]) /\ Hook[1] \in process.enabled
        BY <3>1, CurrentTyped DEF Current
      <3>3. /\ bindings \in Seq(Hooks) /\ Len(bindings) \in Nat
            /\ DOMAIN bindings' = 1..Len(bindings) + 1 /\ DOMAIN bindings = 1..Len(bindings)
            /\ \A i \in 1..Len(bindings) : bindings'[i] = bindings[i]
            /\ bindings'[Len(bindings) + 1] = Hook
        BY <2>2, <3>2, Elements DEF PlaceInv, Typed
      <3>4. ASSUME NEW i \in DOMAIN bindings'
            PROVE  \E k \in DOMAIN Plan :
                     /\ Begun(k)'
                     /\ Plan[k] = Importer(bindings'[i][1], bindings'[i][2])
                     /\ bindings'[i][1] \in process'.enabled
        <4>1. CASE i \in 1..Len(bindings)
          <5>1. bindings'[i] = bindings[i] /\ i \in DOMAIN bindings
            BY <3>3, <4>1
          <5>2. PICK k \in DOMAIN Plan : /\ Begun(k) /\ Plan[k] = Importer(bindings[i][1], bindings[i][2])
                                         /\ bindings[i][1] \in process.enabled
            BY <5>1 DEF PlanInv
          <5>3. QED
            BY <1>0, <5>1, <5>2
        <4>2. CASE i = Len(bindings) + 1
          <5>1. PICK k \in DOMAIN Plan : k = installer.step
            BY <3>2
          <5>2. bindings'[i] = Hook
            BY <3>3, <4>2
          <5>3. Begun(k)'
            BY <2>2, <5>1 DEF Begun
          <5>4. /\ Plan[k] = Importer(bindings'[i][1], bindings'[i][2])
                /\ bindings'[i][1] \in process'.enabled
            BY <1>0, <3>2, <5>1, <5>2
          <5>5. QED
            BY <5>3, <5>4
        <4>3. QED
          BY <3>3, <4>1, <4>2
      <3>5. QED
        BY <3>4
    <2>3. QED
      BY <2>1, <2>2, BindingsGrow
  <1> DEFINE Kept(m, s) ==
        \/ <<m, s>> \in InSeq(bindings)
        \/ /\ s \in process.targets /\ m \in process.enabled
           /\ \E k \in DOMAIN Plan : k < installer.step /\ Plan[k] = Patcher(m, s)
  <1>2. installer.step <= installer'.step /\ installer.step \in Nat
    <2>1. PICK n \in Nat : installer.step = n
      BY DEF PlaceInv, Typed
    <2>2. installer'.step \in {n, n + 1}
      <3>1. CASE installer' = NextStep /\ installer.step <= Len(Plan)
        BY <2>1, <3>1, NextStepTyped
      <3>2. CASE installer'.step = installer.step
        BY <2>1, <3>2
      <3>3. QED
        BY <3>1, <3>2, StepMoves
    <2>3. QED
      BY <2>1, <2>2
  <1>3. ASSUME NEW m \in Modules, NEW s \in Symbols, Kept(m, s) PROVE Kept(m, s)'
    <2>1. \A k \in DOMAIN Plan : k \in Nat
      BY PlanTyped
    <2>2. installer'.step \in Nat
      BY PlaceStep DEF PlaceInv, Typed
    <2>3. QED
      BY <1>0, <1>2, <1>3, <2>1, <2>2
  <1>4. \A m \in Modules, s \in Symbols : original[<<m, s>>] # Null => Kept(m, s)
    BY DEF PlanInv
  <1>5. ASSUME NEW m \in Modules, NEW s \in Symbols, original'[<<m, s>>] # Null PROVE Kept(m, s)'
    <2>1. CASE Resting
      BY <1>3, <1>4, <1>5, <2>1 DEF Resting
    <2>2. CASE Patching
      <3>1. PICK n \in Modules, r \in Symbols :
              /\ r \in process.targets /\ n \in process.enabled
              /\ installer.step \in DOMAIN Plan /\ Plan[installer.step] = Patcher(n, r)
              /\ installer' = NextStep /\ NextStep.step = installer.step + 1
              /\ Only(n, r, code[r])
        BY <2>2, PatchEffect
      <3>2. CASE m = n /\ s = r
        BY <1>0, <1>2, <3>1, <3>2
      <3>3. CASE ~(m = n /\ s = r)
        BY <1>3, <1>4, <1>5, <3>1, <3>3 DEF Only
      <3>4. QED
        BY <3>2, <3>3
    <2>3. ASSUME NEW n \in Modules, NEW r \in Symbols, NEW x \in Images, Storing(n, r, x)
          PROVE  Kept(m, s)'
      <3>1. <<n, r>> \in InSeq(bindings)
        BY <2>3 DEF Storing
      <3>2. CASE m = n /\ s = r
        BY <1>0, <3>1, <3>2
      <3>3. CASE ~(m = n /\ s = r)
        <4>1. original'[<<m, s>>] = original[<<m, s>>]
          <5>1. original' = original \/ Only(n, r, cell[<<x, r>>])
            BY <2>3, StoringEffect
          <5>2. QED
            BY <3>3, <5>1 DEF Only
        <4>2. QED
          BY <1>3, <1>4, <1>5, <4>1
      <3>4. QED
        BY <3>2, <3>3
    <2>4. ASSUME NEW n \in Modules, NEW r \in Symbols, NEW x \in Images, Writing(n, r, x)
          PROVE  Kept(m, s)'
      <3>1. original' = original
        BY <2>4, WritingEffect
      <3>2. QED
        BY <1>3, <1>4, <1>5, <3>1
    <2>5. QED
      BY <2>1, <2>2, <2>3, <2>4, Moves
  <1>6. ASSUME NEW c \in Cells, cell'[c] \in Modules PROVE <<cell'[c], c[2]>> \in InSeq(bindings)'
    <2>1. CASE cell'[c] = cell[c]
      BY <1>0, <1>6, <2>1 DEF PlanInv
    <2>2. CASE cell'[c] # cell[c]
      <3>1. PICK m \in Modules, s \in Symbols, x \in Images : Writing(m, s, x)
        BY <2>2, Moves, PatchEffect, StoringEffect DEF Resting
      <3>2. c = <<x, s>> /\ cell'[c] = m /\ <<m, s>> \in InSeq(bindings)
        BY <2>2, <3>1, WritingEffect
      <3>3. QED
        BY <1>0, <3>2
    <2>3. QED
      BY <2>1, <2>2
  <1>7. ASSUME NEW i \in DOMAIN bindings', NEW j \in DOMAIN bindings', bindings'[i] = bindings'[j]
        PROVE  i = j
    <2>1. CASE bindings' = bindings
      BY <1>7, <2>1 DEF PlanInv
    <2>2. CASE HookImportedSymbol /\ bindings' = Append(bindings, Hook)
      <3>1. Hook \in Hooks /\ Hook \notin InSeq(bindings)
        BY <2>2, BindFresh DEF HookImportedSymbol
      <3>2. /\ bindings \in Seq(Hooks) /\ Len(bindings) \in Nat
            /\ DOMAIN bindings' = 1..Len(bindings) + 1 /\ DOMAIN bindings = 1..Len(bindings)
            /\ \A k \in 1..Len(bindings) : bindings'[k] = bindings[k]
            /\ bindings'[Len(bindings) + 1] = Hook
        BY <2>2, <3>1, Elements DEF PlaceInv, Typed
      <3>3. \A k \in 1..Len(bindings) : bindings[k] # Hook
        BY <3>1, <3>2 DEF InSeq
      <3>4. QED
        BY <1>7, <3>2, <3>3 DEF PlanInv
    <2>3. QED
      BY <2>1, <2>2, BindingsGrow
  <1>8. QED
    BY <1>1, <1>5, <1>6, <1>7 DEF PlanInv

(* Every pointer goes on leading to something that leads on. *)
LEMMA LiveStep == PlaceInv /\ PlanInv /\ LiveInv /\ [Next]_hookVars => LiveInv'
  <1> SUFFICES ASSUME PlaceInv, PlanInv, LiveInv, [Next]_hookVars PROVE LiveInv'
    OBVIOUS
  <1>1. ASSUME NEW c \in Cells PROVE cell'[c] \in Live(c[2])'
    <2>0. PICK q \in Symbols : c[2] = q
      BY DEF Cells
    <2>1. CASE cell'[c] = cell[c]
      BY <2>0, <2>1, LiveGrows DEF LiveInv
    <2>2. CASE cell'[c] # cell[c]
      <3>1. PICK m \in Modules, s \in Symbols, x \in Images : Writing(m, s, x)
        BY <2>2, Moves, PatchEffect, StoringEffect DEF Resting
      <3>2. c = <<x, s>> /\ cell'[c] = m /\ original[<<m, s>>] # Null /\ original' = original
        BY <2>2, <3>1, WritingEffect
      <3>3. m \in Live(s)'
        BY <3>2 DEF Live
      <3>4. QED
        BY <3>2, <3>3
    <2>3. QED
      BY <2>1, <2>2
  <1>2. ASSUME NEW s \in Symbols PROVE code'[s] \in Live(s)'
    <2>1. CASE code'[s] = code[s]
      BY <2>1, LiveGrows DEF LiveInv
    <2>2. CASE code'[s] # code[s]
      <3>1. Patching
        BY <2>2, Moves, StoringEffect, WritingEffect DEF Resting
      <3>2. PICK m \in Modules, r \in Symbols :
              /\ code[r] \in Modules \cup {Body} /\ code'[r] = m
              /\ \A q \in Symbols : q # r => code'[q] = code[q]
              /\ Only(m, r, code[r])
        BY <3>1, PatchEffect
      <3>3. r = s /\ original'[<<m, s>>] # Null
        BY <2>2, <3>2, Special DEF Only
      <3>4. QED
        BY <3>2, <3>3 DEF Live
    <2>3. QED
      BY <2>1, <2>2
  <1>3. ASSUME NEW m \in Modules, NEW s \in Symbols, original'[<<m, s>>] # Null
        PROVE  original'[<<m, s>>] \in Live(s)'
    <2>1. CASE original'[<<m, s>>] = original[<<m, s>>]
      BY <1>3, <2>1, LiveGrows DEF LiveInv
    <2>2. CASE original'[<<m, s>>] # original[<<m, s>>]
      <3>1. original'[<<m, s>>] \in Live(s)
        <4>1. CASE Patching
          <5>1. PICK n \in Modules, r \in Symbols : Only(n, r, code[r])
            BY <4>1, PatchEffect
          <5>2. QED
            BY <2>2, <5>1 DEF Only, LiveInv
        <4>2. ASSUME NEW n \in Modules, NEW r \in Symbols, NEW x \in Images, Storing(n, r, x)
              PROVE  original'[<<m, s>>] \in Live(s)
          <5>1. cell[<<x, r>>] \in Live(r) /\ Only(n, r, cell[<<x, r>>])
            BY <2>2, <4>2, StoringEffect
          <5>2. QED
            BY <2>2, <5>1 DEF Only
        <4>3. QED
          BY <2>2, <4>1, <4>2, Moves, WritingEffect DEF Resting
      <3>2. QED
        BY <3>1, LiveGrows
    <2>3. QED
      BY <2>1, <2>2
  <1>4. ASSUME installer'.stage = "write" PROVE original'[Hook'] # Null
    <2>1. CASE installer' = installer
      <3>1. Hook' = Hook /\ installer.step <= Len(Plan) /\ original[Hook] # Null
        BY <1>4, <2>1 DEF Hook, Current, LiveInv, PlaceInv, InstallerAt
      <3>2. QED
        BY <3>1, OriginalsKept, CurrentTyped
    <2>2. CASE RebindStore
      <3>1. Hook' = Hook
        BY <2>2 DEF RebindStore, Hook, Current, PlaceInv, Typed
      <3>2. PICK m \in Modules, s \in Symbols, x \in Images : Storing(m, s, x) /\ Hook = <<m, s>>
        BY <2>2, RebindStores
      <3>3. QED
        BY <3>1, <3>2, StoringEffect
    <2>3. CASE SkipDisabled \/ HookFunction \/ HookImportedSymbol \/ RebindSkip \/ RebindWrite
               \/ RebindEnd \/ RegisterEnd
      <3>1. installer'.stage # "write"
        BY <2>3, NextStepTyped DEF SkipDisabled, HookFunction, HookImportedSymbol, RebindSkip,
             RebindWrite, RebindEnd, RegisterEnd, AtStep, Rebinding, PlaceInv, Typed, InstallerAt
      <3>2. QED
        BY <1>4, <3>1
    <2>4. QED
      BY <2>1, <2>2, <2>3 DEF Next, Install, Callback, CallbackSkip, CallbackStore, CallbackWrite,
                              CallbackEnd, LoadImage, hookVars
  <1>5. ASSUME callback'.stage = "write" PROVE original'[Binding'] # Null
    <2>0. bindings \in Seq(Hooks) /\ callback \in [images : Seq(Images), at : Nat \ {0}, stage : {"store", "write"}]
      BY DEF PlaceInv, Typed
    <2>1. CASE callback'.at = callback.at /\ callback'.stage = callback.stage
      <3>1. callback.at <= Len(bindings) /\ original[Binding] # Null /\ callback.at \in 1..Len(bindings)
        BY <1>5, <2>0, <2>1 DEF PlaceInv, CallbackAt, Bound, LiveInv
      <3>2. Binding' = Binding
        <4>1. CASE bindings' = bindings
          BY <2>1, <4>1 DEF Binding
        <4>2. CASE HookImportedSymbol /\ bindings' = Append(bindings, Hook)
          <5>1. Hook \in Hooks
            BY <4>2, CurrentTyped DEF HookImportedSymbol, AtStep
          <5>2. QED
            BY <2>0, <2>1, <3>1, <4>2, <5>1, Elements DEF Binding
        <4>3. QED
          BY <4>1, <4>2, BindingsGrow
      <3>3. PICK m \in Modules, s \in Symbols : Binding = <<m, s>>
        BY <2>0, <3>1, Elements DEF Binding, Hooks
      <3>4. QED
        BY <3>1, <3>2, <3>3, OriginalsKept
    <2>2. CASE CallbackStore
      <3>1. Binding' = Binding
        BY <2>0, <2>2 DEF CallbackStore, Binding
      <3>2. PICK m \in Modules, s \in Symbols, x \in Images : Storing(m, s, x) /\ Binding = <<m, s>>
        BY <2>2, CallbackStores
      <3>3. QED
        BY <3>1, <3>2, StoringEffect
    <2>3. CASE CallbackSkip \/ CallbackWrite \/ CallbackEnd
      <3>1. NextBinding.stage = "store"
        BY <2>0 DEF NextBinding
      <3>2. callback'.stage = "store"
        BY <2>3, <3>1 DEF CallbackSkip, CallbackWrite, CallbackEnd
      <3>3. QED
        BY <1>5, <3>2
    <2>4. CASE RebindEnd \/ (\E x \in Images : LoadImage(x))
      BY <2>0, <2>1, <2>4 DEF RebindEnd, LoadImage
    <2>5. CASE UNCHANGED callback
      BY <2>1, <2>5
    <2>6. QED
      BY <2>2, <2>3, <2>4, <2>5 DEF Next, Install, Callback, SkipDisabled, HookFunction,
           HookImportedSymbol, RebindSkip, RebindStore, RebindWrite, RegisterEnd, hookVars
  <1>6. QED
    BY <1>1, <1>2, <1>3, <1>4, <1>5 DEF LiveInv
(* What waits to be rebound is what is loaded, or was waiting before. *)
LEMMA QueuedStep == PlaceInv /\ Queued /\ [Next]_hookVars => Queued'
  <1> SUFFICES ASSUME PlaceInv, Queued, [Next]_hookVars PROVE Queued'
    OBVIOUS
  <1>0. /\ loaded \in Seq(Images) /\ callback.images \in Seq(Images) /\ installer.images \in Seq(Images)
        /\ callback \in [images : Seq(Images), at : Nat \ {0}, stage : {"store", "write"}]
        /\ installer \in [step : 1..Len(Plan) + 1, stage : {"next", "store", "write", "register"},
                          images : Seq(Images)]
    BY DEF PlaceInv, Typed
  <1>1. NextStep.images = installer.images /\ NextBinding.images = callback.images
    BY <1>0 DEF NextStep, NextBinding
  <1>2. CASE UNCHANGED <<loaded, callback>> /\ installer'.images \in {installer.images, loaded}
    BY <1>2 DEF Queued
  <1>3. CASE UNCHANGED <<loaded, installer>> /\ callback'.images \in {callback.images, loaded}
    BY <1>3 DEF Queued
  <1>4. CASE SkipDisabled \/ HookFunction \/ HookImportedSymbol \/ RebindStore \/ RegisterEnd
    BY <1>0, <1>1, <1>2, <1>4 DEF SkipDisabled, HookFunction, HookImportedSymbol, RebindStore, RegisterEnd
  <1>5. CASE RebindSkip \/ RebindWrite
    <2>1. installer'.images = Tail(installer.images) /\ installer.images # << >>
          /\ UNCHANGED <<loaded, callback>>
      BY <1>0, <1>5 DEF RebindSkip, RebindWrite, Rebinding, PlaceInv, InstallerAt
    <2>2. InSeq(Tail(installer.images)) \subseteq InSeq(installer.images)
      BY <1>0, <2>1, Members
    <2>3. QED
      BY <2>1, <2>2 DEF Queued
  <1>6. CASE RebindEnd
    <2>1. /\ installer'.images = installer.images /\ callback'.images \in {callback.images, loaded}
          /\ loaded' = loaded
      BY <1>0, <1>1, <1>6 DEF RebindEnd
    <2>2. QED
      BY <2>1 DEF Queued
  <1>7. CASE CallbackSkip \/ CallbackStore \/ CallbackWrite
    BY <1>0, <1>1, <1>3, <1>7 DEF CallbackSkip, CallbackStore, CallbackWrite
  <1>8. CASE CallbackEnd
    <2>1. callback'.images = Tail(callback.images) /\ callback.images # << >>
          /\ UNCHANGED <<loaded, installer>>
      BY <1>0, <1>8 DEF CallbackEnd, Calling
    <2>2. InSeq(Tail(callback.images)) \subseteq InSeq(callback.images)
      BY <1>0, <2>1, Members
    <2>3. QED
      BY <2>1, <2>2 DEF Queued
  <1>9. ASSUME NEW x \in Images, LoadImage(x) PROVE Queued'
    <2>1. /\ loaded' = Append(loaded, x) /\ installer' = installer
          /\ callback'.images \in {callback.images, Append(callback.images, x)}
      BY <1>0, <1>9 DEF LoadImage
    <2>2. /\ InSeq(Append(loaded, x)) = InSeq(loaded) \cup {x}
          /\ InSeq(Append(callback.images, x)) = InSeq(callback.images) \cup {x}
      BY <1>0, Members
    <2>3. QED
      BY <2>1, <2>2 DEF Queued
  <1>10. CASE UNCHANGED hookVars
    BY <1>10 DEF hookVars, Queued
  <1>11. QED
    BY <1>4, <1>5, <1>6, <1>7, <1>8, <1>9, <1>10 DEF Next, Install, Callback

-----------------------------------------------------------------------------
(* What leads through something goes on doing so. *)
Grown(D, G) == \A r \in Symbols : \A v \in Live(r) : D[r][v] \subseteq G[r][v]

(* Nothing that leads on yet passes on to a module without an original. *)
LEMMA Unreached ==
  ASSUME PlaceInv, LiveInv, NEW D \in Leads, Chained(D), NEW m \in Modules, NEW s \in Symbols,
         original[<<m, s>>] = Null
  PROVE  /\ m \notin Live(s) /\ Live(s) \subseteq Pointers
         /\ code[s] \in Live(s) /\ code[s] # m /\ Entry # m /\ Body # m
         /\ \A v \in Live(s) : D[s][v] \subseteq Live(s) /\ v # m /\ m \notin D[s][v]
         /\ \A n \in Modules : original[<<n, s>>] # Null =>
              n # m /\ n \in Live(s) /\ original[<<n, s>>] \in Live(s) /\ original[<<n, s>>] # m
  <1>1. m \notin Live(s) /\ Live(s) \subseteq Pointers /\ Entry # m /\ Body # m
    BY Special DEF Live, Pointers
  <1>2. code[s] \in Live(s) /\ \A v \in Live(s) : D[s][v] \subseteq Live(s)
    BY DEF LiveInv, Chained, ChainedAt
  <1>3. \A n \in Modules : original[<<n, s>>] # Null =>
          n # m /\ n \in Live(s) /\ original[<<n, s>>] \in Live(s)
    BY DEF LiveInv, Live
  <1>4. QED
    BY <1>1, <1>2, <1>3

(* The functions of sets that Leads are. *)
LEMMA LeadsTyped ==
  ASSUME NEW D \in Leads, NEW s \in Symbols, NEW v \in Pointers
  PROVE  D[s][v] \in SUBSET (Modules \cup {Entry})
  BY DEF Leads

(* Two states lead the same way on where code and originals are the same. *)
LEMMA SameChain ==
  ASSUME NEW D, Chained(D), code' = code, original' = original
  PROVE  Chained(D)' /\ Grown(D, D)
  BY DEF Chained, ChainedAt, Grown, Live

(* When m patches s, all that leads through the entry leads through m too. *)
LEMMA PatchingLeads ==
  ASSUME PlaceInv, LiveInv, NEW D \in Leads, Chained(D), NEW m \in Modules, NEW s \in Symbols,
         original[<<m, s>>] = Null, code'[s] = m, \A r \in Symbols : r # s => code'[r] = code[r],
         Only(m, s, code[s])
  PROVE  \E G \in Leads : /\ Chained(G)' /\ Grown(D, G)
                          /\ m \in G[s][m] /\ m \in G[s][Entry] /\ D[s][Entry] \ {Entry} \subseteq G[s][m]
  <1> DEFINE G == [r \in Symbols |-> [v \in Pointers |->
                     IF r # s THEN D[r][v]
                     ELSE IF v = m THEN D[s][code[s]] \cup {m}
                     ELSE IF Entry \in D[s][v] THEN D[s][v] \cup {m} ELSE D[s][v]]]
  <1>1. PICK e \in Pointers : e = code[s] /\ e \in Live(s) /\ e # m
    BY Unreached
  <1>2. /\ \A v \in Pointers : v # m /\ Entry \in D[s][v] => G[s][v] = D[s][v] \cup {m}
        /\ \A v \in Pointers : v # m /\ Entry \notin D[s][v] => G[s][v] = D[s][v]
        /\ G[s][m] = D[s][e] \cup {m}
        /\ \A r \in Symbols : r # s => \A v \in Pointers : G[r][v] = D[r][v]
    BY <1>1 DEF Pointers
  <1>3. PICK H : H = G
    OBVIOUS
  <1>4. H \in Leads
    <2>1. ASSUME NEW r \in Symbols, NEW v \in Pointers PROVE G[r][v] \in SUBSET (Modules \cup {Entry})
      BY <1>1, <1>2, LeadsTyped
    <2>2. H = [r \in Symbols |-> [v \in Pointers |-> G[r][v]]]
      BY <1>3
    <2> HIDE DEF G
    <2>3. QED
      BY <2>1, <2>2 DEF Leads
  <1>5. /\ \A v \in Pointers : v # m /\ Entry \in D[s][v] => H[s][v] = D[s][v] \cup {m}
        /\ \A v \in Pointers : v # m /\ Entry \notin D[s][v] => H[s][v] = D[s][v]
        /\ H[s][m] = D[s][e] \cup {m}
        /\ \A r \in Symbols : r # s => \A v \in Pointers : H[r][v] = D[r][v]
    BY <1>2, <1>3
  <1> HIDE DEF G
  <1>6. /\ D[s][Body] = {} /\ D[s][Entry] = D[s][e] \cup {Entry} /\ Entry \notin D[s][e]
        /\ \A n \in Modules : original[<<n, s>>] # Null =>
             D[s][n] = D[s][original[<<n, s>>]] \cup {n} /\ n \notin D[s][original[<<n, s>>]]
    BY <1>1 DEF Chained, ChainedAt
  <1>7. /\ m \notin Live(s) /\ Live(s) \subseteq Pointers /\ Entry # m /\ Body # m
        /\ \A v \in Live(s) : D[s][v] \subseteq Live(s) /\ v # m /\ m \notin D[s][v]
        /\ \A n \in Modules : original[<<n, s>>] # Null =>
             n # m /\ n \in Live(s) /\ original[<<n, s>>] \in Live(s) /\ original[<<n, s>>] # m
    BY Unreached
  <1>8. /\ original'[<<m, s>>] = e
        /\ \A n \in Modules, r \in Symbols :
             ~(n = m /\ r = s) => original'[<<n, r>>] = original[<<n, r>>]
    BY <1>1 DEF Only
  <1>9. Live(s)' = Live(s) \cup {m} /\ \A r \in Symbols : r # s => Live(r)' = Live(r)
    BY <1>7, <1>8, <1>1, Special DEF Live, Pointers
  <1>10. Entry \in Live(s) /\ Body \in Live(s) /\ Entry \in Pointers /\ Body \in Pointers
    BY DEF Live, Pointers
  <1>11. H[s][e] = D[s][e] /\ H[s][Body] = {} /\ H[s][Entry] = D[s][e] \cup {Entry, m}
    BY <1>1, <1>5, <1>6, <1>7, <1>10
  <1>12. Chained(H)'
    <2>1. ASSUME NEW r \in Symbols, r # s PROVE ChainedAt(H, r)'
      <3>1. ChainedAt(D, r)
        BY DEF Chained
      <3>2. /\ code'[r] = code[r] /\ Live(r)' = Live(r) /\ Live(r) \subseteq Pointers
            /\ code[r] \in Live(r)
            /\ \A n \in Modules : original'[<<n, r>>] = original[<<n, r>>]
            /\ \A n \in Modules : original[<<n, r>>] # Null => original[<<n, r>>] \in Live(r)
            /\ \A v \in Pointers : H[r][v] = D[r][v]
            /\ Modules \subseteq Pointers
        BY <1>5, <1>8, <1>9, <2>1 DEF Live, Pointers, LiveInv
      <3>3. QED
        BY <1>10, <3>1, <3>2 DEF ChainedAt
    <2>2. ChainedAt(H, s)'
      <3>1. H[s][Entry] = H[s][m] \cup {Entry} /\ Entry \notin H[s][m]
        BY <1>5, <1>6, <1>7, <1>11
      <3>2. ASSUME NEW v \in Live(s)' PROVE H[s][v] \subseteq Live(s)'
        BY <1>1, <1>5, <1>7, <1>9, <3>2
      <3>3. ASSUME NEW n \in Modules, original'[<<n, s>>] # Null
            PROVE  H[s][n] = H[s][original'[<<n, s>>]] \cup {n} /\ n \notin H[s][original'[<<n, s>>]]
        <4>1. CASE n = m
          BY <1>1, <1>5, <1>7, <1>8, <1>11, <4>1
        <4>2. CASE n # m
          <5>1. PICK o \in Live(s) : o = original[<<n, s>>] /\ o = original'[<<n, s>>]
            BY <1>7, <1>8, <3>3, <4>2
          <5>2. /\ D[s][n] = D[s][o] \cup {n} /\ n \notin D[s][o] /\ n \in Pointers /\ o \in Pointers
                /\ o # m /\ n # Entry
            BY <1>6, <1>7, <1>8, <3>3, <4>2, <5>1, Special DEF Pointers
          <5>3. QED
            BY <1>5, <4>2, <5>1, <5>2
        <4>3. QED
          BY <4>1, <4>2
      <3>4. code'[s] = m
        OBVIOUS
      <3>5. QED
        BY <1>11, <3>1, <3>2, <3>3, <3>4 DEF ChainedAt
    <2>3. \A r \in Symbols : ChainedAt(H, r)'
      BY <2>1, <2>2
    <2>4. QED
      BY <2>3 DEF Chained
  <1>13. Grown(D, H)
    <2>1. ASSUME NEW r \in Symbols, NEW v \in Live(r) PROVE D[r][v] \subseteq H[r][v]
      <3>1. v \in Pointers
        BY DEF Live, Pointers
      <3>2. QED
        BY <1>5, <1>7, <3>1
    <2>2. QED
      BY <2>1 DEF Grown
  <1>14. m \in H[s][m] /\ m \in H[s][Entry] /\ D[s][Entry] \ {Entry} \subseteq H[s][m]
    BY <1>5, <1>6, <1>11
  <1>15. QED
    BY <1>4, <1>12, <1>13, <1>14

(* When m keeps v, it leads through itself and what v leads through. *)
LEMMA StoringLeads ==
  ASSUME PlaceInv, LiveInv, NEW D \in Leads, Chained(D), NEW m \in Modules, NEW s \in Symbols,
         NEW v \in Live(s), original[<<m, s>>] = Null, code' = code, Only(m, s, v)
  PROVE  \E G \in Leads : Chained(G)' /\ Grown(D, G) /\ G[s][m] = D[s][v] \cup {m}
  <1> DEFINE G == [r \in Symbols |-> [u \in Pointers |->
                     IF r = s /\ u = m THEN D[s][v] \cup {m} ELSE D[r][u]]]
  <1>1. /\ m \notin Live(s) /\ Live(s) \subseteq Pointers /\ Entry # m /\ Body # m
        /\ code[s] \in Live(s) /\ code[s] # m
        /\ \A u \in Live(s) : D[s][u] \subseteq Live(s) /\ u # m /\ m \notin D[s][u]
        /\ \A n \in Modules : original[<<n, s>>] # Null =>
             n # m /\ n \in Live(s) /\ original[<<n, s>>] \in Live(s) /\ original[<<n, s>>] # m
    BY Unreached
  <1>2. PICK H : H = G
    OBVIOUS
  <1>3. /\ H[s][m] = D[s][v] \cup {m}
        /\ \A r \in Symbols : \A u \in Pointers : ~(r = s /\ u = m) => H[r][u] = D[r][u]
    BY <1>2 DEF Pointers
  <1>4. H \in Leads
    <2>1. ASSUME NEW r \in Symbols, NEW u \in Pointers PROVE G[r][u] \in SUBSET (Modules \cup {Entry})
      BY <1>1, LeadsTyped
    <2>2. H = [r \in Symbols |-> [u \in Pointers |-> G[r][u]]]
      BY <1>2
    <2> HIDE DEF G
    <2>3. QED
      BY <2>1, <2>2 DEF Leads
  <1> HIDE DEF G
  <1>5. /\ original'[<<m, s>>] = v
        /\ \A n \in Modules, r \in Symbols :
             ~(n = m /\ r = s) => original'[<<n, r>>] = original[<<n, r>>]
    BY DEF Only
  <1>6. Live(s)' = Live(s) \cup {m} /\ \A r \in Symbols : r # s => Live(r)' = Live(r)
    BY <1>1, <1>5, Special DEF Live, Pointers
  <1>7. Entry \in Live(s) /\ Body \in Live(s) /\ Entry \in Pointers /\ Body \in Pointers
        /\ Modules \subseteq Pointers
    BY DEF Live, Pointers
  <1>8. Chained(H)'
    <2>1. ASSUME NEW r \in Symbols, r # s PROVE ChainedAt(H, r)'
      <3>1. ChainedAt(D, r)
        BY DEF Chained
      <3>2. /\ code'[r] = code[r] /\ Live(r)' = Live(r) /\ Live(r) \subseteq Pointers
            /\ code[r] \in Live(r)
            /\ \A n \in Modules : original'[<<n, r>>] = original[<<n, r>>]
            /\ \A n \in Modules : original[<<n, r>>] # Null => original[<<n, r>>] \in Live(r)
            /\ \A u \in Pointers : H[r][u] = D[r][u]
        BY <1>3, <1>5, <1>6, <2>1 DEF Live, Pointers, LiveInv
      <3>3. QED
        BY <1>7, <3>1, <3>2 DEF ChainedAt
    <2>2. ChainedAt(H, s)'
      <3>1. ChainedAt(D, s)
        BY DEF Chained
      <3>2. \A u \in Live(s) : H[s][u] = D[s][u]
        BY <1>1, <1>3
      <3>3. ASSUME NEW u \in Live(s)' PROVE H[s][u] \subseteq Live(s)'
        BY <1>1, <1>3, <1>6, <3>2, <3>3
      <3>4. ASSUME NEW n \in Modules, original'[<<n, s>>] # Null
            PROVE  H[s][n] = H[s][original'[<<n, s>>]] \cup {n} /\ n \notin H[s][original'[<<n, s>>]]
        <4>1. CASE n = m
          BY <1>1, <1>3, <1>5, <3>2, <4>1
        <4>2. CASE n # m
          <5>1. PICK o \in Live(s) : o = original[<<n, s>>] /\ o = original'[<<n, s>>]
            BY <1>1, <1>5, <3>4, <4>2
          <5>2. D[s][n] = D[s][o] \cup {n} /\ n \notin D[s][o] /\ n \in Live(s)
            BY <1>1, <1>5, <3>1, <3>4, <4>2, <5>1 DEF ChainedAt
          <5>3. QED
            BY <3>2, <5>1, <5>2
        <4>3. QED
          BY <4>1, <4>2
      <3>5. QED
        BY <1>1, <1>7, <3>1, <3>2, <3>3, <3>4 DEF ChainedAt
    <2>3. \A r \in Symbols : ChainedAt(H, r)'
      BY <2>1, <2>2
    <2>4. QED
      BY <2>3 DEF Chained
  <1>9. Grown(D, H)
    <2>1. ASSUME NEW r \in Symbols, NEW u \in Live(r) PROVE D[r][u] \subseteq H[r][u]
      <3>1. u \in Pointers
        BY DEF Live, Pointers
      <3>2. QED
        BY <1>1, <1>3, <3>1
    <2>2. QED
      BY <2>1 DEF Grown
  <1>10. QED
    BY <1>3, <1>4, <1>8, <1>9
(* What is patched was so before, but for the step that patches. *)
LEMMA PatchedBefore ==
  ASSUME PlaceInv, PlanInv, LiveInv, [Next]_hookVars, ~Patching, NEW j \in DOMAIN Plan, Patched(j)'
  PROVE  Patched(j)
  <1>1. process' = process
    BY BindingsGrow
  <1>2. CASE installer'.step = installer.step
    BY <1>1, <1>2 DEF Patched
  <1>3. CASE installer' = NextStep /\ installer.step <= Len(Plan) /\ installer'.step # installer.step
    <2>1. installer'.step = installer.step + 1 /\ installer.step \in Nat /\ j \in Nat
      BY <1>3, NextStepTyped, PlanTyped DEF PlaceInv, Typed
    <2>2. CASE j = installer.step
      <3>1. SkipDisabled \/ HookFunction \/ HookImportedSymbol \/ RebindEnd \/ RegisterEnd
        BY <1>3 DEF Next, Install, RebindSkip, RebindStore, RebindWrite, Callback, CallbackSkip,
             CallbackStore, CallbackWrite, CallbackEnd, LoadImage, hookVars, PlaceInv, Typed
      <3>2. CASE SkipDisabled
        BY <1>1, <2>2, <3>2 DEF SkipDisabled, Patched, Current
      <3>3. CASE HookFunction
        BY <1>1, <2>2, <3>3 DEF HookFunction, Patched, Current, Patching
      <3>4. CASE HookImportedSymbol \/ RebindEnd \/ RegisterEnd
        BY <2>2, <3>4 DEF HookImportedSymbol, RebindEnd, RegisterEnd, Patched, Current, PlaceInv, InstallerAt
      <3>5. QED
        BY <3>1, <3>2, <3>3, <3>4
    <2>3. CASE j < installer.step
      BY <1>1, <2>3 DEF Patched
    <2>4. QED
      BY <2>1, <2>2, <2>3 DEF Patched
  <1>4. QED
    BY <1>2, <1>3, StepMoves

(* A module that has patched a function passes on to something. *)
LEMMA PatchedLive ==
  ASSUME NEW D \in Leads, Chained(D), Inlined(D), NEW j \in DOMAIN Plan, Patched(j)
  PROVE  Plan[j].module \in Live(Plan[j].symbol) /\ original[<<Plan[j].module, Plan[j].symbol>>] # Null
  <1>1. Plan[j].module \in D[Plan[j].symbol][Entry] /\ Plan[j].module \in Modules /\ Plan[j].symbol \in Symbols
    BY PlanTyped DEF Inlined
  <1>2. D[Plan[j].symbol][Entry] \subseteq Live(Plan[j].symbol)
    BY <1>1 DEF Chained, ChainedAt, Live
  <1>3. QED
    BY <1>1, <1>2, Special DEF Live

(* While nothing is patched, what led through the patches goes on to. *)
LEMMA InlinedKept ==
  ASSUME NEW D \in Leads, Chained(D), Inlined(D), NEW G, Grown(D, G),
         \A j \in DOMAIN Plan : Patched(j)' => Patched(j)
  PROVE  Inlined(G)'
  <1>1. ASSUME NEW j \in DOMAIN Plan, Patched(j)
        PROVE  /\ Plan[j].module \in G[Plan[j].symbol][Entry]
               /\ \A k \in DOMAIN Plan :
                    Patched(k) /\ Plan[k].symbol = Plan[j].symbol /\ j <= k =>
                      Plan[j].module \in G[Plan[j].symbol][Plan[k].module]
    <2>1. Plan[j].symbol \in Symbols /\ Entry \in Live(Plan[j].symbol)
      BY PlanTyped DEF Live
    <2>2. Plan[j].module \in G[Plan[j].symbol][Entry]
      BY <1>1, <2>1 DEF Inlined, Grown
    <2>3. ASSUME NEW k \in DOMAIN Plan, Patched(k), Plan[k].symbol = Plan[j].symbol, j <= k
          PROVE  Plan[j].module \in G[Plan[j].symbol][Plan[k].module]
      <3>1. Plan[k].module \in Live(Plan[j].symbol)
        BY <2>3, PatchedLive
      <3>2. Plan[j].module \in D[Plan[j].symbol][Plan[k].module]
        BY <1>1, <2>3 DEF Inlined
      <3>3. QED
        BY <2>1, <3>1, <3>2 DEF Grown
    <2>4. QED
      BY <2>2, <2>3
  <1>2. QED
    BY <1>1 DEF Inlined

(* Who patches comes before those who patched. *)
LEMMA InlinedPatched ==
  ASSUME PlaceInv, PlanInv, LiveInv, Patching, NEW D \in Leads, Chained(D), Inlined(D),
         NEW m \in Modules, NEW s \in Symbols, installer.step \in DOMAIN Plan,
         Plan[installer.step] = Patcher(m, s), installer' = NextStep,
         NextStep.step = installer.step + 1, process' = process,
         NEW G, Grown(D, G), m \in G[s][m], m \in G[s][Entry], D[s][Entry] \ {Entry} \subseteq G[s][m]
  PROVE  Inlined(G)'
  <1>0. PICK p \in DOMAIN Plan : p = installer.step
    OBVIOUS
  <1>1. installer'.step = p + 1 /\ \A j \in DOMAIN Plan : j \in Nat
    BY <1>0, PlanTyped
  <1>2. Plan[p].module = m /\ Plan[p].symbol = s /\ Plan[p].kind = "inline"
    BY <1>0 DEF Patcher
  <1>3. \A j \in DOMAIN Plan : Patched(j)' => Patched(j) \/ j = p
    BY <1>0, <1>1 DEF Patched
  <1>4. \A j \in DOMAIN Plan : Patched(j) => j < p
    BY <1>0 DEF Patched
  <1>5. ASSUME NEW j \in DOMAIN Plan, Patched(j)'
        PROVE  Plan[j].module \in G[Plan[j].symbol][Entry]
    <2>1. CASE j = p
      BY <1>2, <2>1
    <2>2. CASE Patched(j)
      <3>1. Plan[j].symbol \in Symbols /\ Entry \in Live(Plan[j].symbol)
        BY PlanTyped DEF Live
      <3>2. QED
        BY <2>2, <3>1 DEF Inlined, Grown
    <2>3. QED
      BY <1>3, <1>5, <2>1, <2>2
  <1>6. ASSUME NEW j \in DOMAIN Plan, Patched(j)', NEW k \in DOMAIN Plan, Patched(k)',
               Plan[k].symbol = Plan[j].symbol, j <= k
        PROVE  Plan[j].module \in G[Plan[j].symbol][Plan[k].module]
    <2>1. CASE Patched(j) /\ Patched(k)
      <3>1. Plan[k].module \in Live(Plan[j].symbol) /\ Plan[j].symbol \in Symbols
        BY <1>6, <2>1, PatchedLive, PlanTyped
      <3>2. Plan[j].module \in D[Plan[j].symbol][Plan[k].module]
        BY <1>6, <2>1 DEF Inlined
      <3>3. QED
        BY <3>1, <3>2 DEF Grown
    <2>2. CASE Patched(j) /\ k = p
      <3>1. Plan[j].module \in D[s][Entry] /\ Plan[j].module # Entry /\ Plan[j].symbol = s
        BY <1>2, <1>6, <2>2, PlanTyped, Special DEF Inlined
      <3>2. QED
        BY <1>2, <2>2, <3>1
    <2>3. CASE j = p /\ k = p
      BY <1>2, <2>3
    <2>4. CASE j = p /\ Patched(k)
      BY <1>1, <1>4, <1>6, <2>4
    <2>5. QED
      BY <1>3, <1>6, <2>1, <2>2, <2>3, <2>4
  <1>7. QED
    BY <1>5, <1>6 DEF Inlined
-----------------------------------------------------------------------------
(* A binding is a hook; the cell it is for leads on. *)
LEMMA BindingTyped ==
  ASSUME PlaceInv, LiveInv, NEW i \in 1..Len(bindings)
  PROVE  /\ i \in DOMAIN bindings /\ Len(bindings) \in Nat
         /\ bindings[i] = <<bindings[i][1], bindings[i][2]>> /\ bindings[i] \in InSeq(bindings)
         /\ bindings[i][1] \in Modules /\ bindings[i][2] \in Symbols
         /\ \A x \in Images : bindings[i][2] \in Imports[x] =>
              <<x, bindings[i][2]>> \in Cells /\ cell[<<x, bindings[i][2]>>] \in Live(bindings[i][2])
  <1>1. /\ bindings \in Seq(Hooks) /\ DOMAIN bindings = 1..Len(bindings) /\ Len(bindings) \in Nat
        /\ bindings[i] \in Hooks
    BY Elements DEF PlaceInv, Typed
  <1>2. /\ bindings[i] = <<bindings[i][1], bindings[i][2]>>
        /\ bindings[i][1] \in Modules /\ bindings[i][2] \in Symbols
    BY <1>1 DEF Hooks
  <1>3. ASSUME NEW x \in Images, NEW r \in Symbols, r \in Imports[x]
        PROVE  <<x, r>> \in Cells /\ cell[<<x, r>>] \in Live(r)
    BY <1>3 DEF Cells, LiveInv
  <1>4. QED
    BY <1>1, <1>2, <1>3 DEF InSeq

(* Cells that are not written go on leading through the same bindings. *)
LEMMA UpKept ==
  ASSUME PlaceInv, LiveInv, NEW D, NEW G, Grown(D, G), NEW x \in Images, NEW n \in Nat,
         n <= Len(bindings), Up(D, x, n),
         \A i \in 1..n : bindings'[i] = bindings[i],
         \A r \in Imports[x] : cell'[<<x, r>>] = cell[<<x, r>>]
  PROVE  Up(G, x, n)'
  <1>1. ASSUME NEW i \in 1..n, bindings[i][2] \in Imports[x]
        PROVE  bindings[i][1] \in G[bindings[i][2]][cell[<<x, bindings[i][2]>>]]
    <2>1. i \in 1..Len(bindings)
      BY BindingTyped
    <2>2. bindings[i][2] \in Symbols /\ cell[<<x, bindings[i][2]>>] \in Live(bindings[i][2])
      BY <1>1, <2>1, BindingTyped
    <2>3. bindings[i][1] \in D[bindings[i][2]][cell[<<x, bindings[i][2]>>]]
      BY <1>1 DEF Up
    <2>4. QED
      BY <2>2, <2>3 DEF Grown
  <1>2. ASSUME NEW i \in 1..n, bindings'[i][2] \in Imports[x]
        PROVE  bindings'[i][1] \in G[bindings'[i][2]][cell'[<<x, bindings'[i][2]>>]]
    <2>1. PICK b : b = bindings[i] /\ b = bindings'[i]
      OBVIOUS
    <2>2. b[1] \in G[b[2]][cell[<<x, b[2]>>]] /\ b[2] \in Imports[x]
      BY <1>1, <1>2, <2>1
    <2>3. cell'[<<x, b[2]>>] = cell[<<x, b[2]>>]
      BY <2>2
    <2>4. QED
      BY <2>1, <2>2, <2>3
  <1>3. QED
    BY <1>2 DEF Up

(* Bindings whose modules had their originals stay in order. *)
LEMMA OrderedKept ==
  ASSUME PlaceInv, LiveInv, NEW D, NEW G, Grown(D, G), Ordered(D), bindings' = bindings,
         \A j \in DOMAIN bindings : original'[bindings[j]] # Null => original[bindings[j]] # Null
  PROVE  Ordered(G)'
  <1>1. ASSUME NEW j \in DOMAIN bindings, NEW i \in 1..j, bindings[i][2] = bindings[j][2],
               original'[bindings[j]] # Null
        PROVE  bindings[i][1] \in G[bindings[j][2]][bindings[j][1]]
    <2>1. j \in 1..Len(bindings)
      BY Elements DEF PlaceInv, Typed
    <2>2. /\ bindings[j] = <<bindings[j][1], bindings[j][2]>> /\ original[bindings[j]] # Null
          /\ bindings[j][1] \in Modules /\ bindings[j][2] \in Symbols
      BY <1>1, <2>1, BindingTyped
    <2>3. bindings[j][1] \in Live(bindings[j][2])
      BY <2>2 DEF Live
    <2>4. bindings[i][1] \in D[bindings[j][2]][bindings[j][1]]
      BY <1>1, <2>2 DEF Ordered
    <2>5. QED
      BY <2>2, <2>3, <2>4 DEF Grown
  <1>2. QED
    BY <1>1 DEF Ordered

(* Images that wait for as much as before are covered as before. *)
LEMMA CoveredKept ==
  ASSUME PlaceInv, Queued, LiveInv, NEW D, NEW G, Grown(D, G), NEW x \in InSeq(loaded), Covered(D, x),
         bindings' = bindings, \A r \in Imports[x] : cell'[<<x, r>>] = cell[<<x, r>>],
         callback'.images = callback.images, callback'.at = callback.at, Waiting(x)' <=> Waiting(x)
  PROVE  Covered(G, x)'
  <1>1. /\ loaded \in Seq(Images) /\ bindings \in Seq(Hooks) /\ Len(bindings) \in Nat
        /\ callback.at \in Nat \ {0} /\ callback.at <= Len(bindings) + 1
    BY DEF PlaceInv, Typed, CallbackAt
  <1>2. x \in Images
    BY <1>1, Members
  <1>3. ASSUME NEW n \in Nat, n <= Len(bindings), Up(D, x, n) PROVE Up(G, x, n)'
    BY <1>2, <1>3, UpKept
  <1>4. PICK l \in Nat, a \in Nat : l = Len(bindings) /\ a = callback.at - 1 /\ a <= l
    BY <1>1
  <1>5. CASE x \in InSeq(callback.images)
    <2>1. x = Head(callback.images) => Up(D, x, a)
      BY <1>4, <1>5 DEF Covered
    <2>2. x = Head(callback.images) => Up(G, x, a)'
      BY <1>3, <1>4, <2>1
    <2>3. callback'.at - 1 = a /\ callback'.images = callback.images
      BY <1>4
    <2>4. QED
      BY <1>5, <2>2, <2>3 DEF Covered
  <1>6. CASE x \notin InSeq(callback.images) /\ Waiting(x)
    <2>1. Up(D, x, l - 1) /\ bindings # << >>
      BY <1>4, <1>6 DEF Covered, PlaceInv, InstallerAt, Waiting, Busy
    <2>2. l - 1 \in Nat
      BY <1>1, <1>4, <2>1, Elements
    <2>3. Up(G, x, l - 1)'
      BY <1>3, <1>4, <2>1, <2>2
    <2>4. Len(bindings') = l
      BY <1>4
    <2>5. QED
      BY <1>6, <2>3, <2>4 DEF Covered
  <1>7. CASE x \notin InSeq(callback.images) /\ ~Waiting(x)
    <2>1. Up(D, x, l)
      BY <1>4, <1>7 DEF Covered
    <2>2. Up(G, x, l)'
      BY <1>3, <1>4, <2>1
    <2>3. Len(bindings') = l
      BY <1>4
    <2>4. QED
      BY <1>7, <2>2, <2>3 DEF Covered
  <1>8. QED
    BY <1>5, <1>6, <1>7
(* A step that rebinds nothing leaves all covered. *)
LEMMA CoveringKept ==
  ASSUME PlaceInv, Queued, LiveInv, NEW D, NEW G, Grown(D, G), Covering(D),
         ~process.threaded /\ ~refused /\ Ordered(D) => Ordered(G)',
         UNCHANGED <<process, cell, bindings, loaded, registered, refused>>,
         callback'.images = callback.images, callback'.at = callback.at,
         Busy' => Busy, ~Busy' => ~Busy \/ registered,
         \A x \in InSeq(loaded) : Waiting(x)' <=> Waiting(x)
  PROVE  Covering(G)'
  <1>1. SUFFICES ASSUME ~process.threaded, ~refused
                 PROVE  /\ Busy' => callback'.images = << >>
                        /\ ~registered' /\ ~Busy' => bindings' = << >>
                        /\ Ordered(G)'
                        /\ \A x \in InSeq(loaded)' : Covered(G, x)'
    BY DEF Covering
  <1>2. /\ Busy => callback.images = << >>
        /\ ~registered /\ ~Busy => bindings = << >>
        /\ Ordered(D) /\ \A x \in InSeq(loaded) : Covered(D, x)
    BY <1>1 DEF Covering
  <1>3. ASSUME NEW x \in InSeq(loaded) PROVE Covered(G, x)'
    BY <1>2, CoveredKept
  <1>4. InSeq(loaded)' = InSeq(loaded)
    BY DEF InSeq
  <1>5. Ordered(G)'
    BY <1>1, <1>2
  <1>6. QED
    BY <1>2, <1>3, <1>4, <1>5

(* Passing over a module, an installer's end. *)
LEMMA CoveringPass ==
  ASSUME GroundInv, NEW D, Chained(D), Covering(D),
         \/ SkipDisabled \/ RegisterEnd \/ UNCHANGED hookVars
         \/ HookImportedSymbol /\ ~(Len(bindings) < Limit)
         \/ RebindEnd /\ registered
  PROVE  Covering(D)' /\ Chained(D)' /\ Grown(D, D)
  <1>1. UNCHANGED <<process, code, cell, original, bindings, loaded, callback, refused, registered>>
    BY DEF SkipDisabled, RegisterEnd, hookVars, HookImportedSymbol, RebindEnd
  <1>2. /\ Busy' => Busy
        /\ ~Busy' => ~Busy \/ registered
        /\ \A x \in InSeq(loaded) : Waiting(x)' <=> Waiting(x)
    <2>1. CASE UNCHANGED installer
      BY <2>1 DEF Busy, Waiting, InSeq
    <2>2. CASE /\ installer.stage \notin {"store", "write"} \/ (registered /\ installer.images = << >>)
               /\ installer' = NextStep
      <3>1. installer'.stage = "next" /\ InSeq(<< >>) = {}
        BY <2>2 DEF NextStep, GroundInv, PlaceInv, Typed, InSeq
      <3>2. QED
        BY <2>2, <3>1 DEF Busy, Waiting
    <2>3. QED
      BY <2>1, <2>2 DEF SkipDisabled, RegisterEnd, hookVars, HookImportedSymbol, RebindEnd, AtStep
  <1>3. Chained(D)' /\ Grown(D, D)
    BY <1>1, SameChain
  <1>4. Ordered(D) => Ordered(D)'
    BY <1>1 DEF Ordered
  <1>5. QED
    BY <1>1, <1>2, <1>3, <1>4, CoveringKept DEF GroundInv

(* What a binding appended by the plan leads through. *)
LEMMA BoundAfter ==
  ASSUME GroundInv, HookImportedSymbol, NEW D \in Leads, Chained(D), Inlined(D),
         original[Hook] # Null, NEW i \in 1..Len(bindings), bindings[i][2] = Hook[2]
  PROVE  bindings[i][1] \in D[Hook[2]][Hook[1]]
  <1>1. PICK m \in Modules, s \in Symbols, n \in Modules, p \in DOMAIN Plan :
          /\ Hook = <<m, s>> /\ bindings[i] = <<n, s>> /\ p = installer.step
    BY BindFresh, BindingTyped DEF GroundInv, HookImportedSymbol, Hooks
  <1>2. /\ Plan[p] = Importer(m, s) /\ <<m, s>> \notin InSeq(bindings) /\ installer.stage = "next"
        /\ m \in process.enabled
    BY <1>1, BindFresh DEF GroundInv, HookImportedSymbol, AtStep, Importer, Current, Hook
  <1>3. PICK q \in DOMAIN Plan : q < p /\ Plan[q] = Patcher(m, s) /\ s \in process.targets
    BY <1>1, <1>2 DEF GroundInv, PlanInv
  <1>4. PICK k \in DOMAIN Plan : k < p /\ Plan[k] = Importer(n, s) /\ n \in process.enabled
    <2>1. i \in DOMAIN bindings /\ bindings[i][1] = n /\ bindings[i][2] = s
      BY <1>1, BindingTyped DEF GroundInv
    <2>2. PICK k \in DOMAIN Plan : Begun(k) /\ Plan[k] = Importer(n, s) /\ n \in process.enabled
      BY <2>1 DEF GroundInv, PlanInv
    <2>3. QED
      BY <1>1, <1>2, <2>2 DEF Begun
  <1>5. PICK j \in DOMAIN Plan : j < k /\ Plan[j] = Patcher(n, s)
    <2>1. PICK j \in DOMAIN Plan : j < k /\ Plan[j] = [Plan[k] EXCEPT !.kind = "inline"]
      BY <1>4, PlanAssumption DEF PlanAssumption, Importer
    <2>2. QED
      BY <1>4, <2>1 DEF Importer, Patcher
  <1>6. p \in Nat /\ q \in Nat /\ k \in Nat /\ j \in Nat
    BY PlanTyped
  <1>7. Patched(q) /\ Patched(j)
    BY <1>1, <1>2, <1>3, <1>4, <1>5, <1>6 DEF Patched, Patcher
  <1>8. /\ Plan[q].module = m /\ Plan[q].symbol = s /\ Plan[j].module = n /\ Plan[j].symbol = s
        /\ Plan[p].module = m
    BY <1>2, <1>3, <1>5 DEF Patcher, Importer
  <1>9. n \in D[s][m]
    <2>1. CASE j <= q
      BY <1>7, <1>8, <2>1 DEF Inlined
    <2>2. CASE q < j
      <3>1. n = m
        BY <1>4, <1>5, <1>6, <1>8, <2>2, PlanAssumption DEF PlanAssumption
      <3>2. QED
        BY <1>6, <1>7, <1>8, <3>1 DEF Inlined
    <2>3. QED
      BY <1>6, <2>1, <2>2
  <1>10. QED
    BY <1>1, <1>9

(* A new binding: all images there are wait for it. *)
LEMMA CoveringBind ==
  ASSUME GroundInv, HookImportedSymbol, Len(bindings) < Limit,
         NEW D \in Leads, Chained(D), Inlined(D), Covering(D)
  PROVE  Covering(D)' /\ Chained(D)' /\ Grown(D, D)
  <1>1. /\ bindings' = Append(bindings, Hook)
        /\ installer' = [installer EXCEPT !.stage = "store", !.images = loaded]
        /\ UNCHANGED <<process, code, cell, original, loaded, registered, callback, refused>>
        /\ installer.stage = "next" /\ (process.threaded \/ callback.images = << >>)
    BY DEF HookImportedSymbol, AtStep, Installing, Hook
  <1>2. Chained(D)' /\ Grown(D, D)
    BY <1>1, SameChain
  <1>3. Hook \in Hooks /\ bindings \in Seq(Hooks) /\ loaded \in Seq(Images)
    BY BindFresh DEF GroundInv, HookImportedSymbol, PlaceInv, Typed
  <1>4. PICK l \in Nat, h \in Hooks :
          /\ l = Len(bindings) /\ h = Hook
          /\ DOMAIN bindings' = 1..l + 1 /\ DOMAIN bindings = 1..l /\ Len(bindings') = l + 1
          /\ \A i \in 1..l : bindings'[i] = bindings[i]
          /\ bindings'[l + 1] = h
    BY <1>1, <1>3, Elements
  <1>5. SUFFICES ASSUME ~process.threaded, ~refused
                 PROVE  /\ Busy' => callback'.images = << >>
                        /\ ~registered' /\ ~Busy' => bindings' = << >>
                        /\ Ordered(D)'
                        /\ \A x \in InSeq(loaded)' : Covered(D, x)'
    BY <1>1, <1>2 DEF Covering
  <1>6. Ordered(D) /\ callback.images = << >> /\ \A x \in InSeq(loaded) : Covered(D, x)
    BY <1>1, <1>5 DEF Covering
  <1>7. Busy' /\ installer'.images = loaded
    BY <1>1 DEF Busy, GroundInv, PlaceInv, Typed
  <1>8. Ordered(D)'
    <2>1. ASSUME NEW j \in 1..l + 1, NEW i \in 1..j, bindings'[i][2] = bindings'[j][2],
                 original[bindings'[j]] # Null
          PROVE  bindings'[i][1] \in D[bindings'[j][2]][bindings'[j][1]]
      <3>1. CASE j \in 1..l
        BY <1>4, <1>6, <2>1, <3>1 DEF Ordered
      <3>2. CASE j = l + 1 /\ i \in 1..l
        BY <1>4, <2>1, <3>2, BoundAfter
      <3>3. CASE j = l + 1 /\ i = l + 1
        <4>1. PICK m \in Modules, s \in Symbols : h = <<m, s>>
          BY DEF Hooks
        <4>2. m \in D[s][m]
          BY <1>4, <2>1, <3>3, <4>1 DEF Chained, ChainedAt
        <4>3. QED
          BY <1>4, <3>3, <4>1, <4>2
      <3>4. QED
        BY <3>1, <3>2, <3>3
    <2>2. QED
      BY <1>1, <1>4, <2>1 DEF Ordered
  <1>9. ASSUME NEW x \in InSeq(loaded) PROVE Covered(D, x)'
    <2>1. Up(D, x, l)
      BY <1>1, <1>4, <1>6, Members DEF Covered, Waiting, Busy, GroundInv, PlaceInv, Typed
    <2>2. x \in Images
      BY <1>3, Members
    <2>3. Up(D, x, l)'
      BY <1>1, <1>2, <1>4, <2>1, <2>2, UpKept DEF GroundInv
    <2>4. Len(bindings') - 1 = l
      BY <1>4
    <2>5. Waiting(x)' /\ x \notin InSeq(callback'.images)
      BY <1>1, <1>6, <1>7 DEF Waiting, InSeq
    <2>6. QED
      BY <2>3, <2>4, <2>5 DEF Covered
  <1>10. InSeq(loaded)' = InSeq(loaded)
    BY <1>1 DEF InSeq
  <1>11. QED
    BY <1>1, <1>6, <1>7, <1>8, <1>9, <1>10
(* What a module bound with its original leads through. *)
LEMMA OrderedThrough ==
  ASSUME PlaceInv, LiveInv, NEW D, Chained(D), Ordered(D),
         NEW j \in 1..Len(bindings), original[bindings[j]] # Null,
         NEW i \in 1..j, bindings[i][2] = bindings[j][2]
  PROVE  bindings[i][1] \in D[bindings[j][2]][bindings[j][1]]
  BY BindingTyped DEF Ordered

(* A cell written for the binding j leads through the first j bindings. *)
LEMMA UpWritten ==
  ASSUME PlaceInv, LiveInv, NEW D, Chained(D), Ordered(D), NEW x \in Images,
         NEW j \in 1..Len(bindings), original[bindings[j]] # Null, Up(D, x, j - 1),
         bindings' = bindings, <<x, bindings[j][2]>> \in Cells,
         cell'[<<x, bindings[j][2]>>] = bindings[j][1],
         \A c \in Cells : cell'[c] # cell[c] => c = <<x, bindings[j][2]>>
  PROVE  Up(D, x, j)'
  <1>1. PICK m \in Modules, s \in Symbols : bindings[j] = <<m, s>>
    BY BindingTyped
  <1>2. j \in Nat /\ Len(bindings) \in Nat /\ \A i \in 1..j : i \in 1..Len(bindings)
    BY BindingTyped
  <1>3. ASSUME NEW i \in 1..j, bindings[i][2] \in Imports[x]
        PROVE  bindings[i][1] \in D[bindings[i][2]][cell'[<<x, bindings[i][2]>>]]
    <2>1. PICK n \in Modules, r \in Symbols : bindings[i] = <<n, r>>
      BY <1>2, BindingTyped
    <2>2. CASE r = s
      BY <1>1, <1>2, <2>1, <2>2, OrderedThrough
    <2>3. CASE r # s
      <3>1. i \in 1..j - 1
        BY <1>1, <1>2, <2>1, <2>3
      <3>2. n \in D[r][cell[<<x, r>>]] /\ r \in Imports[x]
        <4>1. bindings[i][1] \in D[bindings[i][2]][cell[<<x, bindings[i][2]>>]]
          BY <1>3, <3>1 DEF Up
        <4>2. bindings[i][1] = n /\ bindings[i][2] = r
          BY <2>1
        <4>3. QED
          BY <1>3, <4>1, <4>2
      <3>3. cell'[<<x, r>>] = cell[<<x, r>>]
        BY <1>1, <2>3, <3>2 DEF Cells
      <3>4. QED
        BY <2>1, <3>2, <3>3
    <2>4. QED
      BY <2>2, <2>3
  <1>4. QED
    BY <1>3 DEF Up

(* A cell that has been written no longer waits, nor one there is none of. *)
LEMMA CoveringRebound ==
  ASSUME GroundInv, RebindSkip \/ RebindWrite, NEW D \in Leads, Chained(D), Covering(D)
  PROVE  Covering(D)' /\ Chained(D)' /\ Grown(D, D)
  <1>1. /\ UNCHANGED <<process, code, original, bindings, loaded, registered, callback>>
        /\ installer.stage \in {"store", "write"} /\ installer'.stage = "store"
        /\ installer.images # << >> /\ installer'.images = Tail(installer.images)
        /\ refused => refused'
    <2>1. CASE RebindSkip
      BY <2>1 DEF GroundInv, RebindSkip, Rebinding, PlaceInv, Typed
    <2>2. CASE RebindWrite
      BY <2>2 DEF GroundInv, RebindWrite, WriteCell, PlaceInv, Typed, InstallerAt
    <2>3. QED
      BY <2>1, <2>2
  <1>2. Chained(D)' /\ Grown(D, D)
    BY <1>1, SameChain
  <1>3. SUFFICES ASSUME ~process.threaded, ~refused'
                 PROVE  /\ Busy' => callback'.images = << >>
                        /\ ~registered' /\ ~Busy' => bindings' = << >>
                        /\ Ordered(D)'
                        /\ \A x \in InSeq(loaded)' : Covered(D, x)'
    BY <1>1, <1>2 DEF Covering
  <1>4. /\ callback.images = << >> /\ Ordered(D) /\ Busy /\ Busy'
        /\ \A x \in InSeq(loaded) : Covered(D, x)
    BY <1>1, <1>3 DEF Covering, Busy
  <1>5. PICK l \in Nat, y \in Images, m \in Modules, s \in Symbols :
          /\ l = Len(bindings) /\ y = Head(installer.images) /\ bindings[l] = <<m, s>> /\ Hook = <<m, s>>
          /\ l \in 1..Len(bindings) /\ y \in InSeq(installer.images) /\ l - 1 \in Nat
          /\ InSeq(Tail(installer.images)) \subseteq InSeq(installer.images)
          /\ InSeq(installer.images) \subseteq InSeq(Tail(installer.images)) \cup {y}
    <2>1. bindings # << >> /\ bindings[Len(bindings)] = Hook /\ bindings \in Seq(Hooks)
          /\ installer.images \in Seq(Images)
      BY <1>1 DEF GroundInv, PlaceInv, InstallerAt, Typed
    <2>2. Len(bindings) \in Nat \ {0}
      BY <2>1, Elements
    <2>3. Hook \in Hooks
      BY <2>1, <2>2, Elements
    <2>4. /\ Head(installer.images) \in InSeq(installer.images)
          /\ Head(installer.images) \in Images
          /\ InSeq(Tail(installer.images)) \subseteq InSeq(installer.images)
          /\ InSeq(installer.images) \subseteq InSeq(Tail(installer.images)) \cup {Head(installer.images)}
      BY <1>1, <2>1, Members, Elements
    <2>5. PICK m \in Modules, s \in Symbols : Hook = <<m, s>>
      BY <2>3 DEF Hooks
    <2>6. PICK l \in Nat, y \in Images : l = Len(bindings) /\ y = Head(installer.images)
      BY <2>2, <2>4
    <2>7. l \in 1..l /\ l - 1 \in Nat
      BY <2>2, <2>6
    <2>8. QED
      BY <2>1, <2>4, <2>5, <2>6, <2>7
  <1>6. /\ \A c \in Cells : cell'[c] # cell[c] => c = <<y, s>>
        /\ s \in Imports[y] => /\ cell'[<<y, s>>] = m /\ <<y, s>> \in Cells /\ original[<<m, s>>] # Null
    <2>1. CASE RebindSkip
      <3>1. cell' = cell /\ s \notin Imports[y]
        BY <1>5, <2>1 DEF RebindSkip, Imported, Hook
      <3>2. QED
        BY <3>1
    <2>2. CASE RebindWrite
      <3>1. PICK n \in Modules, r \in Symbols, z \in Images :
              Writing(n, r, z) /\ Hook = <<n, r>> /\ z = Head(installer.images)
        BY <2>2, RebindWrites DEF GroundInv
      <3>2. n = m /\ r = s /\ z = y
        BY <1>5, <3>1
      <3>3. QED
        BY <1>3, <3>1, <3>2, WritingEffect DEF GroundInv
    <2>3. QED
      BY <2>1, <2>2
  <1>7. \A x \in Images, r \in Symbols : x # y /\ r \in Imports[x] => cell'[<<x, r>>] = cell[<<x, r>>]
    BY <1>6 DEF Cells
  <1>8. ASSUME NEW x \in InSeq(loaded) PROVE Covered(D, x)'
    <2>0. x \in Images /\ Imports[x] \subseteq Symbols
      BY Members, BackendAssumption DEF GroundInv, PlaceInv, Typed, BackendAssumption
    <2>1. CASE x # y
      <3>1. Waiting(x)' <=> Waiting(x)
        BY <1>1, <1>4, <1>5, <2>1 DEF Waiting
      <3>2. QED
        BY <1>1, <1>2, <1>4, <1>7, <2>0, <2>1, <3>1, CoveredKept DEF GroundInv
    <2>2. CASE x = y
      <3>1. Waiting(x) /\ x \notin InSeq(callback.images) /\ x \notin InSeq(callback'.images)
        BY <1>1, <1>4, <1>5, <2>2 DEF Waiting, InSeq
      <3>2. Up(D, x, l - 1)
        BY <1>4, <1>5, <3>1 DEF Covered
      <3>3. Up(D, x, l)'
        <4>1. CASE s \in Imports[y]
          BY <1>1, <1>4, <1>5, <1>6, <2>2, <3>2, <4>1, UpWritten DEF GroundInv
        <4>2. CASE s \notin Imports[y]
          <5>1. \A r \in Imports[x] : cell'[<<x, r>>] = cell[<<x, r>>]
            BY <1>6, <2>0, <2>2, <4>2 DEF Cells
          <5>2. Up(D, x, l - 1)'
            BY <1>1, <1>2, <1>5, <2>0, <3>2, <5>1, UpKept DEF GroundInv
          <5>3. \A i \in 1..l : i \in 1..l - 1 \/ i = l
            OBVIOUS
          <5>4. bindings'[l][2] = s
            BY <1>1, <1>5
          <5>5. QED
            BY <2>2, <4>2, <5>2, <5>3, <5>4 DEF Up
        <4>3. QED
          BY <4>1, <4>2
      <3>4. Up(D, x, l - 1)'
        <4>1. \A i \in 1..l - 1 : i \in 1..l
          BY <1>5
        <4>2. QED
          BY <3>3, <4>1 DEF Up
      <3>5. Len(bindings') = l
        BY <1>1, <1>5
      <3>6. QED
        BY <3>1, <3>3, <3>4, <3>5 DEF Covered
    <2>3. QED
      BY <2>1, <2>2
  <1>9. InSeq(loaded)' = InSeq(loaded) /\ Ordered(D)'
    BY <1>1, <1>4 DEF InSeq, Ordered
  <1>10. QED
    BY <1>1, <1>4, <1>8, <1>9
(* The first binding is in all images; now each has to be called for. *)
LEMMA CoveringRegister ==
  ASSUME GroundInv, RebindEnd, ~registered, NEW D, Chained(D), Covering(D)
  PROVE  Covering(D)' /\ Chained(D)' /\ Grown(D, D)
  <1>1. /\ UNCHANGED <<process, code, cell, original, bindings, loaded, refused>>
        /\ installer.stage = "store" /\ registered' /\ installer'.stage = "register"
        /\ callback'.images = loaded /\ callback'.at = 1 /\ callback.images = << >>
        /\ installer.images = << >>
    BY DEF RebindEnd, GroundInv, PlaceInv, Typed, CallbackAt
  <1>2. Chained(D)' /\ Grown(D, D)
    BY <1>1, SameChain
  <1>3. ~Busy' /\ Busy /\ Ordered(D) => Ordered(D)'
    BY <1>1 DEF Busy, Ordered
  <1>4. ASSUME NEW x \in InSeq(loaded) PROVE Covered(D, x)'
    <2>1. x \in InSeq(callback'.images) /\ callback'.at - 1 = 0
      BY <1>1 DEF InSeq
    <2>2. Up(D, x, 0)'
      BY DEF Up
    <2>3. QED
      BY <2>1, <2>2 DEF Covered
  <1>5. InSeq(loaded)' = InSeq(loaded)
    BY <1>1 DEF InSeq
  <1>6. ~Busy'
    BY <1>1 DEF Busy
  <1>7. QED
    BY <1>1, <1>2, <1>3, <1>4, <1>5, <1>6 DEF Covering, Busy

(* A new image waits for its callback, or there is no binding yet. *)
LEMMA CoveringLoad ==
  ASSUME GroundInv, NEW y \in Images, LoadImage(y), NEW D, Chained(D), Covering(D)
  PROVE  Covering(D)' /\ Chained(D)' /\ Grown(D, D)
  <1>1. /\ UNCHANGED <<process, code, cell, original, bindings, registered, installer, refused>>
        /\ loaded' = Append(loaded, y) /\ y \notin InSeq(loaded)
        /\ process.threaded \/ installer.stage = "next"
        /\ callback'.images = IF registered THEN Append(callback.images, y) ELSE callback.images
        /\ callback'.at = callback.at
    BY DEF LoadImage, InSeq, GroundInv, PlaceInv, Typed
  <1>2. Chained(D)' /\ Grown(D, D)
    BY <1>1, SameChain
  <1>3. SUFFICES ASSUME ~process.threaded, ~refused
                 PROVE  /\ Busy' => callback'.images = << >>
                        /\ ~registered' /\ ~Busy' => bindings' = << >>
                        /\ Ordered(D)'
                        /\ \A x \in InSeq(loaded)' : Covered(D, x)'
    BY <1>1, <1>2 DEF Covering
  <1>4. /\ ~Busy /\ ~Busy' /\ Ordered(D) /\ ~registered => bindings = << >>
        /\ \A x \in InSeq(loaded) : Covered(D, x)
    BY <1>1, <1>3 DEF Covering, Busy
  <1>5. /\ loaded \in Seq(Images) /\ callback.images \in Seq(Images) /\ bindings \in Seq(Hooks)
        /\ callback.at \in Nat \ {0} /\ callback.at <= Len(bindings) + 1 /\ Len(bindings) \in Nat
        /\ callback.images = << >> => callback.at = 1
        /\ ~registered => callback.images = << >>
    BY Elements DEF GroundInv, PlaceInv, Typed, CallbackAt
  <1>6. InSeq(loaded)' = InSeq(loaded) \cup {y}
    <2>1. InSeq(Append(loaded, y)) = InSeq(loaded) \cup {y}
      BY <1>5, Members
    <2>2. QED
      BY <1>1, <2>1 DEF InSeq
  <1>7. ~Busy /\ Ordered(D)' /\ (~registered => bindings = << >>)
    BY <1>1, <1>3 DEF Covering, Busy, Ordered
  <1>8. ASSUME NEW x \in Images, NEW n \in Nat, n <= Len(bindings), Up(D, x, n) PROVE Up(D, x, n)'
    BY <1>1, <1>8 DEF Up
  <1>9. PICK l \in Nat, a \in Nat : l = Len(bindings) /\ l = Len(bindings') /\ a = callback.at - 1 /\ a <= l
    <2>1. callback.at - 1 \in Nat /\ callback.at - 1 <= Len(bindings) /\ Len(bindings') = Len(bindings)
      BY <1>1, <1>5
    <2>2. QED
      BY <1>5, <2>1
  <1>10. CASE registered
    <2>1. /\ callback'.images = Append(callback.images, y)
          /\ InSeq(callback'.images) = InSeq(callback.images) \cup {y}
      BY <1>1, <1>5, <1>10, Members
    <2>2. /\ callback.images # << >> => Head(callback'.images) = Head(callback.images)
          /\ callback.images # << >> => Head(callback.images) \in InSeq(loaded)
          /\ InSeq(<< >>) = {}
      <3>1. InSeq(<< >>) = {}
        BY DEF InSeq
      <3>2. ASSUME callback.images # << >>
            PROVE  /\ Head(callback'.images) = Head(callback.images)
                   /\ Head(callback.images) \in InSeq(loaded)
        <4>1. Head(callback.images) \in InSeq(callback.images)
          BY <1>5, <3>2, Members
        <4>2. Head(Append(callback.images, y)) = Head(callback.images)
          BY <1>5, <3>2, HeadKept
        <4>3. QED
          BY <2>1, <4>1, <4>2 DEF GroundInv, Queued
      <3>3. QED
        BY <3>1, <3>2
    <2>3. ASSUME NEW x \in InSeq(loaded)' PROVE Covered(D, x)'
      <3>1. x \in Images
        BY <1>5, <1>6, Members
      <3>2. CASE x \in InSeq(callback'.images)
        <4>1. ASSUME x = Head(callback'.images) PROVE Up(D, x, a)'
          <5>1. CASE callback.images = << >>
            <6>1. a = 0
              BY <1>5, <1>9, <5>1
            <6>2. QED
              BY <6>1 DEF Up
          <5>2. CASE callback.images # << >>
            <6>1. x = Head(callback.images) /\ x \in InSeq(loaded) /\ x \in InSeq(callback.images)
              BY <1>5, <2>2, <4>1, <5>2, Members
            <6>2. Up(D, x, a)
              BY <1>3, <1>9, <6>1 DEF Covering, Covered
            <6>3. QED
              BY <1>8, <1>9, <3>1, <6>2
          <5>3. QED
            BY <5>1, <5>2
        <4>2. callback'.at - 1 = a
          BY <1>1, <1>9
        <4>3. QED
          BY <3>2, <4>1, <4>2 DEF Covered
      <3>3. CASE x \notin InSeq(callback'.images)
        <4>1. x \in InSeq(loaded) /\ x \notin InSeq(callback.images) /\ ~Waiting(x) /\ ~Waiting(x)'
          BY <1>1, <1>6, <1>7, <2>1, <3>3 DEF Waiting, Busy
        <4>2. Up(D, x, l)
          BY <1>3, <1>9, <4>1 DEF Covering, Covered
        <4>3. Up(D, x, l)'
          BY <1>8, <1>9, <3>1, <4>2
        <4>4. QED
          BY <1>9, <3>3, <4>1, <4>3 DEF Covered
      <3>4. QED
        BY <3>2, <3>3
    <2>4. QED
      BY <1>1, <1>7, <2>3, <1>10 DEF Busy
  <1>11. CASE ~registered
    <2>1. callback'.images = << >> /\ bindings' = << >> /\ InSeq(<< >>) = {}
      BY <1>1, <1>5, <1>7, <1>11 DEF InSeq
    <2>2. ASSUME NEW x \in InSeq(loaded)' PROVE Covered(D, x)'
      <3>1. Len(bindings') = 0 /\ ~Waiting(x)'
        BY <1>1, <1>7, <2>1 DEF Waiting, Busy
      <3>2. Up(D, x, 0)'
        BY DEF Up
      <3>3. QED
        BY <2>1, <3>1, <3>2 DEF Covered
    <2>3. QED
      BY <1>1, <1>7, <2>1, <2>2 DEF Busy
  <1>12. QED
    BY <1>10, <1>11

(* The callback leads its image through one binding after the other. *)
LEMMA CoveringCallback ==
  ASSUME GroundInv, CallbackSkip \/ CallbackWrite, NEW D \in Leads, Chained(D), Covering(D)
  PROVE  Covering(D)' /\ Chained(D)' /\ Grown(D, D)
  <1>1. /\ UNCHANGED <<process, code, original, bindings, loaded, registered, installer>>
        /\ callback.images # << >> /\ callback'.images = callback.images
        /\ callback'.at = callback.at + 1 /\ callback.at <= Len(bindings) /\ (refused => refused')
    <2>1. NextBinding.images = callback.images /\ NextBinding.at = callback.at + 1
      BY DEF NextBinding, GroundInv, PlaceInv, Typed
    <2>2. CASE CallbackSkip
      BY <2>1, <2>2 DEF CallbackSkip, Calling
    <2>3. CASE CallbackWrite
      BY <2>1, <2>3 DEF CallbackWrite, Calling, WriteCell, GroundInv, PlaceInv, CallbackAt, Bound
    <2>4. QED
      BY <2>2, <2>3
  <1>2. Chained(D)' /\ Grown(D, D)
    BY <1>1, SameChain
  <1>3. SUFFICES ASSUME ~process.threaded, ~refused'
                 PROVE  /\ Busy' => callback'.images = << >>
                        /\ ~registered' /\ ~Busy' => bindings' = << >>
                        /\ Ordered(D)'
                        /\ \A x \in InSeq(loaded)' : Covered(D, x)'
    BY <1>1, <1>2 DEF Covering
  <1>4. /\ ~Busy /\ Ordered(D) /\ (~registered => bindings = << >>)
        /\ \A x \in InSeq(loaded) : Covered(D, x)
    BY <1>1, <1>3 DEF Covering
  <1>5. PICK j \in Nat, y \in Images, m \in Modules, s \in Symbols :
          /\ j = callback.at /\ y = Head(callback.images) /\ bindings[j] = <<m, s>> /\ Binding = <<m, s>>
          /\ j \in 1..Len(bindings) /\ y \in InSeq(callback.images)
    <2>1. callback.images \in Seq(Images) /\ callback.at \in Nat \ {0} /\ Len(bindings) \in Nat
      BY Elements DEF GroundInv, PlaceInv, Typed
    <2>2. PICK j \in Nat : j = callback.at /\ j \in 1..Len(bindings)
      BY <1>1, <2>1
    <2>3. PICK m \in Modules, s \in Symbols : bindings[j] = <<m, s>>
      BY <2>2, BindingTyped DEF GroundInv
    <2>4. Head(callback.images) \in Images /\ Head(callback.images) \in InSeq(callback.images)
      BY <1>1, <2>1, Members, Elements
    <2>5. QED
      BY <2>2, <2>3, <2>4 DEF Binding
  <1>6. /\ \A c \in Cells : cell'[c] # cell[c] => c = <<y, s>>
        /\ s \in Imports[y] => /\ cell'[<<y, s>>] = m /\ <<y, s>> \in Cells /\ original[<<m, s>>] # Null
    <2>1. CASE CallbackSkip
      <3>1. cell' = cell /\ s \notin Imports[y]
        BY <1>1, <1>5, <2>1 DEF CallbackSkip, Bound
      <3>2. QED
        BY <3>1
    <2>2. CASE CallbackWrite
      <3>1. PICK n \in Modules, r \in Symbols, z \in Images :
              Writing(n, r, z) /\ Binding = <<n, r>> /\ z = Head(callback.images)
        BY <2>2, CallbackWrites DEF GroundInv
      <3>2. n = m /\ r = s /\ z = y
        BY <1>5, <3>1
      <3>3. QED
        BY <1>3, <3>1, <3>2, WritingEffect DEF GroundInv
    <2>3. QED
      BY <2>1, <2>2
  <1>7. ASSUME NEW x \in InSeq(loaded) PROVE Covered(D, x)'
    <2>0. x \in Images /\ Imports[x] \subseteq Symbols
      BY Members, BackendAssumption DEF GroundInv, PlaceInv, Typed, BackendAssumption
    <2>1. CASE x \in InSeq(callback.images) /\ x # y
      BY <1>1, <1>5, <2>1 DEF Covered
    <2>2. CASE x \notin InSeq(callback.images)
      <3>1. x # y /\ ~Waiting(x) /\ ~Waiting(x)' /\ x \notin InSeq(callback'.images)
        BY <1>1, <1>4, <1>5, <2>2 DEF Waiting, Busy
      <3>2. \A r \in Imports[x] : cell'[<<x, r>>] = cell[<<x, r>>]
        BY <1>6, <2>0, <3>1 DEF Cells
      <3>3. PICK l \in Nat : l = Len(bindings) /\ l = Len(bindings') /\ Up(D, x, l)
        BY <1>1, <1>4, <2>2, <3>1, BindingTyped, <1>5 DEF Covered, GroundInv
      <3>4. Up(D, x, l)'
        BY <1>1, <1>2, <2>0, <3>2, <3>3, UpKept DEF GroundInv
      <3>5. QED
        BY <3>1, <3>3, <3>4 DEF Covered
    <2>3. CASE x = y
      <3>1. Up(D, x, j - 1)
        BY <1>4, <1>5, <2>3 DEF Covered
      <3>2. Up(D, x, j)'
        <4>1. CASE s \in Imports[y]
          <5>1. /\ bindings[j][1] = m /\ bindings[j][2] = s /\ original[bindings[j]] # Null
                /\ <<x, s>> \in Cells /\ cell'[<<x, s>>] = m
                /\ \A c \in Cells : cell'[c] # cell[c] => c = <<x, s>>
            BY <1>5, <1>6, <2>3, <4>1
          <5>2. QED
            BY <1>1, <1>4, <1>5, <2>0, <3>1, <5>1, UpWritten DEF GroundInv
        <4>2. CASE s \notin Imports[y]
          <5>1. \A r \in Imports[x] : cell'[<<x, r>>] = cell[<<x, r>>]
            BY <1>6, <2>0, <2>3, <4>2 DEF Cells
          <5>2. j - 1 \in Nat /\ j - 1 <= Len(bindings) /\ \A i \in 1..j : i \in 1..j - 1 \/ i = j
            BY <1>1, <1>5, BindingTyped DEF GroundInv
          <5>3. Up(D, x, j - 1)'
            BY <1>1, <1>2, <2>0, <3>1, <5>1, <5>2, UpKept DEF GroundInv
          <5>4. bindings'[j][2] = s
            BY <1>1, <1>5
          <5>5. QED
            BY <2>3, <4>2, <5>2, <5>3, <5>4 DEF Up
        <4>3. QED
          BY <4>1, <4>2
      <3>3. callback'.at - 1 = j /\ x \in InSeq(callback'.images)
        BY <1>1, <1>5, <2>3
      <3>4. QED
        BY <3>2, <3>3 DEF Covered
    <2>4. QED
      BY <2>1, <2>2, <2>3
  <1>8. InSeq(loaded)' = InSeq(loaded) /\ Ordered(D)' /\ ~Busy'
    BY <1>1, <1>4 DEF InSeq, Ordered, Busy
  <1>9. QED
    BY <1>1, <1>4, <1>7, <1>8

(* An image whose callback ends is covered. *)
LEMMA CoveringEnd ==
  ASSUME GroundInv, CallbackEnd, NEW D, Chained(D), Covering(D)
  PROVE  Covering(D)' /\ Chained(D)' /\ Grown(D, D)
  <1>1. /\ UNCHANGED <<process, code, cell, original, bindings, loaded, registered, installer, refused>>
        /\ callback.images # << >> /\ callback.at > Len(bindings)
        /\ callback'.images = Tail(callback.images) /\ callback'.at = 1
    BY DEF CallbackEnd, Calling
  <1>2. Chained(D)' /\ Grown(D, D)
    BY <1>1, SameChain
  <1>3. SUFFICES ASSUME ~process.threaded, ~refused
                 PROVE  /\ Busy' => callback'.images = << >>
                        /\ ~registered' /\ ~Busy' => bindings' = << >>
                        /\ Ordered(D)'
                        /\ \A x \in InSeq(loaded)' : Covered(D, x)'
    BY <1>1, <1>2 DEF Covering
  <1>4. /\ ~Busy /\ ~Busy' /\ Ordered(D)' /\ (~registered => bindings = << >>)
        /\ \A x \in InSeq(loaded) : Covered(D, x)
    BY <1>1, <1>3 DEF Covering, Busy, Ordered
  <1>5. PICK l \in Nat : /\ l = Len(bindings) /\ l = Len(bindings') /\ callback.at - 1 = l
                         /\ callback.images \in Seq(Images)
    BY <1>1, Elements DEF GroundInv, PlaceInv, Typed, CallbackAt
  <1>6. /\ InSeq(Tail(callback.images)) \subseteq InSeq(callback.images)
        /\ InSeq(callback.images) \subseteq InSeq(Tail(callback.images)) \cup {Head(callback.images)}
        /\ Head(callback.images) \in InSeq(callback.images)
    BY <1>1, <1>5, Members
  <1>7. ASSUME NEW x \in InSeq(loaded) PROVE Covered(D, x)'
    <2>1. CASE x \in InSeq(callback'.images)
      <3>1. callback'.at - 1 = 0
        BY <1>1
      <3>2. Up(D, x, 0)'
        BY DEF Up
      <3>3. QED
        BY <2>1, <3>1, <3>2 DEF Covered
    <2>2. CASE x \notin InSeq(callback'.images)
      <3>1. ~Waiting(x) /\ ~Waiting(x)'
        BY <1>4 DEF Waiting
      <3>2. Up(D, x, l)
        <4>1. CASE x = Head(callback.images)
          BY <1>4, <1>5, <1>6, <4>1 DEF Covered
        <4>2. CASE x # Head(callback.images)
          <5>1. x \notin InSeq(callback.images)
            BY <1>1, <1>6, <2>2, <4>2
          <5>2. QED
            BY <1>4, <1>5, <3>1, <5>1 DEF Covered
        <4>3. QED
          BY <4>1, <4>2
      <3>3. Up(D, x, l)'
        BY <1>1, <3>2 DEF Up
      <3>4. QED
        BY <1>5, <2>2, <3>1, <3>3 DEF Covered
    <2>3. QED
      BY <2>1, <2>2
  <1>8. InSeq(loaded)' = InSeq(loaded)
    BY <1>1 DEF InSeq
  <1>9. QED
    BY <1>1, <1>4, <1>7, <1>8
(* A module that keeps what leads through the bindings before its own.  *)
LEMMA OrderedStored ==
  ASSUME GroundInv, NEW D, NEW G, Grown(D, G), Ordered(D), bindings' = bindings,
         NEW m \in Modules, NEW s \in Symbols, NEW v, Only(m, s, v), G[s][m] = D[s][v] \cup {m},
         NEW b \in 1..Len(bindings), bindings[b] = <<m, s>>,
         \A i \in 1..b - 1 : bindings[i][2] = s => bindings[i][1] \in D[s][v]
  PROVE  Ordered(G)'
  <1>1. ASSUME NEW j \in DOMAIN bindings, NEW i \in 1..j, bindings[i][2] = bindings[j][2],
               original'[bindings[j]] # Null
        PROVE  bindings[i][1] \in G[bindings[j][2]][bindings[j][1]]
    <2>1. j \in 1..Len(bindings) /\ Len(bindings) \in Nat /\ b \in DOMAIN bindings
      BY Elements DEF GroundInv, PlaceInv, Typed
    <2>2. PICK n \in Modules, r \in Symbols : bindings[j] = <<n, r>>
      BY <2>1, BindingTyped DEF GroundInv
    <2>3. CASE j = b
      <3>1. n = m /\ r = s /\ (i \in 1..b - 1 \/ i = b)
        BY <2>1, <2>2, <2>3
      <3>2. CASE i = b
        BY <2>2, <2>3, <3>1, <3>2
      <3>3. CASE i \in 1..b - 1
        BY <1>1, <2>2, <3>1, <3>3
      <3>4. QED
        BY <3>1, <3>2, <3>3
    <2>4. CASE j # b
      <3>1. bindings[j] # bindings[b]
        BY <2>1, <2>4 DEF GroundInv, PlanInv
      <3>2. ~(n = m /\ r = s)
        BY <2>2, <3>1
      <3>3. original[<<n, r>>] # Null
        BY <1>1, <2>2, <3>2 DEF Only
      <3>4. bindings[i][1] \in D[r][n]
        BY <1>1, <2>2, <3>3 DEF Ordered
      <3>5. n \in Live(r)
        BY <3>3 DEF Live
      <3>6. QED
        BY <2>2, <3>4, <3>5 DEF Grown
    <2>5. QED
      BY <2>3, <2>4
  <1>2. QED
    BY <1>1 DEF Ordered

(* Storing is done for a binding, in an image covered up to that. *)
LEMMA StoringCovered ==
  ASSUME GroundInv, RebindStore \/ CallbackStore, NEW D, Covering(D),
         ~process.threaded, ~refused
  PROVE  \E m \in Modules, s \in Symbols, x \in Images : \E b \in 1..Len(bindings) :
           /\ Storing(m, s, x) /\ bindings[b] = <<m, s>>
           /\ \A i \in 1..b - 1 : bindings[i][2] = s => bindings[i][1] \in D[s][cell[<<x, s>>]]
  <1>0. /\ bindings \in Seq(Hooks) /\ loaded \in Seq(Images) /\ Len(bindings) \in Nat
        /\ callback.images \in Seq(Images) /\ installer.images \in Seq(Images)
        /\ callback.at \in Nat \ {0}
    BY Elements DEF GroundInv, PlaceInv, Typed
  <1>1. /\ Busy => callback.images = << >>
        /\ \A x \in InSeq(loaded) : Covered(D, x)
    BY DEF Covering
  <1>2. CASE RebindStore
    <2>1. PICK m \in Modules, s \in Symbols, x \in Images :
            Storing(m, s, x) /\ Hook = <<m, s>> /\ x = Head(installer.images)
      BY <1>2, RebindStores DEF GroundInv
    <2>2. /\ installer.images # << >> /\ Busy /\ bindings # << >> /\ bindings[Len(bindings)] = Hook
      BY <1>2 DEF RebindStore, Rebinding, Busy, GroundInv, PlaceInv, InstallerAt
    <2>3. PICK b \in 1..Len(bindings) : b = Len(bindings)
      BY <1>0, <2>2, Elements
    <2>4. x \in InSeq(loaded) /\ x \in InSeq(installer.images)
      BY <1>0, <2>1, <2>2, Members DEF GroundInv, Queued
    <2>5. Up(D, x, b - 1)
      BY <1>1, <2>2, <2>3, <2>4 DEF Covered, Waiting, InSeq
    <2>6. s \in Imports[x]
      BY <2>1 DEF Storing
    <2>7. \A i \in 1..b - 1 : bindings[i][2] = s => bindings[i][1] \in D[s][cell[<<x, s>>]]
      BY <2>5, <2>6 DEF Up
    <2>8. QED
      BY <2>1, <2>2, <2>3, <2>7
  <1>3. CASE CallbackStore
    <2>1. PICK m \in Modules, s \in Symbols, x \in Images :
            Storing(m, s, x) /\ Binding = <<m, s>> /\ x = Head(callback.images)
      BY <1>3, CallbackStores DEF GroundInv
    <2>2. callback.images # << >> /\ callback.at <= Len(bindings)
      BY <1>3 DEF CallbackStore, Calling, Bound
    <2>3. PICK b \in 1..Len(bindings) : b = callback.at /\ bindings[b] = <<m, s>>
      <3>1. callback.at \in 1..Len(bindings) /\ bindings[callback.at] = <<m, s>>
        BY <1>0, <2>1, <2>2 DEF Binding
      <3>2. QED
        BY <3>1
    <2>4. x \in InSeq(loaded) /\ x \in InSeq(callback.images)
      BY <1>0, <2>1, <2>2, Members DEF GroundInv, Queued
    <2>5. Up(D, x, b - 1)
      BY <1>1, <2>1, <2>3, <2>4 DEF Covered
    <2>6. s \in Imports[x]
      BY <2>1 DEF Storing
    <2>7. \A i \in 1..b - 1 : bindings[i][2] = s => bindings[i][1] \in D[s][cell[<<x, s>>]]
      BY <2>5, <2>6 DEF Up
    <2>8. QED
      BY <2>1, <2>3, <2>7
  <1>4. QED
    BY <1>2, <1>3

(* Keeping an original leaves all that was covered covered. *)
LEMMA CoveringStore ==
  ASSUME GroundInv, RebindStore \/ CallbackStore, NEW D \in Leads, Chained(D), Covering(D)
  PROVE  \E G \in Leads : Chained(G)' /\ Grown(D, G) /\ Covering(G)'
  <1>1. /\ UNCHANGED <<process, cell, code, bindings, loaded, registered, refused>>
        /\ callback'.images = callback.images /\ callback'.at = callback.at
        /\ Busy' <=> Busy
        /\ \A x \in InSeq(loaded) : Waiting(x)' <=> Waiting(x)
    <2>1. CASE RebindStore
      BY <2>1 DEF RebindStore, Rebinding, Busy, Waiting, InSeq, GroundInv, PlaceInv, Typed
    <2>2. CASE CallbackStore
      BY <2>2 DEF CallbackStore, Busy, Waiting, InSeq, GroundInv, PlaceInv, Typed
    <2>3. QED
      BY <2>1, <2>2
  <1>2. ASSUME NEW G, Grown(D, G), ~process.threaded /\ ~refused /\ Ordered(D) => Ordered(G)'
        PROVE  Covering(G)'
    BY <1>1, <1>2, CoveringKept DEF GroundInv
  <1>3. CASE original' = original
    <2>1. Chained(D)' /\ Grown(D, D)
      BY <1>1, <1>3, SameChain
    <2>2. Ordered(D) => Ordered(D)'
      BY <1>1, <1>3 DEF Ordered
    <2>3. QED
      BY <1>2, <2>1, <2>2
  <1>4. CASE original' # original
    <2>1. PICK m \in Modules, s \in Symbols, x \in Images :
            /\ Storing(m, s, x)
            /\ ~process.threaded /\ ~refused =>
                 \E b \in 1..Len(bindings) :
                   /\ bindings[b] = <<m, s>>
                   /\ \A i \in 1..b - 1 : bindings[i][2] = s => bindings[i][1] \in D[s][cell[<<x, s>>]]
      <3>1. CASE ~process.threaded /\ ~refused
        BY <3>1, StoringCovered
      <3>2. CASE ~(~process.threaded /\ ~refused)
        BY <3>2, RebindStores, CallbackStores DEF GroundInv
      <3>3. QED
        BY <3>1, <3>2
    <2>2. PICK v \in Live(s) : v = cell[<<x, s>>] /\ original[<<m, s>>] = Null /\ Only(m, s, v)
      BY <1>4, <2>1, StoringEffect DEF GroundInv
    <2>3. PICK G \in Leads : Chained(G)' /\ Grown(D, G) /\ G[s][m] = D[s][v] \cup {m}
      BY <1>1, <2>2, StoringLeads DEF GroundInv
    <2>4. ASSUME ~process.threaded, ~refused, Ordered(D) PROVE Ordered(G)'
      <3>1. PICK b \in 1..Len(bindings) :
              /\ bindings[b] = <<m, s>>
              /\ \A i \in 1..b - 1 : bindings[i][2] = s => bindings[i][1] \in D[s][v]
        BY <2>1, <2>2, <2>4
      <3>2. QED
        BY <1>1, <2>2, <2>3, <2>4, <3>1, OrderedStored
    <2>5. QED
      BY <1>2, <2>3, <2>4
  <1>5. QED
    BY <1>3, <1>4

(* Patching covers nothing less, and what was patched stays in its order. *)
LEMMA PatchingChain ==
  ASSUME GroundInv, Patching, NEW D \in Leads, Chained(D), Inlined(D), Covering(D)
  PROVE  \E G \in Leads : Chained(G)' /\ Inlined(G)' /\ Covering(G)'
  <1>1. PICK m \in Modules, s \in Symbols, e \in Modules \cup {Body} :
          /\ installer.step \in DOMAIN Plan /\ Plan[installer.step] = Patcher(m, s)
          /\ installer.stage = "next" /\ installer' = NextStep /\ NextStep.step = installer.step + 1
          /\ NextStep.stage = "next"
          /\ original[<<m, s>>] = Null /\ <<m, s>> \notin InSeq(bindings)
          /\ e = code[s] /\ code'[s] = m /\ \A r \in Symbols : r # s => code'[r] = code[r]
          /\ Only(m, s, e)
          /\ UNCHANGED <<process, cell, bindings, loaded, registered, callback, refused>>
    <2>1. PICK m \in Modules, s \in Symbols :
          /\ installer.step \in DOMAIN Plan /\ Plan[installer.step] = Patcher(m, s)
          /\ installer.stage = "next" /\ installer' = NextStep /\ NextStep.step = installer.step + 1
          /\ NextStep.stage = "next"
          /\ original[<<m, s>>] = Null /\ <<m, s>> \notin InSeq(bindings)
          /\ code[s] \in Modules \cup {Body}
          /\ code'[s] = m /\ \A r \in Symbols : r # s => code'[r] = code[r]
          /\ Only(m, s, code[s])
          /\ UNCHANGED <<process, cell, bindings, loaded, registered, callback, refused>>
      BY PatchEffect DEF GroundInv
    <2>2. QED
      BY <2>1
  <1>2. PICK G \in Leads : /\ Chained(G)' /\ Grown(D, G)
                           /\ m \in G[s][m] /\ m \in G[s][Entry] /\ D[s][Entry] \ {Entry} \subseteq G[s][m]
    BY <1>1, PatchingLeads DEF GroundInv
  <1>3. Inlined(G)'
    BY <1>1, <1>2, InlinedPatched DEF GroundInv
  <1>4. ASSUME NEW j \in DOMAIN bindings, original'[bindings[j]] # Null PROVE original[bindings[j]] # Null
    <2>1. j \in 1..Len(bindings)
      BY Elements DEF GroundInv, PlaceInv, Typed
    <2>2. PICK n \in Modules, r \in Symbols : bindings[j] = <<n, r>> /\ bindings[j] \in InSeq(bindings)
      BY <2>1, BindingTyped DEF GroundInv
    <2>3. QED
      BY <1>1, <1>4, <2>2 DEF Only
  <1>5. Ordered(D) => Ordered(G)'
    BY <1>1, <1>2, <1>4, OrderedKept DEF GroundInv
  <1>6. ~Busy /\ ~Busy' /\ \A x \in InSeq(loaded) : Waiting(x)' <=> Waiting(x)
    BY <1>1 DEF Busy, Waiting
  <1>7. Covering(G)'
    BY <1>1, <1>2, <1>5, <1>6, CoveringKept DEF GroundInv
  <1>8. QED
    BY <1>2, <1>3, <1>7

(* Every step leads on, ends what it led to, and covers what it covered. *)
LEMMA ChainStep == GroundInv /\ ChainInv /\ [Next]_hookVars => ChainInv'
  <1> SUFFICES ASSUME GroundInv, ChainInv, [Next]_hookVars PROVE ChainInv'
    OBVIOUS
  <1>1. PICK D \in Leads : Chained(D) /\ Inlined(D) /\ Covering(D)
    BY DEF ChainInv
  <1>2. CASE Patching
    BY <1>1, <1>2, PatchingChain DEF ChainInv
  <1>3. CASE ~Patching
    <2>1. \A j \in DOMAIN Plan : Patched(j)' => Patched(j)
      BY <1>3, PatchedBefore DEF GroundInv
    <2>2. ASSUME NEW G \in Leads, Chained(G)', Grown(D, G), Covering(G)' PROVE ChainInv'
      <3>1. Inlined(G)'
        BY <1>1, <2>1, <2>2, InlinedKept
      <3>2. QED
        BY <2>2, <3>1 DEF ChainInv
    <2>3. CASE \/ SkipDisabled \/ RegisterEnd \/ UNCHANGED hookVars
               \/ HookImportedSymbol /\ ~(Len(bindings) < Limit)
               \/ RebindEnd /\ registered
      BY <1>1, <2>2, <2>3, CoveringPass
    <2>4. CASE HookImportedSymbol /\ Len(bindings) < Limit
      BY <1>1, <2>2, <2>4, CoveringBind
    <2>5. CASE RebindSkip \/ RebindWrite
      BY <1>1, <2>2, <2>5, CoveringRebound
    <2>6. CASE RebindEnd /\ ~registered
      BY <1>1, <2>2, <2>6, CoveringRegister
    <2>7. CASE RebindStore \/ CallbackStore
      BY <1>1, <2>2, <2>7, CoveringStore
    <2>8. CASE CallbackSkip \/ CallbackWrite
      BY <1>1, <2>2, <2>8, CoveringCallback
    <2>9. CASE CallbackEnd
      BY <1>1, <2>2, <2>9, CoveringEnd
    <2>10. CASE \E x \in Images : LoadImage(x)
      BY <1>1, <2>2, <2>10, CoveringLoad
    <2>11. CASE HookFunction
      <3>1. /\ UNCHANGED <<process, code, cell, original, bindings, loaded, callback, refused, registered>>
            /\ installer.stage = "next" /\ installer' = NextStep
        BY <1>3, <2>11 DEF HookFunction, Patching, AtStep
      <3>2. ~Busy /\ ~Busy' /\ \A x \in InSeq(loaded) : Waiting(x)' <=> Waiting(x)
        BY <3>1 DEF Busy, Waiting, NextStep, GroundInv, PlaceInv, Typed
      <3>3. Chained(D)' /\ Grown(D, D) /\ (Ordered(D) => Ordered(D)')
        BY <1>1, <3>1, SameChain DEF Ordered
      <3>4. Covering(D)'
        BY <1>1, <3>1, <3>2, <3>3, CoveringKept DEF GroundInv
      <3>5. QED
        BY <2>2, <3>3, <3>4
    <2>12. QED
      BY <2>3, <2>4, <2>5, <2>6, <2>7, <2>8, <2>9, <2>10, <2>11 DEF Next, Install, Callback
  <1>4. QED
    BY <1>2, <1>3
(* In the beginning nothing is hooked. *)
LEMMA HooksInit == Init => HooksInv
  <1> SUFFICES ASSUME Init PROVE HooksInv
    OBVIOUS
  <1>1. /\ process \in Environments /\ code = [s \in Symbols |-> Body] /\ cell = [c \in Cells |-> Entry]
        /\ original = [h \in Hooks |-> Null] /\ bindings = << >> /\ loaded = <<First>>
        /\ registered = FALSE /\ installer = [step |-> 1, stage |-> "next", images |-> << >>]
        /\ callback = [images |-> << >>, at |-> 1, stage |-> "store"] /\ refused = FALSE
    BY DEF Init
  <1>2. /\ Len(Plan) \in Nat /\ 1 \in 1..Len(Plan) + 1 /\ Limit \in Nat /\ 1 \in 1..Limit + 1
        /\ First \in Images
    BY BackendAssumption DEF BackendAssumption
  <1>3. /\ \A s \in Symbols : code[s] = Body
        /\ \A c \in Cells : cell[c] = Entry
        /\ \A m \in Modules, s \in Symbols : original[<<m, s>>] = Null
        /\ \A s \in Symbols : Live(s) = {Entry, Body}
    BY <1>1 DEF Hooks, Live
  <1>4. PlaceInv
    <2>1. TypeOK
      <3>1. /\ code \in [Symbols -> Modules \cup {Body}] /\ cell \in [Cells -> Modules \cup {Entry}]
            /\ \A h \in Hooks : original[h] \in (Modules \ {h[1]}) \cup {Entry, Body, Null}
        BY <1>1
      <3>2. /\ Len(bindings) = 0 /\ 0 <= Limit /\ DOMAIN bindings = {}
            /\ installer.stage = "next" /\ callback.at = 1
        BY <1>1, <1>2
      <3>3. QED
        BY <1>1, <1>2, <3>1, <3>2 DEF TypeOK
    <2>2. /\ installer \in [step : 1..Len(Plan) + 1, stage : {"next", "store", "write", "register"},
                            images : Seq(Images)]
          /\ callback \in [images : Seq(Images), at : Nat \ {0}, stage : {"store", "write"}]
          /\ original \in [Hooks -> Modules \cup {Entry, Body, Null}]
          /\ loaded \in Seq(Images) /\ bindings \in Seq(Hooks)
      BY <1>1, <1>2
    <2>3. InstallerAt /\ CallbackAt
      BY <1>1 DEF InstallerAt, CallbackAt
    <2>4. QED
      BY <2>1, <2>2, <2>3 DEF PlaceInv, Typed
  <1>5. Queued
    BY <1>1 DEF Queued, InSeq
  <1>6. PlanInv
    BY <1>1, <1>3, Special DEF PlanInv
  <1>7. LiveInv
    <2>1. \A c \in Cells : c[2] \in Symbols
      BY DEF Cells
    <2>2. installer.stage = "next" /\ callback.stage = "store"
      BY <1>1
    <2>3. QED
      BY <1>3, <2>1, <2>2 DEF LiveInv
  <1>8. ChainInv
    <2> DEFINE D == [s \in Symbols |-> [v \in Pointers |-> IF v = Entry THEN {Entry} ELSE {}]]
    <2>1. PICK H : H = D
      OBVIOUS
    <2>2. H \in Leads
      BY <2>1 DEF Leads
    <2>3. \A s \in Symbols : H[s][Entry] = {Entry} /\ H[s][Body] = {}
      BY <2>1, Special DEF Pointers
    <2> HIDE DEF D
    <2>4. Chained(H)
      BY <1>3, <2>3 DEF Chained, ChainedAt
    <2>5. Inlined(H)
      BY <1>1, PlanTyped DEF Inlined, Patched
    <2>6. Covering(H)
      <3>1. ~Busy /\ ~registered /\ bindings = << >> /\ callback.images = << >> /\ Len(bindings) = 0
        BY <1>1 DEF Busy
      <3>2. Ordered(H)
        BY <1>1 DEF Ordered
      <3>3. \A x \in InSeq(loaded) : Covered(H, x)
        BY <3>1 DEF Covered, Waiting, Up, InSeq
      <3>4. QED
        BY <3>1, <3>2, <3>3 DEF Covering
    <2>7. QED
      BY <2>2, <2>4, <2>5, <2>6 DEF ChainInv
  <1>9. QED
    BY <1>4, <1>5, <1>6, <1>7, <1>8 DEF HooksInv, GroundInv

(* The invariant holds of every behaviour. *)
LEMMA HooksInvHolds == Spec => []HooksInv
  <1>1. HooksInv /\ [Next]_hookVars => HooksInv'
    BY PlaceStep, QueuedStep, PlanStep, LiveStep, ChainStep DEF HooksInv, GroundInv
  <1>2. QED
    BY HooksInit, <1>1, PTL DEF Spec

-----------------------------------------------------------------------------
(* A natural number has no natural numbers below it for ever. *)
LEMMA Below ==
  ASSUME NEW T \in SUBSET Nat, T # {}
  PROVE  \E x \in T : \A y \in T : ~(y < x)
  <1>1. ASSUME NEW x \in Nat, NEW y \in Nat, y < x PROVE <<y, x>> \in OpToRel(<, Nat)
    BY <1>1, Zenon DEF OpToRel
  <1>2. \E x \in T : \A y \in T : ~(<<y, x>> \in OpToRel(<, Nat))
    BY NatLessThanWellFounded, WFMin, Zenon
  <1>3. QED
    BY <1>1, <1>2, Zenon

(* What begins with 0 and goes on by 1 is all natural numbers. *)
LEMMA Counting ==
  ASSUME NEW T \in SUBSET Nat, 0 \in T, \A n \in T : n + 1 \in T
  PROVE  T = Nat
  <1>1. SUFFICES ASSUME Nat \ T # {} PROVE FALSE
    OBVIOUS
  <1>2. PICK x \in Nat \ T : \A y \in Nat \ T : ~(y < x)
    BY <1>1, Below
  <1>3. x # 0 /\ x - 1 \in Nat
    BY <1>2
  <1>4. x - 1 \in T
    BY <1>2, <1>3
  <1>5. QED
    BY <1>2, <1>3, <1>4

Followed(f, s, v, N) == f = [n \in 0..N |-> IF n = 0 THEN v ELSE Follow(s, f[n - 1])]

(* A chain of any length can be followed. *)
LEMMA FollowedExists ==
  ASSUME NEW s, NEW v, NEW N \in Nat
  PROVE  \E f : Followed(f, s, v, N)
  <1> DEFINE T == {k \in Nat : \E f : Followed(f, s, v, k)}
  <1>1. 0 \in T
    <2>1. Followed([n \in 0..0 |-> v], s, v, 0)
      BY DEF Followed
    <2>2. QED
      BY <2>1
  <1>2. ASSUME NEW k \in T PROVE k + 1 \in T
    <2>1. PICK f : f = [n \in 0..k |-> IF n = 0 THEN v ELSE Follow(s, f[n - 1])]
      BY <1>2 DEF Followed
    <2> DEFINE g == [n \in 0..k + 1 |-> IF n = k + 1 THEN Follow(s, f[k]) ELSE f[n]]
    <2>2. k \in Nat /\ k + 1 \in Nat /\ \A n \in 0..k + 1 : n = k + 1 \/ n \in 0..k
      OBVIOUS
    <2>3. ASSUME NEW n \in 0..k + 1 PROVE g[n] = IF n = 0 THEN v ELSE Follow(s, g[n - 1])
      <3>1. CASE n = 0
        BY <2>1, <2>2, <3>1
      <3>2. CASE n # 0 /\ n = k + 1
        BY <2>1, <2>2, <3>2
      <3>3. CASE n # 0 /\ n # k + 1
        BY <2>1, <2>2, <3>3
      <3>4. QED
        BY <3>1, <3>2, <3>3
    <2>4. Followed(g, s, v, k + 1)
      BY <2>3 DEF Followed
    <2>5. QED
      BY <2>2, <2>4
  <1>3. T = Nat
    <2> HIDE DEF T
    <2>1. T \in SUBSET Nat
      BY DEF T
    <2>2. QED
      BY <1>1, <1>2, <2>1, Counting
  <1>4. QED
    BY <1>3

(* A trace begins where it begins and follows on from there. *)
LEMMA TraceFollows ==
  ASSUME NEW s, NEW v
  PROVE  /\ Longest \in Nat /\ Cardinality(Modules) \in Nat /\ Trace(s, v)[0] = v
         /\ \A n \in 1..Longest : Trace(s, v)[n] = Follow(s, Trace(s, v)[n - 1])
  <1>1. Longest \in Nat /\ Cardinality(Modules) \in Nat
    <2>1. IsFiniteSet(Modules)
      BY BackendAssumption DEF BackendAssumption
    <2>2. Cardinality(Modules) \in Nat
      BY <2>1, FS_CardinalityType
    <2>3. QED
      BY <2>2 DEF Longest
  <1>2. PICK f : f = [n \in 0..Longest |-> IF n = 0 THEN v ELSE Follow(s, f[n - 1])]
    <2>1. PICK f : Followed(f, s, v, Longest)
      BY <1>1, FollowedExists
    <2>2. QED
      BY <2>1 DEF Followed
  <1>3. Trace(s, v) = [n \in 0..Longest |-> IF n = 0 THEN v ELSE Follow(s, Trace(s, v)[n - 1])]
    BY <1>2 DEF Trace
  <1> DEFINE t == Trace(s, v)
  <1>4. t = [n \in 0..Longest |-> IF n = 0 THEN v ELSE Follow(s, t[n - 1])]
    BY <1>3
  <1> HIDE DEF t
  <1>5. t[0] = v /\ \A n \in 1..Longest : t[n] = Follow(s, t[n - 1])
    <2>1. 0 \in 0..Longest /\ \A n \in 1..Longest : n \in 0..Longest /\ n # 0
      BY <1>1
    <2>2. QED
      BY <1>4, <2>1
  <1>6. QED
    BY <1>1, <1>5 DEF t

(* Following a pointer leaves it, and only it, behind. *)
LEMMA FollowLeads ==
  ASSUME LiveInv, NEW D \in Leads, Chained(D), NEW s \in Symbols, NEW v \in Live(s)
  PROVE  /\ Follow(s, v) \in Live(s) /\ v \in Pointers
         /\ v = Body => Follow(s, v) = Body /\ D[s][v] = {}
         /\ v # Body => /\ D[s][v] = D[s][Follow(s, v)] \cup {v} /\ v \notin D[s][Follow(s, v)]
                        /\ v \in Modules \cup {Entry}
  <1>1. CASE v = Entry
    BY <1>1, Special DEF LiveInv, Chained, ChainedAt, Follow, Pointers
  <1>2. CASE v = Body
    BY <1>2, Special DEF Live, Chained, ChainedAt, Follow, Pointers
  <1>3. CASE v \in Modules /\ original[<<v, s>>] # Null
    BY <1>3, Special DEF LiveInv, Chained, ChainedAt, Follow, Pointers
  <1>4. QED
    BY <1>1, <1>2, <1>3 DEF Live
(* A trace visits only what leads on, and in the end all it leads through, *)
(* which is one less at every step.                                        *)
LEMMA TraceLeads ==
  ASSUME LiveInv, NEW D \in Leads, Chained(D), NEW s \in Symbols, NEW v \in Live(s)
  PROVE  Trace(s, v)[Longest] = Body /\ D[s][v] \subseteq Reached(s, v)
  <1> DEFINE t == Trace(s, v)
             Seen(n) == {t[i] : i \in {k \in 0..Longest : k < n}}
             Left(n) == /\ t[n] \in Live(s) /\ IsFiniteSet(D[s][t[n]])
                        /\ Cardinality(D[s][t[n]]) \in Nat
                        /\ t[n] # Body => Cardinality(D[s][t[n]]) + n <= Cardinality(Modules) + 1
                        /\ D[s][v] \subseteq Seen(n) \cup D[s][t[n]]
             T == {n \in Nat : n <= Longest => Left(n)}
  <1>1. /\ Longest \in Nat /\ Cardinality(Modules) \in Nat /\ t[0] = v
        /\ \A n \in 1..Longest : t[n] = Follow(s, t[n - 1])
    BY TraceFollows
  <1>2. IsFiniteSet(Modules \cup {Entry}) /\ Cardinality(Modules \cup {Entry}) = Cardinality(Modules) + 1
    <2>1. IsFiniteSet(Modules) /\ Entry \notin Modules
      BY BackendAssumption DEF BackendAssumption
    <2>2. QED
      BY <2>1, FS_AddElement
  <1>3. ASSUME NEW u \in Live(s)
        PROVE  /\ IsFiniteSet(D[s][u]) /\ Cardinality(D[s][u]) \in Nat
               /\ Cardinality(D[s][u]) <= Cardinality(Modules) + 1
    <2>1. D[s][u] \in SUBSET (Modules \cup {Entry})
      BY FollowLeads, LeadsTyped
    <2>2. IsFiniteSet(D[s][u]) /\ Cardinality(D[s][u]) <= Cardinality(Modules \cup {Entry})
      BY <1>2, <2>1, FS_Subset
    <2>3. QED
      BY <1>2, <2>2, FS_CardinalityType
  <1> HIDE DEF t
  <1>4. 0 \in T
    BY <1>1, <1>3
  <1>5. ASSUME NEW n \in T PROVE n + 1 \in T
    <2>1. SUFFICES ASSUME n + 1 <= Longest PROVE Left(n + 1)
      OBVIOUS
    <2>2. n \in 0..Longest /\ n < n + 1 /\ Left(n) /\ n + 1 \in 1..Longest /\ n \in Nat
      BY <1>1, <1>5, <2>1
    <2>3. PICK u \in Live(s), w \in Live(s) : u = t[n] /\ w = t[n + 1] /\ w = Follow(s, u)
      BY <1>1, <2>2, FollowLeads
    <2>4. /\ u = Body => w = Body /\ D[s][u] = {}
          /\ u # Body => D[s][u] = D[s][w] \cup {u} /\ u \notin D[s][w]
      BY <2>3, FollowLeads
    <2>5. IsFiniteSet(D[s][w]) /\ Cardinality(D[s][w]) \in Nat
      BY <1>3
    <2>6. w # Body => Cardinality(D[s][w]) + (n + 1) <= Cardinality(Modules) + 1
      <3>1. SUFFICES ASSUME w # Body PROVE Cardinality(D[s][w]) + (n + 1) <= Cardinality(Modules) + 1
        OBVIOUS
      <3>2. D[s][u] = D[s][w] \cup {u} /\ u \notin D[s][w] /\ u # Body
        BY <2>4, <3>1
      <3>3. Cardinality(D[s][u]) = Cardinality(D[s][w]) + 1
        BY <2>5, <3>2, FS_AddElement
      <3>4. Cardinality(D[s][u]) + n <= Cardinality(Modules) + 1
        BY <2>2, <2>3, <3>2
      <3>5. QED
        BY <1>1, <2>2, <2>5, <3>3, <3>4
    <2>7. Seen(n) \subseteq Seen(n + 1) /\ u \in Seen(n + 1)
      <3>1. \A k \in 0..Longest : k < n => k < n + 1
        BY <2>2
      <3>2. QED
        BY <2>2, <2>3, <3>1
    <2>8. D[s][v] \subseteq Seen(n + 1) \cup D[s][w]
      <3>1. D[s][v] \subseteq Seen(n) \cup D[s][u]
        BY <2>2, <2>3
      <3>2. D[s][u] \subseteq D[s][w] \cup {u}
        BY <2>4
      <3> HIDE DEF Seen
      <3>3. QED
        BY <2>7, <3>1, <3>2
    <2>9. QED
      BY <2>3, <2>5, <2>6, <2>8
  <1>6. T = Nat
    <2> HIDE DEF T
    <2>1. T \in SUBSET Nat
      BY DEF T
    <2>2. QED
      BY <1>4, <1>5, <2>1, Counting
  <1>7. Left(Longest)
    <2>1. Longest \in T
      BY <1>1, <1>6
    <2>2. QED
      BY <1>1, <2>1
  <1>8. t[Longest] = Body
    <2>1. SUFFICES ASSUME t[Longest] # Body PROVE FALSE
      OBVIOUS
    <2>2. Cardinality(D[s][t[Longest]]) + Longest <= Cardinality(Modules) + 1
      BY <1>7, <2>1
    <2>3. QED
      BY <1>1, <1>7, <2>2 DEF Longest
  <1>9. D[s][Body] = {}
    BY DEF Chained, ChainedAt
  <1>10. Seen(Longest) \subseteq Reached(s, v)
    BY DEF Reached, t
  <1>11. QED
    BY <1>7, <1>8, <1>9, <1>10 DEF t

-----------------------------------------------------------------------------
(* All variables keep the types of the code's tables, for any plan and any *)
(* number of images: above all, no replacement ever passes on to itself.   *)
THEOREM HooksTypeCorrect == Spec => []TypeOK
  <1>1. HooksInv => TypeOK
    BY DEF HooksInv, GroundInv, PlaceInv, Typed
  <1>2. QED
    BY <1>1, HooksInvHolds, PTL

(* At every moment a call through any import cell, or into the function,   *)
(* ends in the function's own code.                                        *)
THEOREM CallsAlwaysEnd == Spec => []CallsEnd
  <1>1. ASSUME HooksInv, NEW c \in LoadedCells, NEW v \in {cell[c], Entry}
        PROVE  Trace(c[2], v)[Longest] = Body
    <2>1. PICK D \in Leads : Chained(D)
      BY <1>1 DEF HooksInv, ChainInv
    <2>2. PICK s \in Symbols : c[2] = s /\ c \in Cells
      BY DEF LoadedCells, Cells
    <2>3. LiveInv /\ v \in Live(s)
      BY <1>1, <2>2 DEF HooksInv, GroundInv, LiveInv, Live
    <2>4. QED
      BY <2>1, <2>2, <2>3, TraceLeads
  <1>2. HooksInv => CallsEnd
    BY <1>1 DEF CallsEnd
  <1>3. QED
    BY <1>2, HooksInvHolds, PTL

(* When nothing is being installed and nothing was refused, every image    *)
(* leads through all replacements bound for a symbol it imports.           *)
THEOREM ImagesStayCovered == Spec => []ImagesCovered
  <1>1. ASSUME HooksInv, installer.stage = "next", callback.images = << >>, ~process.threaded, ~refused,
               NEW c \in LoadedCells, NEW i \in DOMAIN bindings, bindings[i][2] = c[2]
        PROVE  bindings[i][1] \in Reached(c[2], cell[c])
    <2>1. PICK D \in Leads : Chained(D) /\ Covering(D)
      BY <1>1 DEF HooksInv, ChainInv
    <2>2. PICK x \in Images, s \in Symbols : c = <<x, s>> /\ c \in Cells /\ s \in Imports[x]
                                             /\ x \in InSeq(loaded)
      BY DEF LoadedCells, Cells, InSeq
    <2>3. Up(D, x, Len(bindings))
      BY <1>1, <2>1, <2>2 DEF Covering, Covered, Waiting, Busy, InSeq
    <2>4. i \in 1..Len(bindings)
      BY <1>1, Elements DEF HooksInv, GroundInv, PlaceInv, Typed
    <2>5. bindings[i][1] \in D[s][cell[<<x, s>>]]
      BY <1>1, <2>2, <2>3, <2>4 DEF Up
    <2>6. LiveInv /\ cell[c] \in Live(s)
      BY <1>1, <2>2 DEF HooksInv, GroundInv, LiveInv
    <2>7. QED
      BY <2>1, <2>2, <2>5, <2>6, TraceLeads
  <1>2. HooksInv => ImagesCovered
    BY <1>1 DEF ImagesCovered
  <1>3. QED
    BY <1>2, HooksInvHolds, PTL

(* Where a function can be patched, whatever is refused or loaded by other *)
(* threads, a call that reaches one replacement reaches those of all the   *)
(* modules that hooked the function before it.                             *)
THEOREM EarlierStayReached == Spec => []EarlierReached
  <1>1. ASSUME HooksInv, NEW j \in DOMAIN Plan, Plan[j].kind = "inline", j < installer.step,
               Plan[j].module \in process.enabled, Plan[j].symbol \in process.targets,
               NEW c \in LoadedCells, c[2] = Plan[j].symbol,
               \/ cell[c] = Entry
               \/ cell[c] \in Modules /\ j <= InlineStep(cell[c], Plan[j].symbol)
        PROVE  Plan[j].module \in Reached(Plan[j].symbol, cell[c])
    <2>1. PICK D \in Leads : Chained(D) /\ Inlined(D)
      BY <1>1 DEF HooksInv, ChainInv
    <2>2. PICK m \in Modules, s \in Symbols : m = Plan[j].module /\ s = Plan[j].symbol
      BY PlanTyped
    <2>3. LiveInv /\ PlanInv /\ c \in Cells /\ cell[c] \in Live(s) /\ Patched(j) /\ c[2] = s
      BY <1>1, <2>2 DEF HooksInv, GroundInv, LiveInv, LoadedCells, Patched
    <2>4. m \in D[s][cell[c]]
      <3>1. CASE cell[c] = Entry
        BY <2>1, <2>2, <2>3, <3>1 DEF Inlined
      <3>2. CASE cell[c] \in Modules /\ j <= InlineStep(cell[c], s)
        <4>1. PICK n \in Modules : n = cell[c]
          BY <3>2
        <4>2. PICK i \in DOMAIN bindings : bindings[i] = <<n, s>>
          BY <2>3, <4>1 DEF PlanInv, InSeq
        <4>3. PICK k \in DOMAIN Plan : Begun(k) /\ Plan[k] = Importer(n, s) /\ n \in process.enabled
          BY <2>3, <4>2 DEF PlanInv
        <4>4. PICK p \in DOMAIN Plan : p < k /\ Plan[p] = Patcher(n, s)
          <5>1. PICK p \in DOMAIN Plan : p < k /\ Plan[p] = [Plan[k] EXCEPT !.kind = "inline"]
            BY <4>3, PlanAssumption DEF PlanAssumption, Importer
          <5>2. QED
            BY <4>3, <5>1 DEF Importer, Patcher
        <4>5. InlineStep(n, s) = p
          BY <4>4, PlanAssumption DEF InlineStep, PlanAssumption, Patcher
        <4>6. p < installer.step
          <5>1. k \in Nat /\ p \in Nat /\ installer.step \in Nat
            BY <1>1, PlanTyped DEF HooksInv, GroundInv, PlaceInv, Typed
          <5>2. QED
            BY <4>3, <4>4, <5>1 DEF Begun
        <4>7. Patched(p) /\ Plan[p].symbol = s /\ Plan[p].module = n
          BY <1>1, <2>2, <4>3, <4>4, <4>6 DEF Patched, Patcher
        <4>8. QED
          BY <2>1, <2>2, <2>3, <3>2, <4>1, <4>5, <4>7 DEF Inlined
      <3>3. QED
        BY <1>1, <2>2, <3>1, <3>2
    <2>5. QED
      BY <2>1, <2>2, <2>3, <2>4, TraceLeads
  <1>2. HooksInv => EarlierReached
    BY <1>1 DEF EarlierReached
  <1>3. QED
    BY <1>2, HooksInvHolds, PTL
=============================================================================
