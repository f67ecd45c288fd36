---------------------------- MODULE HookBackend ----------------------------
(***************************************************************************)
(* How the hooks of several mitigations compose (LHModuleRegistry.c,       *)
(* LHHookBackendTheos.c).  A function can be patched where it begins, or   *)
(* its import cell in every image can be pointed at a replacement; each    *)
(* replacement keeps the pointer it took the place of and passes on to it. *)
(* Mitigations hook one function one after the other, some in both ways,   *)
(* while images go on being loaded, before, between and after them, by the *)
(* installing thread or by another.                                        *)
(*                                                                         *)
(* A pointer to a function stands here for what it leads to: Entry (the    *)
(* function, patched or not), Body (its own code), the replacement of a    *)
(* module, or Null.  A selector is a symbol no image imports.              *)
(***************************************************************************)
EXTENDS Naturals, Sequences, FiniteSets

CONSTANTS
  Modules,   \* the mitigations
  Symbols,   \* functions and methods they hook
  Images,    \* what dyld may load
  Imports,   \* the symbols an image has an import cell for
  First,     \* the image loaded before the runtime starts
  Plan,      \* the hooks of all installers, in the order of the registry
  Limit,     \* the entries of LHImportedSymbolBindings (128 in the code)
  Entry, Body, Null

Hooks == Modules \X Symbols
Cells == {c \in Images \X Symbols : c[2] \in Imports[c[1]]}

ASSUME BackendAssumption ==
  /\ Imports \in [Images -> SUBSET Symbols]
  /\ First \in Images
  /\ Plan \in Seq([module : Modules, symbol : Symbols, kind : {"inline", "import"}])
  /\ Limit \in Nat
  /\ IsFiniteSet(Modules)
  /\ {Entry, Body, Null} \cap Modules = {}
  /\ Entry # Body /\ Entry # Null /\ Body # Null

(* An installer asks for a hook once; modules install one after another;   *)
(* and whoever wants the imports of a symbol rebound has first asked to    *)
(* patch it (LHInterfaceInventoryHookFunction and its like).               *)
ASSUME PlanAssumption ==
  /\ \A i, j \in DOMAIN Plan : Plan[i] = Plan[j] => i = j
  /\ \A i, j, k \in DOMAIN Plan :
       i < j /\ j < k /\ Plan[i].module = Plan[k].module => Plan[j].module = Plan[i].module
  /\ \A k \in DOMAIN Plan : Plan[k].kind = "import" =>
       \E j \in DOMAIN Plan : j < k /\ Plan[j] = [Plan[k] EXCEPT !.kind = "inline"]

VARIABLES
  process,    \* what the process was started with, see Environments
  code,       \* where the first instruction of a symbol leads
  cell,       \* the import cells
  original,   \* what each replacement passes on to
  bindings,   \* LHImportedSymbolBindings
  loaded,     \* the images, in the order of dyld
  registered, \* LHImportedSymbolCallbackRegistered
  installer,  \* where LHModuleRegistryInstall is
  callback,   \* where LHImportedSymbolRebindImageCallback is
  refused     \* history: has an import cell ever refused to be written?

hookVars ==
  <<process, code, cell, original, bindings, loaded, registered, installer, callback, refused>>

-----------------------------------------------------------------------------
(* What an installer does, for Plan: one kind of hook of some symbols, and *)
(* LHBootTimeSysctlInstall, which patches all its functions, a private one *)
(* only where dlsym finds it apart, and then rebinds all their imports.    *)
Steps(m, kind, symbols) ==
  [i \in DOMAIN symbols |-> [module |-> m, symbol |-> symbols[i], kind |-> kind]]

SysctlInstall(m, symbols) == Steps(m, "inline", symbols) \o Steps(m, "import", symbols)

-----------------------------------------------------------------------------
(* The modules the policy enables; the symbols that can be patched, those  *)
(* dlsym finds as functions of their own if MobileSubstrate is there; and  *)
(* whether another thread loads images while the hooks are installed.      *)
Environments == [enabled : SUBSET Modules, targets : SUBSET Symbols, threaded : BOOLEAN]

Init ==
  /\ process \in Environments
  /\ code = [s \in Symbols |-> Body]
  /\ cell = [c \in Cells |-> Entry]
  /\ original = [h \in Hooks |-> Null]
  /\ bindings = << >>
  /\ loaded = <<First>>
  /\ registered = FALSE
  /\ installer = [step |-> 1, stage |-> "next", images |-> << >>]
  /\ callback = [images |-> << >>, at |-> 1, stage |-> "store"]
  /\ refused = FALSE

(* LHImportedSymbolStoreOriginal: the first pointer found is the one kept. *)
MutantStored(h, current) == [original EXCEPT ![h] = IF current # h[1] THEN current ELSE @]

Stored(h, current) ==
  [original EXCEPT ![h] = IF @ = Null /\ current # h[1] THEN current ELSE @]

(* LHImportedSymbolWritePointer: the cell, or nothing if its page cannot   *)
(* be made writable.                                                       *)
WriteCell(h, image) ==
  \/ /\ cell' = [cell EXCEPT ![<<image, h[2]>>] = h[1]]
     /\ UNCHANGED refused
  \/ /\ cell[<<image, h[2]>>] # h[1]
     /\ refused' = TRUE
     /\ UNCHANGED cell

-----------------------------------------------------------------------------
(* The steps of LHModuleRegistryInstall and of the installers it calls.  A *)
(* callback the thread itself has caused comes first.                      *)
Current == Plan[installer.step]
Installing == process.threaded \/ callback.images = << >>

AtStep ==
  /\ installer.stage = "next"
  /\ installer.step <= Len(Plan)
  /\ Installing

NextStep == [installer EXCEPT !.step = @ + 1, !.stage = "next"]

(* A module the policy disables installs nothing. *)
SkipDisabled ==
  /\ AtStep
  /\ Current.module \notin process.enabled
  /\ installer' = NextStep
  /\ UNCHANGED <<process, code, cell, original, bindings, loaded, registered, callback, refused>>

MutantHookFunction ==
  /\ AtStep
  /\ Current.module \in process.enabled /\ Current.kind = "inline"
  /\ IF Current.symbol \in process.targets
     THEN /\ code' = [code EXCEPT ![Current.symbol] = Current.module]
          /\ original' = [original EXCEPT ![<<Current.module, Current.symbol>>] = Body]
     ELSE UNCHANGED <<code, original>>
  /\ installer' = NextStep
  /\ UNCHANGED <<process, cell, bindings, loaded, registered, callback, refused>>

(* MSHookFunction and MSHookMessageEx patch what is there, patched or not, *)
(* and hand out a way to what was there.                                   *)
HookFunction ==
  /\ AtStep
  /\ Current.module \in process.enabled /\ Current.kind = "inline"
  /\ IF Current.symbol \in process.targets
     THEN /\ code' = [code EXCEPT ![Current.symbol] = Current.module]
          /\ original' = [original EXCEPT
                            ![<<Current.module, Current.symbol>>] = code[Current.symbol]]
     ELSE UNCHANGED <<code, original>>
  /\ installer' = NextStep
  /\ UNCHANGED <<process, cell, bindings, loaded, registered, callback, refused>>

MutantHookImportedSymbol ==
  /\ AtStep
  /\ Current.module \in process.enabled /\ Current.kind = "import"
  /\ IF Len(bindings) <= Limit
     THEN /\ bindings' = Append(bindings, <<Current.module, Current.symbol>>)
          /\ installer' = [installer EXCEPT !.stage = "store", !.images = loaded]
     ELSE installer' = NextStep /\ UNCHANGED bindings
  /\ UNCHANGED <<process, code, cell, original, loaded, registered, callback, refused>>

(* The binding is known to the callback before any image is rebound; one   *)
(* too many is refused, and the installer goes on without it.              *)
HookImportedSymbol ==
  /\ AtStep
  /\ Current.module \in process.enabled /\ Current.kind = "import"
  /\ IF Len(bindings) < Limit
     THEN /\ bindings' = Append(bindings, <<Current.module, Current.symbol>>)
          /\ installer' = [installer EXCEPT !.stage = "store", !.images = loaded]
     ELSE installer' = NextStep /\ UNCHANGED bindings
  /\ UNCHANGED <<process, code, cell, original, loaded, registered, callback, refused>>

(* LHImportedSymbolRebindExistingImages, one image after the other. *)
Rebinding == installer.stage = "store" /\ installer.images # << >>
Imported == Current.symbol \in Imports[Head(installer.images)]

RebindSkip ==
  /\ Rebinding /\ ~Imported
  /\ installer' = [installer EXCEPT !.images = Tail(@)]
  /\ UNCHANGED <<process, code, cell, original, bindings, loaded, registered, callback, refused>>

RebindStore ==
  /\ Rebinding /\ Imported
  /\ original' = Stored(<<Current.module, Current.symbol>>,
                        cell[<<Head(installer.images), Current.symbol>>])
  /\ installer' = [installer EXCEPT !.stage = "write"]
  /\ UNCHANGED <<process, code, cell, bindings, loaded, registered, callback, refused>>

RebindWrite ==
  /\ installer.stage = "write"
  /\ WriteCell(<<Current.module, Current.symbol>>, Head(installer.images))
  /\ installer' = [installer EXCEPT !.stage = "store", !.images = Tail(@)]
  /\ UNCHANGED <<process, code, original, bindings, loaded, registered, callback>>

(* The first binding registers the callback, which dyld calls at once for  *)
(* every image.                                                            *)
RebindEnd ==
  /\ installer.stage = "store" /\ installer.images = << >>
  /\ registered' = TRUE
  /\ IF registered
     THEN installer' = NextStep /\ UNCHANGED callback
     ELSE /\ installer' = [installer EXCEPT !.stage = "register"]
          /\ callback' = [callback EXCEPT !.images = loaded]
  /\ UNCHANGED <<process, code, cell, original, bindings, loaded, refused>>

RegisterEnd ==
  /\ installer.stage = "register" /\ callback.images = << >>
  /\ installer' = NextStep
  /\ UNCHANGED <<process, code, cell, original, bindings, loaded, registered, callback, refused>>

Install ==
  \/ SkipDisabled \/ HookFunction \/ HookImportedSymbol
  \/ RebindSkip \/ RebindStore \/ RebindWrite \/ RebindEnd \/ RegisterEnd

-----------------------------------------------------------------------------
(* dyld loads an image, on the installing thread only between two hooks,   *)
(* and queues its callback.                                                *)
LoadImage(x) ==
  /\ \A i \in DOMAIN loaded : loaded[i] # x
  /\ process.threaded \/ installer.stage = "next"
  /\ loaded' = Append(loaded, x)
  /\ callback' = [callback EXCEPT !.images = IF registered THEN Append(@, x) ELSE @]
  /\ UNCHANGED <<process, code, cell, original, bindings, registered, installer, refused>>

(* LHImportedSymbolRebindImageCallback goes through the bindings there are *)
(* when it comes to each.                                                  *)
Calling == callback.images # << >>
Binding == bindings[callback.at]
Bound == callback.at <= Len(bindings) /\ Binding[2] \in Imports[Head(callback.images)]
NextBinding == [callback EXCEPT !.at = @ + 1, !.stage = "store"]

CallbackSkip ==
  /\ Calling /\ callback.at <= Len(bindings) /\ ~Bound
  /\ callback' = NextBinding
  /\ UNCHANGED <<process, code, cell, original, bindings, loaded, registered, installer, refused>>

CallbackStore ==
  /\ Calling /\ callback.stage = "store" /\ Bound
  /\ original' = Stored(Binding, cell[<<Head(callback.images), Binding[2]>>])
  /\ callback' = [callback EXCEPT !.stage = "write"]
  /\ UNCHANGED <<process, code, cell, bindings, loaded, registered, installer, refused>>

CallbackWrite ==
  /\ Calling /\ callback.stage = "write"
  /\ WriteCell(Binding, Head(callback.images))
  /\ callback' = NextBinding
  /\ UNCHANGED <<process, code, original, bindings, loaded, registered, installer>>

MutantCallbackEnd ==
  /\ Calling /\ callback.at > Len(bindings)
  /\ callback' = [callback EXCEPT !.images = Tail(@)]
  /\ UNCHANGED <<process, code, cell, original, bindings, loaded, registered, installer, refused>>

CallbackEnd ==
  /\ Calling /\ callback.at > Len(bindings)
  /\ callback' = [images |-> Tail(callback.images), at |-> 1, stage |-> "store"]
  /\ UNCHANGED <<process, code, cell, original, bindings, loaded, registered, installer, refused>>

Callback == CallbackSkip \/ CallbackStore \/ CallbackWrite \/ CallbackEnd

Next == Install \/ Callback \/ \E x \in Images : LoadImage(x)

Spec == Init /\ [][Next]_hookVars

-----------------------------------------------------------------------------
(* Where a call goes: from an entry to what it was patched with, from a    *)
(* replacement that passes on to its original.                             *)
Follow(s, v) ==
  IF v = Entry THEN code[s] ELSE IF v \in Modules THEN original[<<v, s>>] ELSE v

Longest == Cardinality(Modules) + 2

Trace(s, v) ==
  LET at[n \in 0..Longest] == IF n = 0 THEN v ELSE Follow(s, at[n - 1])
  IN at

Reached(s, v) == {Trace(s, v)[n] : n \in 0..Longest}

LoadedCells == {c \in Cells : \E i \in DOMAIN loaded : loaded[i] = c[1]}

TypeOK ==
  /\ process \in Environments
  /\ code \in [Symbols -> Modules \cup {Body}]
  /\ cell \in [Cells -> Modules \cup {Entry}]
  /\ \A h \in Hooks : original[h] \in (Modules \ {h[1]}) \cup {Entry, Body, Null}
  /\ Len(bindings) <= Limit /\ \A i \in DOMAIN bindings : bindings[i] \in Hooks
  /\ installer.stage \in {"next", "store", "write", "register"}
  /\ callback.at \in 1..Limit + 1
  /\ registered \in BOOLEAN /\ refused \in BOOLEAN

(* "The backend records original implementations so a replacement can      *)
(* preserve pass-through behavior" (runtime-architecture.md:76): at every  *)
(* moment, whatever was refused or loaded by another thread, a call from   *)
(* any image or through any pointer to the function ends in the function   *)
(* itself: no chain of originals is circular or ends in no original.       *)
CallsEnd ==
  \A c \in LoadedCells : \A v \in {cell[c], Entry} : Trace(c[2], v)[Longest] = Body

(* When nothing is being installed and nothing was refused, and images     *)
(* were loaded on the installing thread only, every image, loaded early or *)
(* late, leads through all replacements that were bound for the symbol.    *)
ImagesCovered ==
  (/\ installer.stage = "next" /\ callback.images = << >>
   /\ ~process.threaded /\ ~refused) =>
    \A c \in LoadedCells : \A i \in DOMAIN bindings :
      bindings[i][2] = c[2] => bindings[i][1] \in Reached(c[2], cell[c])

InlineStep(m, s) ==
  CHOOSE j \in DOMAIN Plan : Plan[j] = [module |-> m, symbol |-> s, kind |-> "inline"]

(* Where a function can be patched, refused cells and foreign threads cost *)
(* no module its place: a call that reaches one replacement reaches those  *)
(* of all modules that hooked the function before it.                      *)
EarlierReached ==
  \A j \in DOMAIN Plan :
    LET m == Plan[j].module  s == Plan[j].symbol IN
    (/\ Plan[j].kind = "inline" /\ j < installer.step
     /\ m \in process.enabled /\ s \in process.targets) =>
      \A c \in {d \in LoadedCells : d[2] = s} :
        (cell[c] = Entry \/ (cell[c] \in Modules /\ j <= InlineStep(cell[c], s)))
          => m \in Reached(s, cell[c])
=============================================================================
